------------------------- MODULE BreCompileContract -------------------------
(***************************************************************************)
(* What maia_bre_compile_utf8 promises its caller, as one step             *)
(* (BRE_DESIGN.md): a program for every pattern of the profile, and for    *)
(* any other a status that names a defect it has; the caller's pointer     *)
(* changes with OK only; default budgets refuse no pattern of the profile. *)
(*                                                                         *)
(* The defects are those of the tree, in no order.                         *)
(***************************************************************************)
EXTENDS BreProgram, SequencesExt

VARIABLES source, compiled, answer

Init == compiled = <<>> /\ answer = "none"

Nodes       == 0 .. Len(source.nodes) - 1
Tree(i)     == source.nodes[i + 1]
All(names)  == {i \in Nodes : Tree(i).name \in names}
Inside(a)   == a + 1 .. Tree(a).end - 1
Chars(a)    ==
  LET terminals == SelectSeq(SubSeq(source.nodes, a + 2, Tree(a).end),
                             LAMBDA n : n.name = "terminal")
  IN [k \in DOMAIN terminals |-> terminals[k].value]

Groups      == All({"Group"})
Number(g)   == Cardinality({h \in Groups : h <= g})
Depth(g)    == Cardinality({h \in Groups : g = h \/ g \in Inside(h)})
Value(n)    == FoldLeft(LAMBDA v, d : 10 * v + d - 48, 0, Chars(n))

Unsupported == All({"UnsupportedEscape", "Collating", "Equivalence"})

(* A reference to a group that has not ended before it                     *)
Forward ==
  {r \in All({"Reference"}) :
     ~\E g \in Groups : Number(g) = Chars(r)[2] - 48 /\ Tree(g).end <= r}

Reversed ==
  {r \in All({"Range", "InitialCloseRange"}) : Head(Chars(r)) > Last(Chars(r))}
  \cup {r \in All({"BoundedRepeat"}) :
          \E m, n \in Inside(r) \cap All({"Number"}) : m < n /\ Value(m) > Value(n)}

ClassNames ==
  {"alnum", "alpha", "blank", "cntrl", "digit", "graph", "lower", "print", "punct",
   "space", "upper", "xdigit"}

Unnamed == {i \in All({"ClassName"}) : Tree(i).value \notin ClassNames}

(* A dash between two other elements of a class                            *)
Middle ==
  {e \in All({"ClassElement"}) :
     /\ Chars(e) = <<45>>
     /\ Tree(e + 1).name = "ClassScalar"
     /\ \E f \in All({"ClassElement"}) : Tree(f).parent = Tree(e).parent /\ f > e
     /\ \E f \in All({"ClassElement", "InitialClose", "InitialCloseRange"}) :
          Tree(f).parent = Tree(e).parent /\ f < e}

Excessive ==
  {g \in Groups : Number(g) > source.limits.max_captures
                    \/ Depth(g) > source.limits.max_parse_depth}
  \cup {n \in All({"Number"}) : Value(n) > source.limits.max_repeat}

Defects ==
  (IF Unsupported # {} THEN {"UNSUPPORTED"} ELSE {})
  \cup (IF Forward \cup Reversed \cup Unnamed \cup Middle # {} THEN {"BADPAT"} ELSE {})
  \cup (IF Excessive # {} THEN {"LIMIT"} ELSE {})

Budgets == IF source.limits = DefaultLimits THEN {} ELSE {"LIMIT"}

Allowed ==
  IF LimitsStatus(source.limits) # "OK" THEN {LimitsStatus(source.limits)}
  ELSE IF source.nulls # {} THEN {"ARGUMENT"}
  ELSE IF source.text # "OK" THEN {source.text} \cup Budgets
  ELSE IF source.parse # "OK" THEN {source.parse, "NOMEM"} \cup Budgets
  ELSE {"NOMEM"} \cup Budgets \cup IF Defects = {} THEN {"OK"} ELSE Defects

Answer ==
  /\ answer = "none" /\ answer' \in Allowed
  /\ answer' # "OK" <=> compiled' = compiled
  /\ UNCHANGED source

Spec == Init /\ [][Answer]_<<source, compiled, answer>>
=============================================================================
