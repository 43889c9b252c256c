------------------------------ MODULE BreLower ------------------------------
(***************************************************************************)
(* Lowering of a parse tree of a basic regular expression to instructions  *)
(* (bre_lower and its helpers, maia_bre_compile.cpp).  No state.           *)
(*                                                                         *)
(* A tree is the array of nodes in preorder that the parser's events       *)
(* build, numbered from 0: [name, parent, end, value], where `end` is the  *)
(* number after the node's last descendant.  The name of a terminal is     *)
(* "terminal" and its value the scalar of its token; of a numbered         *)
(* nonterminal (Group0, Piece3) the name leaves the number out.            *)
(*                                                                         *)
(* The record `c` is the state of one lowering: the tree, the limits, what *)
(* of the program exists, entry and tail of each node, the work done, and  *)
(* the status, which stops the lowering unless it is OK.                   *)
(***************************************************************************)
EXTENDS BreProgram, SequencesExt

(* Operators named for a slip are forms of the next definition that the    *)
(* runs are known to refute; nothing else refers to them.                  *)
LoweringTight(nodes, limits, length) ==
  LET Capped(n, most) == IF n > most THEN most ELSE n
  IN [nodes |-> nodes, limits |-> limits, status |-> "OK", steps |-> 0,
      groups |-> <<>>, depth |-> 0, repeat_bound |-> 0, entry |-> NONE,
      code |-> <<>>, code_capacity |-> Capped(length + 16, limits.max_instructions),
      ranges |-> <<>>, range_capacity |-> Capped(2 * length + 16, limits.max_ranges),
      first |-> [i \in 0 .. Len(nodes) - 1 |-> NONE],
      tail  |-> [i \in 0 .. Len(nodes) - 1 |-> NONE]]

Lowering(nodes, limits, length) ==
  LET Capped(n, most) == IF n > most THEN most ELSE n
  IN [nodes |-> nodes, limits |-> limits, status |-> "OK", steps |-> 0,
      groups |-> <<>>, depth |-> 0, repeat_bound |-> 0, entry |-> NONE,
      code |-> <<>>, code_capacity |-> Capped(2 * length + 16, limits.max_instructions),
      ranges |-> <<>>, range_capacity |-> Capped(2 * length + 16, limits.max_ranges),
      first |-> [i \in 0 .. Len(nodes) - 1 |-> NONE],
      tail  |-> [i \in 0 .. Len(nodes) - 1 |-> NONE]]

Lowers(c)     == c.status = "OK"
Stop(c, e)    == [c EXCEPT !.status = e]
Tree(c, i)    == c.nodes[i + 1]
Name(c, i)    == Tree(c, i).name
Within(c, a, i) == a < i /\ i < Tree(c, a).end

(* The nodes below node i, in order, and those of one name                 *)
Below(c, i) == [k \in 1 .. Tree(c, i).end - i - 1 |-> i + k]
Named(c, i, name) == SelectSeq(Below(c, i), LAMBDA j : Name(c, j) = name)

(* bre_scalar: the k-th terminal below a node, from 0                      *)
Scalar(c, i, k) == Tree(c, Named(c, i, "terminal")[k + 1]).value

(* bre_work *)
Work(c) ==
  IF c.steps = c.limits.max_steps THEN Stop(c, "LIMIT") ELSE [c EXCEPT !.steps = @ + 1]

(* bre_emit, for the instructions of one node                              *)
Emit(c, instrs) ==
  IF Len(c.code) + Len(instrs) > c.code_capacity THEN Stop(c, "LIMIT")
  ELSE [c EXCEPT !.code = @ \o instrs]

Link(c, id, next) == [c EXCEPT !.code[id + 1].next = next]
Spans(c, i, entry, tail) == [c EXCEPT !.first[i] = entry, !.tail[i] = tail]
-----------------------------------------------------------------------------
(* First pass: number the groups and measure their nesting.                *)
GroupDepth(c, i) ==
  1 + Cardinality({a \in 0 .. i - 1 : Name(c, a) = "Group" /\ Within(c, a, i)})

Reserved(c, i) ==
  LET w == Work(c)
      d == GroupDepth(c, i)
  IN IF ~Lowers(w) THEN w
     ELSE IF Name(c, i) = "UnsupportedEscape" THEN Stop(w, "UNSUPPORTED")
     ELSE IF Name(c, i) # "Group" THEN w
     ELSE IF Len(c.groups) = c.limits.max_captures \/ d > c.limits.max_parse_depth
     THEN Stop(w, "LIMIT")
     ELSE [w EXCEPT !.groups = Append(@, i), !.depth = IF d > @ THEN d ELSE @]
-----------------------------------------------------------------------------
(* bre_add_range *)
AddRange(c, r) ==
  IF ~Lowers(c) THEN c
  ELSE IF r[1] > r[2] THEN Stop(c, "BADPAT")
  ELSE IF Len(c.ranges) = c.range_capacity THEN Stop(c, "LIMIT")
  ELSE [c EXCEPT !.ranges = Append(@, [first |-> r[1], last |-> r[2]])]

NamedRanges ==
  [alnum |-> <<<<48, 57>>, <<65, 90>>, <<97, 122>>>>, alpha |-> <<<<65, 90>>, <<97, 122>>>>,
   blank |-> <<<<9, 9>>, <<32, 32>>>>,  cntrl |-> <<<<0, 31>>, <<127, 127>>>>,
   digit |-> <<<<48, 57>>>>, graph |-> <<<<33, 126>>>>, lower |-> <<<<97, 122>>>>,
   print |-> <<<<32, 126>>>>, punct |-> <<<<33, 47>>, <<58, 64>>, <<91, 96>>, <<123, 126>>>>,
   space |-> <<<<9, 13>>, <<32, 32>>>>, upper |-> <<<<65, 90>>>>,
   xdigit |-> <<<<48, 57>>, <<65, 70>>, <<97, 102>>>>]

CLOSE == 93
DASH  == 45
STAR  == 42

(* A dash stands for itself only at either end of the class.               *)
DashInside(c, class, i, before) ==
  /\ Scalar(c, i, 0) = DASH
  /\ Len(c.ranges) # before
  /\ Tree(c, i).end + 1 # Tree(c, class).end

(* The status and the ranges of a node below a class, whose ranges start   *)
(* after `before`.  The name of a NamedClass is the value of its ClassName.*)
Element(c, class, i, before) ==
  LET name   == Name(c, i)
      scalar == Scalar(c, i, 0)
      known  == Tree(c, Named(c, i, "ClassName")[1]).value
      bounds == Named(c, i, "ClassScalar")
      Bound(k) == Scalar(c, bounds[k], 0)
  IN CASE name \in {"Collating", "Equivalence"} -> <<"UNSUPPORTED", <<>>>>
       [] name = "NamedClass" ->
            IF known \in DOMAIN NamedRanges THEN <<"OK", NamedRanges[known]>>
            ELSE <<"BADPAT", <<>>>>
       [] name = "InitialClose"      -> <<"OK", <<<<CLOSE, CLOSE>>>>>>
       [] name = "InitialCloseRange" -> <<"OK", <<<<CLOSE, Bound(1)>>>>>>
       [] name = "Range"             -> <<"OK", <<<<Bound(1), Bound(2)>>>>>>
       [] name = "ClassScalar"       ->
            <<IF DashInside(c, class, i, before) THEN "BADPAT" ELSE "OK",
              <<<<scalar, scalar>>>>>>
       [] OTHER -> <<"OK", <<>>>>

AddRanges(c, element) ==
  LET added[k \in Nat] == IF k = 0 THEN c ELSE AddRange(added[k - 1], element[2][k])
  IN IF element[1] = "OK" THEN added[Len(element[2])] ELSE Stop(c, element[1])

AddElement(c, class, i, before) ==
  LET w == Work(c)
  IN IF Lowers(c) /\ Lowers(w) THEN AddRanges(w, Element(c, class, i, before))
     ELSE IF Lowers(c) THEN w ELSE c

(* bre_class.  A node below an element is not visited on its own.          *)
Elements == {"Negation", "NamedClass", "InitialClose", "InitialCloseRange", "Range",
             "ClassScalar"}

EmitClassOf(c, i, before) ==
  LET op == IF Named(c, i, "Negation") # <<>> THEN "NOT_CLASS" ELSE "CLASS"
  IN IF ~Lowers(c) THEN c
     ELSE IF Len(c.ranges) = before THEN Stop(c, "BADPAT")
     ELSE Emit(c, <<Instruction(op, before, Len(c.ranges) - before)>>)

LowerClass(c, i) ==
  LET before  == Len(c.ranges)
      Part(j) == \E a \in i + 1 .. j : Name(c, a) \in Elements /\ Within(c, a, j)
      visited[k \in Nat] ==
        IF k = 0 THEN c
        ELSE IF Part(i + k) THEN visited[k - 1]
        ELSE AddElement(visited[k - 1], i, i + k, before)
  IN EmitClassOf(visited[Len(Below(c, i))], i, before)
-----------------------------------------------------------------------------
(* The value of a Number, or NONE above the limit for repetitions.         *)
Digit(c, v, t) ==
  LET d == Tree(c, t).value - 48
  IN IF Name(c, t) # "terminal" THEN v
     ELSE IF v = NONE \/ v * 10 + d > c.limits.max_repeat THEN NONE
     ELSE v * 10 + d

NumberValue(c, i) ==
  LET value[k \in Nat] == IF k = 0 THEN 0 ELSE Digit(c, value[k - 1], i + k)
  IN value[Len(Below(c, i))]

(* bre_quantity: <<status, minimum, maximum>>                              *)
Quantity(c, i) ==
  LET numbers == {j \in i + 1 .. Tree(c, i).end - 1 : Name(c, j) = "Number"}
      first   == NumberValue(c, Min(numbers))
      last    == NumberValue(c, Max(numbers))
  IN IF Name(c, i) = "StarRepeat" THEN <<"OK", 0, Unbounded>>
     ELSE IF \E j \in numbers : NumberValue(c, j) = NONE THEN <<"LIMIT", 0, 0>>
     ELSE IF numbers = {} THEN <<"BADPAT", 0, 0>>
     ELSE IF Name(c, i) = "ExactRepeat" THEN <<"OK", first, first>>
     ELSE IF Name(c, i) = "OpenRepeat" THEN <<"OK", first, Unbounded>>
     ELSE IF first > last THEN <<"BADPAT", 0, 0>>
     ELSE <<"OK", first, last>>
-----------------------------------------------------------------------------
(* Concatenate the code of the children of node i, the next one being j.   *)
Joined(c, i, j) ==
  IF Tree(c, j).parent # i \/ c.first[j] = NONE THEN c
  ELSE IF c.first[i] = NONE THEN Spans(c, i, c.first[j], c.tail[j])
  ELSE Spans(Link(c, c.tail[i], c.first[j]), i, c.first[i], c.tail[j])

Join(c, i) ==
  LET joined[k \in Nat] == IF k = 0 THEN c ELSE Joined(joined[k - 1], i, i + k)
  IN joined[Len(Below(c, i))]

WrappedLoosely(c, i, next, entry, tail) == Spans(c, i, entry, tail)

(* The emitted code now stands for node i, from `entry` to `tail`; a body  *)
(* before it continues at `next`.                                          *)
Wrapped(c, i, next, entry, tail) ==
  Spans(IF c.first[i] = NONE THEN c ELSE Link(c, c.tail[i], next), i, entry, tail)

(* Put a group between OPEN and CLOSE.  OPEN names the groups inside it    *)
(* and carries the node as its rank.                                       *)
Bracket(c, i) ==
  LET group  == CHOOSE k \in DOMAIN c.groups : c.groups[k] = i
      inside == {k \in group .. Len(c.groups) : c.groups[k] < Tree(c, i).end}
      open   == Len(c.code)
      close  == open + 1
      e == Emit(c, <<[Instruction("OPEN", group, Max(inside)) EXCEPT !.max = i,
                        !.next = IF c.first[i] = NONE THEN close ELSE c.first[i]],
                     Instruction("CLOSE", group, 0)>>)
  IN IF Lowers(e) THEN Wrapped(e, i, close, open, close) ELSE e

(* Put a quantified piece in a loop: REPEAT, its body, REPEAT_END.  q is   *)
(* what bre_quantity says of the quantifier.                               *)
Looped(e, i, bound, repeat) ==
  IF Lowers(e)
  THEN Wrapped([e EXCEPT !.repeat_bound = IF bound > @ THEN bound ELSE @],
               i, repeat + 1, repeat, repeat)
  ELSE e

Loop(c, i, q) ==
  LET repeat == Len(c.code)
  IN IF q[1] # "OK" THEN Stop(c, q[1])
     ELSE IF c.first[i] = NONE THEN Stop(c, "LIMIT")
     ELSE Looped(Emit(c, <<[Instruction("REPEAT", c.first[i], i) EXCEPT
                              !.min = q[2], !.max = q[3]],
                           Instruction("REPEAT_END", repeat, 0)>>),
                 i, IF q[3] = Unbounded THEN q[2] ELSE q[3], repeat)

QuantifiersOf(c, i) ==
  {j \in i + 1 .. Tree(c, i).end - 1 : Name(c, j) = "Quantifier" /\ Tree(c, j).parent = i}

Quantified(c, i) ==
  LET last == Max(QuantifiersOf(c, i))
  IN IF Name(c, i) \notin {"Piece", "InitialStarPiece"} \/ QuantifiersOf(c, i) = {} THEN c
     ELSE IF last + 1 = Tree(c, last).end THEN Stop(c, "BADPAT")
     ELSE Loop(c, i, Quantity(c, last + 1))

(* A node with one instruction of its own                                  *)
Single(c, i) == IF Lowers(c) THEN Spans(c, i, Len(c.code) - 1, Len(c.code) - 1) ELSE c

Simple == {"InitialStar", "Literal", "Escape", "Any", "BeginAnchor", "EndAnchor"}

SimpleInstruction(c, i) ==
  LET name == Name(c, i)
  IN CASE name = "InitialStar" -> Instruction("CHAR", STAR, 0)
       [] name = "Literal"     -> Instruction("CHAR", Scalar(c, i, 0), 0)
       [] name = "Escape"      -> Instruction("CHAR", Scalar(c, i, 1), 0)
       [] name = "Any"         -> Instruction("ANY", 0, 0)
       [] name = "BeginAnchor" -> Instruction("BEGIN", 0, 0)
       [] name = "EndAnchor"   -> Instruction("END", 0, 0)

LowerReferenceInside(c, i) ==
  LET value == Scalar(c, i, 1) - 48
  IN IF value \in DOMAIN c.groups THEN Emit(c, <<Instruction("REF", value, 0)>>)
     ELSE Stop(c, "BADPAT")

(* A reference must follow the end of its group.                           *)
LowerReference(c, i) ==
  LET value == Scalar(c, i, 1) - 48
  IN IF value \in DOMAIN c.groups /\ Tree(c, c.groups[value]).end <= i
     THEN Emit(c, <<Instruction("REF", value, 0)>>) ELSE Stop(c, "BADPAT")

(* After both passes: ACCEPT ends the program.                             *)
Accepting(c) ==
  LET accept == Len(c.code)
      e == Emit(c, <<Instruction("ACCEPT", 0, 0)>>)
      entered == [e EXCEPT !.entry = IF c.first[0] = NONE THEN accept ELSE c.first[0]]
  IN IF ~Lowers(e) THEN e
     ELSE IF c.tail[0] = NONE THEN entered
     ELSE Link(entered, c.tail[0], accept)

(* The program a successful lowering leaves                                *)
Compiled(c) ==
  [entry |-> c.entry, code |-> c.code, ranges |-> c.ranges, groups |-> Len(c.groups),
   depth |-> c.depth, repeat_bound |-> c.repeat_bound]
=============================================================================
