---------------------------- MODULE BreReference ----------------------------
(***************************************************************************)
(* The denotation of a basic regular expression: the repository's          *)
(* independent interpreter of syntax trees (scripts/test-bre-model.mjs),   *)
(* with anchors and classes added.  It enumerates all paths of a tree; no  *)
(* program, no stack, no history.                                          *)
(*                                                                         *)
(* Groups and scopes are numbered in preorder: `id` and `pre` are the      *)
(* numbers of groups and of nodes of the tree before the current one.      *)
(***************************************************************************)
EXTENDS Integers, Sequences, FiniteSets

None == <<>>              \* a group that did not take part

RECURSIVE Groups(_), Nodes(_), Paths(_, _, _, _, _), Walk(_, _, _, _, _, _)

Parts(ast) ==
  CASE ast.tag = "sequence" -> ast.items
    [] ast.tag \in {"group", "repeat"} -> <<ast.child>>
    [] OTHER -> <<>>

Total(F(_), asts) ==
  LET sum[k \in 0 .. Len(asts)] == IF k = 0 THEN 0 ELSE sum[k - 1] + F(asts[k])
  IN sum[Len(asts)]

Groups(ast) == Total(Groups, Parts(ast)) + IF ast.tag = "group" THEN 1 ELSE 0
Nodes(ast)  == 1 + Total(Nodes, Parts(ast))

Moved(s, n) == [s EXCEPT !.at = @ + n]

InSet(ranges, c) == \E k \in DOMAIN ranges : ranges[k][1] <= c /\ c <= ranges[k][2]

(* The text between two positions, read again at s                         *)
Rereads(input, s, span) ==
  LET n == span[2] - span[1]
  IN /\ n <= Len(input) - s.at
     /\ \A k \in 1 .. n : input[span[1] + k] = input[s.at + k]

Walk(ast, id, pre, input, s, n) ==
  LET next   == IF n < ast.max THEN Paths(ast.child, id, pre + 1, input, s) ELSE {}
      IsEmpty(x) == x.at = s.at
      usable == {x \in next : ~(IsEmpty(x) /\ n > 0 /\ n >= ast.min)}
      ending == {x \in usable : IsEmpty(x) /\ n + 1 >= ast.min}
  IN ending
     \cup UNION {Walk(ast, id, pre, input, x, n + 1) : x \in usable \ ending}
     \cup IF n >= ast.min THEN {s} ELSE {}

(* Every state [at, caps, trace] that the tree can lead to from s; `trace` *)
(* lists the scopes passed, in preorder, with their lengths.               *)
Paths(ast, id, pre, input, s) ==
  LET more  == s.at < Len(input)
      c     == input[s.at + 1]
      outer == [s EXCEPT !.trace = <<>>]
      Scope(x) == [x EXCEPT !.trace = s.trace \o <<<<pre, x.at - s.at>>>> \o @]
  IN CASE ast.tag = "literal" -> IF more /\ c = ast.value THEN {Moved(s, 1)} ELSE {}
       [] ast.tag = "any"     -> IF more THEN {Moved(s, 1)} ELSE {}
       [] ast.tag = "class"   ->
            IF more /\ InSet(ast.ranges, c) # ast.negative THEN {Moved(s, 1)} ELSE {}
       [] ast.tag = "begin"   -> IF s.at = 0 THEN {s} ELSE {}
       [] ast.tag = "end"     -> IF s.at = Len(input) THEN {s} ELSE {}
       [] ast.tag = "reference" ->
            LET span == s.caps[ast.id]
            IN IF span # None /\ Rereads(input, s, span)
               THEN {Moved(s, span[2] - span[1])} ELSE {}
       [] ast.tag = "sequence" ->
            LET before(k) == SubSeq(ast.items, 1, k - 1)
                after[k \in 0 .. Len(ast.items)] ==
                  IF k = 0 THEN {s}
                  ELSE UNION {Paths(ast.items[k], id + Total(Groups, before(k)),
                                    pre + 1 + Total(Nodes, before(k)), input, x) :
                                x \in after[k - 1]}
            IN after[Len(ast.items)]
       [] ast.tag = "group" ->
            LET inside == id + 1 .. id + Groups(ast)
                fresh  == [outer EXCEPT !.caps = [g \in DOMAIN @ |->
                                          IF g \in inside THEN None ELSE @[g]]]
            IN {Scope([x EXCEPT !.caps[id + 1] = <<s.at, x.at>>]) :
                  x \in Paths(ast.child, id + 1, pre + 1, input, fresh)}
       [] ast.tag = "repeat" ->
            {Scope(x) : x \in Walk(ast, id, pre, input, outer, 0)}

Preferred(a, b) ==
  LET differ == {k \in DOMAIN a \cap DOMAIN b : a[k] # b[k]}
  IN IF differ = {} THEN Len(a) > Len(b)
     ELSE LET k == CHOOSE k \in differ : \A j \in differ : k <= j
          IN a[k][1] < b[k][1] \/ (a[k][1] = b[k][1] /\ a[k][2] > b[k][2])

Beats(s, t) == s.at > t.at \/ (s.at = t.at /\ Preferred(s.trace, t.trace))

(* The captures of the preferred matches from one start: slot 0 is the     *)
(* whole match.  More than one answer would be an ambiguity.               *)
Matches(ast, input, start) ==
  LET all == Paths(ast, 0, 0, input,
                   [at |-> start, caps |-> [g \in 1 .. 9 |-> None], trace |-> <<>>])
      top == {s \in all : ~\E t \in all : Beats(t, s)}
  IN {[g \in 0 .. 9 |-> IF g = 0 THEN <<start, s.at>> ELSE s.caps[g]] : s \in top}
=============================================================================
