------------------------------ MODULE BreEvents ------------------------------
(***************************************************************************)
(* The array of nodes the parser's events build (bre_checkpoint to         *)
(* bre_abort, maia_bre_compile.cpp).  No state: a sink is a record that    *)
(* the parser passes from event to event.                                  *)
(*                                                                         *)
(* Nodes are numbered from 0, `active` is the innermost nonterminal not    *)
(* ended, or None; `end` is the number after the node's last descendant.   *)
(* What lies above the count is never read, so a restore drops it.         *)
(***************************************************************************)
EXTENDS Integers, Sequences

CONSTANT NodeLimit      \* nodes of a BreCompile: 8192

None      == -1
MarkShift == 65536      \* a mark packs the count above 16 bits of active + 1

ASSUME NodeAssumption == NodeLimit \in Nat /\ NodeLimit < MarkShift - 1

EmptySink == [nodes |-> <<>>, active |-> None, overflow |-> FALSE, deep |-> FALSE]

(* bre_checkpoint and bre_restore: a mark is one unsigned integer          *)
Checkpoint(s) == MarkShift * Len(s.nodes) + s.active + 1

\* variants with faults: the count or the active node is not as it was
RestoreActiveOnly(s, mark) == [s EXCEPT !.active = (mark % MarkShift) - 1]
RestoreCountOnly(s, mark) == [s EXCEPT !.nodes = SubSeq(@, 1, mark \div MarkShift)]

Restore(s, mark) ==
  [s EXCEPT !.nodes = SubSeq(@, 1, mark \div MarkShift), !.active = (mark % MarkShift) - 1]

(* bre_append: a node beyond the limit is dropped and remembered as such   *)
Node(kind, name, token, s) ==
  [kind |-> kind, name |-> name, token |-> token, parent |-> s.active,
   end |-> Len(s.nodes) + 1]

Full(s) == Len(s.nodes) = NodeLimit

Start(s, rule) ==
  IF Full(s) THEN [s EXCEPT !.overflow = TRUE]
  ELSE [s EXCEPT !.nodes = Append(@, Node("rule", rule, 0, s)), !.active = Len(s.nodes)]

Terminal(s, position) ==
  IF Full(s) THEN [s EXCEPT !.overflow = TRUE]
  ELSE [s EXCEPT !.nodes = Append(@, Node("terminal", "none", position, s))]

(* bre_end *)
End(s, rule) ==
  IF s.active = None THEN [s EXCEPT !.overflow = TRUE]
  ELSE [s EXCEPT !.nodes[s.active + 1].end = Len(s.nodes),
                 !.active = s.nodes[s.active + 1].parent,
                 !.deep = @ \/ rule = "DepthOverflow"]
=============================================================================
