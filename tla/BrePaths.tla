------------------------------ MODULE BrePaths ------------------------------
(***************************************************************************)
(* What a compiled basic regular expression matches: the paths of its      *)
(* instructions through an input (the cases of the inner loop of           *)
(* maia_bre_exec_utf8), each instruction as a relation between a place on  *)
(* a path and the next.  Nothing is said of the order in which paths are   *)
(* followed, of stack, histories, budgets or memory: this is what the      *)
(* executor's search is proved to search through.                          *)
(*                                                                         *)
(* u is the sequence of the input's scalars.                               *)
(***************************************************************************)
EXTENDS BreProgram, SequencesExt

(* A place on a path: the next instruction, how much is read, the running  *)
(* loops, the innermost last, and where each group began and ended.        *)
Place(next, pos, loops, begin, end) ==
  [pc |-> next, pos |-> pos, loops |-> loops, begin |-> begin, end |-> end]

(* A running loop: its REPEAT, the iterations done, where the latest       *)
(* began, and whether an iteration was empty.                              *)
Running(repeat, count, start, zero) ==
  [pc |-> repeat, count |-> count, start |-> start, zero |-> zero]

Outset(p, k) ==
  Place(p.entry, k, <<>>, [g \in Slots |-> IF g = 0 THEN k ELSE NONE],
        [g \in Slots |-> NONE])
-----------------------------------------------------------------------------
(* From x, with the instruction c next, to y                               *)
Reads(p, u, c, x, y) ==
  /\ c.op \in Consuming
  /\ x.pos < Len(u) /\ Consumes(p, c, u[x.pos + 1])
  /\ y = Place(c.next, x.pos + 1, x.loops, x.begin, x.end)

Anchors(u, c, x, y) ==
  /\ \/ c.op = "BEGIN" /\ x.pos = 0
     \/ c.op = "END" /\ x.pos = Len(u)
  /\ y = Place(c.next, x.pos, x.loops, x.begin, x.end)

Opens(c, x, y) ==
  LET inside == c.a .. c.b
  IN /\ c.op = "OPEN"
     /\ y = Place(c.next, x.pos, x.loops,
                  [g \in Slots |-> IF g = c.a THEN x.pos
                                   ELSE IF g \in inside THEN NONE ELSE x.begin[g]],
                  [g \in Slots |-> IF g \in inside THEN NONE ELSE x.end[g]])

Closes(c, x, y) ==
  /\ c.op = "CLOSE"
  /\ y = Place(c.next, x.pos, x.loops, x.begin, [x.end EXCEPT ![c.a] = x.pos])

Rereads(u, c, x, y) ==
  LET from == x.begin[c.a]
      n    == x.end[c.a] - from
  IN /\ c.op = "REF"
     /\ from # NONE /\ x.end[c.a] # NONE
     /\ n <= Len(u) - x.pos
     /\ \A j \in 1 .. n : u[from + j] = u[x.pos + j]
     /\ y = Place(c.next, x.pos + n, x.loops, x.begin, x.end)
-----------------------------------------------------------------------------
(* The loops of a path that is at a REPEAT: it is in that loop, or enters. *)
Inside(x) ==
  IF x.loops # <<>> /\ Last(x.loops).pc = x.pc THEN x.loops
  ELSE Append(x.loops, Running(x.pc, 0, x.pos, FALSE))

(* Out of the loop, after enough iterations                                *)
Leaves(c, x, y) ==
  LET loops == Inside(x)
  IN /\ c.op = "REPEAT"
     /\ Last(loops).count >= c.min
     /\ y = Place(c.next, x.pos, Front(loops), x.begin, x.end)

(* Once more: an empty iteration is the last but for those that must be.   *)
Iterates(c, x, y) ==
  LET loops == Inside(x)
      l     == Last(loops)
  IN /\ c.op = "REPEAT"
     /\ l.count < c.max /\ (l.zero => l.count < c.min)
     /\ y = Place(c.a, x.pos,
                  [loops EXCEPT ![Len(loops)] = Running(l.pc, l.count, x.pos, l.zero)],
                  x.begin, x.end)

(* Back to the REPEAT; an optional iteration after the first is not empty. *)
Returns(p, c, x, y) ==
  LET l     == Last(x.loops)
      empty == x.pos = l.start
  IN /\ c.op = "REPEAT_END"
     /\ x.loops # <<>> /\ l.pc = c.a
     /\ ~(empty /\ l.count > 0 /\ l.count >= Instr(p, l.pc).min)
     /\ y = Place(l.pc, x.pos,
                  [x.loops EXCEPT ![Len(x.loops)] =
                     Running(l.pc, l.count + 1, l.start, empty)],
                  x.begin, x.end)
-----------------------------------------------------------------------------
Moves(p, u, x, y) ==
  LET c == Instr(p, x.pc)
  IN /\ x.pc \in 0 .. CodeCount(p) - 1
     /\ \/ Reads(p, u, c, x, y) \/ Anchors(u, c, x, y)
        \/ Opens(c, x, y) \/ Closes(c, x, y) \/ Rereads(u, c, x, y)
        \/ Leaves(c, x, y) \/ Iterates(c, x, y) \/ Returns(p, c, x, y)

(* The places w[0], ..., w[n] are a path from scalar k on.                 *)
IsPath(p, u, k, w, n) ==
  w[0] = Outset(p, k) /\ \A i \in 1 .. n : Moves(p, u, w[i - 1], w[i])

Reaches(p, u, k, x) == \E n \in Nat : \E w : IsPath(p, u, k, w, n) /\ w[n] = x

Accepts(p, x) == x.pc \in 0 .. CodeCount(p) - 1 /\ Instr(p, x.pc).op = "ACCEPT"

(* A path from k can end, complete, in the place x.                        *)
Completes(p, u, k, x) == Reaches(p, u, k, x) /\ Accepts(p, x)

Matches(p, u, k) == \E x : Completes(p, u, k, x)

(* No complete path from k reads more than one that ends in x.             *)
Longest(p, u, k, x) ==
  Completes(p, u, k, x) /\ \A y : Completes(p, u, k, y) => y.pos <= x.pos
=============================================================================
