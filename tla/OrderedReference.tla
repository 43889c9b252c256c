-------------------------- MODULE OrderedReference --------------------------
(***************************************************************************)
(* The ordered search a program denotes, without stack or memo: the        *)
(* recursive oracle of test_regex_program_reference.c, extended to classes.*)
(* `active` maps the pairs being worked on to their assertion depth.       *)
(* The answer is the end of the first successful path, NoMatch, or         *)
(* BadCycle when a pair is reentered across an assertion boundary.         *)
(***************************************************************************)
EXTENDS OrderedProgram, TLC

NoMatch  == -1
BadCycle == -2

RECURSIVE Dfs(_, _, _, _, _, _)
Dfs(p, in, i, pos, depth, active) ==
  IF <<i, pos>> \in DOMAIN active
  THEN IF active[<<i, pos>>] = depth THEN NoMatch ELSE BadCycle
  ELSE
    LET c    == Instr(p, i)
        now  == (<<i, pos>> :> depth) @@ active
        To(j, q, d) == Dfs(p, in, j, q, d, now)
        then == To(c.next, pos, depth)
    IN CASE c.op = "ACCEPT" -> pos
         [] c.op = "END" -> IF pos = Len(in) THEN then ELSE NoMatch
         [] c.op = "SPLIT" ->
              LET one == To(c.first, pos, depth)
              IN IF one = NoMatch THEN To(c.second, pos, depth) ELSE one
         [] c.op \in Assertions ->
              LET body == To(c.first, pos, depth + 1)
              IN IF body = BadCycle THEN BadCycle
                 ELSE IF (body >= 0) = (c.op = "POSITIVE") THEN then
                 ELSE NoMatch
         [] OTHER ->
              IF pos < Len(in) /\ Consumes(p, c, in[pos + 1])
              THEN To(c.next, pos + 1, depth) ELSE NoMatch

Denotation(p, in, start) == Dfs(p, in, p.entry, start, 0, <<>>)
=============================================================================
