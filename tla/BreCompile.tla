----------------------------- MODULE BreCompile -----------------------------
(***************************************************************************)
(* maia_bre_compile_utf8 and bre_lower (maia_bre_compile.cpp): from a      *)
(* pattern to a program its caller owns.  The generated lexer and parser   *)
(* are external: a source says whether they accept its text and what tree  *)
(* their events build.                                                     *)
(*                                                                         *)
(* source: [nulls, length, limits, text, parse, nodes], where `text` is    *)
(* what bre_text_check finds in the pattern and `parse` the status the     *)
(* lexer and the parser lead to.                                           *)
(***************************************************************************)
EXTENDS BreLower

CONSTANTS
  Sources,       \* the calls considered
  ScratchBytes,  \* sizeof(BreCompile)
  MemoryMayFail  \* whether an allocation may fail

VARIABLES
  source, stage,
  c,             \* the lowering
  at,            \* the loop counter of bre_lower
  compiled,      \* what the caller's pointer holds, <<>> before it is written
  answer         \* what the call returned

vars == <<source, stage, c, at, compiled, answer>>

Init ==
  /\ source \in Sources
  /\ stage = "enter" /\ c = <<>> /\ at = 0
  /\ compiled = <<>> /\ answer = "none"
-----------------------------------------------------------------------------
Refusal ==
  IF LimitsStatus(source.limits) # "OK" THEN LimitsStatus(source.limits)
  ELSE IF source.nulls # {} THEN "ARGUMENT"
  ELSE IF source.length > source.limits.max_pattern_bytes THEN "LIMIT"
  ELSE IF source.text # "OK" THEN source.text
  ELSE IF ScratchBytes > source.limits.max_workspace_bytes THEN "LIMIT"
  ELSE "OK"

Return(s) ==
  /\ stage' = "done" /\ answer' = s
  /\ c' = <<>> /\ at' = 0
  /\ UNCHANGED source

Fail(s) == Return(s) /\ UNCHANGED compiled

Refuse == stage = "enter" /\ Refusal # "OK" /\ Fail(Refusal)

Advance(to) == stage' = to /\ UNCHANGED <<source, compiled, answer>>

Allocate ==
  /\ stage = "enter" /\ Refusal = "OK"
  /\ Advance("parse")
  /\ UNCHANGED <<c, at>>

AllocateNoMem ==
  /\ stage = "enter" /\ Refusal = "OK"
  /\ MemoryMayFail
  /\ Fail("NOMEM")

SyntaxFails == stage = "parse" /\ source.parse # "OK" /\ Fail(source.parse)

CodeNoMem ==
  /\ stage = "parse" /\ source.parse = "OK"
  /\ MemoryMayFail
  /\ Fail("NOMEM")

StartLowering ==
  /\ stage = "parse" /\ source.parse = "OK"
  /\ Advance("number")
  /\ c' = Lowering(source.nodes, source.limits, source.length) /\ at' = 0
-----------------------------------------------------------------------------
(* A step of bre_lower leaves d, at node k next.                           *)
Lower(d, k) ==
  /\ c' = d /\ at' = k
  /\ UNCHANGED <<source, stage, compiled, answer>>

Refused == stage \in {"number", "lower", "accept"} /\ ~Lowers(c) /\ Fail(c.status)

(* First pass: forward over the nodes.                                     *)
NumberNode ==
  /\ stage = "number" /\ Lowers(c) /\ at < Len(c.nodes)
  /\ Lower(Reserved(c, at), at + 1)

StartEmitting ==
  /\ stage = "number" /\ Lowers(c) /\ at = Len(c.nodes)
  /\ Advance("lower")
  /\ UNCHANGED <<c, at>>

(* Second pass: backward, so that a node comes after its children.         *)
Node == at - 1

Emitting(names) == stage = "lower" /\ Lowers(c) /\ at > 0 /\ Name(c, Node) \in names

Own == Simple \cup {"Class", "Reference"}

SkipTerminal == Emitting({"terminal"}) /\ Lower(c, Node)

EmitSimple ==
  /\ Emitting(Simple)
  /\ LET w == Work(c)
     IN Lower(IF Lowers(w) THEN Single(Emit(w, <<SimpleInstruction(w, Node)>>), Node)
              ELSE w, Node)

EmitClass == Emitting({"Class"}) /\ Lower(Single(LowerClass(Work(c), Node), Node), Node)

EmitReference ==
  /\ Emitting({"Reference"})
  /\ LET w == Work(c)
     IN Lower(IF Lowers(w) THEN Single(LowerReference(w, Node), Node) ELSE w, Node)

EmitGroup ==
  /\ Emitting({"Group"})
  /\ LET w == Work(c)
     IN Lower(IF Lowers(w) THEN Bracket(Join(w, Node), Node) ELSE w, Node)

Emits == Own \cup {"terminal", "Group"}

EmitLoop ==
  /\ stage = "lower" /\ Lowers(c) /\ at > 0 /\ Name(c, Node) \notin Emits
  /\ LET w == Work(c)
     IN Lower(IF Lowers(w) THEN Quantified(Join(w, Node), Node) ELSE w, Node)

EmitAccept ==
  /\ stage = "lower" /\ Lowers(c) /\ at = 0
  /\ Advance("accept")
  /\ c' = Accepting(c)
  /\ UNCHANGED at

Publish ==
  /\ stage = "accept" /\ Lowers(c)
  /\ compiled' = Compiled(c)
  /\ Return("OK")

Next ==
  \/ Refuse \/ Allocate \/ AllocateNoMem \/ SyntaxFails \/ CodeNoMem \/ StartLowering
  \/ Refused \/ NumberNode \/ StartEmitting \/ SkipTerminal \/ EmitSimple \/ EmitClass
  \/ EmitReference \/ EmitGroup \/ EmitLoop \/ EmitAccept \/ Publish

Spec == Init /\ [][Next]_vars
-----------------------------------------------------------------------------
TypeOK ==
  /\ stage \in {"enter", "parse", "number", "lower", "accept", "done"}
  /\ stage \in {"number", "lower", "accept"} =>
       /\ at \in 0 .. Len(c.nodes)
       /\ Len(c.code) <= c.code_capacity /\ Len(c.ranges) <= c.range_capacity
       /\ c.steps <= c.limits.max_steps
  /\ answer # "none" <=> stage = "done"

(* What may come after an instruction                                      *)
Follows(x) ==
  IF x.op = "ACCEPT" THEN {}
  ELSE IF x.op = "REPEAT_END" THEN {x.a}
  ELSE IF x.op = "REPEAT" THEN {x.a, x.next}
  ELSE {x.next}

Rank(x) == IF x.op = "OPEN" THEN x.max ELSE x.b

Ids(p)     == 0 .. CodeCount(p) - 1
Of(p, ops) == {i \in Ids(p) : Instr(p, i).op \in ops}

(* What can be reached from the entry, and what ACCEPT can be reached from:*)
(* as many rounds as there are instructions are enough.                    *)
After(p, s)  == s \cup UNION {Follows(Instr(p, i)) : i \in s \cap Ids(p)}
Before(p, s) == s \cup {i \in Ids(p) : Follows(Instr(p, i)) \cap s # {}}

Entered(p) ==
  LET entered[k \in Nat] == IF k = 0 THEN {p.entry} ELSE After(p, entered[k - 1])
  IN entered[CodeCount(p)]

Leading(p) ==
  LET leading[k \in Nat] == IF k = 0 THEN Of(p, {"ACCEPT"}) ELSE Before(p, leading[k - 1])
  IN leading[CodeCount(p)]

(* The program a compilation leaves holds together: every jump stays in    *)
(* it, every instruction can be reached from the entry, ACCEPT is the last *)
(* and from everywhere there is a way to it; loops close on themselves and *)
(* no two scopes have the same rank.  (The executor follows the links that *)
(* bre_lower patched after it emitted the instructions.)                   *)
HoldsTogether(p) ==
  /\ Entered(p) = Ids(p) /\ Leading(p) = Ids(p) /\ Of(p, {"ACCEPT"}) = {CodeCount(p) - 1}
  /\ \A i \in Of(p, {"REPEAT_END"}) : Instr(p, Instr(p, i).a).op = "REPEAT"
  /\ \A i, j \in Of(p, {"OPEN", "REPEAT"}) : Rank(Instr(p, i)) = Rank(Instr(p, j)) => i = j

(* The least number of repetitions of a loop is not above the greatest.    *)
BoundsInOrder(p) == \A i \in Of(p, {"REPEAT"}) : Instr(p, i).min <= Instr(p, i).max

Linked == answer = "OK" => HoldsTogether(compiled) /\ BoundsInOrder(compiled)
=============================================================================
