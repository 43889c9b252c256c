--------------------------- MODULE OrderedProgram ---------------------------
(***************************************************************************)
(* The immutable instruction programs that maia_regex.c executes: their    *)
(* shape, the structural validation of maia_regex_validate and the test a  *)
(* consuming instruction makes of one input unit.  No state.               *)
(*                                                                         *)
(* Instructions are numbered from 0 as in the C array; Instr(p, i) is      *)
(* program->code[i].  Opcodes are strings; "BAD" stands for every int      *)
(* outside MAIA_REGEX_ACCEPT .. MAIA_REGEX_POSITIVE.                       *)
(***************************************************************************)
EXTENDS Integers, Sequences

Consuming  == {"CHAR", "CLASS", "NOT_CLASS"}
Assertions == {"NEGATIVE", "POSITIVE"}
Opcodes    == {"ACCEPT", "SPLIT", "END"} \cup Consuming \cup Assertions

UnitMax == 65535                     \* largest UTF-16 code unit

Instruction == [op: Opcodes \cup {"BAD"}, first: Nat, second: Nat, next: Nat]
CodeRange   == [first: Nat, last: Nat]
Program     == [code: Seq(Instruction), ranges: Seq(CodeRange), entry: Nat]

(* The arguments of maia_regex_exec.  nulls is the set of pointers that    *)
(* are null; a null `limits` behaves as three zeros, "no limit".           *)
Pointers == {"end", "input", "program", "code", "ranges"}
Limits   == [max_memo_bytes: Nat, max_frames: Nat, max_steps: Nat]
Call     == [nulls: SUBSET Pointers, program: Program, input: Seq(Nat),
             start: Nat, limits: Limits]

Count(p)    == Len(p.code)           \* instruction_count
Instr(p, i) == p.code[i + 1]

RangesValid(p) ==
  \A k \in DOMAIN p.ranges :
    /\ p.ranges[k].first <= p.ranges[k].last
    /\ p.ranges[k].last <= UnitMax

(* What the validator demands of instruction c: every target that the op  *)
(* can follow is inside the program, and a class names existing ranges.   *)
InstrValid(p, c) ==
  /\ c.op \in Opcodes
  /\ c.op = "SPLIT" => c.first < Count(p) /\ c.second < Count(p)
  /\ c.op \notin {"ACCEPT", "SPLIT"} => c.next < Count(p)
  /\ c.op = "CHAR" => c.first <= UnitMax
  /\ c.op \in Assertions => c.first < Count(p)
  /\ c.op \in {"CLASS", "NOT_CLASS"} =>
       c.first <= Len(p.ranges) /\ c.second <= Len(p.ranges) - c.first

(* maia_regex_validate *)
Validate(p, nulls) ==
  /\ nulls \cap {"program", "code"} = {}
  /\ p.entry < Count(p)
  /\ Len(p.ranges) > 0 => "ranges" \notin nulls
  /\ RangesValid(p)
  /\ \A k \in DOMAIN p.code : InstrValid(p, p.code[k])

(* Whether one of the ranges first .. first+second-1 contains the unit.   *)
InClass(p, c, unit) ==
  \E k \in c.first + 1 .. c.first + c.second :
    p.ranges[k].first <= unit /\ unit <= p.ranges[k].last

Consumes(p, c, unit) ==
  \/ c.op = "CHAR" /\ unit = c.first
  \/ c.op = "CLASS" /\ InClass(p, c, unit)
  \/ c.op = "NOT_CLASS" /\ ~InClass(p, c, unit)
=============================================================================
