----------------------------- MODULE BreProgram -----------------------------
(***************************************************************************)
(* The private instructions of compiled basic regular expressions          *)
(* (maia_bre_internal.h), the limits of a call (maia_bre.h) and the        *)
(* parameters of one execution.  No state.                                 *)
(*                                                                         *)
(* Instructions are numbered from 0.  NONE is BRE_NONE, and Unbounded the  *)
(* maximum of `*` and \{m,\}: both are UINT_MAX in the code.               *)
(***************************************************************************)
EXTENDS Integers, Sequences

CONSTANTS
  UIntMax,        \* UINT_MAX
  SizeMax         \* (size_t)-1

ASSUME WordAssumption == UIntMax \in Nat /\ SizeMax \in Nat

NONE      == -1
Unbounded == UIntMax

MaxCaptures == 9
MaxLoops    == 10
Slots       == 0 .. MaxCaptures          \* slot 0 is the whole match

Consuming == {"CHAR", "ANY", "CLASS", "NOT_CLASS"}
Opcodes   == Consuming \cup {"ACCEPT", "BEGIN", "END", "OPEN", "CLOSE", "REF",
                             "REPEAT", "REPEAT_END"}

(* Fields a, b, min, max have a meaning of their own in each instruction.  *)
Instruction(op, a, b) ==
  [op |-> op, a |-> a, b |-> b, next |-> NONE, min |-> 0, max |-> 0]

Instr(p, i) == p.code[i + 1]
CodeCount(p) == Len(p.code)

(* The budgets of a call, and the implementation's ceilings for them.      *)
Ceilings ==
  [max_pattern_bytes |-> 1024, max_input_bytes |-> 65535,
   max_instructions |-> 4096, max_ranges |-> 4096, max_captures |-> MaxCaptures,
   max_repeat |-> 255, max_parse_depth |-> 9, max_frames |-> 4096,
   max_steps |-> SizeMax, max_workspace_bytes |-> SizeMax]

(* maia_bre_default_limits *)
DefaultLimits ==
  [Ceilings EXCEPT !.max_steps = 1000000, !.max_workspace_bytes = 1048576]

(* bre_limits_valid *)
LimitsStatus(limits) ==
  IF \E f \in DOMAIN limits : limits[f] = 0 THEN "ARGUMENT"
  ELSE IF \E f \in DOMAIN limits : limits[f] > Ceilings[f] THEN "LIMIT"
  ELSE "OK"

InClass(p, c, scalar) ==
  \E k \in c.a + 1 .. c.a + c.b :
    p.ranges[k].first <= scalar /\ scalar <= p.ranges[k].last

Consumes(p, c, scalar) ==
  CASE c.op = "ANY"       -> TRUE
    [] c.op = "CHAR"      -> scalar = c.a
    [] c.op = "CLASS"     -> InClass(p, c, scalar)
    [] c.op = "NOT_CLASS" -> ~InClass(p, c, scalar)
=============================================================================
