-------------------------- MODULE OrderedContract --------------------------
(***************************************************************************)
(* What maia_regex_exec promises its caller, as one step: PROGRAM_SEMANTICS*)
(* ("Execution contract", "Resource cost") and maia_regex.h.  A call is    *)
(* answered once.  Either the arguments are rejected, or a resource is     *)
(* refused, or the answer is the denotation of the program; *end changes   *)
(* with a match only.                                                      *)
(***************************************************************************)
EXTENDS OrderedReference

CONSTANTS IntMax, SizeMax, IntBytes, EntryBytes

VARIABLES call, status, end

Init == call \in Call /\ status = "pending" /\ end = -1

WellFormed ==
  /\ call.nulls \cap {"end", "program", "code"} = {}
  /\ "input" \in call.nulls => call.input = <<>>
  /\ call.start <= Len(call.input) /\ Len(call.input) < IntMax
  /\ Validate(call.program, call.nulls)
  /\ \A k \in call.start + 1 .. Len(call.input) : call.input[k] <= UnitMax

Cells == Count(call.program) * (Len(call.input) - call.start + 1)

MemoBytes == IntBytes * Cells

(* A call may be refused for a limit if it has one, or if the machine's    *)
(* sizes are not much larger than its memo (a table that doubles at half   *)
(* load may need four slots a cell).                                       *)
Limited ==
  \/ \E f \in DOMAIN call.limits : call.limits[f] > 0
  \/ 4 * EntryBytes * Cells > SizeMax

(* A dense table that exceeds the caller's byte budget is always refused.  *)
MustRefuse ==
  call.limits.max_memo_bytes > 0 /\ MemoBytes > call.limits.max_memo_bytes

Verdict(answer) ==
  CASE answer = BadCycle -> "INVALID" [] answer = NoMatch -> "NOMATCH"
    [] OTHER -> "MATCH"

Reject == ~WellFormed /\ status' = "INVALID" /\ UNCHANGED end

Refuse ==
  /\ WellFormed
  /\ status' \in {"NOMEM"} \cup IF Limited THEN {"LIMIT"} ELSE {}
  /\ MustRefuse => status' = "LIMIT"
  /\ UNCHANGED end

Answer ==
  /\ WellFormed /\ ~MustRefuse
  /\ LET answer == Denotation(call.program, call.input, call.start)
     IN /\ status' = Verdict(answer)
        /\ end' = IF answer >= 0 THEN answer ELSE end

Next == status = "pending" /\ UNCHANGED call /\ (Reject \/ Refuse \/ Answer)

Spec == Init /\ [][Next]_<<call, status, end>>
=============================================================================
