---------------------------- MODULE BreContract ----------------------------
(***************************************************************************)
(* What maia_bre_exec_utf8 promises its caller, as one step (BRE_DESIGN.md,*)
(* maia_bre.h): one status; the output array changes with OK only; OK and  *)
(* NOMATCH are the denotation of the pattern on the decoded input, from    *)
(* the leftmost start that matches; a budget is refused with LIMIT, and    *)
(* never the default ones on the inputs considered.                        *)
(*                                                                         *)
(* call.ast is the syntax tree that call.program was compiled from.        *)
(***************************************************************************)
EXTENDS BreProgram

VARIABLES call, output, status

R == INSTANCE BreReference

Init == call = <<>> /\ status = "none" /\ output = <<>>

(* The caller calls.                                                       *)
Call == call = <<>> /\ call' # <<>> /\ UNCHANGED <<output, status>>

Width(k) ==
  LET sum[j \in 0 .. k] == IF j = 0 THEN 0 ELSE sum[j - 1] + call.input[j].width
  IN sum[k]

Pieces   == Len(call.input)
Total    == Width(Pieces)
Scalars  == [k \in DOMAIN call.input |-> call.input[k].value]
Faulty   == {k \in DOMAIN call.input : call.input[k].status # "OK"}
Starts   == {k \in 0 .. Pieces : Width(k) = call.start_byte}

ArgumentError ==
  \/ call.nulls \cap {"program", "input"} # {}
  \/ call.capacity > 0 /\ "output" \in call.nulls
  \/ call.capacity > MaxCaptures + 1
  \/ call.mode \notin {"SEARCH", "ANCHORED"}
  \/ call.start_byte > Total

Refusal ==
  IF LimitsStatus(call.limits) # "OK" THEN {LimitsStatus(call.limits)}
  ELSE IF ArgumentError THEN {"ARGUMENT"}
  ELSE {"NOMEM"} \cup IF call.limits = DefaultLimits THEN {} ELSE {"LIMIT"}

Refuse == status' \in Refusal /\ UNCHANGED output

InputError ==
  CASE Faulty # {} ->
         {call.input[k].status : k \in {k \in Faulty : \A j \in Faulty : k <= j}}
    [] Faulty = {} /\ Starts = {} -> {"ARGUMENT"}
    [] OTHER -> {}

Valid == LimitsStatus(call.limits) = "OK" /\ ~ArgumentError

RefuseInput == Valid /\ status' \in InputError /\ UNCHANGED output

Tried ==
  IF call.mode = "ANCHORED" THEN Starts
  ELSE {k \in 0 .. Pieces : \E s \in Starts : s <= k}

Matching == {k \in Tried : R!Matches(call.ast, Scalars, k) # {}}

Reported(span) ==
  IF span = R!None
  THEN [matched |-> 0, start_scalar |-> 0, end_scalar |-> 0,
        start_byte |-> 0, end_byte |-> 0]
  ELSE [matched |-> 1, start_scalar |-> span[1], end_scalar |-> span[2],
        start_byte |-> Width(span[1]), end_byte |-> Width(span[2])]

NoMatch ==
  /\ status' = "NOMATCH" /\ UNCHANGED output
  /\ Valid /\ InputError = {} /\ Matching = {}

Match ==
  /\ status' = "OK"
  /\ Valid /\ InputError = {}
  /\ \E k \in Matching :
       /\ \A j \in Matching : k <= j
       /\ \E m \in R!Matches(call.ast, Scalars, k) :
            output' = [g \in 1 .. call.capacity |-> Reported(m[g - 1])]

Answer ==
  /\ call # <<>> /\ status = "none" /\ UNCHANGED call
  /\ Refuse \/ RefuseInput \/ NoMatch \/ Match

Next == Call \/ Answer

Spec == Init /\ [][Next]_<<call, output, status>>
=============================================================================
