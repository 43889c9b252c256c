------------------------------ MODULE BreExec ------------------------------
(***************************************************************************)
(* maia_bre_exec_utf8 (maia_bre.c): the iterative executor of compiled     *)
(* basic regular expressions.  It tries the paths of the program one after *)
(* the other, with an explicit stack of the states to come back to, and    *)
(* keeps the best accepting one: the longest, then the one whose history   *)
(* of scopes ranks first.                                                  *)
(*                                                                         *)
(* `run` is BreRun, `current` and `best` are BreState, `call` the          *)
(* arguments.  The input is a sequence of pieces, what bre_utf8_next finds *)
(* at successive offsets: [value, width, status].  History records are     *)
(* numbered from 1 here, from 0 in the code.                               *)
(***************************************************************************)
EXTENDS BreHistory

CONSTANTS
  BaseBytes,     \* sizeof(BreRun) + 3 * sizeof(BreState) + sizeof(captures)
  UnitBytes,     \* 2 * sizeof(unsigned int)
  StateBytes,    \* sizeof(BreState)
  InitialStates, \* 4 in the code
  MayFail        \* the blocks whose allocation may fail

ASSUME ExecAssumption ==
  /\ {BaseBytes, UnitBytes, StateBytes, InitialStates} \subseteq Nat \ {0}
  /\ MayFail \subseteq {"units", "stack", "history", "priorities"}

VARIABLES
  call, pc, run, current, best, found, candidate,
  output,        \* what the caller's array holds, <<>> before it is written
  status         \* what the call returned

vars == <<call, pc, run, current, best, found, candidate, output, status>>

program == call.program
limits  == call.limits

(* How many bytes the first k pieces of an input have                      *)
WidthUpTo(input, k) ==
  LET sum[n \in 0 .. k] == IF n = 0 THEN 0 ELSE sum[n - 1] + input[n].width
  IN sum[k]

BytesUpTo(k) == WidthUpTo(call.input, k)

bytes   == BytesUpTo(Len(call.input))
length  == Len(run.units)

(* The outcomes of malloc in one step.                                     *)
Outcomes == {{}} \cup {{block} : block \in MayFail}

FreshState(p, at) ==
  [pc |-> p.entry, pos |-> at, loops |-> <<>>,
   begin |-> [g \in Slots |-> IF g = 0 THEN at ELSE NONE],
   end |-> [g \in Slots |-> NONE],
   history |-> NONE, group_history |-> [g \in Slots |-> 0]]

FreshRun(l) ==
  [limits |-> l, steps |-> 0, used |-> BaseBytes, error |-> "OK",
   stack |-> <<>>, capacity |-> 0, units |-> <<>>, offsets |-> <<>>,
   history |-> <<>>, history_capacity |-> 0, free |-> <<>>,
   history_order |-> 0, priority_capacity |-> 0]

Init ==
  /\ call = <<>> /\ pc = "idle" /\ run = <<>> /\ current = <<>> /\ best = <<>>
  /\ found = FALSE /\ candidate = 0
  /\ output = <<>> /\ status = "none"

(* The caller calls with the arguments x.                                  *)
Call(x) ==
  /\ pc = "idle" /\ pc' = "enter" /\ call' = x
  /\ run' = FreshRun(x.limits)
  /\ current' = FreshState(x.program, 0) /\ best' = FreshState(x.program, 0)
  /\ UNCHANGED <<found, candidate, output, status>>
-----------------------------------------------------------------------------
ArgumentsValid ==
  /\ call.nulls \cap {"program", "input"} = {}
  /\ call.capacity > 0 => "output" \notin call.nulls
  /\ call.capacity <= MaxCaptures + 1
  /\ call.mode \in {"SEARCH", "ANCHORED"}
  /\ call.start_byte <= bytes

Decoded == (bytes + 1) * UnitBytes

WithinSizes ==
  /\ bytes <= limits.max_input_bytes
  /\ CodeCount(program) <= limits.max_instructions
  /\ Len(program.ranges) <= limits.max_ranges
  /\ program.groups <= limits.max_captures
  /\ program.depth <= limits.max_parse_depth
  /\ program.repeat_bound <= limits.max_repeat
  /\ bytes + 1 <= SizeMax \div UnitBytes
  /\ BaseBytes + Decoded <= limits.max_workspace_bytes

Return(s) ==
  /\ pc' = "done" /\ status' = s
  /\ UNCHANGED <<call, run, current, best, found, candidate, output>>

RejectLimits ==
  pc = "enter" /\ LimitsStatus(limits) # "OK" /\ Return(LimitsStatus(limits))

Accepted == pc = "enter" /\ LimitsStatus(limits) = "OK"

RejectArguments == Accepted /\ ~ArgumentsValid /\ Return("ARGUMENT")

RejectSizes == Accepted /\ ArgumentsValid /\ ~WithinSizes /\ Return("LIMIT")

UnitsNoMem ==
  /\ Accepted /\ ArgumentsValid /\ WithinSizes
  /\ "units" \in MayFail
  /\ Return("NOMEM")

Allocate ==
  /\ Accepted /\ ArgumentsValid /\ WithinSizes
  /\ pc' = "decode"
  /\ run' = [run EXCEPT !.used = @ + Decoded]
  /\ UNCHANGED <<call, current, best, found, candidate, output, status>>
-----------------------------------------------------------------------------
(* Operators named for a slip are forms of the next definition that the    *)
(* runs are known to refute; nothing else refers to them.                  *)
AbandonReporting(r) ==
  /\ pc' = (IF found THEN "ended" ELSE "cleanup") /\ run' = r
  /\ UNCHANGED <<call, current, best, found, candidate, output, status>>

(* goto done, with the error in r                                          *)
Abandon(r) ==
  /\ pc' = "cleanup" /\ run' = r
  /\ UNCHANGED <<call, current, best, found, candidate, output, status>>

Piece == call.input[length + 1]

Decode ==
  /\ pc = "decode" /\ length < Len(call.input)
  /\ LET ticked == Tick(run, Piece.width)
     IN IF Piece.status # "OK" THEN Abandon(Failed(run, Piece.status))
        ELSE IF ~Ok(ticked) THEN Abandon(ticked)
        ELSE /\ run' = [ticked EXCEPT !.units = Append(@, Piece.value),
                                      !.offsets = Append(@, BytesUpTo(length))]
             /\ UNCHANGED <<call, pc, current, best, found, candidate, output, status>>

Start == {k \in 0 .. length : BytesUpTo(k) = call.start_byte}

StartInsideScalar ==
  /\ pc = "decode" /\ length = Len(call.input)
  /\ Start = {}
  /\ Abandon(Failed(run, "ARGUMENT"))

Begin(k) ==
  /\ candidate' = k /\ current' = FreshState(program, k)
  /\ pc' = "step"
  /\ UNCHANGED <<call, best, found, output, status>>

FirstCandidate ==
  /\ pc = "decode" /\ length = Len(call.input)
  /\ \E k \in Start : Begin(k)
  /\ run' = [run EXCEPT !.offsets = Append(@, bytes)]
-----------------------------------------------------------------------------
(* One turn of the inner loop: one step, one instruction.                  *)
Ticked == Tick(run, 1)
code   == Instr(program, current.pc)

InCode == current.pc \in 0 .. CodeCount(program) - 1

Misplaced ==
  code.op = "REPEAT_END" /\ (current.loops = <<>> \/ Last(current.loops).pc # code.a)

Abort ==
  /\ pc = "step"
  /\ Ok(Ticked) => ~InCode \/ Misplaced
  /\ Abandon(IF Ok(Ticked) THEN Failed(Ticked, "ARGUMENT") ELSE Ticked)

At(ops) == pc = "step" /\ Ok(Ticked) /\ InCode /\ ~Misplaced /\ code.op \in ops

(* Go on in state s with the run r, or give up when r has failed.          *)
Continue(r, s) ==
  /\ pc' = IF Ok(r) THEN pc ELSE "cleanup"
  /\ run' = r /\ current' = s
  /\ UNCHANGED <<call, best, found, candidate, output, status>>

Go(s, next) == [s EXCEPT !.pc = next]

(* Release the current state and take the latest alternative, if any.      *)
Backtrack(r) ==
  LET d == Drop(r, current.history)
  IN /\ UNCHANGED <<call, candidate, output, status>>
     /\ IF d.stack = <<>>
        THEN /\ pc' = "ended"
             /\ run' = d /\ current' = [current EXCEPT !.history = NONE]
        ELSE /\ pc' = "step"
             /\ run' = [d EXCEPT !.stack = Front(@)] /\ current' = Last(d.stack)

(* bre_push *)
Push(r, s, fails) ==
  LET most  == limits.max_frames - 1
      twice == IF r.capacity = 0 THEN InitialStates ELSE 2 * r.capacity
      cap   == IF twice > most THEN most ELSE twice
      grown == Grow(r, "stack", r.capacity, cap, StateBytes, fails)
      room  == IF Len(r.stack) < r.capacity THEN r
               ELSE IF Ok(grown) THEN [grown EXCEPT !.capacity = cap] ELSE grown
  IN IF Len(r.stack) >= most THEN Failed(r, "LIMIT")
     ELSE IF Ok(room) THEN [room EXCEPT !.stack = Append(@, s)] ELSE room
-----------------------------------------------------------------------------
(* A path is complete: is it better than the best one?                     *)
Ranking(fails) ==
  IF found /\ current.pos = best.pos
  THEN Better(Ticked, current.history, best.history, fails)
  ELSE <<Ticked, ~found \/ current.pos > best.pos>>

Rankings == {Ranking(fails) : fails \in Outcomes}

RankingFails ==
  At({"ACCEPT"}) /\ \E x \in Rankings : ~Ok(x[1]) /\ Abandon(x[1])

AcceptWorse ==
  /\ At({"ACCEPT"})
  /\ \E x \in Rankings : Ok(x[1]) /\ ~x[2] /\ Backtrack(x[1])
  /\ UNCHANGED <<best, found>>

AcceptBetter ==
  /\ At({"ACCEPT"})
  /\ \E x \in Rankings :
       /\ Ok(x[1]) /\ x[2]
       /\ Backtrack(Retain(Drop(x[1], best.history), current.history))
  /\ best' = [current EXCEPT !.end[0] = current.pos]
  /\ found' = TRUE

(* Every range of a class is looked at, and paid for.                      *)
Examined == Tick(Ticked, code.b)
Unit     == run.units[current.pos + 1]

Consume ==
  /\ At(Consuming) /\ current.pos < length
  /\ Ok(Examined) => Consumes(program, code, Unit)
  /\ Continue(Examined, [Go(current, code.next) EXCEPT !.pos = @ + 1])

Mismatch ==
  /\ At(Consuming)
  /\ \/ current.pos = length /\ Backtrack(Ticked)
     \/ /\ current.pos < length /\ Ok(Examined)
        /\ ~Consumes(program, code, Unit)
        /\ Backtrack(Examined)
  /\ UNCHANGED <<best, found>>

AtAnchor == current.pos = IF code.op = "BEGIN" THEN 0 ELSE length

AnchorHolds == At({"BEGIN", "END"}) /\ AtAnchor /\ Continue(Ticked, Go(current, code.next))

AnchorFails ==
  /\ At({"BEGIN", "END"}) /\ ~AtAnchor
  /\ Backtrack(Ticked)
  /\ UNCHANGED <<best, found>>
-----------------------------------------------------------------------------
OpenedOnce(s) ==
  LET inside == code.a .. code.b
  IN [Go(s, code.next) EXCEPT
        !.group_history[code.a] = IF s.begin[code.a] = NONE THEN s.history ELSE @,
        !.begin = [g \in Slots |-> IF g = code.a THEN s.pos
                                   ELSE IF g \in inside THEN NONE ELSE @[g]],
        !.end = [g \in Slots |-> IF g \in inside THEN NONE ELSE @[g]]]

OpenedKeepingEnds(s) ==
  LET inside == code.a .. code.b
  IN [Go(s, code.next) EXCEPT
        !.group_history[code.a] = s.history,
        !.begin = [g \in Slots |-> IF g = code.a THEN s.pos
                                   ELSE IF g \in inside THEN NONE ELSE @[g]]]

(* A new participation of a group forgets the groups inside it.            *)
Opened(s) ==
  LET inside == code.a .. code.b
  IN [Go(s, code.next) EXCEPT
        !.group_history[code.a] = s.history,
        !.begin = [g \in Slots |-> IF g = code.a THEN s.pos
                                   ELSE IF g \in inside THEN NONE ELSE @[g]],
        !.end = [g \in Slots |-> IF g \in inside THEN NONE ELSE @[g]]]

Tags(kind, key, open) ==
  {Tag(Ticked, current, kind, key, open, fails) : fails \in Outcomes}

Open ==
  /\ At({"OPEN"})
  /\ \E t \in Tags(0, code.max, NONE) :
       Continue(t[1], IF Ok(t[1]) THEN Opened(t[2]) ELSE current)

Closed(s) == [Go(s, code.next) EXCEPT !.end[code.a] = s.pos]

Close ==
  /\ At({"CLOSE"})
  /\ \E t \in Tags(1, 0, current.group_history[code.a]) :
       Continue(t[1], IF Ok(t[1]) THEN Closed(t[2]) ELSE current)

(* A back reference reads again what its group captured.                   *)
first == current.begin[code.a]
size  == current.end[code.a] - first

Captured == current.begin[code.a] # NONE /\ current.end[code.a] # NONE
Fits     == Captured /\ size <= length - current.pos

Differing ==
  {j \in 1 .. size : run.units[first + j] # run.units[current.pos + j]}

Compare == Tick(Ticked, IF Differing = {} THEN size ELSE Min(Differing))

Reference ==
  /\ At({"REF"}) /\ Fits
  /\ Ok(Compare) => Differing = {}
  /\ Continue(Compare, [Go(current, code.next) EXCEPT !.pos = @ + size])

ReferenceFails ==
  /\ At({"REF"})
  /\ \/ ~Fits /\ Backtrack(Ticked)
     \/ Fits /\ Ok(Compare) /\ Differing # {} /\ Backtrack(Compare)
  /\ UNCHANGED <<best, found>>
-----------------------------------------------------------------------------
(* A loop starts with its scope; at the limit of nesting it cannot.        *)
NewLoop(s) == s.loops = <<>> \/ Last(s.loops).pc # s.pc

Entered(s) ==
  [s EXCEPT !.loops = Append(@, [pc |-> s.pc, count |-> 0, start |-> s.pos,
                                 zero |-> FALSE, history_open |-> NONE])]

Opening(t) ==
  IF Ok(t[1])
  THEN <<t[1], [t[2] EXCEPT !.loops[Len(t[2].loops)].history_open = t[2].history]>>
  ELSE <<t[1], current>>

Looping(fails) ==
  IF ~NewLoop(current) THEN <<Ticked, current>>
  ELSE IF Len(current.loops) = MaxLoops THEN <<Failed(Ticked, "LIMIT"), current>>
  ELSE Opening(Tag(Ticked, Entered(current), 0, code.b, NONE, fails))

(* At a REPEAT, in its loop: the pairs of run and state to go on from      *)
Loopings == {Looping(fails) : fails \in Outcomes}

CanExit(s) == Last(s.loops).count >= code.min

CanEnter(s) ==
  LET loop == Last(s.loops)
  IN loop.count < code.max /\ (loop.zero => loop.count < code.min)

Iterate(s) == [Go(s, code.a) EXCEPT !.loops[Len(s.loops)].start = s.pos]

Exits(r, s) ==
  {Tag(r, [Go(s, code.next) EXCEPT !.loops = Front(@)], 1, 0,
       Last(s.loops).history_open, fails) : fails \in Outcomes}

SharedStill(pushed, x) == pushed

(* The exit x is left for later, as a state of its own that shares the     *)
(* history; a failure gives that share back.                               *)
Shared(pushed, x) == IF Ok(pushed) THEN pushed ELSE Drop(pushed, x[2].history)

Deferred(x, fails) ==
  Shared(IF Ok(x[1]) THEN Push(x[1], x[2], fails) ELSE x[1], x)

LoopFails == At({"REPEAT"}) /\ \E l \in Loopings : ~Ok(l[1]) /\ Abandon(l[1])

Fork ==
  /\ At({"REPEAT"})
  /\ \E l \in Loopings :
       /\ Ok(l[1]) /\ CanExit(l[2]) /\ CanEnter(l[2])
       /\ \E x \in Exits(Retain(l[1], l[2].history), l[2]) :
          \E r \in {Deferred(x, fails) : fails \in Outcomes} :
            Continue(r, IF Ok(r) THEN Iterate(l[2]) ELSE l[2])

MustIterate ==
  /\ At({"REPEAT"})
  /\ \E l \in Loopings :
       /\ Ok(l[1]) /\ ~CanExit(l[2]) /\ CanEnter(l[2])
       /\ Continue(l[1], Iterate(l[2]))

(* min <= max in every program: a loop that cannot iterate can exit, and   *)
(* the branch that would backtrack here is never taken.                    *)
MustExit ==
  /\ At({"REPEAT"})
  /\ \E l \in Loopings :
       /\ Ok(l[1]) /\ CanExit(l[2]) /\ ~CanEnter(l[2])
       /\ \E x \in Exits(l[1], l[2]) : Continue(x[1], IF Ok(x[1]) THEN x[2] ELSE l[2])

(* An optional iteration after the first must not be empty.                *)
loop == Last(current.loops)

Empty == current.pos = loop.start

EmptyIterationAtOnce == Empty /\ loop.count > 0

EmptyIteration ==
  Empty /\ loop.count > 0 /\ loop.count >= Instr(program, loop.pc).min

IterationDone ==
  /\ At({"REPEAT_END"}) /\ ~EmptyIteration
  /\ Continue(Ticked, [Go(current, loop.pc) EXCEPT
                         !.loops[Len(current.loops)].zero = Empty,
                         !.loops[Len(current.loops)].count = @ + 1])

IterationRefused ==
  /\ At({"REPEAT_END"}) /\ EmptyIteration
  /\ Backtrack(Ticked)
  /\ UNCHANGED <<best, found>>
-----------------------------------------------------------------------------
(* All paths from this candidate are explored.                             *)
NextCandidate ==
  /\ pc = "ended" /\ ~found
  /\ call.mode = "SEARCH" /\ candidate < length
  /\ Begin(candidate + 1)
  /\ UNCHANGED run

NoMatch ==
  /\ pc = "ended" /\ ~found
  /\ call.mode = "ANCHORED" \/ candidate = length
  /\ Abandon(Failed(run, "NOMATCH"))

Capture(g) ==
  LET b == best.begin[g]
      e == best.end[g]
  IN IF g <= program.groups /\ b # NONE /\ e # NONE
     THEN [matched |-> 1, start_scalar |-> b, end_scalar |-> e,
           start_byte |-> run.offsets[b + 1], end_byte |-> run.offsets[e + 1]]
     ELSE [matched |-> 0, start_scalar |-> 0, end_scalar |-> 0,
           start_byte |-> 0, end_byte |-> 0]

Report ==
  /\ pc = "ended" /\ found
  /\ output' = [k \in 1 .. call.capacity |-> Capture(k - 1)]
  /\ pc' = "cleanup"
  /\ UNCHANGED <<call, run, current, best, found, candidate, status>>

(* The end of the function: every reference is given back, then the blocks.*)
Cleanup ==
  /\ pc = "cleanup" /\ pc' = "release"
  /\ run' = Drop(Drop(run, current.history), best.history)
  /\ UNCHANGED <<call, current, best, found, candidate, output, status>>

ReleaseState ==
  /\ pc = "release" /\ run.stack # <<>>
  /\ run' = [Drop(run, Last(run.stack).history) EXCEPT !.stack = Front(@)]
  /\ UNCHANGED <<call, pc, current, best, found, candidate, output, status>>

Finish ==
  /\ pc = "release" /\ run.stack = <<>>
  /\ Return(run.error)

Enters == RejectLimits \/ RejectArguments \/ RejectSizes \/ UnitsNoMem \/ Allocate

Decodes == Decode \/ StartInsideScalar \/ FirstCandidate

Steps ==
  \/ Abort \/ RankingFails \/ AcceptWorse \/ AcceptBetter \/ Consume \/ Mismatch
  \/ AnchorHolds \/ AnchorFails \/ Open \/ Close \/ Reference \/ ReferenceFails
  \/ LoopFails \/ Fork \/ MustIterate \/ MustExit \/ IterationDone
  \/ IterationRefused

Ends ==
  NextCandidate \/ NoMatch \/ Report \/ Cleanup \/ ReleaseState \/ Finish

Next == Enters \/ Decodes \/ Steps \/ Ends

-----------------------------------------------------------------------------
(* The state is what the code's types allow, and indices stay in range.    *)
StateOK(s) ==
  /\ s.pos \in 0 .. length /\ Len(s.loops) <= MaxLoops
  /\ \A k \in DOMAIN s.loops :
       /\ s.loops[k].pc \in 0 .. CodeCount(program) - 1
       /\ s.loops[k].count \in 0 .. UIntMax /\ s.loops[k].start \in 0 .. s.pos
       /\ s.loops[k].zero \in BOOLEAN
  /\ {s.begin, s.end} \subseteq [Slots -> -1 .. length]
  /\ s.group_history \in [Slots -> 0 .. Len(run.history)]
  /\ s.history \in {NONE} \cup DOMAIN run.history

Searching == pc \in {"step", "ended", "cleanup", "release"}

TypeOK ==
  /\ pc \in {"idle", "enter", "decode", "step", "ended", "cleanup", "release", "done"}
  /\ found \in BOOLEAN /\ candidate \in Nat
  /\ pc = "step" => /\ candidate <= length /\ Len(run.offsets) = length + 1
                    /\ \A s \in ToSet(run.stack) \cup {current, best} : StateOK(s)
  /\ status # "none" <=> pc = "done"

(* The states that hold a reference to a history, until the call returns.  *)
Holders ==
  CASE pc \in {"idle", "done"} -> <<>>
    [] pc = "release" -> run.stack
    [] OTHER -> Append(Append(run.stack, best), current)

(* Reference counts are exact: a record's count is the number of states    *)
(* and of records in use that refer to it, the records without references  *)
(* are the free list, each once, and none is left when the call returns.   *)
(* (bre_history_retain, _drop and _tag against every path through the      *)
(* executor, the failing ones included)                                    *)
RefsExact ==
  LET InUse == {n \in DOMAIN run.history : Node(run, n).refs > 0}
      Held(n) == Cardinality({k \in DOMAIN Holders : Holders[k].history = n})
                 + Cardinality({m \in InUse : Node(run, m).prev = n})
  IN pc # "idle" =>
     /\ \A n \in DOMAIN run.history : Node(run, n).refs = Held(n)
     /\ ToSet(run.free) = DOMAIN run.history \ InUse
     /\ IsInjective(run.free)

(* Histories nest: serials fall along a chain, a closing record names the  *)
(* latest opening not yet closed before it, and the openings of a state's  *)
(* running loops are among those left open, outermost last.  `open` and    *)
(* history_open are indices without a reference of their own; this is why  *)
(* the records they name are never reused under them.                      *)
Unclosed(opens, n) ==
  LET record == Node(run, n)
      matches == opens # <<>> /\ record.open = Head(opens)
  IN CASE record.kind = 0 -> <<n>> \o opens
       [] record.kind = 1 /\ matches -> Tail(opens)
       [] OTHER -> <<NONE>>

ScopesNest ==
  pc = "step" =>
    \A s \in ToSet(Holders) :
      LET chain  == Chain(run, s.history)
          opens  == FoldLeft(Unclosed, <<>>, Reverse(chain))
          loops  == [k \in DOMAIN s.loops |-> s.loops[k].history_open]
          orders == [k \in DOMAIN chain |-> Node(run, chain[k]).order]
      IN /\ NONE \notin ToSet(opens)
         /\ \A k \in 2 .. Len(orders) : orders[k] < orders[k - 1]
         /\ loops = SelectSeq(Reverse(opens), LAMBDA n : n \in ToSet(loops))

(* What is accounted for is what is allocated, within the budget, and the  *)
(* stack and the arena stay within their blocks.                           *)
AccountsExact ==
  Searching =>
    /\ run.used = BaseBytes + Decoded + run.capacity * StateBytes
                  + run.history_capacity * NodeBytes
                  + run.priority_capacity * PriorityBytes
    /\ run.used <= limits.max_workspace_bytes /\ run.steps <= limits.max_steps
    /\ Len(run.stack) <= run.capacity /\ run.capacity <= limits.max_frames - 1
    /\ Len(run.history) <= run.history_capacity

(* Captures are intervals of what was matched: the unsigned subtraction of *)
(* a back reference and the offsets of the report never go wrong.          *)
SpansOrdered ==
  Searching =>
    \A s \in ToSet(Holders) : \A g \in Slots :
      s.begin[g] # NONE /\ s.end[g] # NONE =>
        s.begin[0] <= s.begin[g] /\ s.begin[g] <= s.end[g] /\ s.end[g] <= s.pos
=============================================================================
