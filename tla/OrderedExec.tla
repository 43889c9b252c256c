----------------------------- MODULE OrderedExec -----------------------------
(***************************************************************************)
(* maia_regex_exec (maia_regex.c): one call of the ordered program engine. *)
(*                                                                         *)
(* The engine walks the pairs (instruction, position) depth first with an  *)
(* explicit stack of frames and a memo with one cell per pair.  A cell is  *)
(* UNVISITED, VISITING while a frame works on it, FAILED, or holds the end *)
(* of the match plus one.  The memo is a dense array or, when the caller   *)
(* gives no byte budget and the grid is large, a hash table that holds the *)
(* visited cells only; here the table is the set `keys` of its occupied    *)
(* cells and its capacity `slots` (its probing is another module's).       *)
(*                                                                         *)
(* A turn of the C loop is Turn (step budget, memo_slot), then one of the  *)
(* dispatch actions, then Descend if a child frame has to be pushed.       *)
(* Every allocation may fail.  `heap` is the set of blocks the call owns.  *)
(* Positions are offsets into the input, from 0.                           *)
(***************************************************************************)
EXTENDS OrderedProgram, FiniteSets

CONSTANTS
  Calls,          \* the argument lists a caller may pass
  IntMax,         \* INT_MAX
  SizeMax,        \* (size_t)-1
  IntBytes,       \* sizeof(int)
  FrameBytes,     \* sizeof(MaiaRegexFrame)
  EntryBytes,     \* sizeof(MaiaRegexMemoEntry)
  InitialFrames,  \* 64 in the code
  InitialSlots    \* 16 in the code

ASSUME ConstantsAssumption ==
  /\ Calls \subseteq Call
  /\ {IntMax, SizeMax} \subseteq Nat
  /\ {IntBytes, FrameBytes, EntryBytes, InitialFrames} \subseteq Nat \ {0}
  /\ InitialSlots \in Nat /\ InitialSlots >= 2

UNVISITED == 0
VISITING  == -2
FAILED    == -1

(* Return values; the loop runs while result is MATCH.                     *)
Statuses == {"MATCH", "NOMATCH", "INVALID", "NOMEM", "LIMIT"}

Untouched == -1                      \* what *end held before the call

VARIABLES
  call,       \* the arguments of this call, fixed
  pc,         \* where the call is
  frames,     \* the stack, its top last; depth = Len(frames)
  capacity,   \* frames the allocated block holds
  memo,       \* value of every cell
  keys,       \* sparse only: occupied cells
  slots,      \* sparse only: capacity of the table
  heap,       \* blocks allocated and not yet freed
  child,      \* child_instruction and child_position
  last,       \* end of the match of the last finished frame, or -1
  epoch,      \* cycle_epoch
  steps,
  result,
  end         \* the caller's *end

vars == <<call, pc, frames, capacity, memo, keys, slots, heap, child, last,
          epoch, steps, result, end>>

program == call.program
input   == call.input
start   == call.start
limits  == call.limits
length  == Len(input)
columns == length - start + 1
cells   == Count(program) * columns
Cells   == 0 .. cells - 1

(* Operators named for a slip are the forms of the next definition that the*)
(* runs are known to refute; nothing else refers to them.                  *)
CellFromRowOne(i, p) == (i + 1) * columns + p - start

Cell(i, p) == i * columns + p - start          \* `slot` in the code

Top  == frames[Len(frames)]
code == Instr(program, Top.instruction)
Here == Cell(Top.instruction, Top.position)

(* The dense array serves an explicit byte budget and small grids.         *)
Dense == \/ limits.max_memo_bytes > 0
         \/ cells <= (InitialSlots * EntryBytes) \div IntBytes

MemoBlock == IF Dense THEN "memo" ELSE "entries"

CappedFrames(n) ==
  IF limits.max_frames > 0 /\ n > limits.max_frames THEN limits.max_frames ELSE n

(* The first test of the function, in one piece with the scan of the input *)
(* from start on.                                                          *)
ArgumentsValid ==
  /\ "end" \notin call.nulls
  /\ start <= length
  /\ length <= IntMax - 1
  /\ length > 0 => "input" \notin call.nulls
  /\ Validate(program, call.nulls)
  /\ \A k \in start + 1 .. length : input[k] <= UnitMax

WithinSizesOfType ==
  /\ Count(program) <= (SizeMax \div IntBytes) \div columns
  /\ CappedFrames(InitialFrames) <= SizeMax \div FrameBytes

WithinSizes ==
  /\ Count(program) <= (SizeMax \div IntBytes) \div columns
  /\ limits.max_memo_bytes > 0 => cells <= limits.max_memo_bytes \div IntBytes
  /\ CappedFrames(InitialFrames) <= SizeMax \div FrameBytes
-----------------------------------------------------------------------------
Init ==
  /\ call \in Calls
  /\ pc = "enter"
  /\ frames = <<>> /\ capacity = 0
  /\ memo = [c \in Cells |-> UNVISITED] /\ keys = {} /\ slots = 0
  /\ heap = {}
  /\ child = [instruction |-> 0, position |-> 0]
  /\ last = -1 /\ epoch = 0 /\ steps = 0
  /\ result = "MATCH" /\ end = Untouched

(* return before anything was allocated                                    *)
Return(status) ==
  /\ pc' = "returned" /\ result' = status
  /\ UNCHANGED <<call, frames, capacity, memo, keys, slots, heap, child, last,
                 epoch, steps, end>>

RejectArguments == pc = "enter" /\ ~ArgumentsValid /\ Return("INVALID")

RejectSizes ==
  pc = "enter" /\ ArgumentsValid /\ ~WithinSizes /\ Return("LIMIT")

MemoNoMem == pc = "enter" /\ ArgumentsValid /\ WithinSizes /\ Return("NOMEM")

AllocateMemo ==
  /\ pc = "enter" /\ ArgumentsValid /\ WithinSizes
  /\ pc' = "frames"
  /\ heap' = {MemoBlock}
  /\ slots' = IF Dense THEN 0 ELSE InitialSlots
  /\ UNCHANGED <<call, frames, capacity, memo, keys, child, last, epoch, steps,
                 result, end>>

FramesNoMemKeepsTable ==
  /\ pc = "frames"
  /\ pc' = "returned" /\ result' = "NOMEM" /\ heap' = heap \ {"memo"}
  /\ UNCHANGED <<call, frames, capacity, memo, keys, slots, child, last, epoch,
                 steps, end>>

FramesNoMem ==
  /\ pc = "frames"
  /\ pc' = "returned" /\ result' = "NOMEM" /\ heap' = {}
  /\ UNCHANGED <<call, frames, capacity, memo, keys, slots, child, last, epoch,
                 steps, end>>

NewFrame(i, p, depth) ==
  [instruction |-> i, position |-> p, phase |-> 0, assertion_depth |-> depth,
   cycle_epoch |-> epoch]

AllocateFrames ==
  /\ pc = "frames"
  /\ pc' = "loop"
  /\ heap' = heap \cup {"frames"}
  /\ capacity' = CappedFrames(InitialFrames)
  /\ frames' = <<NewFrame(program.entry, start, 0)>>
  /\ UNCHANGED <<call, memo, keys, slots, child, last, epoch, steps, result, end>>
-----------------------------------------------------------------------------
(* Top of the loop: the step budget, then memo_slot, which may have to     *)
(* insert the cell and to double the table first.                          *)
AtTurn == pc = "loop" /\ frames # <<>>

StepsLeft == limits.max_steps = 0 \/ steps < limits.max_steps

Break(status) ==
  /\ pc' = "cleanup" /\ result' = status
  /\ UNCHANGED <<call, frames, capacity, memo, keys, slots, heap, child, last,
                 epoch, end>>

OutOfSteps == AtTurn /\ ~StepsLeft /\ Break("LIMIT") /\ UNCHANGED steps

CountStep == steps' = IF limits.max_steps > 0 THEN steps + 1 ELSE steps

PresentByAnyKey  == Dense \/ keys # {}
Present   == Dense \/ Here \in keys
MustGrowTooLate  == ~Present /\ Cardinality(keys) > slots \div 2
MustGrow  == ~Present /\ Cardinality(keys) >= slots \div 2
CanDouble == slots <= (SizeMax \div EntryBytes) \div 2

TableLimit ==
  AtTurn /\ StepsLeft /\ MustGrow /\ ~CanDouble /\ Break("LIMIT") /\ CountStep

TableNoMem ==
  AtTurn /\ StepsLeft /\ MustGrow /\ CanDouble /\ Break("NOMEM") /\ CountStep

Turn ==
  /\ AtTurn /\ StepsLeft /\ (MustGrow => CanDouble)
  /\ CountStep
  /\ keys' = IF Present THEN keys ELSE keys \cup {Here}
  /\ memo' = IF Present THEN memo ELSE [memo EXCEPT ![Here] = UNVISITED]
  /\ slots' = IF MustGrow THEN 2 * slots ELSE slots
  /\ pc' = "visit"
  /\ UNCHANGED <<call, frames, capacity, heap, child, last, epoch, result, end>>
-----------------------------------------------------------------------------
(* Dispatch on the top frame.  Pop leaves the frame with answer l;         *)
(* Finish also stores it in the memo, unless a cycle was cut since the     *)
(* frame was entered; GoTo sets the frame's phase and asks for a child.    *)
Fresh   == pc = "visit" /\ Top.phase = 0
Visiting == Fresh /\ memo[Here] = VISITING

Static == UNCHANGED <<call, capacity, keys, slots, heap, steps, end>>

Pop(l) ==
  /\ frames' = SubSeq(frames, 1, Len(frames) - 1)
  /\ last' = l
  /\ pc' = "loop"
  /\ UNCHANGED <<child, result>>

CachedAlways(l, since) == IF l < 0 THEN FAILED ELSE l + 1

Cached(l, since) ==
  IF since # epoch THEN UNVISITED ELSE IF l < 0 THEN FAILED ELSE l + 1

Finish(l, since) ==
  /\ Pop(l)
  /\ memo' = [memo EXCEPT ![Here] = Cached(l, since)]
  /\ UNCHANGED epoch
  /\ Static

GoTo(phase, i, p, since) ==
  /\ frames' = [frames EXCEPT ![Len(frames)] =
                  [Top EXCEPT !.phase = phase, !.cycle_epoch = since]]
  /\ child' = [instruction |-> i, position |-> p]
  /\ pc' = "descend"
  /\ UNCHANGED <<epoch, result>>
  /\ Static

(* the innermost active frame, below the top, on the same cell             *)
Ancestors ==
  {k \in 1 .. Len(frames) - 1 : /\ frames[k].instruction = Top.instruction
                                /\ frames[k].position = Top.position}

SameAssertionAssumed == Ancestors # {}

SameAssertion ==
  \E k \in Ancestors :
    /\ \A j \in Ancestors : j <= k
    /\ frames[k].assertion_depth = Top.assertion_depth

CycleAcrossAssertion ==
  /\ Visiting /\ ~SameAssertion /\ Break("INVALID") /\ UNCHANGED steps

EpochLimit ==
  /\ Visiting /\ SameAssertion /\ epoch = SizeMax
  /\ Break("LIMIT") /\ UNCHANGED steps

CutCycleReleases ==
  /\ Visiting /\ SameAssertion /\ epoch # SizeMax
  /\ Pop(-1)
  /\ epoch' = epoch + 1
  /\ memo' = [memo EXCEPT ![Here] = UNVISITED]
  /\ Static

CutCycleFlushes ==
  /\ Visiting /\ SameAssertion /\ epoch # SizeMax
  /\ Pop(-1)
  /\ epoch' = epoch + 1
  /\ memo' = [c \in Cells |-> IF memo[c] = VISITING THEN VISITING ELSE UNVISITED]
  /\ Static

CutCycle ==
  /\ Visiting /\ SameAssertion /\ epoch # SizeMax
  /\ Pop(-1)
  /\ epoch' = epoch + 1
  /\ UNCHANGED memo
  /\ Static

ReuseKeepsFrame ==
  /\ Fresh /\ memo[Here] \notin {UNVISITED, VISITING}
  /\ last' = IF memo[Here] > 0 THEN memo[Here] - 1 ELSE -1
  /\ pc' = "loop"
  /\ UNCHANGED <<frames, child, result, memo, epoch>>
  /\ Static

ReuseUndecoded ==
  /\ Fresh /\ memo[Here] \notin {UNVISITED, VISITING}
  /\ Pop(memo[Here])
  /\ UNCHANGED <<memo, epoch>>
  /\ Static

Reuse ==
  /\ Fresh /\ memo[Here] \notin {UNVISITED, VISITING}
  /\ Pop(IF memo[Here] > 0 THEN memo[Here] - 1 ELSE -1)
  /\ UNCHANGED <<memo, epoch>>
  /\ Static

First == Fresh /\ memo[Here] = UNVISITED

(* memo := VISITING and last := -1, then a child                           *)
Enter(phase, i, p) ==
  /\ GoTo(phase, i, p, epoch)
  /\ memo' = [memo EXCEPT ![Here] = VISITING]
  /\ last' = -1

Accept == First /\ code.op = "ACCEPT" /\ Finish(Top.position, epoch)

EnterSplit ==
  First /\ code.op = "SPLIT" /\ Enter(1, code.first, Top.position)

EnterAssertion ==
  First /\ code.op \in Assertions /\ Enter(4, code.first, Top.position)

(* END at the end of the buffer, or a consuming instruction whose unit     *)
(* matches                                                                 *)
Passes ==
  \/ code.op = "END" /\ Top.position = length
  \/ /\ code.op \in Consuming /\ Top.position < length
     /\ Consumes(program, code, input[Top.position + 1])

Advance ==
  /\ First /\ Passes
  /\ Enter(3, code.next,
           IF code.op = "END" THEN Top.position ELSE Top.position + 1)

Mismatch ==
  /\ First /\ code.op \in {"END"} \cup Consuming /\ ~Passes
  /\ Finish(-1, epoch)

Resumed == pc = "visit" /\ Top.phase # 0

SecondBranchRepeatsFirst ==
  /\ Resumed /\ Top.phase = 1 /\ last < 0
  /\ GoTo(2, code.first, Top.position, Top.cycle_epoch)
  /\ UNCHANGED <<memo, last>>

SecondBranch ==
  /\ Resumed /\ Top.phase = 1 /\ last < 0
  /\ GoTo(2, code.second, Top.position, Top.cycle_epoch)
  /\ UNCHANGED <<memo, last>>

Holds == (last < 0) = (code.op = "NEGATIVE")

AssertionHolds ==
  /\ Resumed /\ Top.phase = 4 /\ Holds
  /\ GoTo(3, code.next, Top.position, Top.cycle_epoch)
  /\ UNCHANGED <<memo, last>>

AssertionFails ==
  Resumed /\ Top.phase = 4 /\ ~Holds /\ Finish(-1, Top.cycle_epoch)

Done ==
  /\ Resumed /\ Top.phase \in {1, 2, 3} /\ (Top.phase = 1 => last >= 0)
  /\ Finish(last, Top.cycle_epoch)
-----------------------------------------------------------------------------
(* Push the child: frame budget, then the growth of the block.             *)
OverBudget == limits.max_frames > 0 /\ Len(frames) >= limits.max_frames

Full == Len(frames) = capacity

FramesDoubleUnhalved == capacity <= SizeMax \div FrameBytes

FramesDouble == capacity <= (SizeMax \div FrameBytes) \div 2

FrameLimit ==
  /\ pc = "descend" /\ (OverBudget \/ (Full /\ ~FramesDouble))
  /\ Break("LIMIT") /\ UNCHANGED steps

GrowNoMem ==
  /\ pc = "descend" /\ ~OverBudget /\ Full /\ FramesDouble
  /\ Break("NOMEM") /\ UNCHANGED steps

(* assertion depth of what frame f waits for                               *)
Inside(f) == f.assertion_depth + IF f.phase = 4 THEN 1 ELSE 0

Descend ==
  /\ pc = "descend" /\ ~OverBudget /\ (Full => FramesDouble)
  /\ capacity' = IF Full THEN CappedFrames(2 * capacity) ELSE capacity
  /\ frames' = Append(frames,
                 NewFrame(child.instruction, child.position, Inside(Top)))
  /\ pc' = "loop"
  /\ UNCHANGED <<call, memo, keys, slots, heap, child, last, epoch, steps,
                 result, end>>

(* depth 0: leave the loop normally                                        *)
StackEmpty ==
  /\ pc = "loop" /\ frames = <<>>
  /\ pc' = "cleanup"
  /\ UNCHANGED <<call, frames, capacity, memo, keys, slots, heap, child, last,
                 epoch, steps, result, end>>

(* The common exit: free all, and write *end for a match only.             *)
Cleanup ==
  /\ pc = "cleanup"
  /\ pc' = "returned"
  /\ heap' = heap \ {"frames", "memo", "entries"}
  /\ result' = IF result = "MATCH" /\ last < 0 THEN "NOMATCH" ELSE result
  /\ end' = IF result = "MATCH" /\ last >= 0 THEN last ELSE end
  /\ UNCHANGED <<call, frames, capacity, memo, keys, slots, child, last, epoch,
                 steps>>
-----------------------------------------------------------------------------
Enters == \/ RejectArguments \/ RejectSizes \/ MemoNoMem \/ AllocateMemo
          \/ FramesNoMem \/ AllocateFrames

Turns == OutOfSteps \/ TableLimit \/ TableNoMem \/ Turn

Dispatches ==
  \/ CycleAcrossAssertion \/ EpochLimit \/ CutCycle \/ Reuse
  \/ Accept \/ EnterSplit \/ EnterAssertion \/ Advance \/ Mismatch
  \/ SecondBranch \/ AssertionHolds \/ AssertionFails \/ Done

Pushes == FrameLimit \/ GrowNoMem \/ Descend

Next == Enters \/ Turns \/ Dispatches \/ Pushes \/ StackEmpty \/ Cleanup

(* The call is a sequential function: it is only assumed to be scheduled.  *)
Spec == Init /\ [][Next]_vars /\ WF_vars(Next)
-----------------------------------------------------------------------------
Frame == [instruction: Nat, position: Nat, phase: 0 .. 4,
          assertion_depth: Nat, cycle_epoch: Nat]

TypeOK ==
  /\ call \in Call
  /\ pc \in {"enter", "frames", "loop", "visit", "descend", "cleanup", "returned"}
  /\ frames \in Seq(Frame)
  /\ capacity \in Nat
  /\ memo \in [Cells -> Int]
  /\ keys \subseteq Cells
  /\ slots \in Nat
  /\ heap \subseteq {"memo", "entries", "frames"}
  /\ child \in [instruction: Nat, position: Nat]
  /\ last \in Int /\ epoch \in Nat /\ steps \in Nat
  /\ result \in Statuses /\ end \in Int

Searching == pc \in {"loop", "visit", "descend"}

Working(k) == frames[k].phase # 0
CellOf(k)  == Cell(frames[k].instruction, frames[k].position)

(* While the engine searches, a cell is VISITING exactly when a frame on   *)
(* the stack works on it, and never two frames work on one cell: the       *)
(* ancestor scan of the cycle test always finds one frame, so INVALID can  *)
(* only come from a real reentry across an assertion.                      *)
VisitingIsActive ==
  Searching =>
    /\ \A c \in Cells : memo[c] = VISITING <=>
         \E k \in DOMAIN frames : Working(k) /\ CellOf(k) = c
    /\ \A j, k \in DOMAIN frames :
         Working(j) /\ Working(k) /\ CellOf(j) = CellOf(k) => j = k

(* The stack is never deeper than the grid has cells, plus the frame that  *)
(* is about to discover a cycle; it stays within the allocated block and   *)
(* within the caller's frame budget, and no block size wraps in size_t.    *)
StackBounded ==
  Searching =>
    /\ Len(frames) <= cells + 1
    /\ Len(frames) <= capacity
    /\ limits.max_frames > 0 => capacity <= limits.max_frames
    /\ capacity * FrameBytes <= SizeMax

(* Open addressing terminates: the table is at most half full, so that a   *)
(* probe always meets an empty slot, and its size never wraps.             *)
TableHalfEmpty ==
  Searching /\ ~Dense =>
    /\ 2 * Cardinality(keys) <= slots
    /\ slots * EntryBytes <= SizeMax

(* A cell with a value has a slot, and a frame that was already visited    *)
(* finds its cell without inserting or growing, also after its value was   *)
(* reset to UNVISITED by a cut below it.                                   *)
ValuesHaveSlots ==
  Searching /\ ~Dense =>
    /\ \A c \in Cells : memo[c] # UNVISITED => c \in keys
    /\ \A k \in DOMAIN frames : Working(k) => CellOf(k) \in keys

(* Occupied slots stay occupied and completed results are never withdrawn: *)
(* only VISITING cells change their value once they hold one.              *)
ResultsPersist ==
  [][pc # "enter" =>
       /\ keys \subseteq keys'
       /\ \A c \in Cells : memo[c] \notin {UNVISITED, VISITING} =>
            memo'[c] = memo[c]]_vars

(* The pair a working frame waits for, by its phase.                       *)
WaitsFor(f) ==
  LET c == Instr(program, f.instruction)
  IN [instruction |-> CASE f.phase \in {1, 4} -> c.first
                        [] f.phase = 2 -> c.second
                        [] OTHER -> c.next,
      position |-> IF f.phase = 3 /\ c.op \in Consuming THEN f.position + 1
                   ELSE f.position]

(* The stack is one path through the program from the entry: each frame is *)
(* what the frame under it waits for in its present phase, one assertion   *)
(* deeper exactly if that frame evaluates an assertion body.               *)
StackIsPath ==
  Searching =>
    /\ frames # <<>> =>
         /\ frames[1].instruction = program.entry
         /\ frames[1].position = start
         /\ frames[1].assertion_depth = 0
    /\ \A k \in 1 .. Len(frames) - 1 :
         /\ frames[k + 1].instruction = WaitsFor(frames[k]).instruction
         /\ frames[k + 1].position = WaitsFor(frames[k]).position
         /\ frames[k + 1].assertion_depth = Inside(frames[k])
    /\ pc = "descend" => child = WaitsFor(Top)

(* The match relation of a program on this input, as a set of triples      *)
(* <<i, p, e>>, "instruction i at p can match up to e": M is closed under  *)
(* its rules.  A negative assertion contributes no premise, a positive one *)
(* needs a match of its body.                                              *)
Triples == (0 .. Count(program) - 1) \X (start .. length) \X (start .. length)

(* what instruction i at p is entitled to, given M                         *)
Justified(M, i, p, e) ==
  LET c == Instr(program, i)
  IN \/ c.op = "ACCEPT" /\ e = p
     \/ c.op = "SPLIT" /\ (<<c.first, p, e>> \in M \/ <<c.second, p, e>> \in M)
     \/ c.op = "END" /\ p = length /\ <<c.next, p, e>> \in M
     \/ /\ c.op \in Consuming /\ p < length
        /\ Consumes(program, c, input[p + 1]) /\ <<c.next, p + 1, e>> \in M
     \/ c.op = "NEGATIVE" /\ <<c.next, p, e>> \in M
     \/ /\ c.op = "POSITIVE" /\ <<c.next, p, e>> \in M
        /\ \E x \in start .. length : <<c.first, p, x>> \in M

Closed(M) ==
  \A i \in 0 .. Count(program) - 1, p \in start .. length, e \in start .. length :
    Justified(M, i, p, e) => <<i, p, e>> \in M

(* Whatever the memo, the cuts and the recomputations did: an end that the *)
(* engine reports is derivable from the program, in every closed relation  *)
(* and so in the least one.                                                *)
MatchIsDerivable ==
  pc = "returned" /\ result = "MATCH" =>
    /\ end \in start .. length
    /\ \A M \in SUBSET Triples : Closed(M) => <<program.entry, start, end>> \in M

(* Every exit path frees every block, among them the paths on which        *)
(* malloc, calloc or realloc failed half way.                              *)
NoLeak == pc = "returned" => heap = {}

(* A sparse memo is used as MemoMap allows: a cell is written only in the  *)
(* turn that asked for its slot, and the table doubles exactly when it is  *)
(* half full.                                                              *)
AllCells ==
  UNION {0 .. Count(c.program) * (Len(c.input) - c.start + 1) - 1 : c \in Calls}

MemoHeld ==
  [c \in AllCells |-> IF Dense \/ c \notin Cells THEN UNVISITED ELSE memo[c]]

SlotsHeld == IF slots = 0 THEN InitialSlots ELSE slots

MM == INSTANCE MemoMap
        WITH Cells <- AllCells, slots <- SlotsHeld, memo <- MemoHeld,
             held <- IF pc = "visit" /\ ~Dense THEN Here ELSE -1

UsesMemoMap == MM!Spec

(* The search ends, cyclic programs and recomputed cells included.         *)
Terminates == <>(pc = "returned")
=============================================================================
