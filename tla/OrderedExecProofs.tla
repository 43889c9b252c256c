-------------------------- MODULE OrderedExecProofs --------------------------
(***************************************************************************)
(* Theorems about OrderedExec, for all programs, inputs, limits and sizes: *)
(* types; the mark VISITING is on the cells of the frames at work; sizes;  *)
(* the stack is a path; what a call returns is what the program means; and *)
(* stored results stay.                                                    *)
(***************************************************************************)
EXTENDS OrderedExec, TLAPS, SequenceTheorems, FiniteSetTheorems, Numbers

(* Only calls with valid arguments get past the entry.                     *)
Valid == pc \in {"frames", "loop", "visit", "descend"} => ArgumentsValid

InGrid(i, p) == i \in 0 .. Count(program) - 1 /\ p \in start .. length

(* The phases an instruction goes through.                                 *)
FrameFits(f) ==
  LET op == Instr(program, f.instruction).op
  IN /\ InGrid(f.instruction, f.position)
     /\ f.phase \in {1, 2} => op = "SPLIT"
     /\ f.phase = 3 => op \notin {"ACCEPT", "SPLIT"}
     /\ f.phase = 4 => op \in Assertions

(* Every frame and the pending child lie on the grid; only the top frame   *)
(* may be new, and the frame a child is pushed on is not.                  *)
StackOnGrid ==
  Searching =>
    /\ \A k \in DOMAIN frames : FrameFits(frames[k])
    /\ \A k \in 1 .. Len(frames) - 1 : Working(k)
    /\ pc \in {"visit", "descend"} => frames # <<>>
    /\ pc = "descend" => /\ Working(Len(frames))
                         /\ InGrid(child.instruction, child.position)
-----------------------------------------------------------------------------
(* The flattened index of a pair on the grid is a cell, and different      *)
(* pairs have different cells.                                             *)
LEMMA CellOnGrid ==
  ASSUME NEW n \in Nat, NEW c \in Nat, NEW i \in 0 .. n - 1, NEW q \in 0 .. c - 1
  PROVE  i * c + q \in 0 .. n * c - 1
<1>1. i * c >= 0 BY SMT
<1>2. i + 1 <= n OBVIOUS
<1>3. (i + 1) * c <= n * c BY <1>2, SMT
<1>4. (i + 1) * c = i * c + c BY SMT
<1> QED BY <1>1, <1>3, <1>4, SMT

(* Two pairs with the same flattened index are the same pair: `slot` is    *)
(* injective on the grid.                                                  *)
LEMMA CellUnique ==
  ASSUME NEW c \in Nat, NEW i \in Nat, NEW j \in Nat,
         NEW q \in 0 .. c - 1, NEW r \in 0 .. c - 1, i * c + q = j * c + r
  PROVE  i = j /\ q = r
<1>1. ASSUME NEW a \in Nat, NEW b \in Nat, NEW x \in 0 .. c - 1, NEW y \in 0 .. c - 1,
             a < b
      PROVE  a * c + x < b * c + y
  <2>1. (a + 1) * c <= b * c BY <1>1, SMT
  <2>2. (a + 1) * c = a * c + c BY SMT
  <2>3. a * c \in Int /\ b * c \in Int BY SMT
  <2> QED BY <2>1, <2>2, <2>3, SMT
<1>2. ~(i < j) BY <1>1, SMT
<1>3. ~(j < i) BY <1>1, SMT
<1>4. i = j BY <1>2, <1>3, SMT
<1>5. i * c \in Int BY SMT
<1> QED BY <1>4, <1>5, SMT
-----------------------------------------------------------------------------
(* The three things that happen to the stack.                              *)
LEMMA PopStack ==
  ASSUME NEW s \in Seq(Frame), s # <<>>,
         NEW t, t = SubSeq(s, 1, Len(s) - 1)
  PROVE  /\ t \in Seq(Frame) /\ Len(t) = Len(s) - 1
         /\ \A k \in 1 .. Len(s) - 1 : t[k] = s[k]
<1>1. Len(s) \in Nat /\ Len(s) > 0 BY EmptySeq, LenProperties
<1>2. \A k \in 1 .. Len(s) - 1 : s[k] \in Frame BY <1>1, ElementOfSeq
<1> DEFINE n == Len(s) - 1
<1>3. n \in Int /\ n >= 0 BY <1>1
<1> HIDE DEF n
<1>4. /\ SubSeq(s, 1, n) \in Seq(Frame)
      /\ Len(SubSeq(s, 1, n)) = IF 1 <= n THEN n - 1 + 1 ELSE 0
      /\ \A k \in 1 .. n - 1 + 1 : SubSeq(s, 1, n)[k] = s[1 + k - 1]
  <2>1. \A k \in 1 .. n : s[k] \in Frame BY <1>2 DEF n
  <2> HIDE DEF n
  <2> QED BY <1>3, <2>1, SubSeqProperties
<1>5. /\ t \in Seq(Frame) /\ Len(t) = n
      /\ \A k \in 1 .. n : t[k] = s[k]
  <2>1. t = SubSeq(s, 1, n) BY DEF n
  <2>2. n - 1 + 1 = n /\ \A k \in 1 .. n : 1 + k - 1 = k BY <1>3
  <2> QED BY <1>3, <1>4, <2>1, <2>2
<1> QED BY <1>5 DEF n

(* Overwriting the top frame keeps the depth and every frame below it.     *)
LEMMA SetTopOfStack ==
  ASSUME NEW s \in Seq(Frame), s # <<>>, NEW f \in Frame,
         NEW t, t = [s EXCEPT ![Len(s)] = f]
  PROVE  /\ t \in Seq(Frame) /\ Len(t) = Len(s) /\ t # <<>>
         /\ \A k \in 1 .. Len(s) - 1 : t[k] = s[k]
         /\ t[Len(s)] = f
<1>1. Len(s) \in 1 .. Len(s) /\ Len(s) \in Nat BY EmptySeq, LenProperties
<1>2. /\ t \in Seq(Frame) /\ Len(t) = Len(s)
      /\ \A j \in 1 .. Len(s) : t[j] = IF j = Len(s) THEN f ELSE s[j]
  BY <1>1, ExceptSeq
<1>3. t # <<>> BY <1>1, <1>2, EmptySeq
<1>4. \A k \in 1 .. Len(s) - 1 : k \in 1 .. Len(s) /\ k # Len(s)
  BY <1>1
<1>5. t[Len(s)] = f BY <1>1, <1>2, Zenon
<1>6. \A k \in 1 .. Len(s) - 1 : t[k] = s[k] BY <1>2, <1>4, Zenon
<1> QED BY <1>2, <1>3, <1>5, <1>6, Zenon

(* Pushing a frame keeps every frame below it.                             *)
LEMMA PushStack ==
  ASSUME NEW s \in Seq(Frame), NEW f \in Frame, NEW t, t = Append(s, f)
  PROVE  /\ t \in Seq(Frame) /\ Len(t) = Len(s) + 1 /\ t # <<>>
         /\ \A k \in 1 .. Len(s) : t[k] = s[k]
         /\ t[Len(s) + 1] = f
BY AppendProperties

(* A non-empty stack has a top, and it is a frame.                         *)
LEMMA TopOfStack ==
  ASSUME NEW s \in Seq(Frame), s # <<>>
  PROVE  Len(s) \in 1 .. Len(s) /\ Len(s) \in Nat /\ s[Len(s)] \in Frame
BY EmptySeq, LenProperties, ElementOfSeq

(* A validated program only leads from one of its instructions to another. *)
LEMMA ValidTargets ==
  ASSUME call \in Call, ArgumentsValid, NEW i \in 0 .. Count(program) - 1
  PROVE  LET c == Instr(program, i)
         IN /\ c \in Instruction /\ c.op \in Opcodes
            /\ c.op = "SPLIT" => /\ c.first \in 0 .. Count(program) - 1
                                 /\ c.second \in 0 .. Count(program) - 1
            /\ c.op \in Assertions => c.first \in 0 .. Count(program) - 1
            /\ c.op \notin {"ACCEPT", "SPLIT"} => c.next \in 0 .. Count(program) - 1
<1>1. program.code \in Seq(Instruction) BY DEF Call, Program, program
<1>2. i + 1 \in DOMAIN program.code /\ Count(program) \in Nat
  BY <1>1, LenProperties DEF Count
<1>3. program.code[i + 1] \in Instruction BY <1>1, <1>2
<1>4. InstrValid(program, program.code[i + 1])
  BY <1>2 DEF ArgumentsValid, Validate
<1> QED BY <1>2, <1>3, <1>4 DEF Instr, InstrValid, Instruction

(* After the argument checks the grid has a positive number of columns and *)
(* contains the entry pair.                                                *)
LEMMA GridSizes ==
  ASSUME call \in Call, ArgumentsValid
  PROVE  /\ length \in Nat /\ start \in Nat /\ start <= length
         /\ columns \in Nat /\ columns > 0 /\ Count(program) \in Nat
         /\ InGrid(program.entry, start)
<1>1. /\ program.code \in Seq(Instruction) /\ program.entry \in Nat
      /\ input \in Seq(Nat) /\ start \in Nat
  BY DEF Call, Program, program, input, start
<1>2. length \in Nat /\ Count(program) \in Nat
  BY <1>1, LenProperties DEF Count, length
<1>3. program.entry < Count(program) /\ start <= length
  BY DEF ArgumentsValid, Validate
<1> QED BY <1>1, <1>2, <1>3 DEF columns, InGrid

(* The cell of every pair on the grid is inside the memo.                  *)
LEMMA GridCell ==
  ASSUME call \in Call, ArgumentsValid, NEW i, NEW p, InGrid(i, p)
  PROVE  Cell(i, p) \in Cells
<1> DEFINE q == p - start
           n == Count(program)
           c == columns
<1>1. n \in Nat /\ c \in Nat /\ q \in 0 .. c - 1 /\ i \in 0 .. n - 1
  BY GridSizes DEF InGrid, columns
<1> HIDE DEF q, n, c
<1>2. i * c + q \in 0 .. n * c - 1 BY <1>1, CellOnGrid
<1>3. i * c \in Int BY <1>1, SMT
<1>4. Cell(i, p) = i * c + q
  BY <1>1, <1>3, GridSizes DEF Cell, q, c, InGrid
<1> QED BY <1>2, <1>4 DEF Cells, cells, n, c

(* Different pairs on the grid have different memo cells.                  *)
LEMMA GridCellUnique ==
  ASSUME call \in Call, ArgumentsValid, NEW i, NEW p, InGrid(i, p),
         NEW j, NEW r, InGrid(j, r), Cell(i, p) = Cell(j, r)
  PROVE  i = j /\ p = r
<1> DEFINE q == p - start
           u == r - start
           c == columns
<1>1. c \in Nat /\ q \in 0 .. c - 1 /\ u \in 0 .. c - 1 /\ i \in Nat /\ j \in Nat
  BY GridSizes DEF InGrid, columns
<1>2. i * c \in Int /\ j * c \in Int BY <1>1, SMT
<1>3. Cell(i, p) = i * c + q /\ Cell(j, r) = j * c + u
  BY <1>1, <1>2, GridSizes DEF Cell, InGrid
<1>4. i = j /\ q = u
  <2> HIDE DEF q, u, c
  <2> QED BY <1>1, <1>3, CellUnique
<1> QED BY <1>4, GridSizes DEF InGrid
-----------------------------------------------------------------------------
Basic == TypeOK /\ Valid /\ StackOnGrid

(* The call's arguments never change, and with them the grid.              *)
LEMMA CallFixed ==
  ASSUME [Next]_vars
  PROVE  call' = call
BY DEF Next, vars, Enters, Turns, Dispatches, Pushes, RejectArguments, Return,
  RejectSizes, MemoNoMem, AllocateMemo, FramesNoMem, AllocateFrames, OutOfSteps,
  Break, TableLimit, TableNoMem, Turn, CycleAcrossAssertion, EpochLimit, CutCycle,
  Static, Reuse, Accept, Finish, EnterSplit, Enter, GoTo, EnterAssertion, Advance,
  Mismatch, SecondBranch, AssertionHolds, AssertionFails, Done, FrameLimit,
  GrowNoMem, Descend, StackEmpty, Cleanup

(* Everything that is computed from the arguments stays the same in a step *)
(* that keeps the call.                                                    *)
LEMMA GridFixed ==
  ASSUME call' = call
  PROVE  /\ program' = program /\ start' = start /\ length' = length
         /\ input' = input /\ limits' = limits
         /\ columns' = columns /\ cells' = cells
         /\ Cells' = Cells /\ Dense' = Dense
         /\ ArgumentsValid' = ArgumentsValid
<1>1. program' = program /\ start' = start /\ input' = input /\ limits' = limits
  BY DEF program, start, input, limits
<1>2. length' = length BY <1>1 DEF length
<1>3. columns' = columns BY <1>1, <1>2 DEF columns
<1>4. cells' = cells BY <1>1, <1>3 DEF cells
<1>5. Cells' = Cells /\ Dense' = Dense BY <1>1, <1>4 DEF Cells, Dense
<1>6. ArgumentsValid' = ArgumentsValid
  BY <1>1, <1>2 DEF ArgumentsValid
<1> QED BY <1>1, <1>2, <1>3, <1>4, <1>5, <1>6

(* The basic invariant holds when the call begins.                         *)
LEMMA BasicInit == Init => Basic
<1> SUFFICES ASSUME Init PROVE Basic OBVIOUS
<1>1. call \in Call BY ConstantsAssumption DEF Init
<1>2. TypeOK
  BY <1>1, EmptySeq DEF Init, TypeOK, UNVISITED, Untouched, Statuses
<1>3. Valid /\ StackOnGrid BY DEF Init, Valid, StackOnGrid, Searching
<1> QED BY <1>2, <1>3 DEF Basic

(* The steps that leave stack, memo and child alone: rejections, refused   *)
(* resources, the exits.                                                   *)
LEMMA BasicQuiet ==
  ASSUME Basic, call' = call,
         UNCHANGED <<frames, memo, keys, child, last, epoch>>,
         capacity' \in Nat, slots' \in Nat, steps' \in Nat, end' \in Int,
         heap' \subseteq {"memo", "entries", "frames"}, result' \in Statuses,
         \/ pc' \in {"cleanup", "returned"}
         \/ pc = "enter" /\ pc' = "frames" /\ ArgumentsValid
         \/ pc' = pc
  PROVE  Basic'
<1> USE DEF Basic
<1>1. TypeOK' BY GridFixed DEF TypeOK
<1>2. Valid' BY GridFixed DEF Valid
<1>3. StackOnGrid'
  BY GridFixed DEF StackOnGrid, Searching, InGrid, FrameFits, Working
<1> QED BY <1>1, <1>2, <1>3

(* Leaving a frame keeps the basic invariant.                              *)
LEMMA BasicPop ==
  ASSUME Basic, pc = "visit", NEW l \in Int, Pop(l), call' = call,
         memo' \in [Cells -> Int], epoch' \in Nat,
         UNCHANGED <<capacity, keys, slots, heap, steps, end>>
  PROVE  Basic'
<1> USE DEF Basic
<1>0. frames # <<>> /\ frames \in Seq(Frame)
  BY DEF StackOnGrid, Searching, TypeOK
<1>1. /\ frames' \in Seq(Frame) /\ Len(frames') = Len(frames) - 1
      /\ \A k \in 1 .. Len(frames) - 1 : frames'[k] = frames[k]
  BY <1>0, PopStack DEF Pop
<1>2. TypeOK' BY <1>1, GridFixed DEF TypeOK, Pop
<1>3. Valid' BY GridFixed DEF Valid, Pop
<1>4. StackOnGrid'
  <2>1. Len(frames) \in Nat BY <1>0, TopOfStack
  <2>2. DOMAIN frames' = 1 .. Len(frames) - 1 /\ DOMAIN frames = 1 .. Len(frames)
    BY <1>0, <1>1, LenProperties
  <2>3. \A k \in DOMAIN frames' : k \in DOMAIN frames /\ frames'[k] = frames[k]
    BY <1>1, <2>1, <2>2
  <2>4. \A k \in DOMAIN frames' :
          FrameFits(frames[k])
    BY <2>3 DEF StackOnGrid, Searching
  <2>5. \A k \in 1 .. Len(frames') - 1 : k \in 1 .. Len(frames) - 1
    BY <1>1, <2>1
  <2>6. \A k \in 1 .. Len(frames') - 1 : Working(k)'
    BY <1>1, <2>5 DEF StackOnGrid, Searching, Working
  <2> QED BY <2>3, <2>4, <2>6, GridFixed DEF StackOnGrid, Searching, InGrid, FrameFits, Pop
<1> QED BY <1>2, <1>3, <1>4

(* Moving the top frame to a phase its instruction has, and asking for a   *)
(* child on the grid, keeps the basic invariant.                           *)
LEMMA BasicGoTo ==
  ASSUME Basic, pc = "visit", NEW ph \in 1 .. 4, NEW i, NEW p, NEW since \in Nat,
         GoTo(ph, i, p, since), InGrid(i, p), memo' \in [Cells -> Int], last' \in Int,
         FrameFits([Top EXCEPT !.phase = ph])
  PROVE  Basic'
<1> USE DEF Basic
<1>0. frames # <<>> /\ frames \in Seq(Frame) /\ ArgumentsValid
  BY DEF StackOnGrid, Searching, TypeOK, Valid
<1>a. call' = call BY DEF GoTo, Static
<1>b. i \in Nat /\ p \in Nat
  BY <1>0, GridSizes, SMTT(30) DEF TypeOK, InGrid
<1> DEFINE f == [Top EXCEPT !.phase = ph, !.cycle_epoch = since]
<1>1. Len(frames) \in 1 .. Len(frames) /\ Len(frames) \in Nat /\ Top \in Frame
  BY <1>0, TopOfStack DEF Top
<1>2. /\ f \in Frame /\ f.phase = ph
      /\ f.instruction = Top.instruction /\ f.position = Top.position
  <2>1. ph \in 0 .. 4 OBVIOUS
  <2> QED BY <1>1, <2>1 DEF Frame
<1> HIDE DEF f
<1>3. frames' = [frames EXCEPT ![Len(frames)] = f] BY DEF GoTo, f
<1>4. /\ frames' \in Seq(Frame) /\ Len(frames') = Len(frames) /\ frames' # <<>>
      /\ \A k \in 1 .. Len(frames) - 1 : frames'[k] = frames[k]
      /\ frames'[Len(frames)] = f
  BY <1>0, <1>2, <1>3, SetTopOfStack
<1>5. TypeOK' BY <1>a, <1>b, <1>4, GridFixed DEF TypeOK, GoTo, Static
<1>6. Valid' BY <1>a, GridFixed DEF Valid, GoTo
<1>7. StackOnGrid'
  <2>1. DOMAIN frames' = 1 .. Len(frames) /\ DOMAIN frames = 1 .. Len(frames)
    BY <1>0, <1>4, LenProperties
  <2>2. \A k \in DOMAIN frames' : FrameFits(frames'[k])
    <3> SUFFICES ASSUME NEW k \in 1 .. Len(frames)
                 PROVE  FrameFits(frames'[k])
      BY <2>1
    <3>1. FrameFits(frames[k])
      BY <2>1 DEF StackOnGrid, Searching
    <3>2. CASE k = Len(frames)
      <4>1. FrameFits(f) BY <1>1, <1>2 DEF FrameFits, Frame
      <4> QED BY <1>4, <3>2, <4>1
    <3>3. CASE k \in 1 .. Len(frames) - 1 BY <1>4, <3>1, <3>3
    <3> QED BY <1>1, <3>2, <3>3
  <2>3. \A k \in 1 .. Len(frames') - 1 : Working(k)'
    BY <1>4 DEF StackOnGrid, Searching, Working
  <2>4. Working(Len(frames))' BY <1>2, <1>4 DEF Working
  <2>5. child' = [instruction |-> i, position |-> p] /\ pc' = "descend" BY DEF GoTo
  <2> QED
    BY <1>a, <1>4, <2>2, <2>3, <2>4, <2>5, GridFixed DEF StackOnGrid, Searching, InGrid, FrameFits, Working
<1> QED BY <1>5, <1>6, <1>7

(* Pushing the requested child keeps the basic invariant.                  *)
LEMMA BasicDescend ==
  ASSUME Basic, Descend
  PROVE  Basic'
<1> USE DEF Basic
<1>0. /\ frames # <<>> /\ frames \in Seq(Frame) /\ ArgumentsValid /\ call' = call
      /\ InGrid(child.instruction, child.position)
      /\ child \in [instruction: Nat, position: Nat]
      /\ Working(Len(frames))
  BY DEF StackOnGrid, Searching, TypeOK, Valid, Descend
<1> DEFINE f == NewFrame(child.instruction, child.position,
                         Inside(Top))
<1>1. Len(frames) \in 1 .. Len(frames) /\ Len(frames) \in Nat /\ Top \in Frame
  BY <1>0, TopOfStack DEF Top
<1>2. /\ f \in Frame
      /\ f.instruction = child.instruction /\ f.position = child.position
  <2> DEFINE d == Inside(Top)
  <2>1. d \in Nat BY <1>1 DEF Frame, Inside
  <2>2. epoch \in Nat BY DEF TypeOK
  <2> HIDE DEF d
  <2>3. NewFrame(child.instruction, child.position, d) \in Frame
    BY <1>0, <2>1, <2>2 DEF NewFrame, Frame
  <2>4. f = NewFrame(child.instruction, child.position, d) BY DEF f, d
  <2> QED BY <2>3, <2>4 DEF NewFrame
<1> HIDE DEF f
<1>3. frames' = Append(frames, f) BY DEF Descend, f
<1>4. /\ frames' \in Seq(Frame) /\ Len(frames') = Len(frames) + 1 /\ frames' # <<>>
      /\ \A k \in 1 .. Len(frames) : frames'[k] = frames[k]
      /\ frames'[Len(frames) + 1] = f
  BY <1>0, <1>2, <1>3, PushStack
<1>5. TypeOK'
  <2>1. capacity' \in Nat
    BY DEF TypeOK, Descend, CappedFrames, limits, Call, Limits
  <2> QED BY <1>0, <1>4, <2>1, GridFixed DEF TypeOK, Descend
<1>6. Valid' BY <1>0, GridFixed DEF Valid, Descend
<1>7. StackOnGrid'
  <2>1. DOMAIN frames' = 1 .. Len(frames) + 1 /\ DOMAIN frames = 1 .. Len(frames)
    BY <1>0, <1>4, LenProperties
  <2>2. \A k \in DOMAIN frames' : FrameFits(frames'[k])
    <3> SUFFICES ASSUME NEW k \in 1 .. Len(frames) + 1
                 PROVE  FrameFits(frames'[k])
      BY <2>1
    <3>1. CASE k = Len(frames) + 1
      <4>1. f.phase = 0 BY DEF f, NewFrame
      <4> QED BY <1>0, <1>2, <1>4, <3>1, <4>1 DEF FrameFits
    <3>2. CASE k \in 1 .. Len(frames)
      BY <1>4, <2>1, <3>2 DEF StackOnGrid, Searching, Descend
    <3> QED BY <1>1, <3>1, <3>2
  <2>3. \A k \in 1 .. Len(frames') - 1 : Working(k)'
    <3> SUFFICES ASSUME NEW k \in 1 .. Len(frames) PROVE frames'[k].phase # 0
      BY <1>1, <1>4 DEF Working
    <3>1. CASE k = Len(frames) BY <1>0, <1>4, <3>1 DEF Working
    <3>2. CASE k \in 1 .. Len(frames) - 1
      BY <1>4, <3>2 DEF StackOnGrid, Searching, Descend, Working
    <3> QED BY <1>1, <3>1, <3>2
  <2> QED
    BY <1>0, <1>4, <2>2, <2>3, GridFixed DEF StackOnGrid, Searching, InGrid, FrameFits, Descend, Working
<1> QED BY <1>5, <1>6, <1>7

(* The first frame is on the grid, so it establishes the basic invariant   *)
(* of a running search.                                                    *)
LEMMA BasicAllocateFrames ==
  ASSUME Basic, AllocateFrames
  PROVE  Basic'
<1> USE DEF Basic
<1>0. ArgumentsValid /\ call \in Call /\ call' = call
  BY DEF Valid, TypeOK, AllocateFrames
<1> DEFINE f == NewFrame(program.entry, start, 0)
<1>1. InGrid(program.entry, start) /\ program.entry \in Nat /\ start \in Nat
  BY <1>0, GridSizes DEF InGrid
<1>2. /\ f \in Frame /\ f.instruction = program.entry /\ f.position = start
      /\ f.phase = 0
  BY <1>0, <1>1 DEF NewFrame, Frame, TypeOK
<1> HIDE DEF f
<1>3. frames' = <<f>> BY DEF AllocateFrames, f
<1>4. frames' \in Seq(Frame) /\ Len(frames') = 1 /\ frames'[1] = f
      /\ DOMAIN frames' = {1}
  BY <1>2, <1>3
<1>5. TypeOK'
  <2>1. capacity' \in Nat
    BY ConstantsAssumption DEF TypeOK, AllocateFrames, CappedFrames, limits, Call, Limits
  <2> QED BY <1>0, <1>4, <2>1, GridFixed DEF TypeOK, AllocateFrames
<1>6. Valid' BY <1>0, GridFixed DEF Valid, AllocateFrames
<1>7. StackOnGrid'
  BY <1>0, <1>1, <1>2, <1>4, GridFixed DEF StackOnGrid, Searching, InGrid, FrameFits, AllocateFrames
<1> QED BY <1>5, <1>6, <1>7

(* The top frame of a dispatch fits its instruction, in its present phase  *)
(* and in each one the dispatch may give it.                               *)
LEMMA TopFits ==
  ASSUME Basic, pc = "visit"
  PROVE  /\ FrameFits(Top)
         /\ \A ph \in 1 .. 4 :
              /\ ph \in {1, 2} => code.op = "SPLIT"
              /\ ph = 3 => code.op \notin {"ACCEPT", "SPLIT"}
              /\ ph = 4 => code.op \in Assertions
              => FrameFits([Top EXCEPT !.phase = ph])
<1>1. frames \in Seq(Frame) /\ frames # <<>>
  BY DEF Basic, TypeOK, StackOnGrid, Searching
<1>2. Len(frames) \in DOMAIN frames /\ Top \in Frame
  BY <1>1, TopOfStack, LenProperties DEF Top
<1>3. FrameFits(Top) BY <1>2 DEF Basic, StackOnGrid, Searching, Top
<1> QED BY <1>2, <1>3 DEF FrameFits, code, Frame

(* The top frame in a dispatch, and what its instruction may lead to.      *)
LEMMA TopFacts ==
  ASSUME Basic, pc = "visit"
  PROVE  /\ ArgumentsValid /\ call \in Call
         /\ InGrid(Top.instruction, Top.position) /\ Top \in Frame
         /\ Here \in Cells /\ memo \in [Cells -> Int] /\ memo[Here] \in Int
         /\ code.op \in Opcodes
         /\ code.op = "SPLIT" => /\ InGrid(code.first, Top.position)
                                 /\ InGrid(code.second, Top.position)
         /\ code.op \in Assertions => InGrid(code.first, Top.position)
         /\ code.op \notin {"ACCEPT", "SPLIT"} =>
              /\ InGrid(code.next, Top.position)
              /\ Top.position < length => InGrid(code.next, Top.position + 1)
<1> USE DEF Basic
<1>1. /\ ArgumentsValid /\ call \in Call /\ memo \in [Cells -> Int]
      /\ frames \in Seq(Frame) /\ frames # <<>>
  BY DEF TypeOK, Valid, StackOnGrid, Searching
<1>2. Len(frames) \in DOMAIN frames /\ Top \in Frame
  BY <1>1, TopOfStack, LenProperties DEF Top
<1>3. InGrid(Top.instruction, Top.position)
  BY <1>2 DEF StackOnGrid, Searching, Top, FrameFits
<1>4. Here \in Cells BY <1>1, <1>3, GridCell DEF Here
<1> QED BY <1>1, <1>2, <1>3, <1>4, ValidTargets, GridSizes, SMTT(30) DEF code, InGrid
-----------------------------------------------------------------------------
(* A cleared memo before the search, and in the sparse case a slot for     *)
(* every value and for the cell in hand.                                   *)
KeysHold ==
  /\ pc \in {"enter", "frames"} => memo = [c \in Cells |-> UNVISITED]
  /\ Searching /\ ~Dense =>
       /\ \A c \in Cells : memo[c] # UNVISITED => c \in keys
       /\ pc \in {"visit", "descend"} => Here \in keys

IInv == Basic /\ KeysHold /\ VisitingIsActive

(* The frames below the top all work.                                      *)
LEMMA BelowTopWorks ==
  ASSUME Basic, pc \in {"visit", "descend"}
  PROVE  /\ frames \in Seq(Frame) /\ frames # <<>>
         /\ DOMAIN frames = 1 .. Len(frames)
         /\ Len(frames) \in Nat /\ Len(frames) \in 1 .. Len(frames)
         /\ CellOf(Len(frames)) = Here /\ Here \in Cells
         /\ \A k \in 1 .. Len(frames) - 1 : k \in DOMAIN frames /\ Working(k)
         /\ \A k \in DOMAIN frames : k = Len(frames) \/ k \in 1 .. Len(frames) - 1
<1>1. /\ frames \in Seq(Frame) /\ frames # <<>> /\ ArgumentsValid /\ call \in Call
      /\ \A k \in 1 .. Len(frames) - 1 : Working(k)
  BY DEF Basic, TypeOK, StackOnGrid, Searching, Valid
<1>2. DOMAIN frames = 1 .. Len(frames) /\ Len(frames) \in Nat
      /\ Len(frames) \in 1 .. Len(frames)
  BY <1>1, TopOfStack, LenProperties
<1>3. InGrid(Top.instruction, Top.position)
  BY <1>2 DEF Basic, StackOnGrid, Searching, Top, FrameFits
<1>4. CellOf(Len(frames)) = Here /\ Here \in Cells
  BY <1>1, <1>3, GridCell DEF CellOf, Here, Top
<1> QED BY <1>1, <1>2, <1>4

(* No frame below the top works on the cell of the top frame, unless the   *)
(* top frame is new and finds its cell VISITING.                           *)
LEMMA OthersElsewhere ==
  ASSUME IInv, pc = "visit", Top.phase # 0 \/ memo[Here] # VISITING
  PROVE  \A k \in 1 .. Len(frames) - 1 : CellOf(k) # Here
<1> SUFFICES ASSUME NEW k \in 1 .. Len(frames) - 1, CellOf(k) = Here PROVE FALSE
  OBVIOUS
<1>0. Basic BY DEF IInv
<1>1. k \in DOMAIN frames /\ Working(k) /\ k # Len(frames)
  <2>1. k \in DOMAIN frames /\ Working(k) BY <1>0, BelowTopWorks, Zenon
  <2>2. Len(frames) \in Nat BY <1>0, BelowTopWorks
  <2> QED BY <2>1, <2>2
<1>2. memo[Here] = VISITING
  BY <1>0, <1>1, BelowTopWorks DEF IInv, VisitingIsActive, Searching
<1>3. Working(Len(frames)) BY <1>2 DEF Working, Top
<1> QED BY <1>0, <1>1, <1>3, BelowTopWorks DEF IInv, VisitingIsActive, Searching

(* After a pop the cells of the remaining frames must be the VISITING ones.*)
LEMMA VisitingPop ==
  ASSUME IInv, pc = "visit", NEW l, Pop(l), call' = call, UNCHANGED keys,
         NEW v \in Int, memo' = [memo EXCEPT ![Here] = v],
         v = VISITING <=> \E k \in 1 .. Len(frames) - 1 : CellOf(k) = Here
  PROVE  KeysHold' /\ VisitingIsActive'
<1>0. Basic /\ memo \in [Cells -> Int] BY DEF IInv, Basic, TypeOK
<1>1. /\ frames' \in Seq(Frame) /\ Len(frames') = Len(frames) - 1
      /\ \A k \in 1 .. Len(frames) - 1 : frames'[k] = frames[k]
  BY <1>0, BelowTopWorks, PopStack DEF Pop
<1>2. DOMAIN frames' = 1 .. Len(frames) - 1 BY <1>1, LenProperties
<1>3. \A k \in 1 .. Len(frames) - 1 :
        Working(k)' /\ CellOf(k)' = CellOf(k)
  BY <1>0, <1>1, BelowTopWorks, GridFixed DEF Working, CellOf, Cell
<1>4. \A c \in Cells : memo'[c] = VISITING <=>
        \E k \in 1 .. Len(frames) - 1 : CellOf(k) = c
  <2> SUFFICES ASSUME NEW c \in Cells
               PROVE  memo'[c] = VISITING <=>
                        \E k \in 1 .. Len(frames) - 1 : CellOf(k) = c
    OBVIOUS
  <2>1. CASE c = Here BY <1>0, <2>1
  <2>2. CASE c # Here
    <3>1. memo'[c] = memo[c] BY <2>2
    <3>2. memo[c] = VISITING <=>
            \E k \in DOMAIN frames : Working(k) /\ CellOf(k) = c
      BY DEF IInv, VisitingIsActive, Searching
    <3> QED BY <1>0, <2>2, <3>1, <3>2, BelowTopWorks
  <2> QED BY <2>1, <2>2
<1>5. \A j, k \in 1 .. Len(frames) - 1 : CellOf(j) = CellOf(k) => j = k
  BY <1>0, BelowTopWorks DEF IInv, VisitingIsActive, Searching
<1>6. VisitingIsActive'
  BY <1>2, <1>3, <1>4, <1>5, GridFixed, SMTT(30) DEF VisitingIsActive
<1>7. KeysHold'
  <2>1. pc' = "loop" BY DEF Pop
  <2>2. ASSUME ~Dense, NEW c \in Cells, memo'[c] # UNVISITED PROVE c \in keys
    <3>1. CASE c = Here BY <2>2, <3>1 DEF IInv, KeysHold, Searching
    <3>2. CASE c # Here
      BY <1>0, <2>2, <3>2 DEF IInv, KeysHold, Searching
    <3> QED BY <3>1, <3>2
  <2> QED BY <2>1, <2>2, GridFixed DEF KeysHold
<1> QED BY <1>6, <1>7

(* Marking the cell of the top frame VISITING while the frame begins or    *)
(* goes on working keeps the two in step.                                  *)
LEMMA VisitingGoTo ==
  ASSUME IInv, pc = "visit", NEW ph \in 1 .. 4, NEW i, NEW p, NEW since \in Nat,
         GoTo(ph, i, p, since), memo' = [memo EXCEPT ![Here] = VISITING],
         \A k \in 1 .. Len(frames) - 1 : CellOf(k) # Here
  PROVE  KeysHold' /\ VisitingIsActive'
<1>0. Basic /\ memo \in [Cells -> Int] /\ call' = call /\ keys' = keys
  BY DEF IInv, Basic, TypeOK, GoTo, Static
<1> DEFINE f == [Top EXCEPT !.phase = ph, !.cycle_epoch = since]
           n == Len(frames)
<1>1. Top \in Frame BY <1>0, BelowTopWorks, TopOfStack DEF Top
<1>2. /\ f \in Frame /\ f.phase = ph
      /\ f.instruction = Top.instruction /\ f.position = Top.position
  <2>1. ph \in 0 .. 4 OBVIOUS
  <2> QED BY <1>1, <2>1 DEF Frame
<1> HIDE DEF f
<1>3. frames' = [frames EXCEPT ![Len(frames)] = f] BY SMTT(30) DEF GoTo, f
<1>4. /\ frames' \in Seq(Frame) /\ Len(frames') = n
      /\ \A k \in 1 .. n - 1 : frames'[k] = frames[k]
      /\ frames'[n] = f
  BY <1>0, <1>2, <1>3, BelowTopWorks, SetTopOfStack
<1>5. DOMAIN frames' = 1 .. n /\ n \in 1 .. n BY <1>0, <1>4, LenProperties, BelowTopWorks
<1>6. \A k \in 1 .. n - 1 : Working(k)' /\ CellOf(k)' = CellOf(k)
  BY <1>0, <1>4, BelowTopWorks, GridFixed DEF Working, CellOf, Cell
<1>7. Working(n)' /\ CellOf(n)' = Here
  BY <1>0, <1>2, <1>4, GridFixed DEF Working, CellOf, Cell, Here
<1>8. \A k \in 1 .. n : Working(k)' /\ CellOf(k)' = CellOf(k)
  <2> SUFFICES ASSUME NEW k \in 1 .. n PROVE Working(k)' /\ CellOf(k)' = CellOf(k)
    OBVIOUS
  <2>1. CellOf(n) = Here /\ n \in Nat BY <1>0, BelowTopWorks
  <2>2. CASE k = n BY <1>4, <1>7, <2>1, <2>2 DEF Working, CellOf
  <2>3. CASE k # n
    <3>1. k \in 1 .. n - 1 BY <2>1, <2>3
    <3> QED BY <1>6, <3>1
  <2> QED BY <2>2, <2>3
<1>9. \A c \in Cells : memo'[c] = VISITING <=> \E k \in 1 .. n : CellOf(k) = c
  <2> SUFFICES ASSUME NEW c \in Cells
               PROVE  memo'[c] = VISITING <=> \E k \in 1 .. n : CellOf(k) = c
    OBVIOUS
  <2>1. CASE c = Here BY <1>0, <2>1, BelowTopWorks
  <2>2. CASE c # Here
    <3>1. memo'[c] = memo[c] BY <2>2
    <3>2. memo[c] = VISITING <=>
            \E k \in DOMAIN frames : Working(k) /\ CellOf(k) = c
      BY DEF IInv, VisitingIsActive, Searching
    <3> QED BY <1>0, <2>2, <3>1, <3>2, BelowTopWorks, Zenon
  <2> QED BY <2>1, <2>2
<1>10. \A j, k \in 1 .. n : CellOf(j) = CellOf(k) => j = k
  <2> SUFFICES ASSUME NEW j \in 1 .. n, NEW k \in 1 .. n, CellOf(j) = CellOf(k)
               PROVE  j = k
    BY Zenon
  <2>1. CASE j = n \/ k = n BY <1>0, <2>1, BelowTopWorks, Zenon
  <2>2. CASE j \in 1 .. n - 1 /\ k \in 1 .. n - 1
    BY <1>0, <2>2, BelowTopWorks DEF IInv, VisitingIsActive, Searching
  <2> QED BY <1>0, <2>1, <2>2, BelowTopWorks, Zenon
<1>11. VisitingIsActive'
  BY <1>0, <1>5, <1>8, <1>9, <1>10, GridFixed DEF VisitingIsActive
<1>12. KeysHold'
  <2>1. pc' = "descend" BY DEF GoTo
  <2>2. ASSUME ~Dense, NEW c \in Cells, memo'[c] # UNVISITED PROVE c \in keys
    <3>1. CASE c = Here BY <2>2, <3>1 DEF IInv, KeysHold, Searching
    <3>2. CASE c # Here
      BY <1>0, <2>2, <3>2 DEF IInv, KeysHold, Searching
    <3> QED BY <3>1, <3>2
  <2>3. Here' = Here
    BY <1>0, <1>2, <1>4, GridFixed DEF Here, Cell, Top
  <2>4. ~Dense => Here \in keys BY DEF IInv, KeysHold, Searching
  <2> QED BY <1>0, <2>1, <2>2, <2>3, <2>4, GridFixed DEF KeysHold
<1> QED BY <1>11, <1>12

(* A pushed frame is not working yet, so the VISITING cells stay those of  *)
(* the working frames.                                                     *)
LEMMA VisitingDescend ==
  ASSUME IInv, Descend
  PROVE  KeysHold' /\ VisitingIsActive'
<1>0. Basic /\ call' = call /\ keys' = keys /\ memo' = memo /\ pc' = "loop"
      /\ pc = "descend"
  BY DEF IInv, Descend
<1> DEFINE n == Len(frames)
<1>1. /\ frames' \in Seq(Frame) /\ Len(frames') = n + 1
      /\ \A k \in 1 .. n : frames'[k] = frames[k]
      /\ frames'[n + 1].phase = 0
      /\ Working(n) /\ n \in Nat
  <2> DEFINE f == NewFrame(child.instruction, child.position,
                           Inside(Top))
  <2>1. Basic' BY <1>0, BasicDescend
  <2>2. frames \in Seq(Frame) /\ n \in Nat /\ Working(n)
    BY <1>0, BelowTopWorks DEF Basic, StackOnGrid, Searching
  <2>3. frames' = Append(frames, f) BY DEF Descend
  <2>4. f.phase = 0 BY DEF NewFrame
  <2> HIDE DEF f
  <2>5. /\ Len(frames') = n + 1 /\ frames'[n + 1] = f
        /\ \A k \in 1 .. n : frames'[k] = frames[k]
    BY <2>2, <2>3
  <2>6. frames' \in Seq(Frame) BY <2>1 DEF Basic, TypeOK
  <2> QED BY <2>2, <2>4, <2>5, <2>6
<1>2. DOMAIN frames' = 1 .. n + 1 /\ DOMAIN frames = 1 .. n
  BY <1>0, <1>1, LenProperties, BelowTopWorks
<1>3. \A k \in 1 .. n + 1 : Working(k)' <=> k \in 1 .. n /\ Working(k)
  <2> SUFFICES ASSUME NEW k \in 1 .. n + 1
               PROVE  frames'[k].phase # 0 <=> k \in 1 .. n /\ frames[k].phase # 0
    BY DEF Working
  <2>1. CASE k = n + 1 BY <1>1, <2>1
  <2>2. CASE k \in 1 .. n BY <1>1, <2>2
  <2> QED BY <1>1, <2>1, <2>2
<1>4. \A k \in 1 .. n : CellOf(k)' = CellOf(k)
  BY <1>0, <1>1, GridFixed DEF CellOf, Cell
<1>5. \A c \in Cells : memo'[c] = VISITING <=>
        \E k \in 1 .. n + 1 : Working(k)' /\ CellOf(k)' = c
  <2>1. \A c \in Cells : memo[c] = VISITING <=>
          \E k \in 1 .. n : Working(k) /\ CellOf(k) = c
    BY <1>0, <1>2 DEF IInv, VisitingIsActive, Searching
  <2>2. \A k \in 1 .. n : k \in 1 .. n + 1 BY <1>1
  <2> QED BY <1>0, <1>3, <1>4, <2>1, <2>2
<1>6. \A j, k \in 1 .. n + 1 :
        Working(j)' /\ Working(k)' /\ CellOf(j)' = CellOf(k)' => j = k
  BY <1>0, <1>2, <1>3, <1>4 DEF IInv, VisitingIsActive, Searching
<1>7. VisitingIsActive'
  BY <1>0, <1>2, <1>5, <1>6, GridFixed DEF VisitingIsActive
<1>8. KeysHold' BY <1>0, GridFixed DEF IInv, KeysHold, Searching
<1> QED BY <1>7, <1>8

(* When the search starts nothing is VISITING and nothing works.           *)
LEMMA VisitingAllocate ==
  ASSUME IInv, AllocateFrames
  PROVE  KeysHold' /\ VisitingIsActive'
<1> DEFINE f == NewFrame(program.entry, start, 0)
<1>0. /\ call' = call /\ memo' = memo /\ frames' = <<f>> /\ pc' = "loop"
      /\ memo = [c \in Cells |-> UNVISITED]
  BY DEF IInv, KeysHold, AllocateFrames
<1>1. f.phase = 0 BY DEF NewFrame
<1> HIDE DEF f
<1>2. DOMAIN frames' = {1} /\ frames'[1].phase = 0 BY <1>0, <1>1
<1>3. \A k \in DOMAIN frames' : ~Working(k)' BY <1>2 DEF Working
<1>4. \A c \in Cells : memo'[c] # VISITING BY <1>0 DEF UNVISITED, VISITING
<1>5. VisitingIsActive' BY <1>0, <1>3, <1>4, GridFixed DEF VisitingIsActive
<1>6. KeysHold' BY <1>0, GridFixed DEF KeysHold
<1> QED BY <1>5, <1>6

(* memo_slot may insert the cell, but the memo reads the same after it.    *)
LEMMA TurnFacts ==
  ASSUME IInv, Turn
  PROVE  Basic' /\ memo' = memo /\ KeysHold' /\ VisitingIsActive'
<1>0. /\ Basic /\ call' = call /\ pc = "loop" /\ pc' = "visit"
      /\ frames # <<>> /\ frames' = frames /\ frames \in Seq(Frame)
      /\ ArgumentsValid /\ memo \in [Cells -> Int] /\ keys \subseteq Cells
      /\ slots \in Nat /\ steps \in Nat /\ call \in Call
  BY DEF IInv, Turn, AtTurn, Basic, TypeOK, Valid
<1>1. Len(frames) \in DOMAIN frames BY <1>0, TopOfStack, LenProperties
<1>2. InGrid(Top.instruction, Top.position)
  BY <1>0, <1>1 DEF Basic, StackOnGrid, Searching, Top, FrameFits
<1>3. Here \in Cells /\ Here' = Here
  BY <1>0, <1>2, GridCell, GridFixed DEF Here, Top, Cell
<1>4. memo' = memo
  <2>1. CASE Present BY <2>1 DEF Turn
  <2>2. CASE ~Present
    <3>1. ~Dense /\ Here \notin keys BY <2>2 DEF Present
    <3>2. memo[Here] = UNVISITED
      BY <1>0, <1>3, <3>1 DEF IInv, KeysHold, Searching
    <3>3. memo' = [memo EXCEPT ![Here] = UNVISITED] BY <2>2 DEF Turn
    <3> QED BY <1>0, <3>2, <3>3
  <2> QED BY <2>1, <2>2
<1>5. /\ keys' \subseteq Cells /\ keys \subseteq keys' /\ slots' \in Nat
      /\ steps' \in Nat /\ (~Dense => Here \in keys')
  BY <1>0, <1>3 DEF Turn, Present, CountStep
<1>6. Basic'
  <2>1. TypeOK' BY <1>0, <1>4, <1>5, GridFixed DEF Basic, TypeOK, Turn
  <2>2. Valid' BY <1>0, GridFixed DEF Valid
  <2>3. StackOnGrid'
    BY <1>0, GridFixed DEF Basic, StackOnGrid, Searching, InGrid, FrameFits, Working
  <2> QED BY <2>1, <2>2, <2>3 DEF Basic
<1>7. KeysHold'
  BY <1>0, <1>3, <1>4, <1>5, GridFixed DEF IInv, KeysHold, Searching
<1>8. VisitingIsActive'
  BY <1>0, <1>4, GridFixed DEF IInv, VisitingIsActive, Searching, Working, CellOf, Cell
<1> QED BY <1>4, <1>6, <1>7, <1>8

(* The quiet steps: the memo and the stack stay, and the search either     *)
(* does not run yet or is over.                                            *)
LEMMA QuietFacts ==
  ASSUME IInv, call' = call, UNCHANGED <<frames, memo, keys>>,
         \/ pc' \in {"cleanup", "returned"}
         \/ pc = "enter" /\ pc' = "frames"
  PROVE  KeysHold' /\ VisitingIsActive'
BY GridFixed DEF IInv, KeysHold, VisitingIsActive, Searching

(* Leaving a frame keeps the invariant if its cell is VISITING afterwards  *)
(* exactly when a frame below works on it.                                 *)
LEMMA PopKeepsInv ==
  ASSUME IInv, pc = "visit", NEW l \in Int, Pop(l), Static, epoch' \in Nat,
         NEW v \in Int, memo' = [memo EXCEPT ![Here] = v],
         v = VISITING <=> \E k \in 1 .. Len(frames) - 1 : CellOf(k) = Here
  PROVE  IInv'
<1>1. Basic /\ call' = call /\ memo \in [Cells -> Int]
  BY DEF IInv, Static, Basic, TypeOK
<1>2. memo' \in [Cells -> Int] BY <1>1
<1>3. Basic' BY <1>1, <1>2, BasicPop DEF Static
<1>4. KeysHold' /\ VisitingIsActive' BY <1>1, VisitingPop DEF Static
<1> QED BY <1>3, <1>4 DEF IInv

(* A finished frame: its cell loses the VISITING mark for good.            *)
LEMMA FinishKeepsInv ==
  ASSUME IInv, pc = "visit", Top.phase # 0 \/ memo[Here] # VISITING,
         NEW l \in Int, NEW since, Finish(l, since)
  PROVE  IInv'
<1> DEFINE v == Cached(l, since)
<1>1. v \in Int /\ v # VISITING BY DEF Cached, UNVISITED, FAILED, VISITING
<1>2. memo' = [memo EXCEPT ![Here] = v] /\ Pop(l) /\ Static /\ epoch' = epoch
  BY DEF Finish
<1>3. epoch' \in Nat BY <1>2 DEF IInv, Basic, TypeOK
<1>4. ~ \E k \in 1 .. Len(frames) - 1 : CellOf(k) = Here BY OthersElsewhere
<1> HIDE DEF v
<1> QED BY <1>1, <1>2, <1>3, <1>4, PopKeepsInv

(* A frame that goes to a new phase with its cell VISITING keeps the       *)
(* invariant.                                                              *)
LEMMA GoToKeepsInv ==
  ASSUME IInv, pc = "visit", Top.phase # 0 \/ memo[Here] # VISITING,
         NEW ph \in 1 .. 4, NEW i, NEW p, NEW since \in Nat,
         GoTo(ph, i, p, since), InGrid(i, p), FrameFits([Top EXCEPT !.phase = ph]),
         memo' = [memo EXCEPT ![Here] = VISITING], last' \in Int
  PROVE  IInv'
<1>1. Basic /\ memo \in [Cells -> Int] BY DEF IInv, Basic, TypeOK
<1>2. memo' \in [Cells -> Int]
  <2>1. VISITING \in Int BY DEF VISITING
  <2> QED BY <1>1, <2>1
<1>3. Basic' BY <1>1, <1>2, BasicGoTo
<1>4. KeysHold' /\ VisitingIsActive' BY OthersElsewhere, VisitingGoTo
<1> QED BY <1>3, <1>4 DEF IInv

(* A resumed frame still owns its cell.                                    *)
LEMMA ResumedCell ==
  ASSUME IInv, Resumed
  PROVE  memo[Here] = VISITING /\ memo = [memo EXCEPT ![Here] = VISITING]
<1>1. Basic /\ pc = "visit" /\ Working(Len(frames))
  BY DEF IInv, Resumed, Working, Top
<1>2. memo[Here] = VISITING
  BY <1>1, BelowTopWorks DEF IInv, VisitingIsActive, Searching
<1>3. memo \in [Cells -> Int] BY <1>1 DEF Basic, TypeOK
<1> QED BY <1>2, <1>3

(* The first visit of a frame keeps the invariant.                         *)
LEMMA EnterKeepsInv ==
  ASSUME IInv, First, NEW ph \in 1 .. 4, NEW i, NEW p, Enter(ph, i, p), InGrid(i, p),
         FrameFits([Top EXCEPT !.phase = ph])
  PROVE  IInv'
<1>1. /\ pc = "visit" /\ memo[Here] # VISITING
      /\ epoch \in Nat /\ GoTo(ph, i, p, epoch)
      /\ memo' = [memo EXCEPT ![Here] = VISITING] /\ last' \in Int
  BY DEF First, Fresh, UNVISITED, VISITING, IInv, Basic, TypeOK, Enter
<1> QED BY <1>1, GoToKeepsInv

(* A resumed frame that asks for another child keeps the invariant.        *)
LEMMA ResumeKeepsInv ==
  ASSUME IInv, Resumed, NEW ph \in 1 .. 4, NEW i, NEW p,
         GoTo(ph, i, p, Top.cycle_epoch), UNCHANGED <<memo, last>>, InGrid(i, p),
         FrameFits([Top EXCEPT !.phase = ph])
  PROVE  IInv'
<1>1. pc = "visit" /\ Top.phase # 0 /\ Basic /\ last' \in Int
  BY DEF Resumed, IInv, Basic, TypeOK
<1>2. Top.cycle_epoch \in Nat BY <1>1, TopFacts DEF Frame
<1>3. memo' = [memo EXCEPT ![Here] = VISITING] BY ResumedCell
<1> QED BY <1>1, <1>2, <1>3, GoToKeepsInv

(* Every dispatch on the top frame keeps the invariant.                    *)
LEMMA DispatchKeepsInv ==
  ASSUME IInv, Dispatches
  PROVE  IInv'
<1>0. pc = "visit" /\ Basic /\ memo \in [Cells -> Int] /\ epoch \in Nat /\ last \in Int
  BY DEF Dispatches, CycleAcrossAssertion, EpochLimit, CutCycle, Reuse, Accept,
     EnterSplit, EnterAssertion, Advance, Mismatch, SecondBranch, AssertionHolds,
     AssertionFails, Done, Visiting, First, Fresh, Resumed, IInv, Basic, TypeOK
<1>1. ASSUME Break("INVALID") \/ Break("LIMIT"), UNCHANGED steps PROVE IInv'
  <2>1. Basic'
    BY <1>1, <1>0, BasicQuiet DEF Break, Basic, TypeOK, Statuses
  <2> QED BY <1>1, <2>1, QuietFacts DEF Break, IInv
<1>2. CASE CycleAcrossAssertion BY <1>1, <1>2 DEF CycleAcrossAssertion
<1>3. CASE EpochLimit BY <1>1, <1>3 DEF EpochLimit
<1>4. ASSUME NEW l \in Int, Fresh, Pop(l), UNCHANGED memo, epoch' \in Nat, Static,
             memo[Here] # UNVISITED
      PROVE  IInv'
  <2>1. Here \in Cells /\ memo' = [memo EXCEPT ![Here] = memo[Here]]
    BY <1>0, <1>4, TopFacts
  <2>2. memo[Here] = VISITING <=> \E k \in 1 .. Len(frames) - 1 : CellOf(k) = Here
    <3>1. memo[Here] = VISITING <=>
            \E k \in DOMAIN frames : Working(k) /\ CellOf(k) = Here
      BY <1>0, <2>1 DEF IInv, VisitingIsActive, Searching
    <3>2. ~Working(Len(frames)) BY <1>4 DEF Fresh, Working, Top
    <3> QED BY <1>0, <3>1, <3>2, BelowTopWorks
  <2>3. memo[Here] \in Int BY <1>0, <2>1
  <2> QED BY <1>0, <1>4, <2>1, <2>2, <2>3, PopKeepsInv
<1>5. CASE CutCycle
  <2>1. Fresh /\ Pop(-1) /\ UNCHANGED memo /\ epoch' \in Nat /\ Static
        /\ memo[Here] # UNVISITED
    BY <1>0, <1>5 DEF CutCycle, Visiting, UNVISITED, VISITING
  <2> QED BY <1>4, <2>1
<1>6. CASE Reuse
  <2> DEFINE l == IF memo[Here] > 0 THEN memo[Here] - 1 ELSE -1
  <2>1. l \in Int BY <1>0, TopFacts
  <2>2. Fresh /\ Pop(l) /\ UNCHANGED memo /\ epoch' \in Nat /\ Static
        /\ memo[Here] # UNVISITED
    BY <1>0, <1>6 DEF Reuse
  <2> HIDE DEF l
  <2> QED BY <1>4, <2>1, <2>2
<1>7. First => memo[Here] # VISITING BY DEF First, UNVISITED, VISITING
<1>8. CASE Accept
  <2>1. Top.position \in Int BY <1>0, TopFacts DEF Frame
  <2> QED BY <1>0, <1>7, <1>8, <2>1, FinishKeepsInv DEF Accept
<1>9. CASE EnterSplit
  <2>1. InGrid(code.first, Top.position) BY <1>0, <1>9, TopFacts DEF EnterSplit
  <2>2. FrameFits([Top EXCEPT !.phase = 1])
    BY <1>0, <1>9, TopFits DEF EnterSplit
  <2> QED BY <1>9, <2>1, <2>2, 1 \in 1 .. 4, EnterKeepsInv DEF EnterSplit
<1>10. CASE EnterAssertion
  <2>1. InGrid(code.first, Top.position)
    BY <1>0, <1>10, TopFacts DEF EnterAssertion
  <2>2. FrameFits([Top EXCEPT !.phase = 4])
    BY <1>0, <1>10, TopFits DEF EnterAssertion
  <2> QED BY <1>10, <2>1, <2>2, 4 \in 1 .. 4, EnterKeepsInv DEF EnterAssertion
<1>11. CASE Advance
  <2> DEFINE p == IF code.op = "END" THEN Top.position ELSE Top.position + 1
  <2>1. InGrid(code.next, p)
    BY <1>0, <1>11, TopFacts DEF Advance, Passes, Consuming
  <2>2. First /\ Enter(3, code.next, p) BY <1>11 DEF Advance
  <2>3. FrameFits([Top EXCEPT !.phase = 3])
    BY <1>0, <1>11, TopFits DEF Advance, Passes, Consuming
  <2> HIDE DEF p
  <2> QED BY <2>1, <2>2, <2>3, 3 \in 1 .. 4, EnterKeepsInv
<1>12. CASE Mismatch
  BY <1>0, <1>7, <1>12, FinishKeepsInv DEF Mismatch
<1>13. CASE SecondBranch
  <2>1. code.op = "SPLIT" /\ FrameFits([Top EXCEPT !.phase = 2])
    BY <1>0, <1>13, TopFits DEF SecondBranch, FrameFits, code
  <2>2. InGrid(code.second, Top.position) BY <1>0, <2>1, TopFacts
  <2> QED BY <1>13, <2>1, <2>2, 2 \in 1 .. 4, ResumeKeepsInv DEF SecondBranch
<1>14. CASE AssertionHolds
  <2>1. code.op \in Assertions
    BY <1>0, <1>14, TopFits DEF AssertionHolds, FrameFits, code
  <2>2. FrameFits([Top EXCEPT !.phase = 3]) BY <1>0, <2>1, TopFits DEF Assertions
  <2>3. InGrid(code.next, Top.position)
    BY <1>0, <2>1, TopFacts DEF Assertions
  <2> QED BY <1>14, <2>2, <2>3, 3 \in 1 .. 4, ResumeKeepsInv DEF AssertionHolds
<1>15. CASE AssertionFails
  BY <1>0, <1>15, FinishKeepsInv DEF AssertionFails, Resumed
<1>16. CASE Done
  BY <1>0, <1>16, FinishKeepsInv DEF Done, Resumed
<1> QED
  BY <1>2, <1>3, <1>5, <1>6, <1>8, <1>9, <1>10, <1>11, <1>12, <1>13, <1>14, <1>15, <1>16
  DEF Dispatches

(* Every step of the call keeps the invariant.                             *)
LEMMA StepKeepsInv == IInv /\ [Next]_vars => IInv'
<1> SUFFICES ASSUME IInv, [Next]_vars PROVE IInv' OBVIOUS
<1>0. Basic /\ TypeOK /\ call' = call /\ call \in Call
  BY CallFixed DEF IInv, Basic, TypeOK
<1>1. ASSUME UNCHANGED <<frames, memo, keys, child, last, epoch>>, capacity' \in Nat,
             slots' \in Nat, steps' \in Nat, end' \in Int,
             heap' \subseteq {"memo", "entries", "frames"}, result' \in Statuses,
             \/ pc' \in {"cleanup", "returned"}
             \/ pc = "enter" /\ pc' = "frames" /\ ArgumentsValid
      PROVE  IInv'
  <2>1. Basic' BY <1>0, <1>1, BasicQuiet
  <2> QED BY <1>0, <1>1, <2>1, QuietFacts DEF IInv
<1>2. CASE UNCHANGED vars
  <2>1. TypeOK' BY <1>0, <1>2, GridFixed DEF TypeOK, vars
  <2>2. Valid' BY <1>0, <1>2, GridFixed DEF IInv, Basic, Valid, vars
  <2>3. StackOnGrid'
    BY <1>0, <1>2, GridFixed
    DEF IInv, Basic, StackOnGrid, Searching, FrameFits, InGrid, Working, vars
  <2>4. KeysHold'
    BY <1>0, <1>2, GridFixed DEF IInv, KeysHold, Searching, Here, Top, Cell, vars
  <2>5. VisitingIsActive'
    BY <1>0, <1>2, GridFixed
    DEF IInv, VisitingIsActive, Searching, Working, CellOf, Cell, vars
  <2> QED BY <2>1, <2>2, <2>3, <2>4, <2>5 DEF IInv, Basic
<1>3. ASSUME NEW s \in Statuses, Return(s) PROVE IInv'
  BY <1>0, <1>1, <1>3 DEF Return, TypeOK
<1>4. ASSUME NEW s \in Statuses, Break(s), steps' \in Nat PROVE IInv'
  BY <1>0, <1>1, <1>4 DEF Break, TypeOK
<1>5. {"INVALID", "LIMIT", "NOMEM", "NOMATCH"} \subseteq Statuses BY DEF Statuses
<1>6. CASE Enters
  <2>1. CASE RejectArguments BY <1>3, <1>5, <2>1 DEF RejectArguments
  <2>2. CASE RejectSizes BY <1>3, <1>5, <2>2 DEF RejectSizes
  <2>3. CASE MemoNoMem BY <1>3, <1>5, <2>3 DEF MemoNoMem
  <2>4. CASE AllocateMemo
    BY <1>0, <1>1, <2>4, ConstantsAssumption DEF AllocateMemo, TypeOK, MemoBlock
  <2>5. CASE FramesNoMem BY <1>0, <1>1, <1>5, <2>5 DEF FramesNoMem, TypeOK
  <2>6. CASE AllocateFrames
    BY <1>0, <2>6, BasicAllocateFrames, VisitingAllocate DEF IInv
  <2> QED BY <1>6, <2>1, <2>2, <2>3, <2>4, <2>5, <2>6 DEF Enters
<1>7. CASE Turns
  <2>1. CountStep => steps' \in Nat BY <1>0 DEF CountStep, TypeOK
  <2>2. CASE OutOfSteps BY <1>0, <1>4, <1>5, <2>2 DEF OutOfSteps, TypeOK
  <2>3. CASE TableLimit BY <1>4, <1>5, <2>1, <2>3 DEF TableLimit
  <2>4. CASE TableNoMem BY <1>4, <1>5, <2>1, <2>4 DEF TableNoMem
  <2>5. CASE Turn BY <2>5, TurnFacts DEF IInv
  <2> QED BY <1>7, <2>2, <2>3, <2>4, <2>5 DEF Turns
<1>8. CASE Dispatches BY <1>8, DispatchKeepsInv
<1>9. CASE Pushes
  <2>1. CASE FrameLimit BY <1>0, <1>4, <1>5, <2>1 DEF FrameLimit, TypeOK
  <2>2. CASE GrowNoMem BY <1>0, <1>4, <1>5, <2>2 DEF GrowNoMem, TypeOK
  <2>3. CASE Descend BY <1>0, <2>3, BasicDescend, VisitingDescend DEF IInv
  <2> QED BY <1>9, <2>1, <2>2, <2>3 DEF Pushes
<1>10. CASE StackEmpty BY <1>0, <1>1, <1>10 DEF StackEmpty, TypeOK
<1>11. CASE Cleanup BY <1>0, <1>1, <1>5, <1>11 DEF Cleanup, TypeOK
<1> QED BY <1>2, <1>6, <1>7, <1>8, <1>9, <1>10, <1>11 DEF Next

(* The invariant holds when the call begins.                               *)
LEMMA InitInv == Init => IInv
<1> SUFFICES ASSUME Init PROVE IInv OBVIOUS
<1>1. Basic BY BasicInit
<1>2. KeysHold BY DEF Init, KeysHold, Searching
<1>3. VisitingIsActive BY DEF Init, VisitingIsActive, Searching
<1> QED BY <1>1, <1>2, <1>3 DEF IInv

(* The inductive invariant of the engine, from which the theorems below    *)
(* follow.                                                                 *)
THEOREM Invariance == Spec => []IInv
BY InitInv, StepKeepsInv, PTL DEF Spec

(* Every variable keeps its type, for every program, input, limit and size.*)
THEOREM TypeCorrect == Spec => []TypeOK
<1>1. IInv => TypeOK BY DEF IInv, Basic
<1> QED BY <1>1, Invariance, PTL

(* The memo's VISITING cells are exactly those of the working frames, one  *)
(* frame for each: the ancestor scan of the cycle test cannot come up      *)
(* empty, and no pair is ever worked on twice at a time.                   *)
THEOREM VisitingCorrect == Spec => []VisitingIsActive
<1>1. IInv => VisitingIsActive BY DEF IInv
<1> QED BY <1>1, Invariance, PTL

(* In the sparse table every value has its slot and a frame that comes     *)
(* back to its cell finds it: memo_slot neither inserts nor grows then, so *)
(* a resumed frame cannot fail for want of memory.                         *)
THEOREM SlotsPersist == Spec => []ValuesHaveSlots
<1>1. IInv => ValuesHaveSlots
  <2> SUFFICES ASSUME IInv, Searching, ~Dense,
                      NEW k \in DOMAIN frames, Working(k)
               PROVE  CellOf(k) \in keys
    BY DEF ValuesHaveSlots, IInv, KeysHold
  <2>1. CellOf(k) \in Cells
    <3>1. FrameFits(frames[k]) /\ ArgumentsValid /\ call \in Call
      BY DEF IInv, Basic, StackOnGrid, Valid, TypeOK, Searching
    <3> QED BY <3>1, GridCell DEF FrameFits, CellOf
  <2>2. memo[CellOf(k)] = VISITING BY <2>1 DEF IInv, VisitingIsActive
  <2> QED BY <2>1, <2>2 DEF IInv, KeysHold, VISITING, UNVISITED
<1> QED BY <1>1, Invariance, PTL
-----------------------------------------------------------------------------
(***************************************************************************)
(* What one call may use: the depth of its stack, the size of its blocks,  *)
(* the load of its memo table, and that it gives every block back.         *)
(*                                                                         *)
(* All three theorems rest on IInv.  The depth is a pigeonhole: the frames *)
(* below the top work on cells of their own, and there are `cells` of      *)
(* these.  The sizes are the code's divisions read backwards: what was     *)
(* found at most SizeMax \div n before a product with n fits in SizeMax    *)
(* after it.                                                               *)
(***************************************************************************)
(* No two of the first n frames work on one cell, so n is at most `cells`. *)
LEMMA FewFramesWork ==
  ASSUME IInv, Searching, NEW n \in Nat, n <= Len(frames),
         \A k \in 1 .. n : Working(k)
  PROVE  n <= cells
  <1>1. /\ frames \in Seq(Frame) /\ call \in Call /\ ArgumentsValid
        /\ \A k \in DOMAIN frames : FrameFits(frames[k])
    BY DEF IInv, Basic, TypeOK, Valid, StackOnGrid, Searching
  <1>2. Len(frames) \in Nat /\ DOMAIN frames = 1 .. Len(frames)
    BY <1>1, LenProperties
  <1>3. \A k \in 1 .. n : k \in DOMAIN frames
    BY <1>2
  <1>4. \A k \in 1 .. n : CellOf(k) \in Cells
    BY <1>1, <1>3, GridCell DEF FrameFits, CellOf
  <1>5. cells \in Nat
    <2>1. Count(program) \in Nat /\ columns \in Nat
      BY <1>1, GridSizes
    <2> QED BY <2>1 DEF cells
  <1>. DEFINE cell == [k \in 1 .. n |-> CellOf(k)]
  <1>6. cell \in [1 .. n -> Cells]
    BY <1>4
  <1>7. \A j, k \in 1 .. n : cell[j] = cell[k] => j = k
    BY <1>3 DEF IInv, VisitingIsActive
  <1>8. IsFiniteSet(1 .. n) /\ Cardinality(1 .. n) = n
    BY FS_Interval
  <1>9. IsFiniteSet(Cells) /\ Cardinality(Cells) = cells
    BY <1>5, FS_Interval DEF Cells
  <1>. HIDE DEF cell
  <1>10. ~(Cardinality(Cells) < Cardinality(1 .. n))
    BY <1>6, <1>7, <1>8, <1>9, FS_PigeonHole
  <1> QED BY <1>5, <1>8, <1>9, <1>10

(* The depth: all frames but the top work, and all of them while a child   *)
(* is being pushed.                                                        *)
LEMMA DepthBounded ==
  ASSUME IInv, Searching
  PROVE  Len(frames) <= cells + 1
  <1>1. /\ frames \in Seq(Frame) /\ call \in Call /\ ArgumentsValid
        /\ \A k \in 1 .. Len(frames) - 1 : Working(k)
    BY DEF IInv, Basic, TypeOK, Valid, StackOnGrid, Searching
  <1>2. Len(frames) \in Nat
    BY <1>1, LenProperties
  <1>3. cells \in Nat
    <2>1. Count(program) \in Nat /\ columns \in Nat
      BY <1>1, GridSizes
    <2> QED BY <2>1 DEF cells
  <1>4. CASE Len(frames) = 0
    BY <1>3, <1>4
  <1>5. CASE Len(frames) # 0
    <2>1. Len(frames) - 1 \in Nat /\ Len(frames) - 1 <= Len(frames)
      BY <1>2, <1>5
    <2>2. Len(frames) - 1 <= cells
      BY <1>1, <2>1, FewFramesWork
    <2> QED BY <1>2, <1>3, <2>2
  <1> QED BY <1>4, <1>5
-----------------------------------------------------------------------------
(* The sizes, as an invariant: the grid fits once the call has passed the  *)
(* size test; the block of frames holds the stack, keeps to the caller's   *)
(* budget and fits; the table is at most half full, can grow, and fits.    *)
GridFits == pc \in {"frames", "loop", "visit", "descend"} => WithinSizes

FramesFit ==
  Searching =>
    /\ capacity > 0 /\ Len(frames) <= capacity
    /\ limits.max_frames > 0 => capacity <= limits.max_frames
    /\ capacity * FrameBytes <= SizeMax

TableFits ==
  /\ pc \in {"enter", "frames"} => keys = {}
  /\ pc \in {"frames", "loop", "visit", "descend"} /\ ~Dense =>
       /\ 2 * Cardinality(keys) <= slots /\ slots >= 2
       /\ slots * EntryBytes <= SizeMax

SizesInv == IInv /\ GridFits /\ FramesFit /\ TableFits

(* The sizes of the code's types are numbers.                              *)
LEMMA SizeFacts ==
  ASSUME IInv
  PROVE  /\ SizeMax \in Nat /\ InitialSlots \in Nat /\ InitialSlots >= 2
         /\ IntBytes \in Nat \ {0} /\ FrameBytes \in Nat \ {0} /\ EntryBytes \in Nat \ {0}
         /\ InitialFrames \in Nat \ {0}
         /\ limits.max_frames \in Nat /\ limits.max_memo_bytes \in Nat
         /\ SizeMax \div IntBytes \in Nat /\ SizeMax \div FrameBytes \in Nat
         /\ SizeMax \div EntryBytes \in Nat
         /\ frames \in Seq(Frame) /\ Len(frames) \in Nat /\ capacity \in Nat
         /\ slots \in Nat /\ call \in Call
  <1>1. /\ SizeMax \in Nat /\ InitialSlots \in Nat /\ InitialSlots >= 2
        /\ IntBytes \in Nat \ {0} /\ FrameBytes \in Nat \ {0} /\ EntryBytes \in Nat \ {0}
        /\ InitialFrames \in Nat \ {0}
    BY ConstantsAssumption
  <1>2. /\ SizeMax \div IntBytes \in Nat /\ SizeMax \div FrameBytes \in Nat
        /\ SizeMax \div EntryBytes \in Nat
    BY <1>1
  <1>3. frames \in Seq(Frame) /\ capacity \in Nat /\ slots \in Nat /\ call \in Call
    BY DEF IInv, Basic, TypeOK
  <1>4. limits.max_frames \in Nat /\ limits.max_memo_bytes \in Nat
    BY <1>3 DEF Call, Limits, limits
  <1> QED BY <1>1, <1>2, <1>3, <1>4, LenProperties

(* The occupied slots can be counted.                                      *)
LEMMA KeysFinite ==
  ASSUME IInv, ArgumentsValid
  PROVE  IsFiniteSet(keys) /\ Cardinality(keys) \in Nat
  <1>1. keys \subseteq Cells /\ call \in Call
    BY DEF IInv, Basic, TypeOK
  <1>2. cells \in Nat
    <2>1. Count(program) \in Nat /\ columns \in Nat
      BY <1>1, GridSizes
    <2> QED BY <2>1 DEF cells
  <1>3. IsFiniteSet(Cells)
    BY <1>2, FS_Interval DEF Cells
  <1> QED BY <1>1, <1>3, FS_Subset, FS_CardinalityType

(* A table of the initial size fits: it is only used for grids that would  *)
(* take more room, and these fit.                                          *)
LEMMA InitialTableFits ==
  ASSUME IInv, ArgumentsValid, WithinSizes, ~Dense
  PROVE  InitialSlots * EntryBytes <= SizeMax
  <1>1. cells \in Nat /\ cells <= SizeMax \div IntBytes
    <2>1. /\ Count(program) \in Nat /\ columns \in Nat \ {0}
          /\ Count(program) <= (SizeMax \div IntBytes) \div columns
      BY SizeFacts, GridSizes DEF WithinSizes
    <2>2. Count(program) * columns <= SizeMax \div IntBytes
      BY <2>1, SizeFacts, QuotientFits
    <2> QED BY <2>1, <2>2 DEF cells
  <1>2. InitialSlots * EntryBytes \in Nat
    BY SizeFacts, SMTT(30)
  <1>3. (InitialSlots * EntryBytes) \div IntBytes \in Nat
    <2>1. \A b \in Nat, f \in Nat \ {0} : b \div f \in Nat
      OBVIOUS
    <2> QED BY <1>2, <2>1, SizeFacts, Zenon
  <1>4. (InitialSlots * EntryBytes) \div IntBytes < cells
    BY <1>1, <1>3 DEF Dense
  <1>5. (InitialSlots * EntryBytes) \div IntBytes < SizeMax \div IntBytes
    BY <1>1, <1>3, <1>4, SizeFacts, SMTT(30)
  <1> QED BY <1>2, <1>5, SizeFacts, QuotientOrder
-----------------------------------------------------------------------------
(* The steps that end the search, or come after it, leave nothing to show. *)
LEMMA LeavingKeepsSizes ==
  ASSUME IInv', pc' \in {"cleanup", "returned"}
  PROVE  SizesInv'
  BY DEF SizesInv, GridFits, FramesFit, TableFits, Searching

(* The size test reads the arguments alone.                                *)
LEMMA SizeTestFixed ==
  ASSUME call' = call
  PROVE  WithinSizes' = WithinSizes
  BY GridFixed DEF WithinSizes, CappedFrames

(* Nor do the steps of the search that neither push a frame nor insert a   *)
(* cell.                                                                   *)
LEMMA SearchingKeepsSizes ==
  ASSUME SizesInv, IInv', call' = call, Searching, pc' \in {"loop", "visit", "descend"},
         Len(frames') \in Nat, Len(frames') <= Len(frames),
         UNCHANGED <<capacity, keys, slots>>
  PROVE  SizesInv'
  <1>1. GridFits'
    BY SizeTestFixed DEF SizesInv, GridFits, Searching
  <1>2. FramesFit'
    BY GridFixed, SizeFacts, SMTT(30) DEF SizesInv, FramesFit, Searching
  <1>3. TableFits'
    BY GridFixed DEF SizesInv, TableFits, Searching
  <1> QED BY <1>1, <1>2, <1>3 DEF SizesInv

(* The memo: nothing, or a table of the initial size.                      *)
LEMMA AllocateMemoKeepsSizes ==
  ASSUME SizesInv, IInv', call' = call, AllocateMemo
  PROVE  SizesInv'
  <1>1. /\ pc = "enter" /\ pc' = "frames" /\ ArgumentsValid /\ WithinSizes
        /\ keys = {} /\ keys' = {} /\ IInv
        /\ ~Dense => slots' = InitialSlots
    BY DEF AllocateMemo, SizesInv, TableFits
  <1>2. GridFits'
    BY <1>1, SizeTestFixed DEF GridFits
  <1>3. FramesFit'
    BY <1>1 DEF FramesFit, Searching
  <1>4. TableFits'
    <2>1. Cardinality(keys') = 0
      BY <1>1, FS_EmptySet
    <2>2. ~Dense => InitialSlots * EntryBytes <= SizeMax
      BY <1>1, InitialTableFits
    <2>3. InitialSlots \in Nat /\ InitialSlots >= 2
      BY <1>1, SizeFacts
    <2> QED BY <1>1, <2>1, <2>2, <2>3, GridFixed DEF TableFits
  <1> QED BY <1>2, <1>3, <1>4 DEF SizesInv

(* The first block of frames.                                              *)
LEMMA AllocateFramesKeepsSizes ==
  ASSUME SizesInv, IInv', call' = call, AllocateFrames
  PROVE  SizesInv'
  <1>1. /\ pc = "frames" /\ pc' = "loop" /\ WithinSizes /\ IInv
        /\ capacity' = CappedFrames(InitialFrames)
        /\ Len(frames') = 1 /\ UNCHANGED <<keys, slots>>
    BY DEF AllocateFrames, SizesInv, GridFits
  <1>2. GridFits'
    BY <1>1, SizeTestFixed DEF GridFits
  <1>3. FramesFit'
    <2>1. /\ capacity' \in Nat \ {0} /\ capacity' <= SizeMax \div FrameBytes
          /\ limits.max_frames > 0 => capacity' <= limits.max_frames
      BY <1>1, SizeFacts, SMTT(30) DEF CappedFrames, WithinSizes
    <2>2. capacity' * FrameBytes <= SizeMax
      BY <1>1, <2>1, SizeFacts, QuotientFits
    <2> QED BY <1>1, <2>1, <2>2, GridFixed DEF FramesFit
  <1>4. TableFits'
    BY <1>1, GridFixed DEF SizesInv, TableFits
  <1> QED BY <1>2, <1>3, <1>4 DEF SizesInv

(* A turn: memo_slot doubles the table before it would be more than half   *)
(* full.                                                                   *)
LEMMA TurnKeepsSizes ==
  ASSUME SizesInv, IInv', call' = call, Turn
  PROVE  SizesInv'
  <1>1. /\ pc = "loop" /\ pc' = "visit" /\ UNCHANGED <<frames, capacity>>
        /\ keys' = IF Present THEN keys ELSE keys \cup {Here}
        /\ slots' = IF MustGrow THEN 2 * slots ELSE slots
        /\ MustGrow => CanDouble
    BY DEF Turn, AtTurn
  <1>2. IInv /\ ArgumentsValid
    BY <1>1 DEF SizesInv, IInv, Basic, Valid
  <1>3. GridFits'
    BY <1>1, SizeTestFixed DEF SizesInv, GridFits
  <1>4. FramesFit'
    BY <1>1, GridFixed DEF SizesInv, FramesFit, Searching
  <1>5. TableFits'
    <2>. SUFFICES ASSUME ~Dense
                  PROVE  /\ 2 * Cardinality(keys') <= slots' /\ slots' >= 2
                         /\ slots' * EntryBytes <= SizeMax
      BY <1>1, GridFixed DEF TableFits
    <2>1. /\ 2 * Cardinality(keys) <= slots /\ slots >= 2 /\ slots \in Nat
          /\ slots * EntryBytes <= SizeMax
      BY <1>1, <1>2, SizeFacts DEF SizesInv, TableFits
    <2>2. IsFiniteSet(keys) /\ Cardinality(keys) \in Nat
      BY <1>2, KeysFinite
    <2>3. CASE Present
      BY <1>1, <2>1, <2>3 DEF MustGrow
    <2>4. CASE ~Present
      <3>1. Here \notin keys
        BY <2>4 DEF Present
      <3>2. Cardinality(keys') = Cardinality(keys) + 1
        BY <1>1, <2>2, <2>4, <3>1, FS_AddElement
      <3>3. CASE MustGrow
        <4>1. slots' = 2 * slots /\ 2 * slots <= SizeMax \div EntryBytes
          BY <1>1, <1>2, <2>1, <3>3, SizeFacts, SMTT(30) DEF CanDouble
        <4>2. slots' * EntryBytes <= SizeMax
          BY <1>2, <2>1, <4>1, SizeFacts, QuotientFits, SMTT(30)
        <4> QED BY <2>1, <2>2, <3>2, <4>1, <4>2
      <3>4. CASE ~MustGrow
        <4>1. Cardinality(keys) < slots \div 2 /\ slots' = slots
          BY <1>1, <2>1, <2>2, <2>4, <3>4 DEF MustGrow
        <4> QED BY <2>1, <2>2, <3>2, <4>1
      <3> QED BY <3>3, <3>4
    <2> QED BY <2>3, <2>4
  <1> QED BY <1>3, <1>4, <1>5 DEF SizesInv

(* A push: the block is doubled when it is full, up to the budget.         *)
LEMMA DescendKeepsSizes ==
  ASSUME SizesInv, IInv', call' = call, Descend
  PROVE  SizesInv'
  <1>1. /\ pc = "descend" /\ pc' = "loop" /\ UNCHANGED <<keys, slots>>
        /\ ~OverBudget /\ (Full => FramesDouble)
        /\ capacity' = IF Full THEN CappedFrames(2 * capacity) ELSE capacity
    BY DEF Descend
  <1>2. IInv
    BY DEF SizesInv
  <1>3. Len(frames') = Len(frames) + 1
    BY <1>2, SizeFacts DEF Descend
  <1>4. GridFits'
    BY <1>1, SizeTestFixed DEF SizesInv, GridFits
  <1>5. FramesFit'
    <2>1. /\ capacity > 0 /\ Len(frames) <= capacity
          /\ limits.max_frames > 0 => capacity <= limits.max_frames
          /\ capacity * FrameBytes <= SizeMax
      BY <1>1 DEF SizesInv, FramesFit, Searching
    <2>2. limits.max_frames > 0 => Len(frames) < limits.max_frames
      BY <1>1, <1>2, SizeFacts, SMTT(30) DEF OverBudget
    <2>3. CASE Full
      <3>1. /\ capacity' \in Nat /\ capacity' > capacity
            /\ limits.max_frames > 0 => capacity' <= limits.max_frames
            /\ capacity' <= SizeMax \div FrameBytes
        <4>1. /\ capacity' = IF limits.max_frames > 0 /\ 2 * capacity > limits.max_frames
                            THEN limits.max_frames ELSE 2 * capacity
              /\ Len(frames) = capacity /\ capacity \in Nat /\ limits.max_frames \in Nat
          BY <1>1, <1>2, <2>3, SizeFacts DEF Full, CappedFrames
        <4>2. 2 * capacity <= SizeMax \div FrameBytes
          BY <1>1, <1>2, <2>3, SizeFacts, SMTT(30) DEF FramesDouble
        <4>3. SizeMax \div FrameBytes \in Nat
          BY <1>2, SizeFacts
        <4>. DEFINE q == SizeMax \div FrameBytes
        <4>. HIDE DEF q
        <4>4. 2 * capacity <= q /\ q \in Nat
          BY <4>2, <4>3 DEF q
        <4>5. capacity' <= q /\ capacity' \in Nat /\ capacity' > capacity
          BY <2>1, <2>2, <4>1, <4>4
        <4>6. limits.max_frames > 0 => capacity' <= limits.max_frames
          BY <2>1, <2>2, <4>1
        <4> QED BY <4>5, <4>6 DEF q
      <3>2. capacity' * FrameBytes <= SizeMax
        BY <1>2, <3>1, SizeFacts, QuotientFits
      <3> QED BY <1>2, <1>3, <2>1, <3>1, <3>2, GridFixed, SizeFacts, SMTT(30) DEF FramesFit
    <2>4. CASE ~Full
      BY <1>1, <1>2, <1>3, <2>1, <2>4, GridFixed, SizeFacts DEF FramesFit, Full
    <2> QED BY <2>3, <2>4
  <1>6. TableFits'
    BY <1>1, GridFixed DEF SizesInv, TableFits
  <1> QED BY <1>4, <1>5, <1>6 DEF SizesInv

(* What a dispatch does to the stack: at most one frame leaves it.         *)
LEMMA DispatchKeepsSizes ==
  ASSUME SizesInv, IInv', call' = call, Dispatches
  PROVE  SizesInv'
  <1>1. IInv /\ Basic /\ pc = "visit"
    BY DEF SizesInv, IInv, Dispatches, CycleAcrossAssertion, EpochLimit, CutCycle, Reuse,
       Accept, EnterSplit, EnterAssertion, Advance, Mismatch, SecondBranch,
       AssertionHolds, AssertionFails, Done, Visiting, Fresh, First, Resumed
  <1>2. frames \in Seq(Frame) /\ frames # <<>> /\ Len(frames) \in Nat
    BY <1>1, BelowTopWorks
  <1>3. ASSUME NEW l, Pop(l), Static PROVE SizesInv'
    <2>1. Len(frames') = Len(frames) - 1 /\ frames' \in Seq(Frame)
      BY <1>2, <1>3, PopStack DEF Pop
    <2>2. Len(frames') \in Nat
      BY <2>1, LenProperties
    <2> QED BY <1>1, <1>2, <1>3, <2>1, <2>2, SearchingKeepsSizes DEF Pop, Static, Searching
  <1>4. ASSUME NEW ph, NEW i, NEW p, NEW since, GoTo(ph, i, p, since) PROVE SizesInv'
    <2>1. Len(frames') = Len(frames)
      BY <1>2, <1>4 DEF GoTo
    <2> QED BY <1>1, <1>2, <1>4, <2>1, SearchingKeepsSizes DEF GoTo, Static, Searching
  <1>5. ASSUME NEW l, NEW since, Finish(l, since) PROVE SizesInv'
    BY <1>3, <1>5 DEF Finish
  <1>6. ASSUME NEW ph, NEW i, NEW p, Enter(ph, i, p) PROVE SizesInv'
    BY <1>4, <1>6 DEF Enter
  <1>7. CASE CycleAcrossAssertion \/ EpochLimit
    BY <1>7, LeavingKeepsSizes DEF CycleAcrossAssertion, EpochLimit, Break
  <1>8. CASE CutCycle \/ Reuse
    BY <1>3, <1>8 DEF CutCycle, Reuse
  <1>9. CASE Accept \/ Mismatch \/ AssertionFails \/ Done
    BY <1>5, <1>9 DEF Accept, Mismatch, AssertionFails, Done
  <1>10. CASE EnterSplit \/ EnterAssertion \/ Advance
    BY <1>6, <1>10 DEF EnterSplit, EnterAssertion, Advance
  <1>11. CASE SecondBranch \/ AssertionHolds
    BY <1>4, <1>11 DEF SecondBranch, AssertionHolds
  <1> QED BY <1>7, <1>8, <1>9, <1>10, <1>11 DEF Dispatches

(* Every step of the call keeps the sizes.                                 *)
LEMMA StepKeepsSizes == SizesInv /\ [Next]_vars => SizesInv'
  <1>. SUFFICES ASSUME SizesInv, [Next]_vars PROVE SizesInv'
    OBVIOUS
  <1>1. IInv /\ IInv' /\ call' = call
    BY StepKeepsInv, CallFixed DEF SizesInv
  <1>2. CASE UNCHANGED vars
    <2>1. GridFits' /\ FramesFit' /\ TableFits'
      BY <1>1, <1>2, GridFixed, SizeTestFixed
      DEF SizesInv, GridFits, FramesFit, TableFits, Searching, vars
    <2> QED BY <1>1, <2>1 DEF SizesInv
  <1>3. CASE Enters
    <2>1. CASE RejectArguments \/ RejectSizes \/ MemoNoMem \/ FramesNoMem
      BY <1>1, <2>1, LeavingKeepsSizes
      DEF RejectArguments, RejectSizes, MemoNoMem, FramesNoMem, Return
    <2> QED BY <1>1, <1>3, <2>1, AllocateMemoKeepsSizes, AllocateFramesKeepsSizes
      DEF Enters
  <1>4. CASE Turns
    <2>1. CASE OutOfSteps \/ TableLimit \/ TableNoMem
      BY <1>1, <2>1, LeavingKeepsSizes DEF OutOfSteps, TableLimit, TableNoMem, Break
    <2> QED BY <1>1, <1>4, <2>1, TurnKeepsSizes DEF Turns
  <1>5. CASE Dispatches
    BY <1>1, <1>5, DispatchKeepsSizes
  <1>6. CASE Pushes
    <2>1. CASE FrameLimit \/ GrowNoMem
      BY <1>1, <2>1, LeavingKeepsSizes DEF FrameLimit, GrowNoMem, Break
    <2> QED BY <1>1, <1>6, <2>1, DescendKeepsSizes DEF Pushes
  <1>7. CASE StackEmpty \/ Cleanup
    BY <1>1, <1>7, LeavingKeepsSizes DEF StackEmpty, Cleanup
  <1> QED BY <1>2, <1>3, <1>4, <1>5, <1>6, <1>7 DEF Next

(* The sizes hold when the call begins, and so throughout.                 *)
LEMMA AlwaysSizes == Spec => []SizesInv
  <1>1. Init => SizesInv
    <2>. SUFFICES ASSUME Init PROVE SizesInv
      OBVIOUS
    <2>1. IInv
      BY InitInv
    <2> QED BY <2>1 DEF Init, SizesInv, GridFits, FramesFit, TableFits, Searching
  <1> QED BY <1>1, StepKeepsSizes, PTL DEF Spec

(* The explicit stack of maia_regex_exec is never deeper than its grid has *)
(* cells, plus the frame that is about to find a cycle; it stays in its    *)
(* block and in the caller's budget, and the block's size never wraps.     *)
THEOREM StackFits == Spec => []StackBounded
  <1>1. SizesInv => StackBounded
    BY DepthBounded DEF SizesInv, FramesFit, StackBounded
  <1> QED BY <1>1, AlwaysSizes, PTL

(* The open-addressed table of the memo is never more than half full, so a *)
(* probe of memo_slot ends, and its size never wraps.                      *)
THEOREM TableStaysHalfEmpty == Spec => []TableHalfEmpty
  <1>1. SizesInv => TableHalfEmpty
    BY DEF SizesInv, TableFits, TableHalfEmpty, Searching
  <1> QED BY <1>1, AlwaysSizes, PTL
-----------------------------------------------------------------------------
(* The blocks that a call owns before it begins and after it returns.      *)
BlocksReturned == pc \in {"enter", "returned"} => heap = {}

(* Every return path of maia_regex_exec, the failed allocations among      *)
(* them, frees all that the call allocated.                                *)
THEOREM EveryBlockFreed == Spec => []NoLeak
  <1>1. Init => BlocksReturned
    BY DEF Init, BlocksReturned
  <1>2. TypeOK /\ BlocksReturned /\ [Next]_vars => BlocksReturned'
    <2>. SUFFICES ASSUME TypeOK, BlocksReturned, [Next]_vars PROVE BlocksReturned'
      OBVIOUS
    <2>1. CASE UNCHANGED vars
      BY <2>1 DEF BlocksReturned, vars
    <2>2. CASE RejectArguments \/ RejectSizes \/ MemoNoMem
      BY <2>2 DEF RejectArguments, RejectSizes, MemoNoMem, Return, BlocksReturned
    <2>3. CASE AllocateMemo \/ FramesNoMem \/ AllocateFrames
      BY <2>3 DEF AllocateMemo, FramesNoMem, AllocateFrames, BlocksReturned
    <2>4. CASE Turns
      BY <2>4 DEF Turns, OutOfSteps, TableLimit, TableNoMem, Turn, Break, BlocksReturned
    <2>5. CASE Dispatches
      BY <2>5 DEF Dispatches, CycleAcrossAssertion, EpochLimit, CutCycle, Reuse, Accept,
         EnterSplit, EnterAssertion, Advance, Mismatch, SecondBranch, AssertionHolds,
         AssertionFails, Done, Break, Pop, Finish, GoTo, Enter, BlocksReturned
    <2>6. CASE Pushes
      BY <2>6 DEF Pushes, FrameLimit, GrowNoMem, Descend, Break, BlocksReturned
    <2>7. CASE StackEmpty
      BY <2>7 DEF StackEmpty, BlocksReturned
    <2>8. CASE Cleanup
      BY <2>8 DEF Cleanup, TypeOK, BlocksReturned
    <2> QED BY <2>1, <2>2, <2>3, <2>4, <2>5, <2>6, <2>7, <2>8 DEF Next, Enters
  <1>3. BlocksReturned => NoLeak
    BY DEF BlocksReturned, NoLeak
  <1> QED BY <1>1, <1>2, <1>3, TypeCorrect, PTL DEF Spec
-----------------------------------------------------------------------------
(* What maia_regex_exec reports is derivable from the program: the path    *)
(* invariant of the stack and, on top of it, the soundness of the memo,    *)
(* for all programs (cyclic ones and assertions included).                 *)
PathInv == IInv /\ StackIsPath

(* What a frame waits for depends on its place and its phase alone.        *)
LEMMA WaitsForPlace ==
  ASSUME NEW f, NEW g, f.instruction = g.instruction,
         f.position = g.position, f.phase = g.phase
  PROVE  WaitsFor(f) = WaitsFor(g)
BY DEF WaitsFor

(* What a frame waits for depends on the arguments and on the frame only.  *)
LEMMA WaitsForFixed ==
  ASSUME call' = call
  PROVE  \A f : WaitsFor(f)' = WaitsFor(f)
BY GridFixed DEF WaitsFor

(* Leaving the top frame leaves a path.                                    *)
LEMMA PathPop ==
  ASSUME PathInv, pc = "visit", NEW l, Pop(l), call' = call
  PROVE  StackIsPath'
<1>0. Basic BY DEF PathInv, IInv
<1>1. /\ frames' \in Seq(Frame) /\ Len(frames') = Len(frames) - 1
      /\ \A k \in 1 .. Len(frames) - 1 : frames'[k] = frames[k]
      /\ pc' = "loop"
  BY <1>0, BelowTopWorks, PopStack DEF Pop
<1>2. Len(frames) \in Nat /\ frames # <<>> BY <1>0, BelowTopWorks
<1>3. frames' # <<>> => 1 \in 1 .. Len(frames) - 1
  BY <1>1, <1>2, EmptySeq, LenProperties
<1>4. frames' # <<>> => /\ frames'[1].instruction = program.entry
                        /\ frames'[1].position = start
                        /\ frames'[1].assertion_depth = 0
  BY <1>1, <1>2, <1>3 DEF PathInv, StackIsPath, Searching
<1>5. ASSUME NEW k \in 1 .. Len(frames') - 1
      PROVE  /\ frames'[k + 1].instruction = WaitsFor(frames'[k]).instruction
             /\ frames'[k + 1].position = WaitsFor(frames'[k]).position
             /\ frames'[k + 1].assertion_depth = Inside(frames'[k])
  <2>1. /\ k \in 1 .. Len(frames) - 1 /\ k + 1 \in 1 .. Len(frames) - 1
    BY <1>1, <1>2
  <2>2. frames'[k] = frames[k] /\ frames'[k + 1] = frames[k + 1] BY <1>1, <2>1
  <2> QED BY <2>1, <2>2 DEF PathInv, StackIsPath, Searching
<1> QED BY <1>1, <1>4, <1>5, GridFixed, WaitsForFixed DEF StackIsPath, Inside

(* Changing the phase of the top frame changes what it waits for, and the  *)
(* requested child is just that.                                           *)
LEMMA PathGoTo ==
  ASSUME PathInv, pc = "visit", NEW ph \in 1 .. 4, NEW i, NEW p, NEW since \in Nat,
         GoTo(ph, i, p, since),
         WaitsFor([Top EXCEPT !.phase = ph]) = [instruction |-> i, position |-> p]
  PROVE  StackIsPath'
<1>0. Basic /\ call' = call BY DEF PathInv, IInv, GoTo, Static
<1> DEFINE f == [Top EXCEPT !.phase = ph, !.cycle_epoch = since]
           n == Len(frames)
<1>1. Top \in Frame BY <1>0, BelowTopWorks, TopOfStack DEF Top
<1>2. /\ f \in Frame /\ f.phase = ph /\ f.assertion_depth = Top.assertion_depth
      /\ f.instruction = Top.instruction /\ f.position = Top.position
  <2>1. ph \in 0 .. 4 OBVIOUS
  <2> QED BY <1>1, <2>1 DEF Frame
<1>w. WaitsFor(f) = [instruction |-> i, position |-> p]
  <2>1. WaitsFor(f) = WaitsFor([Top EXCEPT !.phase = ph])
    BY <1>1, WaitsForPlace DEF Frame
  <2> QED BY <2>1
<1> HIDE DEF f
<1>3. frames' = [frames EXCEPT ![Len(frames)] = f] BY DEF GoTo, f
<1>4. /\ frames' \in Seq(Frame) /\ Len(frames') = n
      /\ \A k \in 1 .. n - 1 : frames'[k] = frames[k]
      /\ frames'[n] = f /\ n \in Nat /\ n > 0
  BY <1>0, <1>2, <1>3, BelowTopWorks, SetTopOfStack
<1>5. \A k \in 1 .. n : /\ frames'[k].instruction = frames[k].instruction
                        /\ frames'[k].position = frames[k].position
                        /\ frames'[k].assertion_depth = frames[k].assertion_depth
  <2> SUFFICES ASSUME NEW k \in 1 .. n
               PROVE  /\ frames'[k].instruction = frames[k].instruction
                      /\ frames'[k].position = frames[k].position
                      /\ frames'[k].assertion_depth = frames[k].assertion_depth
    OBVIOUS
  <2>1. CASE k = n BY <1>2, <1>4, <2>1 DEF Top
  <2>2. CASE k # n BY <1>4, <2>2
  <2> QED BY <2>1, <2>2
<1>6. /\ frames'[1].instruction = program.entry
      /\ frames'[1].position = start
      /\ frames'[1].assertion_depth = 0
  BY <1>0, <1>4, <1>5, BelowTopWorks DEF PathInv, StackIsPath, Searching
<1>7. ASSUME NEW k \in 1 .. n - 1
      PROVE  /\ frames'[k + 1].instruction = WaitsFor(frames'[k]).instruction
             /\ frames'[k + 1].position = WaitsFor(frames'[k]).position
             /\ frames'[k + 1].assertion_depth = Inside(frames'[k])
  <2>1. k + 1 \in 1 .. n /\ frames'[k] = frames[k] BY <1>4
  <2>2. /\ frames[k + 1].instruction = WaitsFor(frames[k]).instruction
        /\ frames[k + 1].position = WaitsFor(frames[k]).position
        /\ frames[k + 1].assertion_depth = Inside(frames[k])
    BY DEF PathInv, StackIsPath, Searching
  <2> QED BY <1>5, <2>1, <2>2
<1>8. child' = WaitsFor(f) /\ Top' = f /\ pc' = "descend"
  BY <1>4, <1>w DEF GoTo, Top
<1> QED
  BY <1>0, <1>4, <1>6, <1>7, <1>8, GridFixed, WaitsForFixed DEF StackIsPath, Inside

(* The pushed frame is what the frame under it waits for, one assertion    *)
(* deeper if it evaluates a body.                                          *)
LEMMA PathDescend ==
  ASSUME PathInv, Descend
  PROVE  StackIsPath'
<1>0. Basic /\ call' = call /\ pc = "descend" /\ pc' = "loop"
      /\ child = WaitsFor(Top)
  BY DEF PathInv, IInv, Descend, StackIsPath, Searching
<1> DEFINE f == NewFrame(child.instruction, child.position, Inside(Top))
           n == Len(frames)
<1>1. /\ f.instruction = child.instruction /\ f.position = child.position
      /\ f.assertion_depth = Inside(Top)
  BY DEF NewFrame
<1>2. frames' = Append(frames, f) BY DEF Descend
<1> HIDE DEF f
<1>3. frames \in Seq(Frame) /\ n \in Nat /\ n > 0 /\ Top = frames[n]
  BY <1>0, BelowTopWorks DEF Top
<1>4. /\ Len(frames') = n + 1 /\ frames'[n + 1] = f
      /\ \A k \in 1 .. n : frames'[k] = frames[k]
  BY <1>2, <1>3
<1>5. /\ frames'[1].instruction = program.entry /\ frames'[1].position = start
      /\ frames'[1].assertion_depth = 0
  <2>1. frames # <<>> /\ 1 \in 1 .. n BY <1>0, <1>3, BelowTopWorks
  <2> QED BY <1>0, <1>4, <2>1 DEF PathInv, StackIsPath, Searching
<1>6. ASSUME NEW k \in 1 .. n
      PROVE  /\ frames'[k + 1].instruction = WaitsFor(frames'[k]).instruction
             /\ frames'[k + 1].position = WaitsFor(frames'[k]).position
             /\ frames'[k + 1].assertion_depth = Inside(frames'[k])
  <2>1. CASE k = n BY <1>0, <1>1, <1>3, <1>4, <2>1
  <2>2. CASE k # n
    <3>1. k \in 1 .. n - 1 /\ k + 1 \in 1 .. n BY <1>3, <2>2
    <3> QED BY <1>0, <1>4, <3>1 DEF PathInv, StackIsPath, Searching
  <2> QED BY <2>1, <2>2
<1>7. Len(frames') - 1 = n BY <1>3, <1>4
<1> QED
  BY <1>0, <1>5, <1>6, <1>7, GridFixed, WaitsForFixed DEF StackIsPath, Inside

(* The pair each descending action asks for is the one its phase waits for.*)
LEMMA ChildWaited ==
  ASSUME IInv, pc = "visit"
  PROVE  LET W(ph) == WaitsFor([Top EXCEPT !.phase = ph])
             Pair(i, p) == [instruction |-> i, position |-> p]
         IN /\ W(1) = Pair(code.first, Top.position)
            /\ W(4) = Pair(code.first, Top.position)
            /\ W(2) = Pair(code.second, Top.position)
            /\ code.op \notin Consuming => W(3) = Pair(code.next, Top.position)
            /\ code.op \in Consuming => W(3) = Pair(code.next, Top.position + 1)
<1>1. Top \in Frame BY TopFacts DEF IInv
<1> QED BY <1>1 DEF WaitsFor, code, Frame

(* Every dispatch keeps the stack a path.                                  *)
LEMMA PathDispatch ==
  ASSUME PathInv, Dispatches
  PROVE  StackIsPath'
<1>0. IInv /\ Basic /\ pc = "visit" /\ call' = call
  BY CallFixed DEF PathInv, IInv, Dispatches, CycleAcrossAssertion, EpochLimit, CutCycle,
     Reuse, Accept, EnterSplit, EnterAssertion, Advance, Mismatch, SecondBranch,
     AssertionHolds, AssertionFails, Done, Visiting, First, Fresh, Resumed, Next
<1>1. epoch \in Nat /\ Top.cycle_epoch \in Nat
  BY <1>0, TopFacts DEF Basic, TypeOK, Frame
<1>2. CASE CycleAcrossAssertion \/ EpochLimit
  BY <1>2 DEF CycleAcrossAssertion, EpochLimit, Break, StackIsPath, Searching
<1>3. CASE CutCycle \/ Reuse \/ Accept \/ Mismatch \/ AssertionFails \/ Done
  BY <1>0, <1>3, PathPop
  DEF CutCycle, Reuse, Accept, Mismatch, AssertionFails, Done, Finish
<1>4. CASE EnterSplit
  <2>1. GoTo(1, code.first, Top.position, epoch) BY <1>4 DEF EnterSplit, Enter
  <2> QED BY <1>0, <1>1, <2>1, 1 \in 1 .. 4, ChildWaited, PathGoTo
<1>5. CASE EnterAssertion
  <2>1. GoTo(4, code.first, Top.position, epoch) BY <1>5 DEF EnterAssertion, Enter
  <2> QED BY <1>0, <1>1, <2>1, 4 \in 1 .. 4, ChildWaited, PathGoTo
<1>6. CASE Advance
  <2> DEFINE p == IF code.op = "END" THEN Top.position ELSE Top.position + 1
  <2>1. GoTo(3, code.next, p, epoch) BY <1>6 DEF Advance, Enter
  <2>2. code.op = "END" \/ code.op \in Consuming BY <1>6 DEF Advance, Passes
  <2>3. WaitsFor([Top EXCEPT !.phase = 3])
          = [instruction |-> code.next, position |-> p]
    BY <1>0, <2>2, ChildWaited DEF Consuming
  <2> HIDE DEF p
  <2> QED BY <1>1, <2>1, <2>3, <1>0, 3 \in 1 .. 4, PathGoTo
<1>7. CASE SecondBranch
  <2>1. GoTo(2, code.second, Top.position, Top.cycle_epoch) BY <1>7 DEF SecondBranch
  <2> QED BY <1>0, <1>1, <2>1, 2 \in 1 .. 4, ChildWaited, PathGoTo
<1>8. CASE AssertionHolds
  <2>1. GoTo(3, code.next, Top.position, Top.cycle_epoch) BY <1>8 DEF AssertionHolds
  <2>2. code.op \in Assertions
    BY <1>0, <1>8, TopFits DEF AssertionHolds, FrameFits, code
  <2>3. WaitsFor([Top EXCEPT !.phase = 3])
          = [instruction |-> code.next, position |-> Top.position]
    BY <1>0, <2>2, ChildWaited DEF Consuming, Assertions
  <2> QED BY <1>0, <1>1, <2>1, <2>3, 3 \in 1 .. 4, PathGoTo
<1> QED BY <1>2, <1>3, <1>4, <1>5, <1>6, <1>7, <1>8 DEF Dispatches

(* Every step keeps the stack a path.                                      *)
LEMMA PathStep == PathInv /\ [Next]_vars => PathInv'
<1> SUFFICES ASSUME PathInv, [Next]_vars PROVE StackIsPath'
  BY StepKeepsInv DEF PathInv
<1>0. call' = call BY CallFixed
<1>1. CASE UNCHANGED <<frames, child>> /\ (pc' = pc \/ (pc = "loop" /\ pc' = "visit"))
  BY <1>0, <1>1, GridFixed, WaitsForFixed
  DEF PathInv, StackIsPath, Searching, Top, Inside
<1>2. CASE pc' \in {"frames", "cleanup", "returned"}
  BY <1>2 DEF StackIsPath, Searching
<1>3. CASE AllocateFrames
  <2> DEFINE f == NewFrame(program.entry, start, 0)
  <2>1. /\ f.instruction = program.entry /\ f.position = start
        /\ f.assertion_depth = 0
    BY DEF NewFrame
  <2> HIDE DEF f
  <2>2. frames' = <<f>> /\ pc' = "loop" BY <1>3 DEF AllocateFrames, f
  <2> QED BY <1>0, <2>1, <2>2, GridFixed DEF StackIsPath
<1>4. CASE Dispatches BY <1>4, PathDispatch
<1>5. CASE Descend BY <1>5, PathDescend
<1>6. CASE UNCHANGED vars BY <1>1, <1>6 DEF vars
<1>7. CASE Turn BY <1>1, <1>7 DEF Turn, AtTurn
<1> QED
  BY <1>2, <1>3, <1>4, <1>5, <1>6, <1>7
  DEF Next, Enters, RejectArguments, RejectSizes, MemoNoMem, AllocateMemo, FramesNoMem,
      Return, Turns, OutOfSteps, TableLimit, TableNoMem, Break, Pushes, FrameLimit,
      GrowNoMem, StackEmpty, Cleanup

(* The empty stack is a path.                                              *)
LEMMA PathInit == Init => PathInv
BY InitInv DEF PathInv, Init, StackIsPath, Searching

(* The stack is a path, together with the invariant it rests on.           *)
THEOREM PathInvariance == Spec => []PathInv
BY PathInit, PathStep, PTL DEF Spec

(* The stack is a path of the program from its entry, frame by frame, with *)
(* the right assertion depths: the depths that the cycle test compares.    *)
THEOREM PathCorrect == Spec => []StackIsPath
<1>1. PathInv => StackIsPath BY DEF PathInv
<1> QED BY <1>1, PathInvariance, PTL
-----------------------------------------------------------------------------
(* Two-valued facts about a call: T holds triples <<i, p, e>>, "i at p can *)
(* match up to e", and F pairs <<i, p>> that cannot match at all.  A pair  *)
(* is blocked by a set S of pairs when every rule of its instruction needs *)
(* a pair of S to match, or needs one to fail that matches.                *)
Pairs == (0 .. Count(program) - 1) \X (start .. length)

(* The pair <<i, p>> may match up to e by one rule of its instruction.     *)
Entitled(T, F, i, p, e) ==
  LET c == Instr(program, i)
  IN \/ c.op = "ACCEPT" /\ e = p
     \/ c.op = "SPLIT" /\ (<<c.first, p, e>> \in T \/ <<c.second, p, e>> \in T)
     \/ c.op = "END" /\ p = length /\ <<c.next, p, e>> \in T
     \/ /\ c.op \in Consuming /\ p < length
        /\ Consumes(program, c, input[p + 1]) /\ <<c.next, p + 1, e>> \in T
     \/ c.op = "NEGATIVE" /\ <<c.first, p>> \in F /\ <<c.next, p, e>> \in T
     \/ /\ c.op = "POSITIVE" /\ <<c.next, p, e>> \in T
        /\ \E x \in start .. length : <<c.first, p, x>> \in T

(* No rule of the pair x can apply.                                        *)
Blocked(T, S, x) ==
  LET c == Instr(program, x[1])
      p == x[2]
  IN /\ c.op # "ACCEPT"
     /\ c.op = "SPLIT" => <<c.first, p>> \in S /\ <<c.second, p>> \in S
     /\ c.op = "END" /\ p = length => <<c.next, p>> \in S
     /\ c.op \in Consuming /\ p < length /\ Consumes(program, c, input[p + 1])
          => <<c.next, p + 1>> \in S
     /\ c.op = "NEGATIVE" =>
          <<c.next, p>> \in S \/ \E e \in start .. length : <<c.first, p, e>> \in T
     /\ c.op = "POSITIVE" => <<c.first, p>> \in S \/ <<c.next, p>> \in S

(* The pairs of U cannot match unless one of them does: they are unfounded.*)
Unfounded(T, F, U) == \A x \in U : Blocked(T, F \cup U, x)

(* T holds all that follows, and F all that cannot match: the pairs of    *)
(* every set each of whose members waits for another one.  The least such *)
(* T and F is the meaning of a program whose assertions may be nested and  *)
(* cyclic.                                                                 *)
Model(T, F) ==
  /\ \A i \in 0 .. Count(program) - 1, p \in start .. length, e \in start .. length :
       Entitled(T, F, i, p, e) => <<i, p, e>> \in T
  /\ \A U \in SUBSET Pairs : Unfounded(T, F, U) => U \subseteq F

(* What the call returns is so in every model.                             *)
VerdictDecided ==
  pc = "returned" =>
    /\ result = "MATCH" =>
         /\ end \in start .. length
         /\ \A T \in SUBSET Triples, F \in SUBSET Pairs :
              Model(T, F) => <<program.entry, start, end>> \in T
    /\ result = "NOMATCH" =>
         \A T \in SUBSET Triples, F \in SUBSET Pairs :
           Model(T, F) => <<program.entry, start>> \in F
-----------------------------------------------------------------------------
(* What cannot match once the pairs of S do not.                           *)
Doomed(T, F, S) == UNION {U \in SUBSET Pairs : Unfounded(T, F \cup S, U)}
(* S, all that cannot match anyhow, and all that falls with them.          *)
Lost(T, F, S) == F \cup S \cup Doomed(T, F, S)

(* The pair of a frame.                                                    *)
PairOf(f) == <<f.instruction, f.position>>

(* the pairs that frames of assertion depth d work on                      *)
At(d) == {PairOf(frames[k]) : k \in {j \in DOMAIN frames :
                                Working(j) /\ frames[j].assertion_depth = d}}

(* A success runs through all frames of one assertion depth.               *)
Winning(d) ==
  /\ pc \in {"loop", "visit"} /\ last >= 0 /\ frames # <<>>
  /\ Top.phase \in {1, 2, 3} /\ Top.assertion_depth = d

(* x cannot match, for good or as long as the pairs that frames of f's     *)
(* depth work on do not; then a cut came after f was entered.              *)
Gone(T, F, f, x) ==
  \/ x \in F
  \/ f.cycle_epoch # epoch /\ x \in Lost(T, F, At(f.assertion_depth))

(* The answer in hand, `last`, is one for the pair the top frame waits for,*)
(* or for the entry once the stack is empty.                               *)
AnswerIn(T, F) ==
  /\ pc \in {"loop", "visit"} /\ frames # <<>> /\ Top.phase # 0 =>
       LET w == WaitsFor(Top)
           x == <<w.instruction, w.position>>
       IN /\ last >= 0 => <<w.instruction, w.position, last>> \in T
          /\ last < 0 => IF Top.phase = 4 THEN x \in F ELSE Gone(T, F, Top, x)
  /\ pc \in {"loop", "cleanup"} /\ frames = <<>> =>
       /\ last >= 0 => <<program.entry, start, last>> \in T
       /\ last < 0 => <<program.entry, start>> \in F

(* Stored results hold for good, whatever frames were at work at the time. *)
MemoIn(T, F) ==
  Searching =>
    \A i \in 0 .. Count(program) - 1, p \in start .. length :
      LET v == memo[Cell(i, p)]
      IN /\ v > 0 => <<i, p, v - 1>> \in T
         /\ v < 0 /\ v # VISITING => <<i, p>> \in F

(* What a frame in phase 3 has already established.                        *)
Passed(T, F, f) ==
  LET c == Instr(program, f.instruction)
      p == f.position
  IN f.phase = 3 =>
       /\ c.op = "END" => p = length
       /\ c.op \in Consuming => p < length /\ Consumes(program, c, input[p + 1])
       /\ c.op = "POSITIVE" => \E x \in start .. length : <<c.first, p, x>> \in T
       /\ c.op = "NEGATIVE" => <<c.first, p>> \in F

(* What a frame in phase 2 knows of its first branch.                      *)
FirstGone(T, F, f) ==
  f.phase = 2 =>
    \/ Winning(f.assertion_depth)
    \/ Gone(T, F, f, <<Instr(program, f.instruction).first, f.position>>)

(* The same for all frames of the stack.                                   *)
PremisesIn(T, F) ==
  Searching =>
    \A k \in DOMAIN frames : Passed(T, F, frames[k]) /\ FirstGone(T, F, frames[k])

(* All that the state of a search claims is so in the model <<T, F>>.      *)
Earned(T, F) == AnswerIn(T, F) /\ MemoIn(T, F) /\ PremisesIn(T, F)
-----------------------------------------------------------------------------
(* More blocking pairs block more.                                         *)
LEMMA BlockedMore ==
  ASSUME NEW T, NEW S, NEW R, S \subseteq R, NEW x, Blocked(T, S, x)
  PROVE  Blocked(T, R, x)
BY DEF Blocked

(* The doomed pairs are unfounded as a whole.                              *)
LEMMA DoomedUnfounded ==
  ASSUME NEW T, NEW F, NEW S
  PROVE  /\ Doomed(T, F, S) \subseteq Pairs
         /\ \A x \in Doomed(T, F, S) : Blocked(T, Lost(T, F, S), x)
<1>1. Doomed(T, F, S) \subseteq Pairs BY DEF Doomed
<1>2. ASSUME NEW x \in Doomed(T, F, S) PROVE Blocked(T, Lost(T, F, S), x)
  <2>1. PICK U \in SUBSET Pairs : Unfounded(T, F \cup S, U) /\ x \in U
    BY <1>2 DEF Doomed
  <2>2. U \subseteq Doomed(T, F, S) BY <2>1 DEF Doomed
  <2>3. (F \cup S) \cup U \subseteq Lost(T, F, S) BY <2>2 DEF Lost
  <2> QED BY <2>1, <2>3, BlockedMore DEF Unfounded
<1> QED BY <1>1, <1>2

(* A set of pairs that is blocked by what is lost, itself and F is doomed. *)
LEMMA DoomedBy ==
  ASSUME NEW T, NEW F, NEW R, NEW U \in SUBSET Pairs,
         \A x \in U : Blocked(T, (F \cup R) \cup U, x)
  PROVE  U \subseteq Lost(T, F, R)
BY DEF Doomed, Unfounded, Lost

(* Losing more pairs loses more.                                           *)
LEMMA LostMore ==
  ASSUME NEW T, NEW F, NEW S, NEW R, S \subseteq R
  PROVE  Lost(T, F, S) \subseteq Lost(T, F, R)
<1> DEFINE U == Doomed(T, F, S)
<1>1. U \in SUBSET Pairs BY DoomedUnfounded
<1>2. \A x \in U : Blocked(T, (F \cup R) \cup U, x)
  <2>1. Lost(T, F, S) \subseteq (F \cup R) \cup U BY DEF Lost
  <2> QED BY <2>1, DoomedUnfounded, BlockedMore
<1>3. U \subseteq Lost(T, F, R) BY <1>1, <1>2, DoomedBy
<1>4. F \cup S \subseteq Lost(T, F, R) BY DEF Lost
<1> QED BY <1>3, <1>4 DEF Lost

(* A pair that is blocked by what is lost with it can be taken out of the  *)
(* assumptions: it stays lost, and so does all that was lost with it.      *)
LEMMA LostWithout ==
  ASSUME NEW T, NEW F, NEW S, NEW R, NEW x \in Pairs, S \subseteq R \cup {x},
         Blocked(T, Lost(T, F, S), x)
  PROVE  Lost(T, F, S) \subseteq Lost(T, F, R) /\ x \in Lost(T, F, R)
<1> DEFINE U == Doomed(T, F, S) \cup {x}
<1>1. U \in SUBSET Pairs BY DoomedUnfounded
<1>2. \A y \in U : Blocked(T, (F \cup R) \cup U, y)
  <2>1. Lost(T, F, S) \subseteq (F \cup R) \cup U BY DEF Lost
  <2>2. \A y \in U : Blocked(T, Lost(T, F, S), y) BY DoomedUnfounded
  <2> QED BY <2>1, <2>2, BlockedMore
<1>3. U \subseteq Lost(T, F, R) BY <1>1, <1>2, DoomedBy
<1>4. F \cup R \subseteq Lost(T, F, R) BY DEF Lost
<1> QED BY <1>3, <1>4 DEF Lost

(* With nothing assumed, only pairs of F are lost.                         *)
LEMMA LostNothing ==
  ASSUME NEW T, NEW F \in SUBSET Pairs, Model(T, F)
  PROVE  Lost(T, F, {}) = F
<1> DEFINE U == Doomed(T, F, {})
<1>1. U \in SUBSET Pairs BY DoomedUnfounded
<1>2. Unfounded(T, F, U)
  <2>1. Lost(T, F, {}) = F \cup U BY DEF Lost
  <2> QED BY <2>1, DoomedUnfounded DEF Unfounded
<1>3. U \subseteq F BY <1>1, <1>2 DEF Model
<1> QED BY <1>3 DEF Lost

(* A pair that F blocks belongs to F.                                      *)
LEMMA BlockedFails ==
  ASSUME NEW T, NEW F \in SUBSET Pairs, Model(T, F), NEW x \in Pairs, Blocked(T, F, x)
  PROVE  x \in F
<1>1. Unfounded(T, F, {x})
  <2>1. F \subseteq F \cup {x} OBVIOUS
  <2> QED BY <2>1, BlockedMore DEF Unfounded
<1> QED BY <1>1 DEF Model

-----------------------------------------------------------------------------
(* Up the stack frames are at least as deep in assertions and were entered *)
(* at least as late, in cuts, as the frames below them.                    *)
NotBelow(f, g) ==
  f.assertion_depth <= g.assertion_depth /\ f.cycle_epoch <= g.cycle_epoch

StackOrdered ==
  Searching =>
    \A k \in DOMAIN frames :
      /\ frames[k].cycle_epoch <= epoch
      /\ \A j \in 1 .. k : NotBelow(frames[j], frames[k])

OrderInv == PathInv /\ StackOrdered

(* The remaining frames of a pop keep their order.                         *)
LEMMA OrderPop ==
  ASSUME OrderInv, pc = "visit", NEW l, Pop(l), epoch' \in Nat, epoch' >= epoch
  PROVE  StackOrdered'
<1> DEFINE n == Len(frames)
<1>0. /\ Basic /\ pc' = "loop" /\ epoch \in Nat
  BY DEF OrderInv, PathInv, IInv, Pop, Basic, TypeOK
<1>1. /\ frames' \in Seq(Frame) /\ Len(frames') = n - 1 /\ n \in Nat
      /\ \A k \in 1 .. n - 1 : frames'[k] = frames[k]
      /\ frames \in Seq(Frame) /\ DOMAIN frames = 1 .. n
  BY <1>0, BelowTopWorks, PopStack DEF Pop
<1>2. DOMAIN frames' = 1 .. n - 1 BY <1>1, LenProperties
<1>3. ASSUME NEW k \in 1 .. n - 1
      PROVE  /\ frames'[k].cycle_epoch <= epoch'
             /\ \A j \in 1 .. k : NotBelow(frames'[j], frames'[k])
  <2>1. k \in DOMAIN frames /\ frames'[k] = frames[k] /\ frames[k] \in Frame
    BY <1>1, ElementOfSeq
  <2>2. frames[k].cycle_epoch <= epoch /\ frames[k].cycle_epoch \in Nat
    BY <1>0, <2>1 DEF OrderInv, StackOrdered, Searching, Frame
  <2>3. \A j \in 1 .. k : j \in 1 .. n - 1 /\ NotBelow(frames[j], frames[k])
    BY <1>1, <2>1 DEF OrderInv, StackOrdered, Searching
  <2>4. frames'[k].cycle_epoch <= epoch' BY <1>0, <2>1, <2>2
  <2>5. \A j \in 1 .. k : NotBelow(frames'[j], frames'[k])
    BY <1>1, <2>1, <2>3, Zenon
  <2> QED BY <2>4, <2>5
<1> QED BY <1>0, <1>2, <1>3 DEF StackOrdered

(* A phase change keeps the order; a frame is entered now.                 *)
LEMMA OrderGoTo ==
  ASSUME OrderInv, pc = "visit", NEW ph \in 1 .. 4, NEW i, NEW p, NEW since \in Nat,
         GoTo(ph, i, p, since), Top.cycle_epoch <= since, since <= epoch
  PROVE  StackOrdered'
<1> DEFINE f == [Top EXCEPT !.phase = ph, !.cycle_epoch = since]
           n == Len(frames)
<1>0. Basic /\ pc' = "descend" /\ epoch' = epoch /\ epoch \in Nat
  BY DEF OrderInv, PathInv, IInv, GoTo, Basic, TypeOK
<1>1. Top \in Frame BY <1>0, BelowTopWorks, TopOfStack DEF Top
<1>2. /\ f \in Frame /\ f.cycle_epoch = since
      /\ f.assertion_depth = Top.assertion_depth
  <2>1. ph \in 0 .. 4 OBVIOUS
  <2> QED BY <1>1, <2>1 DEF Frame
<1> HIDE DEF f
<1>3. frames' = [frames EXCEPT ![Len(frames)] = f] BY DEF GoTo, f
<1>4. /\ frames' \in Seq(Frame) /\ Len(frames') = n
      /\ \A k \in 1 .. n - 1 : frames'[k] = frames[k]
      /\ frames'[n] = f /\ n \in Nat /\ n \in 1 .. n
      /\ frames \in Seq(Frame) /\ DOMAIN frames = 1 .. n /\ Top = frames[n]
  <2>1. frames \in Seq(Frame) /\ frames # <<>> BY <1>0, BelowTopWorks
  <2>2. n \in Nat /\ n \in 1 .. n /\ DOMAIN frames = 1 .. n /\ Top = frames[n]
    BY <1>0, BelowTopWorks DEF Top
  <2>3. /\ frames' \in Seq(Frame) /\ Len(frames') = n
        /\ \A k \in 1 .. n - 1 : frames'[k] = frames[k]
        /\ frames'[n] = f
    BY <1>2, <1>3, <2>1, SetTopOfStack
  <2> QED BY <2>1, <2>2, <2>3, Zenon
<1>5. DOMAIN frames' = 1 .. n BY <1>4, LenProperties
<1>6. ASSUME NEW k \in 1 .. n
      PROVE  /\ frames'[k].cycle_epoch <= epoch'
             /\ \A j \in 1 .. k : NotBelow(frames'[j], frames'[k])
  <2>1. /\ frames[k] \in Frame /\ frames[k].cycle_epoch <= epoch
        /\ \A j \in 1 .. k : NotBelow(frames[j], frames[k])
    BY <1>0, <1>4, ElementOfSeq DEF OrderInv, StackOrdered, Searching
  <2>2. CASE k \in 1 .. n - 1
    <3>1. \A j \in 1 .. k : j \in 1 .. n - 1 BY <2>2, <1>4
    <3> QED BY <1>0, <1>4, <2>1, <2>2, <3>1
  <2>3. CASE k = n
    <3>1. ASSUME NEW j \in 1 .. n - 1 PROVE NotBelow(frames'[j], f)
      <4>1. frames'[j] = frames[j] /\ NotBelow(frames[j], Top) /\ frames[j] \in Frame
        BY <1>4, <2>1, <2>3, ElementOfSeq
      <4> QED BY <1>1, <1>2, <4>1 DEF NotBelow, Frame
    <3>2. NotBelow(f, f) BY <1>2 DEF NotBelow, Frame
    <3>3. \A j \in 1 .. k : j = n \/ j \in 1 .. n - 1 BY <1>4, <2>3
    <3> QED BY <1>0, <1>2, <1>4, <2>3, <3>1, <3>2, <3>3
  <2> QED BY <1>4, <2>2, <2>3
<1> QED BY <1>0, <1>5, <1>6 DEF StackOrdered

(* A pushed frame is entered now, at the depth of its parent or one more.  *)
LEMMA OrderDescend ==
  ASSUME OrderInv, Descend
  PROVE  StackOrdered'
<1> DEFINE f == NewFrame(child.instruction, child.position, Inside(Top))
           n == Len(frames)
<1>0. Basic /\ pc = "descend" /\ pc' = "loop" /\ epoch' = epoch /\ epoch \in Nat
  BY DEF OrderInv, PathInv, IInv, Descend, Basic, TypeOK
<1>1. Top \in Frame BY <1>0, BelowTopWorks, TopOfStack DEF Top
<1>2. f.cycle_epoch = epoch /\ f.assertion_depth = Inside(Top)
  BY DEF NewFrame
<1>3. Inside(Top) \in Nat /\ Top.assertion_depth <= Inside(Top)
  BY <1>1 DEF Inside, Frame
<1>4. frames' = Append(frames, f) BY DEF Descend
<1> HIDE DEF f
<1>5. /\ frames \in Seq(Frame) /\ n \in Nat /\ DOMAIN frames = 1 .. n /\ n \in 1 .. n
      /\ Top = frames[n]
  BY <1>0, BelowTopWorks DEF Top
<1>6. /\ Len(frames') = n + 1 /\ frames'[n + 1] = f /\ DOMAIN frames' = 1 .. n + 1
      /\ \A k \in 1 .. n : frames'[k] = frames[k]
  BY <1>4, <1>5
<1>7. ASSUME NEW k \in 1 .. n
      PROVE  /\ frames[k] \in Frame /\ frames[k].cycle_epoch <= epoch
             /\ \A j \in 1 .. k : NotBelow(frames[j], frames[k])
  BY <1>0, <1>5, ElementOfSeq DEF OrderInv, StackOrdered, Searching
<1>8. ASSUME NEW k \in 1 .. n + 1
      PROVE  /\ frames'[k].cycle_epoch <= epoch'
             /\ \A j \in 1 .. k : NotBelow(frames'[j], frames'[k])
  <2>1. CASE k \in 1 .. n
    <3>1. \A j \in 1 .. k : j \in 1 .. n BY <1>5, <2>1
    <3> QED BY <1>0, <1>6, <1>7, <2>1, <3>1
  <2>2. CASE k = n + 1
    <3>1. ASSUME NEW j \in 1 .. n PROVE NotBelow(frames'[j], f)
      <4>1. /\ frames'[j] = frames[j] /\ frames[j] \in Frame /\ NotBelow(frames[j], Top)
            /\ frames[j].cycle_epoch <= epoch
        BY <1>5, <1>6, <1>7
      <4> QED BY <1>1, <1>2, <1>3, <4>1 DEF NotBelow, Frame
    <3>2. NotBelow(f, f) BY <1>0, <1>2, <1>3 DEF NotBelow
    <3>3. \A j \in 1 .. k : j = n + 1 \/ j \in 1 .. n BY <1>5, <2>2
    <3> QED BY <1>0, <1>2, <1>6, <2>2, <3>1, <3>2, <3>3
  <2> QED BY <1>5, <2>1, <2>2
<1> QED BY <1>0, <1>6, <1>8 DEF StackOrdered

(* Every step keeps the order of the stack.                                *)
LEMMA OrderStep == OrderInv /\ [Next]_vars => OrderInv'
<1> SUFFICES ASSUME OrderInv, [Next]_vars PROVE StackOrdered'
  BY PathStep DEF OrderInv
<1>0. IInv /\ Basic /\ epoch \in Nat BY DEF OrderInv, PathInv, IInv, Basic, TypeOK
<1>1. CASE UNCHANGED <<frames, epoch>> /\ (pc' = pc \/ (pc = "loop" /\ pc' = "visit"))
  BY <1>1 DEF OrderInv, StackOrdered, Searching
<1>2. CASE pc' \in {"frames", "cleanup", "returned"}
  BY <1>2 DEF StackOrdered, Searching
<1>3. CASE AllocateFrames
  <2> DEFINE f == NewFrame(program.entry, start, 0)
  <2>1. f.cycle_epoch = epoch /\ NotBelow(f, f)
    BY <1>0 DEF NewFrame, NotBelow
  <2> HIDE DEF f
  <2>2. frames' = <<f>> /\ epoch' = epoch BY <1>3 DEF AllocateFrames, f
  <2>3. DOMAIN frames' = {1} /\ frames'[1] = f /\ 1 .. 1 = {1} BY <2>2
  <2> QED BY <1>0, <2>1, <2>2, <2>3 DEF StackOrdered
<1>4. CASE Dispatches
  <2>0. pc = "visit"
    BY <1>4 DEF Dispatches, CycleAcrossAssertion, EpochLimit, CutCycle,
       Reuse, Accept, EnterSplit, EnterAssertion, Advance, Mismatch, SecondBranch,
       AssertionHolds, AssertionFails, Done, Visiting, First, Fresh, Resumed
  <2>1. /\ Top.cycle_epoch \in Nat /\ Top.cycle_epoch <= epoch
    <3>1. Top.cycle_epoch \in Nat BY <1>0, <2>0, TopFacts DEF Frame
    <3>2. Len(frames) \in DOMAIN frames BY <1>0, <2>0, BelowTopWorks
    <3> QED BY <2>0, <3>1, <3>2 DEF OrderInv, StackOrdered, Searching, Top
  <2>2. CASE CycleAcrossAssertion \/ EpochLimit
    BY <1>2, <2>2 DEF CycleAcrossAssertion, EpochLimit, Break
  <2>3. CASE CutCycle
    <3>1. Pop(-1) /\ epoch' = epoch + 1 BY <2>3 DEF CutCycle
    <3> QED BY <1>0, <2>0, <3>1, OrderPop
  <2>4. CASE Reuse \/ Accept \/ Mismatch \/ AssertionFails \/ Done
    <3>1. epoch' = epoch /\ \E l : Pop(l)
      BY <2>4 DEF Reuse, Accept, Mismatch, AssertionFails, Done, Finish
    <3> QED BY <1>0, <2>0, <3>1, OrderPop
  <2>5. CASE EnterSplit \/ EnterAssertion \/ Advance
    <3>1. \E ph \in 1 .. 4 : \E i, p : GoTo(ph, i, p, epoch)
      <4>1. 1 \in 1 .. 4 /\ 3 \in 1 .. 4 /\ 4 \in 1 .. 4 OBVIOUS
      <4> QED BY <2>5, <4>1, Zenon DEF EnterSplit, EnterAssertion, Advance, Enter
    <3>2. epoch <= epoch BY <1>0
    <3> QED BY <1>0, <2>0, <2>1, <3>1, <3>2, OrderGoTo
  <2>6. CASE SecondBranch \/ AssertionHolds
    <3>1. \E ph \in 1 .. 4 : \E i, p : GoTo(ph, i, p, Top.cycle_epoch)
      <4>1. 2 \in 1 .. 4 /\ 3 \in 1 .. 4 OBVIOUS
      <4> QED BY <2>6, <4>1, Zenon DEF SecondBranch, AssertionHolds
    <3>2. Top.cycle_epoch <= Top.cycle_epoch BY <2>1
    <3> QED BY <1>0, <2>0, <2>1, <3>1, <3>2, OrderGoTo
  <2> QED BY <1>4, <2>2, <2>3, <2>4, <2>5, <2>6 DEF Dispatches
<1>5. CASE Descend BY <1>5, OrderDescend
<1>6. CASE UNCHANGED vars BY <1>1, <1>6 DEF vars
<1>7. CASE Turn BY <1>1, <1>7 DEF Turn, AtTurn
<1> QED
  BY <1>2, <1>3, <1>4, <1>5, <1>6, <1>7
  DEF Next, Enters, RejectArguments, RejectSizes, MemoNoMem, AllocateMemo, FramesNoMem,
      Return, Turns, OutOfSteps, TableLimit, TableNoMem, Break, Pushes, FrameLimit,
      GrowNoMem, StackEmpty, Cleanup

(* The empty stack is ordered.                                             *)
LEMMA OrderInit == Init => OrderInv
BY PathInit DEF OrderInv, Init, StackOrdered, Searching

-----------------------------------------------------------------------------
(* result says MATCH as long as nothing went wrong, and that the pattern   *)
(* does not match is decided last.                                         *)
Outcome ==
  /\ pc \notin {"cleanup", "returned"} => result = "MATCH"
  /\ pc = "cleanup" /\ result = "MATCH" => frames = <<>>
  /\ pc = "cleanup" => result # "NOMATCH"

(* The inductive invariant behind the verdicts.                            *)
DecidedInv ==
  /\ OrderInv
  /\ Outcome
  /\ \A T \in SUBSET Triples, F \in SUBSET Pairs : Model(T, F) => Earned(T, F)
  /\ VerdictDecided

(* Models and what is lost depend on the arguments only.                   *)
LEMMA ModelFixed ==
  ASSUME call' = call
  PROVE  /\ Triples' = Triples /\ Pairs' = Pairs
         /\ \A T, F : Model(T, F)' = Model(T, F)
         /\ \A T, F, f : Passed(T, F, f)' = Passed(T, F, f)
<1>1. Triples' = Triples /\ Pairs' = Pairs BY GridFixed DEF Triples, Pairs
<1>2. \A T, F : Model(T, F)' = Model(T, F)
  BY <1>1, GridFixed DEF Model, Entitled, Unfounded, Blocked
<1>3. \A T, F, f : Passed(T, F, f)' = Passed(T, F, f)
  BY GridFixed DEF Passed
<1> QED BY <1>1, <1>2, <1>3

(* Lost in the next state, with the pairs at work there as a fixed set.    *)
LEMMA LostNow ==
  ASSUME call' = call, NEW T, NEW F, NEW d, NEW S, S = At(d)'
  PROVE  Lost(T, F, At(d))' = Lost(T, F, S)
<1>1. Pairs' = Pairs BY ModelFixed
<1>2. Doomed(T, F, At(d))' = Doomed(T, F, S)
  BY <1>1, GridFixed DEF Doomed, Unfounded, Blocked
<1> QED BY <1>2 DEF Lost

(* What is gone stays gone while the frame stays in place, when no pair it *)
(* rests on comes back.                                                    *)
LEMMA GoneStays ==
  ASSUME call' = call, NEW T, NEW F, NEW f, NEW g, NEW x, Gone(T, F, f, x),
         g.assertion_depth = f.assertion_depth,
         Lost(T, F, At(f.assertion_depth)) \subseteq Lost(T, F, At(f.assertion_depth))',
         f.cycle_epoch # epoch => g.cycle_epoch # epoch'
  PROVE  Gone(T, F, g, x)'
BY DEF Gone

(* What is lost stays lost while no frame of its depth leaves.             *)
LEMMA LostKept ==
  ASSUME call' = call, NEW T, NEW F, NEW d, At(d) \subseteq At(d)'
  PROVE  Lost(T, F, At(d)) \subseteq Lost(T, F, At(d))'
<1> DEFINE R == At(d)
           S == At(d)'
<1>1. Lost(T, F, At(d))' = Lost(T, F, S) BY LostNow
<1>2. R \subseteq S OBVIOUS
<1> HIDE DEF R, S
<1>3. Lost(T, F, R) \subseteq Lost(T, F, S) BY <1>2, LostMore
<1> QED BY <1>1, <1>3 DEF R

(* A pop takes at most the pair of the top frame out of its depth.         *)
LEMMA AtPop ==
  ASSUME OrderInv, pc = "visit", NEW l, Pop(l)
  PROVE  /\ \A d : At(d) \subseteq At(d)' \cup {PairOf(Top)}
         /\ \A d : d # Top.assertion_depth \/ Top.phase = 0 => At(d) \subseteq At(d)'
         /\ \A d \in Nat : (Len(frames) > 1 => frames[Len(frames) - 1].assertion_depth < d)
                           => At(d)' = {}
<1> DEFINE n == Len(frames)
<1>0. Basic BY DEF OrderInv, PathInv, IInv
<1>1. /\ frames' \in Seq(Frame) /\ Len(frames') = n - 1 /\ n \in Nat /\ n \in 1 .. n
      /\ \A k \in 1 .. n - 1 : frames'[k] = frames[k]
      /\ DOMAIN frames = 1 .. n /\ frames \in Seq(Frame)
  BY <1>0, BelowTopWorks, PopStack DEF Pop
<1>2. DOMAIN frames' = 1 .. n - 1 BY <1>1, LenProperties
<1>3. ASSUME NEW d, NEW k \in 1 .. n - 1, Working(k), frames[k].assertion_depth = d
      PROVE  PairOf(frames[k]) \in At(d)'
  BY <1>1, <1>2, <1>3 DEF At, Working
<1>4. ASSUME NEW d, NEW x \in At(d)
      PROVE  /\ x \in At(d)' \cup {PairOf(Top)}
             /\ d # Top.assertion_depth \/ Top.phase = 0 => x \in At(d)'
  <2>1. PICK k \in 1 .. n : /\ Working(k) /\ frames[k].assertion_depth = d
                            /\ x = PairOf(frames[k])
    BY <1>1, <1>4 DEF At
  <2>2. CASE k = n BY <2>1, <2>2 DEF Top, Working
  <2>3. CASE k # n
    <3>1. k \in 1 .. n - 1 BY <1>1, <2>3
    <3> QED BY <1>3, <2>1, <3>1
  <2> QED BY <2>2, <2>3
<1>5. ASSUME NEW d \in Nat, n > 1 => frames[n - 1].assertion_depth < d
      PROVE  At(d)' = {}
  <2>1. SUFFICES ASSUME NEW k \in 1 .. n - 1, frames[k].assertion_depth = d PROVE FALSE
    BY <1>1, <1>2 DEF At
  <2>2. n > 1 /\ n - 1 \in DOMAIN frames /\ k \in 1 .. (n - 1) BY <1>1
  <2>3. NotBelow(frames[k], frames[n - 1])
    BY <2>2 DEF OrderInv, StackOrdered, Searching
  <2>4. frames[n - 1] \in Frame BY <1>1, <2>2, ElementOfSeq
  <2> QED BY <1>5, <2>1, <2>2, <2>3, <2>4 DEF NotBelow, Frame
<1>6. \A d : At(d) \subseteq At(d)' \cup {PairOf(Top)} BY <1>4
<1>7. \A d : d # Top.assertion_depth \/ Top.phase = 0 => At(d) \subseteq At(d)'
  BY <1>4
<1> QED BY <1>5, <1>6, <1>7

-----------------------------------------------------------------------------
(* What a pop of a frame of depth d with answer l has to bring along.      *)
PopEarned(T, F, l, d) ==
  /\ d = Top.assertion_depth
  /\ l >= 0 => <<Top.instruction, Top.position, l>> \in T
  /\ l < 0 => /\ ~(last >= 0 /\ Top.phase \in {1, 2, 3})
              /\ \/ PairOf(Top) \in F
                 \/ Top.cycle_epoch # epoch' /\ PairOf(Top) \in Lost(T, F, At(d))'
              /\ Lost(T, F, At(d)) \subseteq Lost(T, F, At(d))'

(* the memo of the other pairs, and of the pair at hand, after one write   *)
LEMMA MemoEarned ==
  ASSUME Basic, pc = "visit", call' = call, NEW T, NEW F, MemoIn(T, F),
         NEW v \in Int, memo' = [memo EXCEPT ![Here] = v],
         v > 0 => <<Top.instruction, Top.position, v - 1>> \in T,
         v < 0 /\ v # VISITING => PairOf(Top) \in F
  PROVE  MemoIn(T, F)'
<1>0. /\ memo \in [Cells -> Int] /\ ArgumentsValid /\ call \in Call
      /\ InGrid(Top.instruction, Top.position)
  BY TopFacts
<1>1. SUFFICES ASSUME NEW i \in 0 .. Count(program) - 1, NEW p \in start .. length
               PROVE  LET w == memo'[Cell(i, p)]
                      IN /\ w > 0 => <<i, p, w - 1>> \in T
                         /\ w < 0 /\ w # VISITING => <<i, p>> \in F
  BY GridFixed DEF MemoIn, Cell
<1>2. InGrid(i, p) /\ Cell(i, p) \in Cells /\ Here \in Cells
  BY <1>0, GridCell DEF InGrid, Here
<1>3. CASE Cell(i, p) = Here
  <2>1. i = Top.instruction /\ p = Top.position
    BY <1>0, <1>2, <1>3, GridCellUnique DEF Here
  <2>2. memo'[Cell(i, p)] = v BY <1>0, <1>2, <1>3
  <2> QED BY <2>1, <2>2 DEF PairOf
<1>4. CASE Cell(i, p) # Here
  <2>1. memo'[Cell(i, p)] = memo[Cell(i, p)] BY <1>0, <1>2, <1>4
  <2> QED BY <2>1 DEF MemoIn, Searching
<1> QED BY <1>3, <1>4

(* A pop hands an earned answer to the frame that waits for it.            *)
LEMMA EarnedPop ==
  ASSUME DecidedInv, pc = "visit", NEW l \in Int, Pop(l), call' = call,
         epoch' \in Nat, epoch' >= epoch,
         NEW T \in SUBSET Triples, NEW F \in SUBSET Pairs, Model(T, F),
         NEW d, PopEarned(T, F, l, d),
         NEW v \in Int, memo' = [memo EXCEPT ![Here] = v],
         v > 0 => <<Top.instruction, Top.position, v - 1>> \in T,
         v < 0 /\ v # VISITING => PairOf(Top) \in F
  PROVE  Earned(T, F)'
<1> DEFINE n == Len(frames)
<1>g. PICK g : g = frames[n - 1] OBVIOUS
<1>x. PICK x : x = PairOf(Top) OBVIOUS
<1>0. /\ IInv /\ Basic /\ OrderInv /\ Earned(T, F) /\ StackIsPath
      /\ pc' = "loop" /\ last' = l /\ epoch \in Nat /\ last \in Int
  BY DEF DecidedInv, OrderInv, PathInv, IInv, Basic, TypeOK, Pop
<1>1. /\ frames' \in Seq(Frame) /\ Len(frames') = n - 1 /\ n \in Nat /\ n > 0
      /\ \A k \in 1 .. n - 1 : frames'[k] = frames[k]
  BY <1>0, BelowTopWorks, PopStack, SMTT(30) DEF Pop
<1>a. /\ frames \in Seq(Frame) /\ DOMAIN frames = 1 .. n /\ Top = frames[n]
      /\ \A k \in 1 .. n : frames[k] \in Frame
  <2>1. frames \in Seq(Frame) /\ DOMAIN frames = 1 .. n BY <1>0, BelowTopWorks
  <2> QED BY <2>1, ElementOfSeq DEF Top
<1>2. DOMAIN frames' = 1 .. n - 1 BY <1>1, LenProperties
<1>3. MemoIn(T, F)' BY <1>0, MemoEarned DEF Earned
<1>4. Top \in Frame /\ Top.cycle_epoch \in Nat /\ Top.cycle_epoch <= epoch
      /\ d \in Nat /\ d = Top.assertion_depth
  <2>1. Top \in Frame BY <1>1, <1>a
  <2>2. n \in DOMAIN frames BY <1>1, <1>a
  <2>3. Top.cycle_epoch <= epoch
    BY <1>0, <1>a, <2>2 DEF OrderInv, StackOrdered, Searching
  <2> QED BY <2>1, <2>3 DEF Frame, PopEarned
<1>5. ASSUME NEW k \in 1 .. n - 1
      PROVE  /\ frames[k] \in Frame /\ frames[k].phase # 0
             /\ frames[k].cycle_epoch <= Top.cycle_epoch
             /\ frames[k].assertion_depth <= Top.assertion_depth
             /\ frames[k].assertion_depth <= g.assertion_depth
             /\ Passed(T, F, frames[k]) /\ FirstGone(T, F, frames[k])
  <2>1. k \in 1 .. n /\ n \in DOMAIN frames /\ n - 1 \in DOMAIN frames /\ k \in 1 .. (n - 1)
        /\ k \in DOMAIN frames
    BY <1>1, <1>a
  <2>2. NotBelow(frames[k], Top) /\ NotBelow(frames[k], g)
    BY <1>0, <1>a, <1>g, <2>1 DEF OrderInv, StackOrdered, Searching
  <2>3. Working(k) BY <1>0, BelowTopWorks, Zenon
  <2>4. Passed(T, F, frames[k]) /\ FirstGone(T, F, frames[k])
    BY <1>0, <2>1 DEF Earned, PremisesIn, Searching
  <2> QED BY <1>a, <2>1, <2>2, <2>3, <2>4 DEF NotBelow, Working
(* the pair of the popped frame, for the frame below                       *)
<1>6. ASSUME n > 1
      PROVE  /\ n - 1 \in 1 .. n - 1 /\ Top' = g /\ g \in Frame /\ g.phase \in 1 .. 4
             /\ frames' # <<>>
             /\ Top.instruction = WaitsFor(g).instruction
             /\ Top.position = WaitsFor(g).position
             /\ Top.assertion_depth = Inside(g)
  <2>1. n - 1 \in 1 .. n - 1 /\ (n - 1) + 1 = n BY <1>1, <1>6
  <2>2. /\ Top.instruction = WaitsFor(g).instruction
        /\ Top.position = WaitsFor(g).position
        /\ Top.assertion_depth = Inside(g)
    BY <1>0, <1>a, <1>g, <2>1 DEF StackIsPath, Searching
  <2>3. Top' = g BY <1>1, <1>g, <2>1 DEF Top
  <2>4. frames' # <<>> BY <1>1, <1>6, EmptySeq
  <2>5. g \in Frame /\ g.phase # 0 BY <1>5, <1>g, <2>1
  <2>6. g.phase \in 1 .. 4 BY <2>5 DEF Frame
  <2> QED BY <2>1, <2>2, <2>3, <2>4, <2>5, <2>6
<1>7. /\ \A e : e # d \/ Top.phase = 0 => At(e) \subseteq At(e)'
      /\ \A e \in Nat : (n > 1 => g.assertion_depth < e) => At(e)' = {}
  BY <1>0, <1>4, <1>g, AtPop
(* Once the last frame of a depth is popped, its answer is unconditional.  *)
<1>8. ASSUME l < 0, n > 1 => g.assertion_depth < d
      PROVE  x \in F
  <2>1. At(d)' = {} BY <1>4, <1>7, <1>8
  <2>2. Lost(T, F, At(d))' = Lost(T, F, {}) BY <2>1, LostNow
  <2>3. Lost(T, F, {}) = F BY LostNothing
  <2> QED BY <1>8, <1>x, <2>2, <2>3 DEF PopEarned
<1>9. AnswerIn(T, F)'
  <2>1. CASE n = 1
    <3>1. Top.instruction = program.entry /\ Top.position = start
      BY <1>0, <1>a, <2>1, BelowTopWorks DEF StackIsPath, Searching
    <3>2. frames' = <<>> BY <1>1, <2>1, EmptySeq
    <3>3. l < 0 => <<program.entry, start>> \in F
      BY <1>8, <1>x, <2>1, <3>1 DEF PairOf
    <3>4. l >= 0 => <<program.entry, start, l>> \in T BY <3>1 DEF PopEarned
    <3> QED BY <1>0, <3>2, <3>3, <3>4, GridFixed DEF AnswerIn
  <2>2. CASE n > 1
    <3>1. l >= 0 => <<WaitsFor(g).instruction, WaitsFor(g).position, l>> \in T
      BY <1>6, <2>2 DEF PopEarned
    <3>2. l < 0 /\ g.phase = 4 => x \in F
      <4>1. g.phase = 4 => g.assertion_depth < d
        BY <1>4, <1>6, <2>2 DEF Inside, Frame
      <4> QED BY <1>8, <4>1
    <3>3. ASSUME l < 0, g.phase # 4 PROVE Gone(T, F, g, x)'
      <4>1. g.assertion_depth = d BY <1>4, <1>6, <2>2, <3>3 DEF Inside, Frame
      <4>2. g.cycle_epoch <= Top.cycle_epoch /\ g.cycle_epoch \in Nat
        BY <1>5, <1>6, <1>g, <2>2 DEF Frame
      <4>3. Top.cycle_epoch # epoch' => g.cycle_epoch # epoch' BY <1>0, <1>4, <4>2
      <4> QED BY <1>x, <3>3, <4>1, <4>3 DEF PopEarned, Gone
    <3>4. x = <<WaitsFor(g).instruction, WaitsFor(g).position>>
      BY <1>x, <1>6, <2>2 DEF PairOf
    <3>5. Top' = g /\ frames' # <<>> BY <1>6, <2>2
    <3>6. WaitsFor(Top)' = WaitsFor(g) BY <3>5, WaitsForFixed
    <3>7. Gone(T, F, Top, x)' <=> Gone(T, F, g, x)' BY <3>5 DEF Gone
    <3> QED BY <1>0, <3>1, <3>2, <3>3, <3>4, <3>5, <3>6, <3>7 DEF AnswerIn
  <2> QED BY <1>1, <2>1, <2>2
<1>10. ASSUME NEW k \in 1 .. n - 1, NEW f, f = frames[k]
       PROVE  FirstGone(T, F, f)'
  <2>0. /\ n > 1 /\ f.phase # 0 /\ f.assertion_depth \in Nat /\ f.cycle_epoch \in Nat
        /\ f.cycle_epoch <= Top.cycle_epoch /\ f.assertion_depth <= g.assertion_depth
        /\ FirstGone(T, F, f) /\ f.assertion_depth <= d /\ g.assertion_depth \in Nat
    <3>1. n > 1 BY <1>1
    <3>2. f \in Frame /\ g \in Frame BY <1>5, <1>6, <1>10, <3>1
    <3>3. /\ f.phase # 0 /\ f.cycle_epoch <= Top.cycle_epoch
          /\ f.assertion_depth <= g.assertion_depth /\ f.assertion_depth <= d
          /\ FirstGone(T, F, f)
      BY <1>4, <1>5, <1>10
    <3> QED BY <3>1, <3>2, <3>3 DEF Frame
  <2>1. PICK y : y = <<Instr(program, f.instruction).first, f.position>> OBVIOUS
  <2>2. SUFFICES ASSUME f.phase = 2 PROVE Winning(f.assertion_depth)' \/ Gone(T, F, f, y)'
    BY <2>1, GridFixed DEF FirstGone
  <2>3. Winning(f.assertion_depth) \/ Gone(T, F, f, y) BY <2>0, <2>1, <2>2 DEF FirstGone
  <2>4. ASSUME Gone(T, F, f, y), Lost(T, F, At(f.assertion_depth))
                                   \subseteq Lost(T, F, At(f.assertion_depth))'
        PROVE  Gone(T, F, f, y)'
    <3>1. f.cycle_epoch # epoch => f.cycle_epoch # epoch' BY <1>0, <1>4, <2>0
    <3> QED BY <2>4, <3>1, GoneStays
  <2>5. f.assertion_depth # d => Lost(T, F, At(f.assertion_depth))
                                   \subseteq Lost(T, F, At(f.assertion_depth))'
    BY <1>7, LostKept
  <2>6. CASE l < 0
    <3>1. ~Winning(f.assertion_depth) BY <2>6 DEF Winning, PopEarned
    <3>2. f.assertion_depth = d => Lost(T, F, At(f.assertion_depth))
                                   \subseteq Lost(T, F, At(f.assertion_depth))'
      BY <2>6 DEF PopEarned
    <3> QED BY <2>3, <2>4, <2>5, <3>1, <3>2
  <2>7. CASE l >= 0
    <3>1. CASE f.assertion_depth = d
      <4>1. g.assertion_depth = d /\ g.phase \in {1, 2, 3}
        BY <1>4, <1>6, <2>0, <3>1 DEF Inside
      <4>2. Winning(f.assertion_depth)' BY <1>0, <1>6, <2>0, <2>7, <3>1, <4>1 DEF Winning
      <4> QED BY <4>2
    <3>2. CASE f.assertion_depth # d
      <4>1. ~Winning(f.assertion_depth) BY <1>4, <3>2 DEF Winning
      <4> QED BY <2>3, <2>4, <2>5, <3>2, <4>1
    <3> QED BY <3>1, <3>2
  <2> QED BY <2>6, <2>7
<1>11. PremisesIn(T, F)'
  <2>1. ASSUME NEW k \in 1 .. n - 1
        PROVE  Passed(T, F, frames[k])' /\ FirstGone(T, F, frames[k])'
    <3>1. PICK f : f = frames[k] OBVIOUS
    <3>2. frames'[k] = f BY <1>1, <3>1
    <3>3. Passed(T, F, f)' /\ FirstGone(T, F, f)'
      BY <1>5, <1>10, <3>1, ModelFixed
    <3>4. Passed(T, F, frames[k])' <=> Passed(T, F, f)' BY <3>2 DEF Passed
    <3>5. FirstGone(T, F, frames[k])' <=> FirstGone(T, F, f)'
      BY <3>2 DEF FirstGone, Gone, Winning
    <3> QED BY <3>3, <3>4, <3>5
  <2> QED BY <1>2, <2>1 DEF PremisesIn
<1> QED BY <1>3, <1>9, <1>11 DEF Earned

-----------------------------------------------------------------------------
(* A frame that asks for a child keeps what has been earned.               *)
LEMMA EarnedGoTo ==
  ASSUME DecidedInv, pc = "visit", NEW ph \in 1 .. 4, NEW i, NEW p, NEW since \in Nat,
         GoTo(ph, i, p, since), memo' = [memo EXCEPT ![Here] = VISITING],
         ~(last >= 0 /\ Top.phase \in {1, 2, 3}),
         NEW T \in SUBSET Triples, NEW F \in SUBSET Pairs, Model(T, F),
         Passed(T, F, [Top EXCEPT !.phase = ph]),
         ph = 2 => /\ since = Top.cycle_epoch
                   /\ Gone(T, F, Top, <<code.first, Top.position>>)
  PROVE  Earned(T, F)'
<1> DEFINE n == Len(frames)
<1>0. /\ IInv /\ Basic /\ call' = call /\ Earned(T, F) /\ memo \in [Cells -> Int]
      /\ ArgumentsValid /\ call \in Call /\ pc' = "descend" /\ epoch' = epoch
  BY TopFacts DEF DecidedInv, OrderInv, PathInv, IInv, GoTo, Static
<1>1. PICK f : f = [Top EXCEPT !.phase = ph, !.cycle_epoch = since] OBVIOUS
<1>2. Top \in Frame BY <1>0, BelowTopWorks, TopOfStack DEF Top
<1>3. /\ f \in Frame /\ Passed(T, F, f) /\ f.phase = ph /\ f.cycle_epoch = since
      /\ f.assertion_depth = Top.assertion_depth
      /\ f.instruction = Top.instruction /\ f.position = Top.position
  <2>1. ph \in 0 .. 4 OBVIOUS
  <2> QED BY <1>1, <1>2, <2>1 DEF Frame, Passed
<1>4. frames' = [frames EXCEPT ![Len(frames)] = f] BY <1>1 DEF GoTo
<1>5. frames \in Seq(Frame) /\ frames # <<>> /\ n \in Nat /\ n \in 1 .. n
      /\ DOMAIN frames = 1 .. n /\ Top = frames[n]
  BY <1>0, BelowTopWorks DEF Top
<1>6. /\ frames' \in Seq(Frame) /\ Len(frames') = n /\ frames'[n] = f
      /\ \A k \in 1 .. n - 1 : frames'[k] = frames[k]
  BY <1>3, <1>4, <1>5, SetTopOfStack
<1>7. DOMAIN frames' = 1 .. n BY <1>6, LenProperties
<1>8. AnswerIn(T, F)' BY <1>0 DEF AnswerIn
<1>9. MemoIn(T, F)'
  <2>1. VISITING \in Int /\ ~(VISITING > 0) BY DEF VISITING
  <2> QED BY <1>0, <2>1, MemoEarned DEF Earned
<1>10. ASSUME NEW d PROVE Lost(T, F, At(d)) \subseteq Lost(T, F, At(d))'
  <2>1. ASSUME NEW x \in At(d) PROVE x \in At(d)'
    <3>1. PICK k \in 1 .. n : /\ Working(k) /\ frames[k].assertion_depth = d
                              /\ x = PairOf(frames[k])
      BY <1>5, <2>1 DEF At
    <3>2. CASE k = n
      <4>1. /\ frames'[n].phase # 0 /\ frames'[n].assertion_depth = d
            /\ x = PairOf(frames'[n])
        BY <1>3, <1>5, <1>6, <3>1, <3>2 DEF PairOf
      <4> QED BY <1>5, <1>7, <4>1 DEF At, Working
    <3>3. CASE k # n
      <4>1. k \in 1 .. n - 1 BY <1>5, <3>3
      <4> QED BY <1>6, <1>7, <3>1, <4>1 DEF At, Working
    <3> QED BY <3>2, <3>3
  <2> QED BY <1>0, <2>1, LostKept
<1>11. ASSUME NEW g, NEW h, NEW x, Gone(T, F, h, x),
              g.assertion_depth = h.assertion_depth, g.cycle_epoch = h.cycle_epoch
       PROVE  Gone(T, F, g, x)'
  BY <1>0, <1>10, <1>11, GoneStays
<1>12. ASSUME NEW k \in 1 .. n PROVE Passed(T, F, frames[k])' /\ FirstGone(T, F, frames[k])'
  <2>1. PICK g : g = frames'[k] OBVIOUS
  <2>2. PICK x : x = <<Instr(program, g.instruction).first, g.position>> OBVIOUS
  <2>3. CASE k = n
    <3>1. g = f BY <1>6, <2>1, <2>3
    <3>2. ASSUME ph = 2 PROVE Gone(T, F, g, x)'
      <4>1. PICK h : h = Top OBVIOUS
      <4>2. Gone(T, F, h, x) BY <1>3, <2>2, <3>1, <3>2, <4>1 DEF code
      <4> QED BY <1>3, <1>11, <3>1, <3>2, <4>1, <4>2
    <3>3. FirstGone(T, F, g)' BY <1>0, <1>3, <2>2, <3>1, <3>2, GridFixed DEF FirstGone
    <3>4. Passed(T, F, g)' BY <1>0, <1>3, <3>1, ModelFixed
    <3> QED BY <2>1, <3>3, <3>4 DEF Passed, FirstGone, Gone, Winning
  <2>4. CASE k # n
    <3>1. k \in 1 .. n - 1 /\ g = frames[k] BY <1>5, <1>6, <2>1, <2>4
    <3>2. Passed(T, F, g) /\ FirstGone(T, F, g)
      BY <1>0, <1>5, <3>1 DEF Earned, PremisesIn, Searching
    <3>3. ~Winning(g.assertion_depth) BY DEF Winning
    <3>4. g.phase = 2 => Gone(T, F, g, x)' BY <1>11, <2>2, <3>2, <3>3 DEF FirstGone
    <3>5. FirstGone(T, F, g)' BY <1>0, <2>2, <3>4, GridFixed DEF FirstGone
    <3>6. Passed(T, F, g)' BY <1>0, <3>2, ModelFixed
    <3> QED BY <2>1, <3>5, <3>6 DEF Passed, FirstGone, Gone, Winning
  <2> QED BY <2>3, <2>4
<1>13. PremisesIn(T, F)' BY <1>7, <1>12 DEF PremisesIn
<1> QED BY <1>8, <1>9, <1>13 DEF Earned

(* A pushed frame has earned nothing yet and costs nothing.                *)
LEMMA EarnedDescend ==
  ASSUME DecidedInv, Descend, NEW T \in SUBSET Triples, NEW F \in SUBSET Pairs,
         Model(T, F)
  PROVE  Earned(T, F)'
<1> DEFINE n == Len(frames)
<1>0. /\ IInv /\ Basic /\ call' = call /\ Earned(T, F) /\ memo' = memo
      /\ pc = "descend" /\ pc' = "loop" /\ epoch' = epoch
  BY DEF DecidedInv, OrderInv, PathInv, IInv, Descend
<1>1. PICK f : f = NewFrame(child.instruction, child.position, Inside(Top)) OBVIOUS
<1>2. f.phase = 0 BY <1>1 DEF NewFrame
<1>3. frames' = Append(frames, f) BY <1>1 DEF Descend
<1>4. frames \in Seq(Frame) /\ n \in Nat /\ DOMAIN frames = 1 .. n
  BY <1>0, BelowTopWorks
<1>5. /\ Len(frames') = n + 1 /\ frames'[n + 1] = f /\ frames' # <<>>
      /\ DOMAIN frames' = 1 .. n + 1
      /\ \A k \in 1 .. n : frames'[k] = frames[k]
  BY <1>3, <1>4
<1>6. Top'.phase = 0 BY <1>2, <1>5 DEF Top
<1>7. AnswerIn(T, F)' BY <1>5, <1>6 DEF AnswerIn
<1>8. MemoIn(T, F)' BY <1>0, GridFixed DEF Earned, MemoIn, Searching, Cell
<1>9. ASSUME NEW d PROVE Lost(T, F, At(d)) \subseteq Lost(T, F, At(d))'
  <2>1. At(d) \subseteq At(d)'
    <3>1. \A k \in 1 .. n : k \in 1 .. n + 1 BY <1>4
    <3> QED BY <1>4, <1>5, <3>1 DEF At, Working
  <2> QED BY <1>0, <2>1, LostKept
<1>10. ASSUME NEW k \in 1 .. n + 1
       PROVE  Passed(T, F, frames[k])' /\ FirstGone(T, F, frames[k])'
  <2>1. PICK g : g = frames'[k] OBVIOUS
  <2>2. Passed(T, F, g)' /\ FirstGone(T, F, g)'
    <3>1. CASE k = n + 1
      BY <1>2, <1>5, <2>1, <3>1 DEF Passed, FirstGone
    <3>2. CASE k # n + 1
      <4>1. k \in 1 .. n /\ g = frames[k] BY <1>4, <1>5, <2>1, <3>2
      <4>2. Passed(T, F, g) /\ FirstGone(T, F, g)
        BY <1>0, <1>4, <4>1 DEF Earned, PremisesIn, Searching
      <4>3. ~Winning(g.assertion_depth) BY <1>0 DEF Winning
      <4>4. PICK x : x = <<Instr(program, g.instruction).first, g.position>> OBVIOUS
      <4>5. ASSUME Gone(T, F, g, x) PROVE Gone(T, F, g, x)'
        BY <1>0, <1>9, <4>5, GoneStays
      <4>6. FirstGone(T, F, g)' BY <1>0, <4>2, <4>3, <4>4, <4>5, GridFixed DEF FirstGone
      <4> QED BY <1>0, <4>2, <4>6, ModelFixed
    <3> QED BY <3>1, <3>2
  <2> QED BY <2>1, <2>2 DEF Passed, FirstGone, Gone, Winning
<1>11. PremisesIn(T, F)' BY <1>5, <1>10 DEF PremisesIn
<1> QED BY <1>7, <1>8, <1>11 DEF Earned

-----------------------------------------------------------------------------
(* What a dispatch finds: the top frame, its pair, and what was earned.    *)
LEMMA Dispatched ==
  ASSUME DecidedInv, pc = "visit",
         NEW T \in SUBSET Triples, NEW F \in SUBSET Pairs, Model(T, F)
  PROVE  LET i == Top.instruction
             p == Top.position
         IN /\ IInv /\ Basic /\ OrderInv /\ Earned(T, F)
            /\ memo \in [Cells -> Int] /\ last \in Int /\ epoch \in Nat
            /\ InGrid(i, p) /\ Top \in Frame /\ Here \in Cells /\ memo[Here] \in Int
            /\ code = Instr(program, i) /\ FrameFits(Top) /\ code.op \in Opcodes
            /\ i \in 0 .. Count(program) - 1 /\ p \in start .. length
            /\ PairOf(Top) \in Pairs /\ frames # <<>>
            /\ Top.cycle_epoch \in Nat /\ Top.cycle_epoch <= epoch
            /\ Top.phase \in 0 .. 4 /\ Top.assertion_depth \in Nat
            /\ memo[Here] > 0 => <<i, p, memo[Here] - 1>> \in T
            /\ memo[Here] < 0 /\ memo[Here] # VISITING => PairOf(Top) \in F
            /\ Passed(T, F, Top) /\ FirstGone(T, F, Top)
<1>1. /\ IInv /\ Basic /\ OrderInv /\ Earned(T, F)
      /\ memo \in [Cells -> Int] /\ last \in Int /\ epoch \in Nat
  BY DEF DecidedInv, OrderInv, PathInv, IInv, Basic, TypeOK
<1>2. /\ InGrid(Top.instruction, Top.position) /\ Top \in Frame
      /\ Here \in Cells /\ memo[Here] \in Int /\ FrameFits(Top) /\ code.op \in Opcodes
  BY <1>1, TopFacts, TopFits
<1>3. /\ Top.instruction \in 0 .. Count(program) - 1 /\ Top.position \in start .. length
      /\ PairOf(Top) \in Pairs
  BY <1>2 DEF InGrid, PairOf, Pairs
<1>4. Len(frames) \in DOMAIN frames /\ frames # <<>> BY <1>1, BelowTopWorks
<1>5. Passed(T, F, Top) /\ FirstGone(T, F, Top)
  BY <1>1, <1>4 DEF Earned, PremisesIn, Searching, Top
<1>6. Top.cycle_epoch <= epoch
  BY <1>1, <1>4 DEF OrderInv, StackOrdered, Searching, Top
<1>7. /\ memo[Here] > 0 => <<Top.instruction, Top.position, memo[Here] - 1>> \in T
      /\ memo[Here] < 0 /\ memo[Here] # VISITING => PairOf(Top) \in F
  BY <1>1, <1>3 DEF Earned, MemoIn, Searching, Here, PairOf
<1> QED BY <1>1, <1>2, <1>3, <1>4, <1>5, <1>6, <1>7 DEF Frame, code

(* The answer a resumed frame waited for                                   *)
LEMMA Answered ==
  ASSUME DecidedInv, Resumed,
         NEW T \in SUBSET Triples, NEW F \in SUBSET Pairs, Model(T, F)
  PROVE  LET w == WaitsFor(Top)
             x == <<w.instruction, w.position>>
         IN /\ last >= 0 => <<w.instruction, w.position, last>> \in T
            /\ last < 0 => IF Top.phase = 4 THEN x \in F ELSE Gone(T, F, Top, x)
<1>1. pc = "visit" /\ Top.phase # 0 BY DEF Resumed
<1>2. frames # <<>> /\ Earned(T, F) BY <1>1, Dispatched
<1> QED BY <1>1, <1>2 DEF Earned, AnswerIn

(* The success of a frame that is done follows from the rule of its        *)
(* instruction.                                                            *)
LEMMA DoneDerivable ==
  ASSUME DecidedInv, Done, last >= 0,
         NEW T \in SUBSET Triples, NEW F \in SUBSET Pairs, Model(T, F)
  PROVE  <<Top.instruction, Top.position, last>> \in T
<1> DEFINE i == Top.instruction
           p == Top.position
           c == Instr(program, i)
<1>0. pc = "visit" /\ Resumed /\ Top.phase \in {1, 2, 3} BY DEF Done, Resumed
<1>1. /\ FrameFits(Top) /\ code = c /\ code.op \in Opcodes /\ Passed(T, F, Top)
      /\ i \in 0 .. Count(program) - 1 /\ p \in start .. length
  BY <1>0, Dispatched
<1>2. <<WaitsFor(Top).instruction, WaitsFor(Top).position, last>> \in T
  BY <1>0, Answered
<1>3. last \in start .. length BY <1>2 DEF Triples
<1>5. Entitled(T, F, i, p, last)
  <2>1. CASE Top.phase \in {1, 2}
    <3>1. c.op = "SPLIT" BY <1>1, <2>1 DEF FrameFits
    <3>2. <<c.first, p, last>> \in T \/ <<c.second, p, last>> \in T
      BY <1>2, <2>1 DEF WaitsFor
    <3> QED BY <3>1, <3>2 DEF Entitled
  <2>2. CASE Top.phase = 3
    <3>1. c.op \in {"END", "NEGATIVE", "POSITIVE"} \cup Consuming
      BY <1>1, <2>2 DEF FrameFits, Opcodes, Assertions
    <3>2. IF c.op \in Consuming THEN <<c.next, p + 1, last>> \in T
                                ELSE <<c.next, p, last>> \in T
      BY <1>2, <2>2 DEF WaitsFor
    <3>3. CASE c.op \in Consuming
      BY <1>1, <2>2, <3>2, <3>3 DEF Passed, Entitled
    <3>4. CASE c.op = "END"
      BY <1>1, <2>2, <3>2, <3>4 DEF Passed, Entitled, Consuming
    <3>5. CASE c.op = "NEGATIVE"
      BY <1>1, <2>2, <3>2, <3>5 DEF Passed, Entitled, Consuming
    <3>6. CASE c.op = "POSITIVE"
      BY <1>1, <2>2, <3>2, <3>6 DEF Passed, Entitled, Consuming
    <3> QED BY <3>1, <3>3, <3>4, <3>5, <3>6
  <2> QED BY <1>0, <2>1, <2>2
<1> QED BY <1>1, <1>3, <1>5 DEF Model

(* A frame that is done in vain is blocked by what is lost, and by F alone *)
(* if no cut came since it was entered.                                    *)
LEMMA DoneBlocked ==
  ASSUME DecidedInv, Done, last < 0,
         NEW T \in SUBSET Triples, NEW F \in SUBSET Pairs, Model(T, F)
  PROVE  /\ Blocked(T, Lost(T, F, At(Top.assertion_depth)), PairOf(Top))
         /\ Top.cycle_epoch = epoch => Blocked(T, F, PairOf(Top))
<1> DEFINE p == Top.position
           c == Instr(program, Top.instruction)
           S == Lost(T, F, At(Top.assertion_depth))
<1>0. pc = "visit" /\ Resumed /\ Top.phase \in {2, 3} /\ ~Winning(Top.assertion_depth)
  <2>1. last \in Int BY Dispatched DEF Done, Resumed
  <2> QED BY <2>1 DEF Done, Resumed, Winning
<1>1. FrameFits(Top) /\ code = c /\ FirstGone(T, F, Top) BY <1>0, Dispatched
<1>2. Gone(T, F, Top, <<WaitsFor(Top).instruction, WaitsFor(Top).position>>)
  <2>1. Top.phase # 4 BY <1>0
  <2>2. last < 0 => IF Top.phase = 4
                    THEN <<WaitsFor(Top).instruction, WaitsFor(Top).position>> \in F
                    ELSE Gone(T, F, Top, <<WaitsFor(Top).instruction, WaitsFor(Top).position>>)
    BY <1>0, Answered, Zenon
  <2> QED BY <2>1, <2>2
<1>3. F \subseteq S BY DEF Lost
<1>4. ASSUME NEW x, Gone(T, F, Top, x)
      PROVE  x \in S /\ (Top.cycle_epoch = epoch => x \in F)
  BY <1>3, <1>4 DEF Gone
<1>5. ASSUME NEW R, \A x : Gone(T, F, Top, x) => x \in R
      PROVE  Blocked(T, R, PairOf(Top))
  <2>1. PairOf(Top)[1] = Top.instruction /\ PairOf(Top)[2] = p BY DEF PairOf
  <2>2. <<WaitsFor(Top).instruction, WaitsFor(Top).position>> \in R
    BY <1>2, <1>5
  <2>3. CASE Top.phase = 2
    <3>1. c.op = "SPLIT" BY <1>1, <2>3 DEF FrameFits
    <3>2. <<c.first, p>> \in R BY <1>0, <1>1, <1>5, <2>3 DEF FirstGone
    <3>3. <<c.second, p>> \in R BY <2>2, <2>3 DEF WaitsFor
    <3> QED BY <2>1, <3>1, <3>2, <3>3 DEF Blocked, Consuming
  <2>4. CASE Top.phase = 3
    <3>1. c.op \notin {"ACCEPT", "SPLIT"} BY <1>1, <2>4 DEF FrameFits
    <3>2. IF c.op \in Consuming THEN <<c.next, p + 1>> \in R ELSE <<c.next, p>> \in R
      BY <2>2, <2>4 DEF WaitsFor
    <3> QED BY <2>1, <3>1, <3>2 DEF Blocked, Consuming
  <2> QED BY <1>0, <2>3, <2>4
<1> HIDE DEF S
<1>6. Blocked(T, S, PairOf(Top)) BY <1>4, <1>5
<1>7. Top.cycle_epoch = epoch => Blocked(T, F, PairOf(Top)) BY <1>4, <1>5
<1> QED BY <1>6, <1>7 DEF S

(* A failed pop of a pair that is blocked: it is lost without it.          *)
LEMMA FailedPop ==
  ASSUME DecidedInv, pc = "visit", NEW l \in Int, l < 0, Pop(l), call' = call,
         NEW T \in SUBSET Triples, NEW F \in SUBSET Pairs, Model(T, F),
         NEW d, d = Top.assertion_depth, ~(last >= 0 /\ Top.phase \in {1, 2, 3}),
         Blocked(T, Lost(T, F, At(d)), PairOf(Top)),
         PairOf(Top) \in F \/ Top.cycle_epoch # epoch'
  PROVE  PopEarned(T, F, l, d)
<1>1. PairOf(Top) \in Pairs /\ OrderInv BY Dispatched
<1>2. At(d) \subseteq At(d)' \cup {PairOf(Top)} BY <1>1, AtPop
<1>3. PICK S : S = At(d)' OBVIOUS
<1>4. Lost(T, F, At(d)) \subseteq Lost(T, F, S) /\ PairOf(Top) \in Lost(T, F, S)
  BY <1>1, <1>2, <1>3, LostWithout
<1>5. Lost(T, F, At(d))' = Lost(T, F, S) BY <1>3, LostNow
<1> QED BY <1>4, <1>5 DEF PopEarned

(* Storing the answer of a finished frame is right.                        *)
LEMMA EarnedFinish ==
  ASSUME DecidedInv, pc = "visit", NEW l \in Int, NEW since, Finish(l, since),
         NEW T \in SUBSET Triples, NEW F \in SUBSET Pairs, Model(T, F),
         NEW d, PopEarned(T, F, l, d), l < 0 /\ since = epoch => PairOf(Top) \in F
  PROVE  Earned(T, F)'
<1>1. PICK v : v = Cached(l, since) OBVIOUS
<1>2. /\ v \in Int /\ (v > 0 => l >= 0 /\ v - 1 = l)
      /\ (v < 0 => l < 0 /\ since = epoch)
  BY <1>1 DEF Cached, UNVISITED, FAILED
<1>3. /\ memo' = [memo EXCEPT ![Here] = v] /\ Pop(l) /\ call' = call /\ epoch' = epoch
  BY <1>1 DEF Finish, Static
<1>4. v > 0 => <<Top.instruction, Top.position, v - 1>> \in T
  BY <1>2 DEF PopEarned
<1>5. epoch \in Nat BY Dispatched
<1>6. epoch' \in Nat /\ epoch' >= epoch BY <1>3, <1>5
<1> QED BY <1>2, <1>3, <1>4, <1>6, EarnedPop

-----------------------------------------------------------------------------
(* A cut answers -1 for a pair that a frame of the same depth works on:    *)
(* the pair is lost as long as that frame has not succeeded.               *)
LEMMA EarnedCut ==
  ASSUME DecidedInv, CutCycle, NEW T \in SUBSET Triples, NEW F \in SUBSET Pairs,
         Model(T, F)
  PROVE  Earned(T, F)'
<1>0. /\ pc = "visit" /\ Top.phase = 0 /\ memo[Here] = VISITING /\ Pop(-1)
      /\ epoch' = epoch + 1 /\ memo' = memo /\ call' = call /\ SameAssertion
  BY DEF CutCycle, Visiting, Fresh, Static
<1>1. /\ Basic /\ OrderInv /\ memo \in [Cells -> Int] /\ epoch \in Nat /\ Here \in Cells
      /\ Top.cycle_epoch \in Nat /\ Top.cycle_epoch <= epoch /\ memo[Here] \in Int
  BY <1>0, Dispatched
<1>2. PICK d : d = Top.assertion_depth OBVIOUS
<1>3. PairOf(Top) \in At(d)
  <2>1. PICK k \in Ancestors : frames[k].assertion_depth = Top.assertion_depth
    BY <1>0 DEF SameAssertion
  <2>2. /\ k \in 1 .. Len(frames) - 1 /\ frames[k].instruction = Top.instruction
        /\ frames[k].position = Top.position
    BY DEF Ancestors
  <2>3. k \in DOMAIN frames /\ Working(k) BY <1>0, <1>1, <2>2, BelowTopWorks, Zenon
  <2>4. PairOf(frames[k]) = PairOf(Top) BY <2>2 DEF PairOf
  <2> QED BY <1>2, <2>1, <2>3, <2>4 DEF At
<1>4. At(d) \subseteq At(d)' BY <1>0, <1>1, AtPop
<1>5. Lost(T, F, At(d)) \subseteq Lost(T, F, At(d))' BY <1>0, <1>4, LostKept
<1>6. PairOf(Top) \in Lost(T, F, At(d)) BY <1>3 DEF Lost
<1>7. Top.cycle_epoch # epoch' BY <1>0, <1>1
<1>8. PopEarned(T, F, -1, d)
  <2>1. ~(-1 >= 0) OBVIOUS
  <2> QED BY <1>0, <1>2, <1>5, <1>6, <1>7, <2>1 DEF PopEarned
<1>9. PICK v : v = memo[Here] OBVIOUS
<1>10. memo' = [memo EXCEPT ![Here] = v] /\ v \in Int /\ v = VISITING /\ ~(v > 0)
  BY <1>0, <1>1, <1>9 DEF VISITING
<1>11. epoch' \in Nat /\ epoch' >= epoch /\ -1 \in Int BY <1>0, <1>1
<1> QED BY <1>0, <1>8, <1>10, <1>11, EarnedPop

(* A memoised answer was earned when it was stored.                        *)
LEMMA EarnedReuse ==
  ASSUME DecidedInv, Reuse, NEW T \in SUBSET Triples, NEW F \in SUBSET Pairs,
         Model(T, F)
  PROVE  Earned(T, F)'
<1>1. PICK l : l = IF memo[Here] > 0 THEN memo[Here] - 1 ELSE -1 OBVIOUS
<1>2. /\ pc = "visit" /\ Top.phase = 0 /\ memo[Here] \notin {UNVISITED, VISITING} /\ Pop(l)
      /\ epoch' = epoch /\ memo' = memo /\ call' = call
  BY <1>1 DEF Reuse, Fresh, Static
<1>3. /\ OrderInv /\ memo \in [Cells -> Int] /\ epoch \in Nat /\ Here \in Cells
      /\ memo[Here] \in Int
      /\ memo[Here] > 0 => <<Top.instruction, Top.position, memo[Here] - 1>> \in T
      /\ memo[Here] < 0 /\ memo[Here] # VISITING => PairOf(Top) \in F
  BY <1>2, Dispatched
<1>4. PICK d : d = Top.assertion_depth OBVIOUS
<1>5. At(d) \subseteq At(d)' BY <1>2, <1>3, AtPop
<1>6. Lost(T, F, At(d)) \subseteq Lost(T, F, At(d))' BY <1>2, <1>5, LostKept
<1>7. PICK v : v = memo[Here] OBVIOUS
<1>8. memo' = [memo EXCEPT ![Here] = v] /\ v \in Int BY <1>2, <1>3, <1>7
<1>9. l \in Int /\ (l >= 0 => v > 0 /\ l = v - 1) /\ (l < 0 => v < 0 /\ v # VISITING)
  BY <1>1, <1>2, <1>3, <1>7 DEF UNVISITED
<1>10. PopEarned(T, F, l, d)
  BY <1>2, <1>3, <1>4, <1>6, <1>7, <1>9 DEF PopEarned
<1>11. epoch' \in Nat /\ epoch' >= epoch BY <1>2, <1>3
<1> QED BY <1>2, <1>3, <1>7, <1>8, <1>9, <1>10, <1>11, EarnedPop

(* Every frame that finishes stores and returns an earned answer.          *)
LEMMA EarnedFinished ==
  ASSUME DecidedInv, Accept \/ Mismatch \/ AssertionFails \/ Done,
         NEW T \in SUBSET Triples, NEW F \in SUBSET Pairs, Model(T, F)
  PROVE  Earned(T, F)'
<1> DEFINE i == Top.instruction
           p == Top.position
<1>0. /\ pc = "visit" /\ epoch' = epoch /\ call' = call
  BY DEF Accept, Mismatch, AssertionFails, Done, Finish, Static, First, Fresh, Resumed
<1>1. /\ FrameFits(Top) /\ code = Instr(program, i) /\ code.op \in Opcodes
      /\ i \in 0 .. Count(program) - 1 /\ p \in start .. length /\ p \in Int /\ p >= 0
      /\ PairOf(Top) \in Pairs /\ last \in Int
  <2>1. /\ FrameFits(Top) /\ code = Instr(program, i) /\ code.op \in Opcodes
        /\ i \in 0 .. Count(program) - 1 /\ p \in start .. length
        /\ PairOf(Top) \in Pairs /\ last \in Int /\ Basic
    BY <1>0, Dispatched
  <2>2. start \in Nat /\ length \in Nat BY <1>0, <2>1, TopFacts, GridSizes
  <2>3. p \in Int /\ p >= 0
    <3> HIDE DEF p
    <3> QED BY <2>1, <2>2
  <2> QED BY <2>1, <2>3
<1>2. PICK d : d = Top.assertion_depth OBVIOUS
<1>3. PairOf(Top)[1] = i /\ PairOf(Top)[2] = p BY DEF PairOf
<1>4. F \subseteq Lost(T, F, At(d)) BY DEF Lost
<1>5. ASSUME NEW l \in Int, l >= 0, NEW since, Finish(l, since), <<i, p, l>> \in T
      PROVE  Earned(T, F)'
  <2>1. PopEarned(T, F, l, d) BY <1>2, <1>5 DEF PopEarned
  <2> QED BY <1>0, <1>5, <2>1, EarnedFinish
<1>6. ASSUME NEW l \in Int, l < 0, NEW since, Finish(l, since),
             Blocked(T, F, PairOf(Top)), ~(last >= 0 /\ Top.phase \in {1, 2, 3})
      PROVE  Earned(T, F)'
  <2>1. PairOf(Top) \in F BY <1>1, <1>6, BlockedFails
  <2>2. Blocked(T, Lost(T, F, At(d)), PairOf(Top)) BY <1>4, <1>6, BlockedMore
  <2>3. Pop(l) BY <1>6 DEF Finish
  <2>4. PopEarned(T, F, l, d) BY <1>0, <1>2, <1>6, <2>1, <2>2, <2>3, FailedPop
  <2> QED BY <1>0, <1>6, <2>1, <2>4, EarnedFinish
<1>7. CASE Accept
  <2>1. <<i, p, p>> \in T BY <1>1, <1>7 DEF Accept, Model, Entitled
  <2> QED BY <1>1, <1>5, <1>7, <2>1 DEF Accept
<1>8. CASE Mismatch
  <2>1. Finish(-1, epoch) /\ Top.phase = 0 BY <1>8 DEF Mismatch, First, Fresh
  <2>2. Blocked(T, F, PairOf(Top))
    BY <1>1, <1>3, <1>8 DEF Mismatch, Passes, Blocked, Consuming
  <2> QED BY <1>6, <2>1, <2>2
<1>9. CASE AssertionFails
  <2>1. Finish(-1, Top.cycle_epoch) /\ Top.phase = 4 /\ Resumed /\ ~Holds
    BY <1>9 DEF AssertionFails
  <2>2. code.op \in Assertions BY <1>1, <2>1 DEF FrameFits
  <2>3. WaitsFor(Top).instruction = code.first /\ WaitsFor(Top).position = p
    BY <1>1, <2>1, <2>2 DEF WaitsFor
  <2>4. /\ last >= 0 => <<code.first, p, last>> \in T
        /\ last < 0 => <<code.first, p>> \in F
    BY <2>1, <2>3, Answered
  <2>5. last >= 0 => last \in start .. length BY <2>4 DEF Triples
  <2>6. Blocked(T, F, PairOf(Top))
    <3>1. CASE code.op = "NEGATIVE"
      <4>1. last >= 0 BY <1>1, <2>1, <3>1 DEF Holds
      <4> QED BY <1>1, <1>3, <2>4, <2>5, <3>1, <4>1 DEF Blocked, Consuming
    <3>2. CASE code.op = "POSITIVE"
      <4>1. last < 0 BY <2>1, <3>2 DEF Holds
      <4> QED BY <1>1, <1>3, <2>4, <3>2, <4>1 DEF Blocked, Consuming
    <3> QED BY <2>2, <3>1, <3>2 DEF Assertions
  <2>7. ~(Top.phase \in {1, 2, 3}) BY <2>1
  <2> QED BY <1>6, <2>1, <2>6, <2>7
<1>10. CASE Done
  <2>1. Finish(last, Top.cycle_epoch) BY <1>10 DEF Done
  <2>2. CASE last >= 0 BY <1>1, <1>5, <1>10, <2>1, <2>2, DoneDerivable
  <2>3. CASE last < 0
    <3>1. Blocked(T, Lost(T, F, At(d)), PairOf(Top))
      BY <1>2, <1>10, <2>3, DoneBlocked
    <3>2. Top.cycle_epoch = epoch => PairOf(Top) \in F
      BY <1>1, <1>10, <2>3, DoneBlocked, BlockedFails
    <3>3. Pop(last) BY <2>1 DEF Finish
    <3>4. PairOf(Top) \in F \/ Top.cycle_epoch # epoch' BY <1>0, <3>2
    <3>5. ~(last >= 0) BY <1>1, <2>3
    <3>6. PopEarned(T, F, last, d)
      <4>1. PICK l : l = last OBVIOUS
      <4>2. PopEarned(T, F, l, d)
        BY <1>0, <1>1, <1>2, <2>3, <3>1, <3>3, <3>4, <3>5, <4>1, FailedPop
      <4> QED BY <4>1, <4>2
    <3> QED BY <1>0, <1>1, <2>1, <2>3, <3>2, <3>6, EarnedFinish
  <2> QED BY <1>1, <2>2, <2>3
<1> QED BY <1>7, <1>8, <1>9, <1>10

-----------------------------------------------------------------------------
(* Every dispatch that stays in the search keeps what has been earned.     *)
LEMMA EarnedDispatch ==
  ASSUME DecidedInv, Dispatches, pc' \in {"loop", "descend"},
         NEW T \in SUBSET Triples, NEW F \in SUBSET Pairs, Model(T, F)
  PROVE  Earned(T, F)'
<1> DEFINE i == Top.instruction
           p == Top.position
<1>0. pc = "visit"
  BY DEF Dispatches, CycleAcrossAssertion, EpochLimit, CutCycle, Reuse, Accept,
     EnterSplit, EnterAssertion, Advance, Mismatch, SecondBranch, AssertionHolds,
     AssertionFails, Done, Visiting, First, Fresh, Resumed
<1>1. /\ IInv /\ epoch \in Nat /\ Top.cycle_epoch \in Nat /\ last \in Int
      /\ code = Instr(program, i) /\ FrameFits(Top) /\ Top \in Frame
      /\ FirstGone(T, F, Top)
  BY <1>0, Dispatched
<1>2. \A ph \in {1, 2, 4} : Passed(T, F, [Top EXCEPT !.phase = ph])
  BY <1>1 DEF Passed, Frame
<1>3. CASE CycleAcrossAssertion \/ EpochLimit
  BY <1>3 DEF CycleAcrossAssertion, EpochLimit, Break
<1>4. CASE CutCycle BY <1>4, EarnedCut
<1>5. CASE Reuse BY <1>5, EarnedReuse
<1>6. CASE Accept \/ Mismatch \/ AssertionFails \/ Done BY <1>6, EarnedFinished
<1>7. ASSUME NEW ph \in {1, 3, 4}, NEW j, NEW q, First, Enter(ph, j, q),
             Passed(T, F, [Top EXCEPT !.phase = ph])
      PROVE  Earned(T, F)'
  <2>1. /\ GoTo(ph, j, q, epoch) /\ memo' = [memo EXCEPT ![Here] = VISITING]
        /\ Top.phase = 0
    BY <1>7 DEF Enter, First, Fresh
  <2>2. ph \in 1 .. 4 /\ ph # 2 /\ ~(Top.phase \in {1, 2, 3}) BY <2>1
  <2> QED BY <1>0, <1>1, <1>7, <2>1, <2>2, EarnedGoTo
<1>8. CASE EnterSplit BY <1>2, <1>7, <1>8 DEF EnterSplit
<1>9. CASE EnterAssertion BY <1>2, <1>7, <1>9 DEF EnterAssertion
<1>10. CASE Advance
  <2>1. PICK q : q = IF code.op = "END" THEN Top.position ELSE Top.position + 1
    OBVIOUS
  <2>2. First /\ Enter(3, code.next, q) BY <1>10, <2>1 DEF Advance
  <2>3. Passed(T, F, [Top EXCEPT !.phase = 3])
    BY <1>1, <1>10 DEF Advance, Passes, Passed, Frame, Consuming
  <2> QED BY <1>7, <2>2, <2>3
<1>11. CASE SecondBranch
  <2>1. /\ GoTo(2, code.second, p, Top.cycle_epoch) /\ Resumed /\ Top.phase = 1
        /\ last < 0 /\ memo' = [memo EXCEPT ![Here] = VISITING]
    BY <1>1, <1>11, ResumedCell DEF SecondBranch
  <2>2. WaitsFor(Top).instruction = code.first /\ WaitsFor(Top).position = p
    BY <1>1, <2>1 DEF WaitsFor, FrameFits
  <2>3. Gone(T, F, Top, <<code.first, p>>)
    <3>1. last < 0 => IF Top.phase = 4
                      THEN <<WaitsFor(Top).instruction, WaitsFor(Top).position>> \in F
                      ELSE Gone(T, F, Top, <<WaitsFor(Top).instruction, WaitsFor(Top).position>>)
      BY <2>1, Answered, Zenon
    <3>2. Top.phase # 4 BY <2>1
    <3> QED BY <2>1, <2>2, <3>1, <3>2
  <2>4. Passed(T, F, [Top EXCEPT !.phase = 2]) BY <1>2
  <2>5. ~(last >= 0) BY <1>1, <2>1
  <2> QED BY <1>0, <1>1, <2>1, <2>3, <2>4, <2>5, 2 \in 1 .. 4, EarnedGoTo
<1>12. CASE AssertionHolds
  <2>1. /\ GoTo(3, code.next, p, Top.cycle_epoch) /\ Resumed /\ Top.phase = 4 /\ Holds
        /\ memo' = [memo EXCEPT ![Here] = VISITING]
    BY <1>1, <1>12, ResumedCell DEF AssertionHolds
  <2>2. code.op \in Assertions BY <1>1, <2>1 DEF FrameFits
  <2>3. WaitsFor(Top).instruction = code.first /\ WaitsFor(Top).position = p
    BY <1>1, <2>1, <2>2 DEF WaitsFor
  <2>4. /\ last >= 0 => <<code.first, p, last>> \in T
        /\ last < 0 => <<code.first, p>> \in F
    BY <2>1, <2>3, Answered
  <2>5. code.op = "POSITIVE" => \E x \in start .. length : <<code.first, p, x>> \in T
    <3>1. code.op = "POSITIVE" => last >= 0 BY <1>1, <2>1 DEF Holds
    <3>2. last >= 0 => last \in start .. length BY <2>4 DEF Triples
    <3> QED BY <2>4, <3>1, <3>2
  <2>6. code.op = "NEGATIVE" => <<code.first, p>> \in F
    BY <2>1, <2>4 DEF Holds
  <2>7. Passed(T, F, [Top EXCEPT !.phase = 3])
    BY <1>1, <2>2, <2>5, <2>6 DEF Passed, Frame, Consuming, Assertions
  <2>8. ~(Top.phase \in {1, 2, 3}) /\ 3 \in 1 .. 4 /\ 3 # 2 BY <2>1
  <2> QED BY <1>0, <1>1, <2>1, <2>7, <2>8, EarnedGoTo
<1> QED
  BY <1>3, <1>4, <1>5, <1>6, <1>8, <1>9, <1>10, <1>11, <1>12 DEF Dispatches

(* Nothing is claimed before the search starts.                            *)
LEMMA DecidedInit == Init => DecidedInv
<1> SUFFICES ASSUME Init PROVE DecidedInv OBVIOUS
<1>1. OrderInv BY OrderInit
<1>2. Outcome /\ VerdictDecided BY DEF Init, Outcome, Searching, VerdictDecided
<1>3. ASSUME NEW T, NEW F PROVE Earned(T, F)
  BY DEF Init, Earned, AnswerIn, MemoIn, PremisesIn, Searching
<1> QED BY <1>1, <1>2, <1>3 DEF DecidedInv

(* Every step keeps what has been earned.                                  *)
LEMMA EarnedStep ==
  ASSUME DecidedInv, [Next]_vars, NEW T \in SUBSET Triples, NEW F \in SUBSET Pairs,
         Model(T, F)
  PROVE  Earned(T, F)'
<1>0. IInv /\ Basic /\ Earned(T, F) /\ call' = call
  BY CallFixed DEF DecidedInv, OrderInv, PathInv, IInv
<1>1. CASE pc' \in {"frames", "returned"}
  BY <1>1 DEF Earned, AnswerIn, MemoIn, PremisesIn, Searching
<1>2. CASE Dispatches /\ pc' \in {"loop", "descend"} BY <1>2, EarnedDispatch
<1>3. CASE pc' = "cleanup" /\ frames' # <<>>
  BY <1>3 DEF Earned, AnswerIn, MemoIn, PremisesIn, Searching
<1>4. CASE StackEmpty
  <2>1. /\ pc = "loop" /\ pc' = "cleanup" /\ frames = <<>>
        /\ frames' = frames /\ last' = last
    BY <1>4 DEF StackEmpty
  <2> QED BY <1>0, <2>1, GridFixed
    DEF Earned, AnswerIn, MemoIn, PremisesIn, Searching
<1>5. CASE Descend BY <1>5, EarnedDescend
<1>6. CASE AllocateFrames
  <2> DEFINE f == NewFrame(program.entry, start, 0)
  <2>1. f.phase = 0 BY DEF NewFrame
  <2> HIDE DEF f
  <2>2. /\ frames' = <<f>> /\ pc' = "loop" /\ memo' = memo
        /\ memo = [c \in Cells |-> UNVISITED]
    BY <1>0, <1>6 DEF AllocateFrames, IInv, KeysHold, f
  <2>3. AnswerIn(T, F)' BY <2>1, <2>2 DEF AnswerIn, Top
  <2>4. MemoIn(T, F)'
    <3>1. ArgumentsValid /\ call \in Call
      BY <1>0, <1>6 DEF Basic, Valid, TypeOK, AllocateFrames
    <3>2. \A j \in 0 .. Count(program) - 1, q \in start .. length :
            memo'[Cell(j, q)] = UNVISITED
      BY <2>2, <3>1, GridCell DEF InGrid
    <3> QED BY <1>0, <3>2, GridFixed DEF MemoIn, Cell, UNVISITED
  <2>5. PremisesIn(T, F)' BY <2>1, <2>2 DEF PremisesIn, Passed, FirstGone
  <2> QED BY <2>3, <2>4, <2>5 DEF Earned
<1>7. CASE UNCHANGED <<memo, frames, last, epoch>>
           /\ (pc' = pc \/ (pc = "loop" /\ pc' = "visit"))
  <2>1. PICK top : top = Top OBVIOUS
  <2>2. Top' = top /\ WaitsFor(Top)' = WaitsFor(top)
    <3>1. Top' = top BY <1>7, <2>1 DEF Top
    <3> QED BY <1>0, <3>1, WaitsForFixed
  <2>3. ASSUME NEW d PROVE At(d)' = At(d) BY <1>7 DEF At, Working
  <2>4. ASSUME NEW d PROVE Lost(T, F, At(d))' = Lost(T, F, At(d))
    <3>1. PICK S : S = At(d)' OBVIOUS
    <3> QED BY <1>0, <2>3, <3>1, LostNow
  <2>5. ASSUME NEW f, NEW x PROVE Gone(T, F, f, x)' <=> Gone(T, F, f, x)
    BY <1>7, <2>4 DEF Gone
  <2>6. frames' # <<>> => /\ pc' \in {"loop", "visit"} => pc \in {"loop", "visit"}
    BY <1>7
  <2>7. AnswerIn(T, F)'
    <3>1. PICK x : x = <<WaitsFor(top).instruction, WaitsFor(top).position>> OBVIOUS
    <3>2. Gone(T, F, Top, x)' <=> Gone(T, F, top, x)' BY <2>2 DEF Gone
    <3>3. CASE pc' \in {"loop", "visit"} /\ frames' # <<>> /\ Top'.phase # 0
      <4>1. /\ last >= 0 => <<WaitsFor(top).instruction, WaitsFor(top).position, last>> \in T
            /\ last < 0 => IF top.phase = 4 THEN x \in F ELSE Gone(T, F, top, x)
        BY <1>0, <1>7, <2>1, <2>2, <3>1, <3>3 DEF Earned, AnswerIn
      <4> QED BY <1>7, <2>2, <2>5, <3>1, <3>2, <3>3, <4>1 DEF AnswerIn
    <3>4. CASE ~(pc' \in {"loop", "visit"} /\ frames' # <<>> /\ Top'.phase # 0)
      BY <1>0, <1>7, <3>4, GridFixed DEF Earned, AnswerIn, Basic, StackOnGrid, Searching
    <3> QED BY <3>3, <3>4
  <2>8. MemoIn(T, F)' BY <1>0, <1>7, GridFixed DEF Earned, MemoIn, Searching, Cell
  <2>9. PremisesIn(T, F)'
    <3>1. SUFFICES ASSUME Searching', NEW k \in DOMAIN frames
                   PROVE  Passed(T, F, frames[k])' /\ FirstGone(T, F, frames[k])'
      BY <1>7 DEF PremisesIn
    <3>2. PICK f : f = frames[k] OBVIOUS
    <3>3. Passed(T, F, f) /\ FirstGone(T, F, f)
      BY <1>0, <1>7, <3>1, <3>2 DEF Earned, PremisesIn, Searching
    <3>4. ASSUME NEW d, Winning(d) PROVE Winning(d)'
      BY <1>7, <2>1, <2>2, <3>4 DEF Winning
    <3>5. PICK x : x = <<Instr(program, f.instruction).first, f.position>> OBVIOUS
    <3>6. FirstGone(T, F, f)' BY <1>0, <2>5, <3>3, <3>4, <3>5, GridFixed DEF FirstGone
    <3>7. Passed(T, F, f)' BY <1>0, <3>3, ModelFixed
    <3>8. frames'[k] = f BY <1>7, <3>2
    <3> QED BY <3>6, <3>7, <3>8 DEF Passed, FirstGone, Gone, Winning
  <2> QED BY <2>7, <2>8, <2>9 DEF Earned
<1>8. CASE Turn
  BY <1>0, <1>7, <1>8, TurnFacts DEF Turn, AtTurn
<1>9. CASE UNCHANGED vars BY <1>7, <1>9 DEF vars
<1>10. ASSUME NEW st, Break(st), frames # <<>> PROVE Earned(T, F)'
  BY <1>3, <1>10 DEF Break
<1>11. pc \in {"visit", "descend"} => frames # <<>> BY <1>0, BelowTopWorks
<1>12. CASE Dispatches /\ pc' \notin {"loop", "descend"}
  BY <1>10, <1>11, <1>12 DEF Dispatches, CycleAcrossAssertion, EpochLimit, CutCycle, Reuse,
     Accept, EnterSplit, EnterAssertion, Advance, Mismatch, SecondBranch, AssertionHolds,
     AssertionFails, Done, Finish, Pop, Enter, GoTo, Visiting, Fresh
<1> QED
  BY <1>1, <1>2, <1>4, <1>5, <1>6, <1>8, <1>9, <1>10, <1>11, <1>12
  DEF Next, Enters, RejectArguments, RejectSizes, MemoNoMem, AllocateMemo, FramesNoMem,
      Return, Turns, OutOfSteps, TableLimit, TableNoMem, AtTurn, Pushes, FrameLimit,
      GrowNoMem, Cleanup

-----------------------------------------------------------------------------
(* result stays MATCH until the call leaves its loop, and it leaves it     *)
(* with MATCH only when the stack is empty.                                *)
LEMMA OutcomeStep == DecidedInv /\ [Next]_vars => Outcome'
<1> SUFFICES ASSUME DecidedInv, [Next]_vars PROVE Outcome' OBVIOUS
<1>0. Outcome BY DEF DecidedInv
<1>1. CASE /\ result' = result /\ pc' # "cleanup"
           /\ pc \notin {"cleanup", "returned"} \/ pc' = "returned"
  BY <1>0, <1>1 DEF Outcome
<1>2. ASSUME NEW st, Break(st), st \notin {"MATCH", "NOMATCH"} PROVE Outcome'
  BY <1>2 DEF Break, Outcome
<1>3. CASE Enters
  <2>1. CASE pc' = "returned" BY <2>1 DEF Outcome
  <2>2. CASE AllocateMemo \/ AllocateFrames
    BY <1>1, <2>2 DEF AllocateMemo, AllocateFrames
  <2> QED
    BY <1>3, <2>1, <2>2 DEF Enters, RejectArguments, RejectSizes, MemoNoMem, Return,
       FramesNoMem
<1>4. CASE Turns
  BY <1>1, <1>2, <1>4 DEF Turns, OutOfSteps, TableLimit, TableNoMem, Turn, AtTurn
<1>5. CASE Dispatches
  <2>1. CASE CycleAcrossAssertion \/ EpochLimit
    BY <1>2, <2>1 DEF CycleAcrossAssertion, EpochLimit
  <2>2. ASSUME NEW l, pc = "visit", Pop(l) PROVE Outcome'
    BY <1>1, <2>2 DEF Pop
  <2>3. ASSUME NEW ph, NEW i, NEW p, NEW since, pc = "visit", GoTo(ph, i, p, since)
        PROVE  Outcome'
    BY <1>1, <2>3 DEF GoTo
  <2> QED
    BY <1>5, <2>1, <2>2, <2>3 DEF Dispatches, CutCycle, Reuse, Accept, Finish, EnterSplit,
       Enter, EnterAssertion, Advance, Mismatch, SecondBranch, AssertionHolds,
       AssertionFails, Done, Visiting, First, Fresh, Resumed
<1>6. CASE Pushes
  BY <1>1, <1>2, <1>6 DEF Pushes, FrameLimit, GrowNoMem, Descend
<1>7. CASE StackEmpty BY <1>0, <1>7 DEF StackEmpty, Outcome
<1>8. CASE Cleanup BY <1>8 DEF Cleanup, Outcome
<1>9. CASE UNCHANGED vars BY <1>0, <1>9 DEF vars, Outcome
<1> QED BY <1>3, <1>4, <1>5, <1>6, <1>7, <1>8, <1>9 DEF Next

(* What is returned was the answer of the entry pair.                      *)
LEMMA VerdictStep == DecidedInv /\ [Next]_vars => VerdictDecided'
<1> SUFFICES ASSUME DecidedInv, [Next]_vars, pc' = "returned",
                    result' \in {"MATCH", "NOMATCH"}
             PROVE  VerdictDecided'
  BY DEF VerdictDecided
<1>0. call' = call /\ last \in Int BY CallFixed DEF DecidedInv, OrderInv, PathInv, IInv, Basic, TypeOK
<1>1. CASE UNCHANGED vars
  <2>1. VerdictDecided /\ pc = "returned" /\ result' = result /\ end' = end
    BY <1>1 DEF DecidedInv, vars
  <2> QED BY <1>0, <2>1, GridFixed, ModelFixed DEF VerdictDecided
<1>2. CASE Cleanup
  <2>1. /\ pc = "cleanup" /\ result = "MATCH" /\ frames = <<>>
        /\ result' = "MATCH" => last >= 0 /\ end' = last
        /\ result' = "NOMATCH" => last < 0
    <3>1. result \in {"MATCH", "NOMATCH"} BY <1>2 DEF Cleanup
    <3>2. pc = "cleanup" /\ Outcome BY <1>2 DEF Cleanup, DecidedInv
    <3> QED BY <1>0, <1>2, <3>1, <3>2 DEF Cleanup, Outcome
  <2>2. ASSUME NEW T \in SUBSET Triples, NEW F \in SUBSET Pairs, Model(T, F)
        PROVE  /\ last >= 0 => <<program.entry, start, last>> \in T
               /\ last < 0 => <<program.entry, start>> \in F
    BY <2>1, <2>2 DEF DecidedInv, Earned, AnswerIn
  <2>3. Model(Triples, Pairs)
    BY DEF Model, Triples, Pairs
  <2>4. last >= 0 => last \in start .. length
    BY <2>2, <2>3 DEF Triples
  <2> QED BY <1>0, <2>1, <2>2, <2>4, GridFixed, ModelFixed DEF VerdictDecided
<1>3. ASSUME Next PROVE Cleanup
  BY <1>3 DEF Next, Enters, RejectArguments, Return, RejectSizes, MemoNoMem, AllocateMemo,
     FramesNoMem, AllocateFrames, Turns, OutOfSteps, Break, TableLimit, TableNoMem, Turn,
     Dispatches, CycleAcrossAssertion, EpochLimit, CutCycle, Reuse, Pop, Accept, Finish,
     EnterSplit, Enter, GoTo, EnterAssertion, Advance, Mismatch, SecondBranch,
     AssertionHolds, AssertionFails, Done, Pushes, FrameLimit, GrowNoMem, Descend,
     StackEmpty
<1> QED BY <1>1, <1>2, <1>3

(* Every step keeps the invariant.                                         *)
LEMMA DecidedStep == DecidedInv /\ [Next]_vars => DecidedInv'
<1> SUFFICES ASSUME DecidedInv, [Next]_vars PROVE DecidedInv' OBVIOUS
<1>0. call' = call BY CallFixed
<1>1. OrderInv' BY OrderStep DEF DecidedInv
<1>2. Outcome' BY OutcomeStep
<1>3. VerdictDecided' BY VerdictStep
<1>4. ASSUME NEW T \in SUBSET Triples, NEW F \in SUBSET Pairs, Model(T, F)
      PROVE  Earned(T, F)'
  BY <1>4, EarnedStep
<1>5. (\A T \in SUBSET Triples, F \in SUBSET Pairs : Model(T, F) => Earned(T, F))'
  BY <1>0, <1>4, ModelFixed
<1> QED BY <1>1, <1>2, <1>3, <1>5 DEF DecidedInv

(* The verdict of every call that is not refused, for every program with   *)
(* assertions nested and cyclic as it may be, every input, budget and      *)
(* size: a reported end holds, and a reported failure is a failure, in     *)
(* every model of the program, and so in the least one.                    *)
THEOREM VerdictsAreDecided == Spec => []VerdictDecided
<1>1. DecidedInv => VerdictDecided BY DEF DecidedInv
<1> QED BY <1>1, DecidedInit, DecidedStep, PTL DEF Spec

(* A result in the memo is about its pair and not about the search that    *)
(* left it there: a stored end holds, and a stored failure is a failure,   *)
(* in every model of the program, whatever frames were active, whatever    *)
(* was cut on the way and whatever the result is later used for.           *)
(* (what a frame that is done stores in *memo_value, in maia_regex_exec)    *)
StoredDecided ==
  \A T \in SUBSET Triples, F \in SUBSET Pairs : Model(T, F) => MemoIn(T, F)

THEOREM StoredIsDecided == Spec => []StoredDecided
<1>1. DecidedInv => StoredDecided BY DEF DecidedInv, Earned, StoredDecided
<1> QED BY <1>1, DecidedInit, DecidedStep, PTL DEF Spec

(* A relation closed under the rules that ask nothing of a negative        *)
(* assertion is a model in which everything may fail.                      *)
LEMMA ClosedIsModel ==
  ASSUME NEW M \in SUBSET Triples, Closed(M)
  PROVE  Model(M, Pairs)
<1>1. ASSUME NEW i, NEW p, NEW e, Entitled(M, Pairs, i, p, e)
      PROVE  Justified(M, i, p, e)
  BY <1>1 DEF Entitled, Justified
<1> QED BY <1>1 DEF Model, Closed

(* Soundness of the engine for every program, input, budget and size: the  *)
(* end it reports belongs to every relation closed under the rules of the  *)
(* program, whatever was cached, cut, reset and recomputed on the way.     *)
THEOREM Soundness == Spec => []MatchIsDerivable
<1>1. VerdictDecided => MatchIsDerivable
  BY ClosedIsModel DEF VerdictDecided, MatchIsDerivable
<1> QED BY <1>1, VerdictsAreDecided, PTL

(* Without negative assertions the least closed relation is what the       *)
(* engine has to find, and it never overlooks a match: if it reports none, *)
(* there is a closed relation without one.                                 *)
NoMatchIsTrue ==
  /\ pc = "returned" /\ result = "NOMATCH"
  /\ \A i \in 0 .. Count(program) - 1 : Instr(program, i).op # "NEGATIVE"
  => \E M \in SUBSET Triples :
       Closed(M) /\ \A e \in start .. length : <<program.entry, start, e>> \notin M

(* More premises justify more.                                             *)
LEMMA JustifiedMore ==
  ASSUME NEW M, NEW N, M \subseteq N, NEW i, NEW p, NEW e, Justified(M, i, p, e)
  PROVE  Justified(N, i, p, e)
BY DEF Justified

(* Without negative assertions the least closed relation, with all pairs   *)
(* that match nowhere in it, is a model.                                   *)
LEMMA LeastModel ==
  ASSUME \A i \in 0 .. Count(program) - 1 : Instr(program, i).op # "NEGATIVE"
  PROVE  \E T \in SUBSET Triples, F \in SUBSET Pairs :
           /\ Model(T, F) /\ Closed(T)
           /\ \A x \in F, e \in start .. length : <<x[1], x[2], e>> \notin T
<1> DEFINE T == {t \in Triples : \A M \in SUBSET Triples : Closed(M) => t \in M}
           F == {x \in Pairs : \A e \in start .. length : <<x[1], x[2], e>> \notin T}
<1>1. T \in SUBSET Triples /\ \A M \in SUBSET Triples : Closed(M) => T \subseteq M
  OBVIOUS
<1>2. ASSUME NEW i \in 0 .. Count(program) - 1, NEW p \in start .. length,
             NEW e \in start .. length, \A M \in SUBSET Triples : Closed(M) => <<i, p, e>> \in M
      PROVE  <<i, p, e>> \in T
  <2>1. <<i, p, e>> \in Triples BY DEF Triples
  <2> QED BY <1>2, <2>1
<1>3. F \in SUBSET Pairs OBVIOUS
<1>4. ASSUME NEW x \in Pairs, \A e \in start .. length : <<x[1], x[2], e>> \notin T
      PROVE  x \in F
  BY <1>4
<1>5. \A x \in F, e \in start .. length : <<x[1], x[2], e>> \notin T
  OBVIOUS
<1> HIDE DEF T, F
<1>6. Closed(T)
  <2>1. ASSUME NEW i \in 0 .. Count(program) - 1, NEW p \in start .. length,
               NEW e \in start .. length, Justified(T, i, p, e)
        PROVE  <<i, p, e>> \in T
    <3>1. ASSUME NEW M \in SUBSET Triples, Closed(M) PROVE <<i, p, e>> \in M
      <4>1. Justified(M, i, p, e) BY <1>1, <2>1, <3>1, JustifiedMore
      <4> QED BY <3>1, <4>1 DEF Closed
    <3> QED BY <1>2, <3>1
  <2> QED BY <2>1 DEF Closed
<1>7. ASSUME NEW U \in SUBSET Pairs, Unfounded(T, F, U) PROVE U \subseteq F
  <2> DEFINE M == {t \in T : <<t[1], t[2]>> \notin U}
  <2>1. M \in SUBSET Triples /\ M \subseteq T BY <1>1
  <2>2. \A t \in M : <<t[1], t[2]>> \notin U OBVIOUS
  <2>3. ASSUME NEW i, NEW p, NEW e, <<i, p, e>> \in T, <<i, p>> \notin U
        PROVE  <<i, p, e>> \in M
    BY <2>3
  <2> HIDE DEF M
  <2>4. ASSUME NEW i, NEW p, NEW e, <<i, p, e>> \in M
        PROVE  <<i, p>> \notin F \cup U /\ <<i, p, e>> \in T
    <3>1. <<i, p, e>> \in T /\ <<i, p>> \notin U BY <2>1, <2>2, <2>4
    <3>2. e \in start .. length BY <1>1, <3>1 DEF Triples
    <3>3. <<i, p>> \notin F BY <1>5, <3>1, <3>2
    <3> QED BY <3>1, <3>3
  <2>5. Closed(M)
    <3>1. ASSUME NEW i \in 0 .. Count(program) - 1, NEW p \in start .. length,
                 NEW e \in start .. length, Justified(M, i, p, e)
          PROVE  <<i, p, e>> \in M
      <4>1. <<i, p, e>> \in T
        BY <1>6, <2>1, <3>1, JustifiedMore DEF Closed
      <4>2. ASSUME <<i, p>> \in U PROVE FALSE
        <5>1. Blocked(T, F \cup U, <<i, p>>) BY <1>7, <4>2 DEF Unfounded
        <5>2. PICK x : x = <<i, p>> OBVIOUS
        <5>3. x[1] = i /\ x[2] = p /\ Blocked(T, F \cup U, x) BY <5>1, <5>2
        <5>4. Instr(program, i).op # "NEGATIVE" OBVIOUS
        <5> QED BY <2>4, <3>1, <5>3, <5>4 DEF Blocked, Justified
      <4> QED BY <2>3, <4>1, <4>2
    <3> QED BY <3>1 DEF Closed
  <2>6. T \subseteq M BY <1>1, <2>1, <2>5
  <2>7. ASSUME NEW x \in U PROVE x \in F
    <3>1. x \in Pairs /\ x = <<x[1], x[2]>> BY <2>7 DEF Pairs
    <3>2. ASSUME NEW e \in start .. length, <<x[1], x[2], e>> \in T PROVE FALSE
      <4>1. <<x[1], x[2]>> \notin U BY <2>4, <2>6, <3>2
      <4> QED BY <2>7, <3>1, <4>1
    <3> QED BY <1>4, <3>1, <3>2
  <2> QED BY <2>7
<1>8. Model(T, F)
  <2>1. ASSUME NEW i \in 0 .. Count(program) - 1, NEW p \in start .. length,
               NEW e \in start .. length, Entitled(T, F, i, p, e)
        PROVE  <<i, p, e>> \in T
    <3>1. Justified(T, i, p, e) BY <2>1 DEF Entitled, Justified
    <3> QED BY <1>6, <3>1 DEF Closed
  <2> QED BY <1>7, <2>1 DEF Model
<1> QED BY <1>1, <1>3, <1>5, <1>6, <1>8

(* Completeness of the engine without negative assertions, for every       *)
(* program, input, budget and size: a reported failure is a failure of the *)
(* least closed relation, cycles cut and frames popped early included.     *)
THEOREM Completeness == Spec => []NoMatchIsTrue
<1>1. VerdictDecided => NoMatchIsTrue
  <2> SUFFICES ASSUME VerdictDecided, pc = "returned", result = "NOMATCH",
                      \A i \in 0 .. Count(program) - 1 : Instr(program, i).op # "NEGATIVE"
               PROVE  \E M \in SUBSET Triples :
                        /\ Closed(M)
                        /\ \A e \in start .. length : <<program.entry, start, e>> \notin M
    BY DEF NoMatchIsTrue
  <2>1. PICK T \in SUBSET Triples, F \in SUBSET Pairs :
           /\ Model(T, F) /\ Closed(T)
           /\ \A x \in F, e \in start .. length : <<x[1], x[2], e>> \notin T
    BY LeastModel
  <2>2. <<program.entry, start>> \in F BY <2>1 DEF VerdictDecided
  <2>3. \A e \in start .. length : <<program.entry, start, e>> \notin T
    BY <2>1, <2>2
  <2> QED BY <2>1, <2>3
<1> QED BY <1>1, VerdictsAreDecided, PTL

-----------------------------------------------------------------------------
(* Results once stored stay, and so do occupied slots.                     *)
StaysStored ==
  pc # "enter" =>
    /\ keys \subseteq keys'
    /\ \A c \in Cells : memo[c] \notin {UNVISITED, VISITING} => memo'[c] = memo[c]

(* A step that writes one cell, which held nothing, withdraws no result.   *)
LEMMA OneCellWritten ==
  ASSUME memo \in [Cells -> Int], memo[Here] \in {UNVISITED, VISITING},
         NEW v, memo' = [memo EXCEPT ![Here] = v], keys' = keys
  PROVE  StaysStored
  BY DEF StaysStored

(* No step withdraws a stored result or empties a slot.                    *)
LEMMA StoredStep == IInv /\ [Next]_vars => StaysStored
  <1>. SUFFICES ASSUME IInv, [Next]_vars PROVE StaysStored
    OBVIOUS
  <1>1. Basic /\ memo \in [Cells -> Int]
    BY DEF IInv, Basic, TypeOK
  <1>2. ASSUME UNCHANGED <<keys, memo>> PROVE StaysStored
    BY <1>2 DEF StaysStored
  <1>3. CASE UNCHANGED vars
    BY <1>2, <1>3 DEF vars
  <1>4. CASE Enters
    BY <1>2, <1>4 DEF Enters, RejectArguments, RejectSizes, MemoNoMem, Return, AllocateMemo,
       FramesNoMem, AllocateFrames
  <1>5. CASE Turns
    <2>1. CASE Turn
      BY <2>1, TurnFacts DEF StaysStored, Turn
    <2> QED BY <1>2, <1>5, <2>1 DEF Turns, OutOfSteps, TableLimit, TableNoMem, Break
  <1>6. CASE Dispatches
    <2>1. CASE CycleAcrossAssertion \/ EpochLimit \/ CutCycle \/ Reuse \/ SecondBranch
               \/ AssertionHolds
      BY <1>2, <2>1 DEF CycleAcrossAssertion, EpochLimit, Break, CutCycle, Reuse, Static,
         SecondBranch, AssertionHolds, GoTo
    <2>2. CASE Accept \/ EnterSplit \/ EnterAssertion \/ Advance \/ Mismatch
      <3>1. memo[Here] = UNVISITED /\ keys' = keys
            /\ \E v : memo' = [memo EXCEPT ![Here] = v]
        BY <2>2 DEF Accept, EnterSplit, EnterAssertion, Advance, Mismatch, First, Enter,
           Finish, GoTo, Static
      <3> QED BY <1>1, <3>1, OneCellWritten
    <2>3. CASE AssertionFails \/ Done
      <3>1. Resumed /\ keys' = keys /\ \E v : memo' = [memo EXCEPT ![Here] = v]
        BY <2>3 DEF AssertionFails, Done, Finish, Static
      <3>2. memo[Here] = VISITING
        BY <3>1, ResumedCell
      <3> QED BY <1>1, <3>1, <3>2, OneCellWritten
    <2> QED BY <1>6, <2>1, <2>2, <2>3 DEF Dispatches
  <1>7. CASE Pushes
    BY <1>2, <1>7 DEF Pushes, FrameLimit, GrowNoMem, Descend, Break
  <1>8. CASE StackEmpty \/ Cleanup
    BY <1>2, <1>8 DEF StackEmpty, Cleanup
  <1> QED BY <1>3, <1>4, <1>5, <1>6, <1>7, <1>8 DEF Next

(* A slot, once occupied, stays occupied, and a completed result is never  *)
(* withdrawn or changed: only the mark of a frame at work gives way.       *)
THEOREM StoredResultsPersist == Spec => ResultsPersist
  <1>1. IInv /\ [Next]_vars => [StaysStored]_vars
    BY StoredStep
  <1>2. ResultsPersist <=> [][StaysStored]_vars
    BY DEF ResultsPersist, StaysStored
  <1> QED BY <1>1, <1>2, Invariance, PTL DEF Spec

-----------------------------------------------------------------------------
(* The table before it is there.                                           *)
Unused == call \in Calls /\ (pc = "enter" => slots = 0)

(* No step comes back to the entry.                                        *)
LEMMA UnusedStep == Unused /\ [Next]_vars => Unused'
  <1>. SUFFICES ASSUME Unused, [Next]_vars PROVE Unused'
    OBVIOUS
  <1>1. call' = call
    BY CallFixed
  <1>2. CASE UNCHANGED vars
    BY <1>1, <1>2 DEF vars, Unused
  <1>3. CASE Next
    <2>1. pc' # "enter"
      BY <1>3 DEF Next, Enters, RejectArguments, RejectSizes, MemoNoMem, Return, AllocateMemo,
         FramesNoMem, AllocateFrames, Turns, OutOfSteps, TableLimit, TableNoMem, Turn, Break,
         Dispatches, CycleAcrossAssertion, EpochLimit, CutCycle, Reuse, Accept, EnterSplit,
         EnterAssertion, Advance, Mismatch, SecondBranch, AssertionHolds, AssertionFails,
         Done, Finish, Enter, GoTo, Pop, Pushes, FrameLimit, GrowNoMem, Descend, StackEmpty,
         Cleanup
    <2> QED BY <1>1, <2>1 DEF Unused
  <1> QED BY <1>2, <1>3

(* What is kept apart of the call: the form of the memo and its cells.     *)
LEMMA HeldNow ==
  ASSUME call' = call
  PROVE  /\ MemoHeld' = [c \in AllCells |-> IF Dense \/ c \notin Cells THEN UNVISITED
                                            ELSE memo'[c]]
         /\ SlotsHeld' = IF slots' = 0 THEN InitialSlots ELSE slots'
  <1>1. Cells' = Cells /\ Dense' = Dense
    BY GridFixed DEF Dense, limits
  <1> QED BY <1>1 DEF MemoHeld, SlotsHeld

(* The cells of a call with valid arguments are among those of all calls.  *)
LEMMA CellsAmongAll ==
  ASSUME Unused PROVE Cells \subseteq AllCells
  BY DEF Unused, AllCells, Cells, cells, columns, length, program, input, start

(* The cell whose slot the search holds a pointer to                       *)
Pointed == IF pc = "visit" /\ ~Dense THEN Here ELSE -1

MapStep == [MM!Next]_<<keys, SlotsHeld, MemoHeld, Pointed>>

(* A step that changes neither the memo nor the table, nor the pointer     *)
LEMMA HeldStutters ==
  ASSUME call' = call, UNCHANGED <<keys, memo, slots>>,
         Pointed' = Pointed \/ (pc # "visit" /\ pc' # "visit")
  PROVE  MapStep
  <1>1. UNCHANGED <<keys, SlotsHeld, MemoHeld>>
    BY HeldNow DEF MemoHeld, SlotsHeld
  <1>2. Pointed' = Pointed
    BY DEF Pointed
  <1> QED BY <1>1, <1>2 DEF MapStep

(* Where the search looks at its cell, the map has given it the slot; it   *)
(* is used once, to write or only to read.                                 *)
LEMMA HeldUse ==
  ASSUME IInv, Unused, pc = "visit", pc' # "visit", call' = call, UNCHANGED <<keys, slots>>,
         NEW v, memo' = [memo EXCEPT ![Here] = v]
  PROVE  MapStep
  <1>1. memo \in [Cells -> Int] /\ Here \in Cells /\ Cells \subseteq AllCells
    BY CellsAmongAll, BelowTopWorks DEF IInv, Basic, TypeOK
  <1>2. SlotsHeld' = SlotsHeld
    BY HeldNow DEF SlotsHeld
  <1>3. Pointed' = -1
    BY DEF Pointed
  <1>4. CASE Dense
    <2>1. MemoHeld' = MemoHeld
      BY <1>4, HeldNow DEF MemoHeld
    <2>2. Pointed = -1
      BY <1>4 DEF Pointed
    <2> QED BY <1>2, <1>3, <2>1, <2>2 DEF MapStep
  <1>5. CASE ~Dense
    <2>1. Here \in keys
      BY <1>5 DEF IInv, KeysHold, Searching
    <2>2. MemoHeld'[Here] = v
      BY <1>1, <1>5, HeldNow
    <2>3. MemoHeld' = [MemoHeld EXCEPT ![Here] = v]
      BY <1>1, <1>5, HeldNow DEF MemoHeld
    <2>4. Pointed = Here
      BY <1>5 DEF Pointed
    <2>5. MM!Use(Here)
      BY <1>2, <1>3, <2>1, <2>2, <2>3, <2>4 DEF MM!Use, MM!Nowhere, Pointed
    <2> QED BY <1>1, <2>5 DEF MM!Next, MapStep
  <1> QED BY <1>4, <1>5

(* The map counts as the search does.                                      *)
LEMMA SameCount == \A S : MM!Cardinality(S) = Cardinality(S)
  BY DEF Cardinality, MM!Cardinality

(* The frame looked at is on a cell of the grid.                           *)
LEMMA VisitsACell == Basic /\ pc = "visit" => Here \in Cells
  BY BelowTopWorks

(* The turn of the loop asks for the slot of the cell, which is new or not *)
LEMMA HeldTurn ==
  ASSUME SizesInv, Unused, Turn
  PROVE  MapStep
  <1>1. IInv /\ call' = call /\ memo' = memo
    BY TurnFacts DEF SizesInv, Turn
  <1>2. MemoHeld' = MemoHeld
    BY <1>1, HeldNow DEF MemoHeld
  <1>3. Here \in AllCells /\ Here' = Here
    <2>1. (Basic /\ pc = "visit")'
      BY <1>1, TurnFacts DEF Turn
    <2>2. (Here \in Cells)'
      BY <2>1, VisitsACell, PTL
    <2>3. Cells' = Cells BY <1>1, GridFixed
    <2>4. Here' = Here
      BY <1>1, GridFixed DEF Here, Top, Cell, Turn
    <2> QED BY <2>2, <2>3, <2>4, CellsAmongAll
  <1>4. Pointed = -1 /\ Pointed' = IF ~Dense THEN Here ELSE -1
    <2>1. Dense' = Dense BY <1>1, GridFixed DEF Dense, limits
    <2> QED BY <1>3, <2>1 DEF Pointed, Turn, AtTurn
  <1>5. CASE Present
    <2>1. UNCHANGED <<keys, memo, slots>>
      BY <1>1, <1>5 DEF Turn, MustGrow
    <2>2. CASE Dense
      BY <1>1, <1>4, <2>1, <2>2, HeldStutters
    <2>3. CASE ~Dense
      <3>1. SlotsHeld' = SlotsHeld
        BY <1>1, <2>1, HeldNow DEF SlotsHeld
      <3>2. Here \in keys
        BY <1>5, <2>3 DEF Present
      <3>3. MM!Find(Here)
        BY <1>2, <1>4, <2>1, <2>3, <3>1, <3>2 DEF MM!Find, MM!Nowhere, Pointed
      <3> QED BY <1>3, <3>3 DEF MM!Next, MapStep
    <2> QED BY <2>2, <2>3
  <1>6. CASE ~Present
    <2>1. ~Dense /\ Here \notin keys /\ pc = "loop"
      BY <1>6 DEF Present, Turn, AtTurn
    <2>2. slots \in Nat /\ slots >= 2
      BY <1>1, <2>1 DEF SizesInv, TableFits, IInv, Basic, TypeOK
    <2>3. SlotsHeld = slots
      BY <2>2 DEF SlotsHeld
    <2>4. slots' = (IF Cardinality(keys) >= slots \div 2 THEN 2 * slots ELSE slots)
      BY <1>6 DEF Turn, MustGrow
    <2>5. SlotsHeld' = slots'
      BY <1>1, <2>2, <2>4, HeldNow
    <2>6. Pointed = -1 /\ Pointed' = Here
      BY <1>4, <2>1
    <2>7. MM!Insert(Here)
      BY <1>2, <1>6, <2>1, <2>3, <2>4, <2>5, <2>6, SameCount
         DEF MM!Insert, MM!Nowhere, Turn, Pointed
    <2> QED BY <1>3, <2>7 DEF MM!Next, MapStep
  <1> QED BY <1>5, <1>6

(* Every step of the search is a step of the map, or none.                 *)
LEMMA HeldStep ==
  SizesInv /\ Unused /\ [Next]_vars => MapStep
  <1>. SUFFICES ASSUME SizesInv, Unused, [Next]_vars PROVE MapStep
    OBVIOUS
  <1>0. IInv /\ call' = call
    BY CallFixed DEF SizesInv
  <1>1. ASSUME UNCHANGED <<keys, memo, slots>>, pc # "visit", pc' # "visit" PROVE MapStep
    BY <1>0, <1>1, HeldStutters
  <1>2. CASE UNCHANGED vars
    <2>1. UNCHANGED <<keys, memo, slots, pc, frames>>
      BY <1>2 DEF vars
    <2>2. Pointed' = Pointed
      BY <1>0, <2>1, GridFixed DEF Pointed, Here, Top, Cell, Dense, limits
    <2> QED BY <1>0, <2>1, <2>2, HeldStutters
  <1>3. CASE Enters
    <2>0. pc # "visit" /\ pc' # "visit"
      BY <1>3 DEF Enters, AllocateMemo, RejectArguments, RejectSizes, MemoNoMem, Return,
         FramesNoMem, AllocateFrames
    <2>1. CASE AllocateMemo
      <3>1. slots = 0 /\ (slots' = 0 \/ slots' = InitialSlots) /\ UNCHANGED <<keys, memo>>
        BY <2>1 DEF AllocateMemo, Unused
      <3>2. SlotsHeld' = SlotsHeld /\ MemoHeld' = MemoHeld
        BY <1>0, <3>1, HeldNow DEF SlotsHeld, MemoHeld
      <3>3. Pointed' = Pointed
        BY <2>0 DEF Pointed
      <3> QED BY <3>1, <3>2, <3>3 DEF MapStep
    <2> QED BY <1>1, <1>3, <2>0, <2>1 DEF Enters, RejectArguments, RejectSizes, MemoNoMem,
          Return, FramesNoMem, AllocateFrames
  <1>4. CASE Turns
    <2>1. CASE OutOfSteps \/ TableLimit \/ TableNoMem
      BY <1>1, <2>1 DEF OutOfSteps, TableLimit, TableNoMem, MustGrow, AtTurn, Break
    <2> QED BY <1>4, <2>1, HeldTurn DEF Turns
  <1>5. CASE Dispatches
    <2>1. CASE CycleAcrossAssertion \/ EpochLimit \/ CutCycle \/ Reuse \/ SecondBranch
               \/ AssertionHolds
      <3>1. /\ pc = "visit" /\ pc' # "visit" /\ UNCHANGED <<keys, slots>> /\ memo' = memo
        BY <2>1 DEF CycleAcrossAssertion, EpochLimit, Break, CutCycle, Reuse, Static,
           SecondBranch, AssertionHolds, GoTo, Pop, Visiting, Fresh, Resumed
      <3>2. memo' = [memo EXCEPT ![Here] = memo[Here]]
        BY <1>0, <3>1 DEF IInv, Basic, TypeOK
      <3> QED BY <1>0, <3>1, <3>2, HeldUse
    <2>2. CASE Accept \/ EnterSplit \/ EnterAssertion \/ Advance \/ Mismatch
               \/ AssertionFails \/ Done
      <3>1. /\ pc = "visit" /\ pc' # "visit" /\ UNCHANGED <<keys, slots>>
            /\ \E v : memo' = [memo EXCEPT ![Here] = v]
        BY <2>2 DEF Accept, EnterSplit, EnterAssertion, Advance, Mismatch, First, Fresh, Enter,
           AssertionFails, Done, Resumed, Finish, GoTo, Static, Pop
      <3> QED BY <1>0, <3>1, HeldUse
    <2> QED BY <1>5, <2>1, <2>2 DEF Dispatches
  <1>6. CASE Pushes \/ StackEmpty \/ Cleanup
    BY <1>1, <1>6 DEF Pushes, FrameLimit, GrowNoMem, Descend, Break, StackEmpty, Cleanup
  <1> QED BY <1>2, <1>3, <1>4, <1>5, <1>6 DEF Next

(* The memo starts as the empty map.                                       *)
LEMMA HeldInit == Init => Unused /\ MM!Init
  BY DEF Init, Unused, MM!Init, MM!Nowhere, MemoHeld, SlotsHeld, UNVISITED

(* The search implements MemoMap: it writes a cell only in the turn that   *)
(* asked memo_slot for its slot, no later step takes the slot away, and    *)
(* the table doubles exactly when a new cell finds half of it taken.  With *)
(* MemoTableProofs, where the table implements the same map, the search    *)
(* over a set of cells and the search over a hash table are one.           *)
THEOREM MemoIsMap == Spec => UsesMemoMap
  <1>1. Spec => []Unused
    BY HeldInit, UnusedStep, PTL DEF Spec
  <1> QED BY <1>1, HeldInit, HeldStep, AlwaysSizes, PTL
          DEF Spec, UsesMemoMap, MM!Spec, MapStep, Pointed
=============================================================================
