---------------------------- MODULE MCOrderedExec ----------------------------
(***************************************************************************)
(* Instances of OrderedExec for TLC: sets of calls, the contract the engine*)
(* is shown to implement, and the exactness of its memo.                   *)
(***************************************************************************)
EXTENDS OrderedExec, SequencesExt

R == INSTANCE OrderedReference

C == INSTANCE OrderedContract
       WITH status <- IF pc = "returned" THEN result ELSE "pending"

(* The engine answers each call with a verdict the contract allows: the    *)
(* first accepting path in priority order, found with a memo and without   *)
(* recursion, is the one the memo-free recursive search finds.             *)
ImplementsContract == C!Spec

ActiveDepths ==
  LET working == {k \in DOMAIN frames : Working(k)}
      pairs == {<<frames[k].instruction, frames[k].position>> : k \in working}
      Of(x) == CHOOSE k \in working :
                 x = <<frames[k].instruction, frames[k].position>>
  IN [x \in pairs |-> frames[Of(x)].assertion_depth]

(* A stored result is what the search would find from that cell now, under *)
(* the frames that are active now, and also what it finds with none: the   *)
(* epoch rule never lets a cycle-pruned answer into the memo.              *)
CachedIsContextFree ==
  Searching /\ frames # <<>> =>
    \A i \in 0 .. Count(program) - 1, p \in start .. length :
      LET v == memo[Cell(i, p)]
          answer == IF v > 0 THEN v - 1 ELSE R!NoMatch
      IN v \notin {UNVISITED, VISITING} =>
           /\ R!Dfs(program, input, i, p, 0, <<>>) = answer
           /\ R!Dfs(program, input, i, p, Top.assertion_depth, ActiveDepths) = answer
-----------------------------------------------------------------------------
I(op, first, second, next) ==
  [op |-> op, first |-> first, second |-> second, next |-> next]

P(code_, entry_) == [code |-> code_, ranges |-> <<>>, entry |-> entry_]

NoLimits == [max_memo_bytes |-> 0, max_frames |-> 0, max_steps |-> 0]

CallOf(p, in, from, lim) ==
  [nulls |-> {}, program |-> p, input |-> in, start |-> from, limits |-> lim]

(* Every instruction of a program of n instructions over the letter 1.     *)
AnyInstr(n) ==
  LET T == 0 .. n - 1
  IN {I("ACCEPT", 0, 0, 0)}
     \cup {I("CHAR", 1, 0, t) : t \in T} \cup {I("END", 0, 0, t) : t \in T}
     \cup {I(op, t, 0, u) : op \in Assertions, t \in T, u \in T}
     \cup {I("SPLIT", t, u, 0) : t \in T, u \in T}

Branching(n) == {c \in AnyInstr(n) : c.op \in Assertions \cup {"SPLIT"}}

(* All programs of three instructions that start with a branch and have an *)
(* ACCEPT, on some inputs.                                                 *)
SmallCalls(inputs) ==
  {CallOf(P(<<a, b, I("ACCEPT", 0, 0, 0)>>, 0), in, 0, NoLimits) :
     a \in Branching(3), b \in AnyInstr(3), in \in inputs}

(* Four instructions: a branch, an assertion, a branch and an ACCEPT, with *)
(* all targets, on the empty input: mostly empty cycles, many of them      *)
(* nested and many through the assertion.                                  *)
CyclicCalls ==
  LET T == 0 .. 3
      Splits == {I("SPLIT", t, u, 0) : t \in T, u \in T}
      Asserts == {I(op, t, 0, u) : op \in Assertions, t \in T, u \in T}
  IN {CallOf(P(<<a, b, c, I("ACCEPT", 0, 0, 0)>>, 0), <<>>, 0, NoLimits) :
        a \in Splits, b \in Asserts, c \in Splits}

(* Loops over one letter and assertions about it                           *)
LoopCalls ==
  {CallOf(p, w, 0, NoLimits) : w \in {<<>>, <<1>>, <<2>>},
     p \in {P(<<I("ACCEPT", 0, 0, 0), a, b>>, 2) :
              a \in {I("CHAR", 1, 0, 0), I("CHAR", 1, 0, 2), I("END", 0, 0, 0)},
              b \in {I("SPLIT", 1, 0, 0), I("SPLIT", 0, 1, 0),
                     I("POSITIVE", 1, 0, 0), I("NEGATIVE", 1, 0, 0),
                     I("POSITIVE", 0, 0, 1)}}}

(* Small enough that all closed relations can be enumerated                *)
SearchCalls == SmallCalls({<<>>, <<1>>, <<2>>}) \cup CyclicCalls \cup LoopCalls

(* Programs of test_regex_program.c; letters a = 1, b = 2, z = 3.          *)
Greedy == P(<<I("ACCEPT", 0, 0, 0), I("CHAR", 1, 0, 2), I("SPLIT", 1, 0, 0)>>, 2)
Lazy   == P(<<I("ACCEPT", 0, 0, 0), I("CHAR", 1, 0, 2), I("SPLIT", 0, 1, 0)>>, 2)
ToEnd  == P(<<I("ACCEPT", 0, 0, 0), I("CHAR", 1, 0, 2), I("SPLIT", 1, 3, 0),
              I("END", 0, 0, 0)>>, 2)

CycleContext(op) ==
  P(<<I("ACCEPT", 0, 0, 0), I("CHAR", 2, 0, 0), I("CHAR", 1, 0, 1),
      I("CHAR", 1, 0, 0), I("SPLIT", 5, 2, 0), I("SPLIT", 4, 3, 0),
      I("CHAR", 3, 0, 0), I(op, 4, 0, 6), I("SPLIT", 7, 5, 0)>>, 8)

Recursive(op) == P(<<I("ACCEPT", 0, 0, 0), I(op, 1, 0, 0)>>, 1)

Classes(op) ==
  [code |-> <<I("ACCEPT", 0, 0, 0), I(op, 1, 2, 2), I("SPLIT", 1, 0, 0)>>,
   ranges |-> <<[first |-> 3, last |-> 3], [first |-> 1, last |-> 1],
                [first |-> 2, last |-> 2]>>, entry |-> 2]

TestPrograms == {Greedy, Lazy, ToEnd, Classes("CLASS"), Classes("NOT_CLASS")}
  \cup {CycleContext(op) : op \in Assertions} \cup {Recursive(op) : op \in Assertions}

Words == {<<>>, <<1>>, <<1, 1>>, <<1, 2>>, <<2, 1, 1>>, <<3, 3>>}

(* The second set starts its words at 1, behind a unit nobody validates.   *)
TestCalls ==
  {CallOf(p, w, 0, NoLimits) : p \in TestPrograms, w \in Words}
  \cup {CallOf(p, <<UnitMax + 1>> \o w, 1, NoLimits) : p \in TestPrograms, w \in Words}

Budgets ==
  {[NoLimits EXCEPT !.max_frames = n] : n \in 1 .. 6}
  \cup {[NoLimits EXCEPT !.max_steps = n] : n \in 1 .. 12}
  \cup {[NoLimits EXCEPT !.max_memo_bytes = n] : n \in {5, 6, 12, 18, 36}}
  \cup {[max_memo_bytes |-> 36, max_frames |-> f, max_steps |-> n] :
          f \in {3, 5}, n \in {9, 30}}

BudgetCalls ==
  {CallOf(p, w, 0, b) : p \in {Greedy, ToEnd, CycleContext("POSITIVE")},
                        w \in {<<>>, <<1>>, <<1, 2>>}, b \in Budgets}

(* Calls the argument checks have to tell apart.                           *)
Bad(i) == [Greedy EXCEPT !.code[2] = i]

ArgumentCalls ==
  {[CallOf(Greedy, w, 0, NoLimits) EXCEPT !.nulls = n] :
     w \in {<<>>, <<1>>}, n \in {{x} : x \in Pointers}}
  \cup {[CallOf(Classes("CLASS"), <<1>>, 0, NoLimits) EXCEPT !.nulls = {"ranges"}]}
  \cup {CallOf(p, w, from, NoLimits) : from \in 0 .. 2,
          w \in {<<>>, <<1>>, <<UnitMax + 1>>, <<1, 1, 1, 1>>, <<1, 1, 1, 1, 1>>},
          p \in {Greedy, [Greedy EXCEPT !.entry = 3], P(<<>>, 0),
                 Bad(I("BAD", 0, 0, 0)), Bad(I("CHAR", UnitMax + 1, 0, 2)),
                 Bad(I("CHAR", 1, 0, 3)), Bad(I("SPLIT", 3, 0, 0)),
                 Bad(I("SPLIT", 0, 3, 0)), Bad(I("POSITIVE", 3, 0, 0)),
                 Bad(I("NEGATIVE", 0, 0, 3)), Bad(I("CLASS", 0, 1, 0)),
                 [Classes("CLASS") EXCEPT !.ranges[2].first = 2],
                 [Classes("CLASS") EXCEPT !.ranges[2].last = UnitMax + 1]}}

(* Calls that go to the end of a size_t of few units.                      *)
NestedCuts ==
  P([k \in 1 .. 6 |-> I("SPLIT", k % 6, k % 6, 0)], 0)

LongCalls ==
  {CallOf(p, w, 0, b) : p \in TestPrograms \cup {NestedCuts},
     w \in {<<>>, <<1>>, <<1, 1>>, <<1, 1, 1>>, <<1, 1, 1, 1>>},
     b \in {NoLimits, [NoLimits EXCEPT !.max_frames = 3],
            [NoLimits EXCEPT !.max_memo_bytes = 24]}}

BoundaryCalls == BudgetCalls \cup ArgumentCalls \cup LongCalls \cup SmallCalls({<<1, 1>>})
=============================================================================
