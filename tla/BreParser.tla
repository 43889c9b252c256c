------------------------------ MODULE BreParser ------------------------------
(***************************************************************************)
(* The generated parser of basic regular expressions at work on the tokens *)
(* of one pattern (generated/bre-parser.hpp), and the status its caller    *)
(* makes of the outcome (maia_bre_compile.cpp).                            *)
(*                                                                         *)
(* The parser descends recursively, one C function per rule.  Here a call  *)
(* is a frame of `stack`, and `returned` is what the function that ended   *)
(* last told its caller.  A function that fails leaves the position and    *)
(* the events as it found them and is remembered in the memo of failures;  *)
(* the caller gives up in turn, or goes back to where its own item began.  *)
(***************************************************************************)
EXTENDS BreGrammar, BreEvents

CONSTANTS
  Patterns,       \* the sequences of token types to parse
  MemoMax,        \* (size_t)-1, which bounds the memo's size
  MemoryMayFail   \* whether the memo's allocation may fail

ASSUME ParserAssumption ==
  /\ \A p \in Patterns : p \in Seq(TokenTypes)
  /\ MemoMax \in Nat /\ MemoryMayFail \in BOOLEAN

VARIABLES
  tokens, position,
  stack,          \* calls in progress, the innermost last
  returned,       \* "none", or the answer of the last call: "ok" or "failed"
  sink,           \* the events so far
  memo,           \* failureMemo: rules known to fail, with the position
  verdict         \* the caller's status, "none" while parsing

vars == <<tokens, position, stack, returned, sink, memo, verdict>>

Init ==
  /\ tokens \in Patterns
  /\ position = 0 /\ stack = <<>> /\ returned = "none"
  /\ sink = EmptySink /\ memo = {} /\ verdict = "none"
-----------------------------------------------------------------------------
(* A frame: the rule, where it started and the mark of the events there;   *)
(* the item it works on, where that item (or the iteration of a loop, or   *)
(* the alternative) began and the mark there; the alternative tried; how   *)
(* many iterations succeeded.                                              *)
Frame(r, before, after) ==
  [rule |-> r, start |-> position, mark |-> Checkpoint(before), item |-> 1,
   at |-> position, here |-> Checkpoint(after), alternative |-> 1, taken |-> 0]

Top       == stack[Len(stack)]
Items(f)  == Rules[f.rule].items
Current   == Items(Top)[Top.item]
Peek      == IF position < Len(tokens) THEN tokens[position + 1] ELSE "none"
Working   == verdict = "none" /\ stack # <<>> /\ returned = "none"
Doing(ops) == Top.item <= Len(Items(Top)) /\ Current.op \in ops

(* The innermost call goes on with f; the position and the events are now  *)
(* p and s.                                                                *)
GoOn(f, p, s) ==
  /\ stack' = [stack EXCEPT ![Len(stack)] =
                 [f EXCEPT !.at = p, !.here = Checkpoint(s)]]
  /\ position' = p /\ sink' = s
  /\ returned' = "none"
  /\ UNCHANGED <<tokens, memo, verdict>>

NextItem(p, s) == GoOn([Top EXCEPT !.item = @ + 1, !.alternative = 1, !.taken = 0], p, s)

(* A function returns to its caller.                                       *)
Return(answer) ==
  /\ stack' = SubSeq(stack, 1, Len(stack) - 1)
  /\ returned' = answer
  /\ UNCHANGED <<tokens, verdict>>

(* It fails: position and events go back to where they were, and the memo  *)
(* spares the next attempt.                                                *)
\* variant with a fault: the failure is remembered where it was noticed
GiveUpHere ==
  /\ Return("failed")
  /\ position' = Top.start
  /\ sink' = Restore(sink, Top.mark)
  /\ memo' = memo \cup {<<Top.rule, position>>}

GiveUp ==
  /\ Return("failed")
  /\ position' = Top.start
  /\ sink' = Restore(sink, Top.mark)
  /\ memo' = memo \cup {<<Top.rule, Top.start>>}

Succeed ==
  /\ Working /\ Top.item > Len(Items(Top))
  /\ Return("ok")
  /\ sink' = End(sink, Top.rule)
  /\ UNCHANGED <<position, memo>>

(* The first thing a function does is to ask the memo.                     *)
Enter(r) ==
  IF <<r, position>> \in memo
  THEN returned' = "failed" /\ UNCHANGED <<tokens, position, stack, sink, memo, verdict>>
  ELSE /\ sink' = Start(sink, r)
       /\ stack' = Append(stack, Frame(r, sink, sink'))
       /\ UNCHANGED <<tokens, position, returned, memo, verdict>>
-----------------------------------------------------------------------------
(* maiaCC_parse: allocates the memo, a byte per rule and position          *)
Allocate ==
  /\ verdict = "none" /\ stack = <<>> /\ returned = "none"
  /\ RuleCount <= MemoMax \div (Len(tokens) + 1)
  /\ Enter("Input")

MemoRefused(status) ==
  /\ verdict = "none" /\ stack = <<>> /\ returned = "none"
  /\ verdict' = status
  /\ UNCHANGED <<tokens, position, stack, returned, sink, memo>>

MemoTooLarge == RuleCount > MemoMax \div (Len(tokens) + 1) /\ MemoRefused("LIMIT")

MemoNoMem ==
  /\ RuleCount <= MemoMax \div (Len(tokens) + 1) /\ MemoryMayFail
  /\ MemoRefused("NOMEM")

TakeToken ==
  /\ Working /\ Doing({"take"})
  /\ IF Peek \in Current.tokens
     THEN NextItem(position + 1, Terminal(sink, position))
     ELSE GiveUp

TakeTokens ==
  /\ Working /\ Doing({"takeAll"})
  /\ IF Peek \in Current.tokens
     THEN GoOn(Top, position + 1, Terminal(sink, position))
     ELSE NextItem(position, sink)

CallRule ==
  /\ Working /\ Doing({"call", "optional", "star", "plus", "choice"})
  /\ Enter(Current.rules[Top.alternative])

(* The call succeeded.  A loop ends when its body consumed nothing.        *)
Accept ==
  /\ verdict = "none" /\ stack # <<>> /\ returned = "ok"
  /\ IF Doing({"star", "plus"}) /\ position # Top.at
     THEN GoOn([Top EXCEPT !.taken = 1], position, sink)
     ELSE IF Doing({"plus"}) /\ Top.taken = 0 THEN GiveUp
     ELSE NextItem(position, sink)

\* variant with a fault: the item is tried again
RejectRetrying ==
  /\ verdict = "none" /\ stack # <<>> /\ returned = "failed"
  /\ GoOn(Top, Top.at, Restore(sink, Top.here))

(* The call failed: back to where the item began, then on, or fail too.    *)
Reject ==
  /\ verdict = "none" /\ stack # <<>> /\ returned = "failed"
  /\ LET back == Restore(sink, Top.here)
     IN CASE Doing({"call"}) \/ (Doing({"plus"}) /\ Top.taken = 0) -> GiveUp
          [] Doing({"choice"}) ->
               IF Top.alternative < Len(Current.rules)
               THEN GoOn([Top EXCEPT !.alternative = @ + 1], Top.at, back)
               ELSE GiveUp
          [] OTHER -> NextItem(Top.at, back)

\* variant with a fault: a sink too deep is not noticed
AnswerShallow ==
  /\ verdict = "none" /\ stack = <<>> /\ returned # "none"
  /\ verdict' = IF returned = "failed" \/ position # Len(tokens) THEN "BADPAT"
                ELSE IF sink.overflow THEN "LIMIT" ELSE "OK"
  /\ UNCHANGED <<tokens, position, stack, returned, sink, memo>>

(* What maia_bre_compile_utf8 makes of the outcome                         *)
Answer ==
  /\ verdict = "none" /\ stack = <<>> /\ returned # "none"
  /\ verdict' =
       IF sink.overflow \/ sink.deep THEN "LIMIT"
       ELSE IF \/ returned = "failed" \/ position # Len(tokens)
               \/ sink.active # None \/ sink.nodes = <<>> THEN "BADPAT"
       ELSE "OK"
  /\ UNCHANGED <<tokens, position, stack, returned, sink, memo>>

Next ==
  \/ Allocate \/ MemoTooLarge \/ MemoNoMem
  \/ TakeToken \/ TakeTokens \/ CallRule \/ Accept \/ Reject \/ Succeed
  \/ Answer

Spec == Init /\ [][Next]_vars

(* The parser is one thread that nothing blocks.                           *)
FairSpec == Spec /\ WF_vars(Next)
-----------------------------------------------------------------------------
IsMark(m)  == m \div MarkShift \in 0 .. NodeLimit /\ m % MarkShift <= m \div MarkShift
IsFrame(f) ==
  /\ f.rule \in RuleNames
  /\ f.start \in 0 .. Len(tokens) /\ f.at \in f.start .. Len(tokens)
  /\ IsMark(f.mark) /\ IsMark(f.here)
  /\ f.item \in 1 .. Len(Items(f)) + 1
  /\ f.alternative \in 1 .. 7 /\ f.taken \in {0, 1}

(* The variables have their types; a node that is active exists.           *)
TypeOK ==
  /\ tokens \in Seq(TokenTypes) /\ position \in 0 .. Len(tokens)
  /\ \A k \in DOMAIN stack : IsFrame(stack[k])
  /\ returned \in {"none", "ok", "failed"}
  /\ Len(sink.nodes) <= NodeLimit
  /\ sink.active \in {None} \cup 0 .. Len(sink.nodes) - 1
  /\ \A k \in DOMAIN sink.nodes :
       /\ sink.nodes[k].parent \in {None} \cup 0 .. k - 2
       /\ sink.nodes[k].end \in k .. NodeLimit
  /\ memo \subseteq RuleNames \X (0 .. Len(tokens))
  /\ verdict \in {"none", "OK", "BADPAT", "LIMIT", "NOMEM"}

(* The terminals among the first n nodes are the tokens before p, each     *)
(* once and in order.                                                      *)
Covers(nodes, n, p) ==
  LET terminals == {i \in 1 .. n : nodes[i].kind = "terminal"}
  IN /\ \A i \in terminals : nodes[i].token \in 0 .. p - 1
     /\ \A i, j \in terminals : i < j => nodes[i].token < nodes[j].token
     /\ \A q \in 0 .. p - 1 : \E i \in terminals : nodes[i].token = q

(* Whatever the parser tried and abandoned, the events in the sink account *)
(* for exactly the tokens before its position: a restore takes back the    *)
(* same attempt from both (bre_restore beside position = __ruleStart).     *)
EventsCoverTokens == ~sink.overflow => Covers(sink.nodes, Len(sink.nodes), position)

(* The number of the node that a call appended, and of the caller's        *)
NodeOf(k) == IF k = 0 THEN None ELSE stack[k].mark \div MarkShift

(* The chain of parents from the active node is the chain of calls: an end *)
(* always closes the node of the rule that ends, never one of an attempt   *)
(* that was taken back.                                                    *)
OpenNodesAreCalls ==
  ~sink.overflow =>
    /\ sink.active = NodeOf(Len(stack))
    /\ \A k \in DOMAIN stack :
         /\ NodeOf(k) < Len(sink.nodes)
         /\ sink.nodes[NodeOf(k) + 1].name = stack[k].rule
         /\ sink.nodes[NodeOf(k) + 1].parent = NodeOf(k - 1)

(* A pattern of 1024 bytes needs fewer than 8192 nodes: four a token, and  *)
(* one for each call in progress.                                          *)
NodesFit == Len(sink.nodes) <= 4 * position + Len(stack) + 4

(* The finite productions bound the C stack: two calls, four for each      *)
(* of the nine groups, and six in the innermost class.                     *)
StackFits == Len(stack) <= 44

(* So the node array, and the stack of a thread, have room for every       *)
(* pattern that maia_bre_compile_utf8 lets through: with 8192 nodes,       *)
(* overflow is never set.                                                  *)
LimitsSuffice == NodesFit /\ StackFits

(* The parser gives an answer for every pattern.                           *)
Answers == <>(verdict # "none")
=============================================================================
