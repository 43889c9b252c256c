--------------------------- MODULE BreParserProofs ---------------------------
(***************************************************************************)
(* Whatever is tried and abandoned, the events and the position agree      *)
(* (EventsCoverTokens), and the open nodes are the calls in progress       *)
(* (OpenNodesAreCalls): for every sequence of tokens, every grammar that   *)
(* BreGrammar could hold and every size of the node array.                 *)
(*                                                                         *)
(* The invariant says of every mark that a call holds what the two         *)
(* properties say of the sink: a restore then gives back what it needs.    *)
(*                                                                         *)
(* The node array and the C stack are large enough for every sequence of   *)
(* tokens (LimitsHold, NeverOverflows). That is a fact of this grammar:    *)
(* every rule has a level, above that of the rules that call it, and every *)
(* item an allowance of nodes; the invariant says that each call on the    *)
(* stack is no deeper than its level and within its allowance.             *)
(*                                                                         *)
(* What the parser answers is what the grammar, read as ordered choice,    *)
(* gives the tokens (ParsesByTheGrammar, MemoFailsByTheGrammar): of every  *)
(* call in progress, the trees it has read are those of a part of its rule *)
(* in BreDerivations, and the alternatives it has passed fail there.       *)
(***************************************************************************)
EXTENDS BreParser, BreDerivations, TLAPS

Count(m)  == m \div MarkShift
Active(m) == (m % MarkShift) - 1

IsSequence(s) == \E S : s \in Seq(S)

IsNode(n) ==
  /\ n = [kind |-> n.kind, name |-> n.name, token |-> n.token, parent |-> n.parent,
          end |-> n.end]
  /\ n.parent \in Int

IsCall(f) ==
  /\ f = [rule |-> f.rule, start |-> f.start, mark |-> f.mark, item |-> f.item,
          at |-> f.at, here |-> f.here, alternative |-> f.alternative, taken |-> f.taken]
  /\ f.start \in Nat /\ f.at \in Nat

Mark(m, n) == m \in Nat /\ Count(m) <= n /\ Active(m) < Count(m)

IsSink(s) ==
  /\ s = [nodes |-> s.nodes, active |-> s.active, overflow |-> s.overflow, deep |-> s.deep]
  /\ IsSequence(s.nodes) /\ Len(s.nodes) <= NodeLimit
  /\ s.active \in Int /\ None <= s.active /\ s.active < Len(s.nodes)
  /\ s.overflow \in BOOLEAN
  /\ \A i \in 1 .. Len(s.nodes) :
       /\ IsNode(s.nodes[i])
       /\ None <= s.nodes[i].parent /\ s.nodes[i].parent < i - 1

(* What is so of call k: the marks lie on the way to the present sink...   *)
CallShape(k) ==
  /\ IsCall(stack[k])
  /\ Mark(stack[k].mark, Len(sink.nodes)) /\ Mark(stack[k].here, Len(sink.nodes))
  /\ Count(stack[k].mark) <= Count(stack[k].here)

(* ... the events up to each account for the tokens up to its position ... *)
CallCovered(k) ==
  /\ Covers(sink.nodes, Count(stack[k].mark), stack[k].start)
  /\ Covers(sink.nodes, Count(stack[k].here), stack[k].at)

(* ... and the call's own node is there, and is active at `here`.          *)
CallOpened(k) ==
  /\ Active(stack[k].mark) = NodeOf(k - 1) /\ Active(stack[k].here) = NodeOf(k)
  /\ Count(stack[k].mark) < Count(stack[k].here)
  /\ sink.nodes[Count(stack[k].mark) + 1].name = stack[k].rule
  /\ sink.nodes[Count(stack[k].mark) + 1].parent = NodeOf(k - 1)

Shape ==
  /\ position \in Nat /\ IsSink(sink) /\ IsSequence(stack)
  /\ \A k \in 1 .. Len(stack) : CallShape(k)
  /\ \A j, k \in 1 .. Len(stack) : j < k => Count(stack[j].here) <= Count(stack[k].mark)

Faithful ==
  /\ Covers(sink.nodes, Len(sink.nodes), position)
  /\ sink.active = NodeOf(Len(stack))
  /\ \A k \in 1 .. Len(stack) : CallCovered(k) /\ CallOpened(k)

IInv == Shape /\ (~sink.overflow => Faithful)
-----------------------------------------------------------------------------
(* Sequences of anything: what the three updates of one do                 *)
LEMMA Appended ==
  ASSUME NEW s, NEW e, IsSequence(s)
  PROVE  /\ IsSequence(Append(s, e)) /\ Len(Append(s, e)) = Len(s) + 1 /\ Len(s) \in Nat
         /\ \A i \in 1 .. Len(s) : Append(s, e)[i] = s[i]
         /\ Append(s, e)[Len(s) + 1] = e
<1>1. PICK S : s \in Seq(S) BY DEF IsSequence
<1>2. s \in Seq(S \cup {e}) BY <1>1
<1>3. Append(s, e) \in Seq(S \cup {e}) BY <1>2
<1>4. IsSequence(Append(s, e)) BY <1>3 DEF IsSequence
<1> QED BY <1>2, <1>3, <1>4

(* The part up to n                                                        *)
LEMMA Cut ==
  ASSUME NEW s, IsSequence(s), NEW n \in 0 .. Len(s)
  PROVE  /\ IsSequence(SubSeq(s, 1, n)) /\ Len(SubSeq(s, 1, n)) = n
         /\ \A i \in 1 .. n : SubSeq(s, 1, n)[i] = s[i]
<1>1. PICK S : s \in Seq(S) BY DEF IsSequence
<1>2. SubSeq(s, 1, n) \in Seq(S) BY <1>1
<1>3. IsSequence(SubSeq(s, 1, n)) BY <1>2 DEF IsSequence
<1> QED BY <1>1, <1>2, <1>3

(* One place replaced                                                      *)
LEMMA Updated ==
  ASSUME NEW s, IsSequence(s), NEW n \in 1 .. Len(s), NEW e
  PROVE  LET t == [s EXCEPT ![n] = e]
         IN /\ IsSequence(t) /\ Len(t) = Len(s)
            /\ t[n] = e
            /\ \A i \in 1 .. Len(s) : i # n => t[i] = s[i]
<1> DEFINE t == [s EXCEPT ![n] = e]
<1>1. PICK S : s \in Seq(S) BY DEF IsSequence
<1>2. s \in Seq(S \cup {e}) BY <1>1
<1>3. t \in Seq(S \cup {e}) /\ Len(t) = Len(s) BY <1>2
<1>4. IsSequence(t) BY <1>3 DEF IsSequence
<1> QED BY <1>2, <1>3, <1>4

(* A length is a number.                                                   *)
LEMMA Lengths == ASSUME NEW s, IsSequence(s) PROVE Len(s) \in Nat
BY DEF IsSequence

(* A mark gives back the count and the active node it was made of.         *)
LEMMA Packed ==
  ASSUME NEW count \in Nat, NEW low \in Nat, low < 65536
  PROVE  (65536 * count + low) \div 65536 = count /\ (65536 * count + low) % 65536 = low
<1>1. (65536 * count + low) \div 65536 = count BY SMT
<1>2. (65536 * count + low) % 65536 = low BY SMT
<1> QED BY <1>1, <1>2

(* bre_checkpoint: the mark of a sink is its own count and active node.    *)
LEMMA MarkOf ==
  ASSUME NEW s, IsSink(s)
  PROVE  /\ Mark(Checkpoint(s), Len(s.nodes))
         /\ Count(Checkpoint(s)) = Len(s.nodes) /\ Active(Checkpoint(s)) = s.active
<1>1. Len(s.nodes) \in Nat BY Lengths DEF IsSink
<1>3. /\ s.active \in Int /\ -1 <= s.active /\ s.active < Len(s.nodes)
      /\ Len(s.nodes) <= NodeLimit
  BY DEF IsSink, None
<1>2. s.active + 1 \in Nat /\ s.active + 1 < 65536
  <2>1. NodeLimit \in Nat /\ NodeLimit < 65535 BY NodeAssumption DEF MarkShift
  <2> QED BY <1>1, <1>3, <2>1
<1>4. Checkpoint(s) = 65536 * Len(s.nodes) + (s.active + 1)
  BY <1>1, <1>3 DEF Checkpoint, MarkShift
<1>5. Checkpoint(s) \div 65536 = Len(s.nodes) /\ Checkpoint(s) % 65536 = s.active + 1
  BY <1>1, <1>2, <1>4, Packed, SMTT(30)
<1>6. Count(Checkpoint(s)) = Len(s.nodes) /\ Active(Checkpoint(s)) = s.active
  BY <1>3, <1>5 DEF Count, Active, MarkShift
<1>7. Checkpoint(s) \in Nat
  <2>1. 65536 * Len(s.nodes) \in Nat BY <1>1
  <2> QED BY <1>2, <1>4, <2>1
<1> QED BY <1>1, <1>6, <1>7 DEF Mark, IsSink

(* Counts are numbers.                                                     *)
LEMMA MarkFields ==
  ASSUME NEW m, NEW n \in Nat, Mark(m, n)
  PROVE  Count(m) \in 0 .. n /\ Active(m) \in None .. Count(m) - 1
<1>1. m \div 65536 \in Nat /\ m % 65536 \in Nat BY SMT DEF Mark
<1> QED BY <1>1 DEF Mark, Count, Active, MarkShift, None
-----------------------------------------------------------------------------
(* What a restore and the three events do to a sink                        *)
Same(t, s, n) ==
  \A i \in 1 .. n : t[i].kind = s[i].kind /\ t[i].name = s[i].name
                    /\ t[i].token = s[i].token /\ t[i].parent = s[i].parent

(* bre_restore: the nodes up to the mark stay, the active one is the mark's. *)
LEMMA Restored ==
  ASSUME NEW s, IsSink(s), NEW m, Mark(m, Len(s.nodes))
  PROVE  LET t == Restore(s, m)
         IN /\ IsSink(t) /\ t.overflow = s.overflow
            /\ Len(t.nodes) = Count(m) /\ t.active = Active(m)
            /\ Same(t.nodes, s.nodes, Count(m))
<1> DEFINE t == Restore(s, m)
<1>1. Len(s.nodes) \in Nat BY Lengths DEF IsSink
<1>2. Count(m) \in 0 .. Len(s.nodes) /\ Active(m) \in None .. Count(m) - 1
  BY <1>1, MarkFields
<1>3. t = [nodes |-> SubSeq(s.nodes, 1, Count(m)), active |-> Active(m),
           overflow |-> s.overflow, deep |-> s.deep]
  <2>1. s = [nodes |-> s.nodes, active |-> s.active, overflow |-> s.overflow, deep |-> s.deep]
    BY DEF IsSink
  <2>2. t = [s EXCEPT !.nodes = SubSeq(s.nodes, 1, Count(m)), !.active = Active(m)]
    BY DEF Restore, Count, Active
  <2> QED BY <2>1, <2>2
<1>4. /\ IsSequence(t.nodes) /\ Len(t.nodes) = Count(m)
      /\ \A i \in 1 .. Count(m) : t.nodes[i] = s.nodes[i]
  BY <1>2, <1>3, Cut DEF IsSink
<1>5. IsSink(t) BY <1>1, <1>2, <1>3, <1>4, NodeAssumption DEF IsSink, None
<1>6. Same(t.nodes, s.nodes, Count(m)) BY <1>4 DEF Same
<1>7. t.overflow = s.overflow /\ t.active = Active(m) BY <1>3
<1> HIDE DEF t
<1> QED BY <1>4, <1>5, <1>6, <1>7 DEF t

(* A node more, if there is room                                           *)
LEMMA Grown ==
  ASSUME NEW s, IsSink(s), ~Full(s), NEW node, IsNode(node), node.parent = s.active,
         NEW t, t = [s EXCEPT !.nodes = Append(@, node)]
  PROVE  /\ IsSink(t) /\ t.overflow = s.overflow /\ t.active = s.active
         /\ Len(t.nodes) = Len(s.nodes) + 1 /\ Same(t.nodes, s.nodes, Len(s.nodes))
         /\ t.nodes[Len(s.nodes) + 1] = node
<1>1. Len(s.nodes) \in Nat /\ IsSequence(s.nodes) BY Lengths DEF IsSink
<1>2. t = [nodes |-> Append(s.nodes, node), active |-> s.active,
           overflow |-> s.overflow, deep |-> s.deep]
  BY DEF IsSink
<1>3. /\ IsSequence(t.nodes) /\ Len(t.nodes) = Len(s.nodes) + 1
      /\ \A i \in 1 .. Len(s.nodes) : t.nodes[i] = s.nodes[i]
      /\ t.nodes[Len(s.nodes) + 1] = node
  BY <1>1, <1>2, Appended
<1>5. Len(t.nodes) <= NodeLimit BY <1>1, <1>3, NodeAssumption DEF Full, IsSink
<1>6. ASSUME NEW i \in 1 .. Len(t.nodes)
      PROVE  IsNode(t.nodes[i]) /\ None <= t.nodes[i].parent /\ t.nodes[i].parent < i - 1
  <2>1. CASE i = Len(s.nodes) + 1 BY <1>1, <1>3, <2>1 DEF IsSink
  <2>2. CASE i \in 1 .. Len(s.nodes) BY <1>3, <2>2 DEF IsSink
  <2> QED BY <1>1, <1>3, <2>1, <2>2
<1>7. s.active < Len(t.nodes) BY <1>1, <1>3 DEF IsSink
<1>8. IsSink(t) BY <1>2, <1>3, <1>5, <1>6, <1>7 DEF IsSink
<1> QED BY <1>2, <1>3, <1>8 DEF Same

(* bre_append makes a node below the active one.                           *)
LEMMA NewNode ==
  ASSUME NEW s, IsSink(s), NEW kind, NEW name, NEW token
  PROVE  LET node == Node(kind, name, token, s)
         IN IsNode(node) /\ node.parent = s.active
BY DEF IsNode, Node, IsSink

(* bre_start: a node more, which is active, or an overflow.                *)
LEMMA Started ==
  ASSUME NEW s, IsSink(s), NEW r
  PROVE  LET t == Start(s, r)
         IN /\ IsSink(t) /\ Len(s.nodes) <= Len(t.nodes)
            /\ Same(t.nodes, s.nodes, Len(s.nodes))
            /\ ~t.overflow =>
                 /\ ~s.overflow /\ Len(t.nodes) = Len(s.nodes) + 1
                 /\ t.active = Len(s.nodes)
                 /\ t.nodes[Len(s.nodes) + 1] = Node("rule", r, 0, s)
<1> DEFINE t == Start(s, r)
           node == Node("rule", r, 0, s)
           u == [s EXCEPT !.nodes = Append(@, node)]
<1>1. Len(s.nodes) \in Nat BY Lengths DEF IsSink
<1>2. CASE Full(s)
  <2>1. t = [s EXCEPT !.overflow = TRUE] BY <1>2 DEF Start
  <2>2. IsSink(t) /\ t.nodes = s.nodes /\ t.overflow BY <2>1 DEF IsSink
  <2> QED BY <1>1, <2>2 DEF Same
<1>3. CASE ~Full(s)
  <2>1. /\ IsSink(u) /\ u.overflow = s.overflow /\ u.active = s.active
        /\ Len(u.nodes) = Len(s.nodes) + 1 /\ Same(u.nodes, s.nodes, Len(s.nodes))
        /\ u.nodes[Len(s.nodes) + 1] = node
    <3>1. IsNode(node) /\ node.parent = s.active BY NewNode
    <3> HIDE DEF node
    <3> QED BY <1>3, <3>1, Grown
  <2>2. t = [u EXCEPT !.active = Len(s.nodes)] BY <1>3 DEF Start, IsSink
  <2>3. u = [nodes |-> u.nodes, active |-> u.active, overflow |-> u.overflow, deep |-> u.deep]
    BY <2>1 DEF IsSink
  <2> HIDE DEF u
  <2>4. t = [nodes |-> u.nodes, active |-> Len(s.nodes), overflow |-> u.overflow,
             deep |-> u.deep]
    BY <2>2, <2>3
  <2>5. IsSink(t) BY <1>1, <2>1, <2>4 DEF IsSink, None
  <2>6. t.nodes = u.nodes /\ t.overflow = s.overflow /\ t.active = Len(s.nodes)
    BY <2>1, <2>4
  <2> HIDE DEF t
  <2> QED BY <1>1, <2>1, <2>5, <2>6 DEF t
<1> QED BY <1>2, <1>3

(* bre_terminal: a node more, or an overflow.                              *)
LEMMA Taken ==
  ASSUME NEW s, IsSink(s), NEW p
  PROVE  LET t == Terminal(s, p)
         IN /\ IsSink(t) /\ Len(s.nodes) <= Len(t.nodes)
            /\ Same(t.nodes, s.nodes, Len(s.nodes))
            /\ ~t.overflow =>
                 /\ ~s.overflow /\ Len(t.nodes) = Len(s.nodes) + 1
                 /\ t.active = s.active
                 /\ t.nodes[Len(s.nodes) + 1] = Node("terminal", "none", p, s)
<1> DEFINE t == Terminal(s, p)
           node == Node("terminal", "none", p, s)
<1>1. Len(s.nodes) \in Nat BY Lengths DEF IsSink
<1>2. CASE Full(s)
  <2>1. t = [s EXCEPT !.overflow = TRUE] BY <1>2 DEF Terminal
  <2>2. IsSink(t) /\ t.nodes = s.nodes /\ t.overflow BY <2>1 DEF IsSink
  <2> QED BY <1>1, <2>2 DEF Same
<1>3. CASE ~Full(s)
  <2>1. t = [s EXCEPT !.nodes = Append(@, node)]
    BY <1>3 DEF Terminal
  <2> HIDE DEF t
  <2>2. /\ IsSink(t) /\ t.overflow = s.overflow /\ t.active = s.active
        /\ Len(t.nodes) = Len(s.nodes) + 1 /\ Same(t.nodes, s.nodes, Len(s.nodes))
        /\ t.nodes[Len(s.nodes) + 1] = node
    <3>1. IsNode(node) /\ node.parent = s.active BY NewNode
    <3> DEFINE u == [s EXCEPT !.nodes = Append(@, node)]
    <3> HIDE DEF node
    <3>2. /\ IsSink(u) /\ u.overflow = s.overflow /\ u.active = s.active
          /\ Len(u.nodes) = Len(s.nodes) + 1 /\ Same(u.nodes, s.nodes, Len(s.nodes))
          /\ u.nodes[Len(s.nodes) + 1] = node
      BY <1>3, <3>1, Grown
    <3>3. t = u BY <2>1
    <3> QED BY <3>2, <3>3
  <2> QED BY <1>1, <2>2 DEF t
<1> QED BY <1>2, <1>3

(* bre_end: the active node gets its end, and its parent is active.        *)
LEMMA Ended ==
  ASSUME NEW s, IsSink(s), NEW r
  PROVE  LET t == End(s, r)
         IN /\ IsSink(t) /\ Len(t.nodes) = Len(s.nodes)
            /\ Same(t.nodes, s.nodes, Len(s.nodes))
            /\ ~t.overflow => /\ ~s.overflow /\ s.active # None
                              /\ t.active = s.nodes[s.active + 1].parent
<1> DEFINE t == End(s, r)
           i == s.active + 1
           e == [s.nodes[i] EXCEPT !.end = Len(s.nodes)]
<1>1. Len(s.nodes) \in Nat /\ IsSequence(s.nodes) BY Lengths DEF IsSink
<1>2. CASE s.active = None
  <2>1. t = [s EXCEPT !.overflow = TRUE] BY <1>2 DEF End
  <2>2. IsSink(t) /\ t.nodes = s.nodes /\ t.overflow BY <2>1 DEF IsSink
  <2> QED BY <2>2 DEF Same
<1>3. CASE s.active # None
  <2>1. i \in 1 .. Len(s.nodes) BY <1>1, <1>3 DEF IsSink, None
  <2>2. /\ s.nodes[i] = [kind |-> s.nodes[i].kind, name |-> s.nodes[i].name,
                          token |-> s.nodes[i].token, parent |-> s.nodes[i].parent,
                          end |-> s.nodes[i].end]
        /\ s.nodes[i].parent \in Int
        /\ None <= s.nodes[i].parent /\ s.nodes[i].parent < i - 1
    BY <2>1 DEF IsSink, IsNode
  <2>3. /\ e.kind = s.nodes[i].kind /\ e.name = s.nodes[i].name
        /\ e.token = s.nodes[i].token /\ e.parent = s.nodes[i].parent /\ IsNode(e)
    BY <2>2 DEF IsNode
  <2>4. t = [nodes |-> [s.nodes EXCEPT ![i] = e], active |-> s.nodes[i].parent,
             overflow |-> s.overflow, deep |-> s.deep \/ r = "DepthOverflow"]
    <3>1. s = [nodes |-> s.nodes, active |-> s.active, overflow |-> s.overflow,
               deep |-> s.deep]
      BY DEF IsSink
    <3>2. t = [s EXCEPT !.nodes = [s.nodes EXCEPT ![i] = e], !.active = s.nodes[i].parent,
                        !.deep = s.deep \/ r = "DepthOverflow"]
      BY <1>3, <3>1 DEF End
    <3> HIDE DEF t, e, i
    <3> QED BY <3>1, <3>2
  <2> HIDE DEF e, i
  <2>5. /\ IsSequence(t.nodes) /\ Len(t.nodes) = Len(s.nodes) /\ t.nodes[i] = e
        /\ \A j \in 1 .. Len(s.nodes) : j # i => t.nodes[j] = s.nodes[j]
    BY <1>1, <2>1, <2>4, Updated
  <2>6. Same(t.nodes, s.nodes, Len(s.nodes)) BY <2>3, <2>5 DEF Same
  <2>7. t.active = s.nodes[i].parent /\ t.overflow = s.overflow BY <2>4
  <2>8. ASSUME NEW j \in 1 .. Len(t.nodes)
        PROVE  IsNode(t.nodes[j]) /\ None <= t.nodes[j].parent /\ t.nodes[j].parent < j - 1
    <3>1. CASE j = i BY <2>2, <2>3, <2>5, <3>1
    <3>2. CASE j # i BY <2>5, <3>2 DEF IsSink
    <3> QED BY <3>1, <3>2
  <2>9. t.active < Len(t.nodes) BY <1>1, <2>1, <2>2, <2>5, <2>7
  <2> QED BY <1>3, <2>2, <2>4, <2>5, <2>6, <2>7, <2>8, <2>9 DEF IsSink, i
<1> QED BY <1>2, <1>3
-----------------------------------------------------------------------------
(* What the terminals cover depends on the nodes' kinds and tokens only,   *)
(* and a node more covers a token more when it is a terminal.              *)
LEMMA CoversSame ==
  ASSUME NEW s, NEW t, NEW n \in Nat, NEW m \in 0 .. n, NEW p, Same(t, s, n), Covers(s, m, p)
  PROVE  Covers(t, m, p)
<1>1. {i \in 1 .. m : t[i].kind = "terminal"} = {i \in 1 .. m : s[i].kind = "terminal"}
  BY DEF Same
<1>2. \A i \in 1 .. m : t[i].token = s[i].token BY DEF Same
<1> QED BY <1>1, <1>2 DEF Covers

(* A rule's node covers no token,                                          *)
LEMMA CoversRule ==
  ASSUME NEW s, NEW t, NEW n \in Nat, NEW p, Same(t, s, n), Covers(s, n, p),
         t[n + 1].kind # "terminal"
  PROVE  Covers(t, n + 1, p)
<1>1. Covers(t, n, p) BY CoversSame
<1>2. {i \in 1 .. n + 1 : t[i].kind = "terminal"} = {i \in 1 .. n : t[i].kind = "terminal"}
  OBVIOUS
<1> QED BY <1>1, <1>2 DEF Covers

(* and a terminal covers the token at the position.                        *)
LEMMA CoversToken ==
  ASSUME NEW s, NEW t, NEW n \in Nat, NEW p \in Nat, Same(t, s, n), Covers(s, n, p),
         t[n + 1].kind = "terminal", t[n + 1].token = p
  PROVE  Covers(t, n + 1, p + 1)
<1> DEFINE T == {i \in 1 .. n : t[i].kind = "terminal"}
           U == {i \in 1 .. n + 1 : t[i].kind = "terminal"}
<1>1. Covers(t, n, p) BY CoversSame
<1>2. U = T \cup {n + 1} OBVIOUS
<1>3. /\ \A i \in T : t[i].token \in 0 .. p - 1
      /\ \A i, j \in T : i < j => t[i].token < t[j].token
      /\ \A q \in 0 .. p - 1 : \E i \in T : t[i].token = q
  BY <1>1 DEF Covers
<1>4. T \subseteq 1 .. n OBVIOUS
<1> HIDE DEF T, U
<1>5. \A i \in U : t[i].token \in 0 .. (p + 1) - 1 BY <1>2, <1>3
<1>6. \A i, j \in U : i < j => t[i].token < t[j].token BY <1>2, <1>3, <1>4
<1>7. \A q \in 0 .. (p + 1) - 1 : \E i \in U : t[i].token = q BY <1>2, <1>3
<1> QED BY <1>5, <1>6, <1>7 DEF Covers, U
-----------------------------------------------------------------------------
(* A call that stays as it is keeps what is so of it, as long as the nodes *)
(* up to its marks do.                                                     *)
LEMMA Kept ==
  ASSUME IInv, IsSink(sink)', NEW k \in 1 .. Len(stack), NEW c \in Nat,
         \A j \in 1 .. k : stack'[j] = stack[j],
         Count(stack[k].here) <= c, c <= Len(sink'.nodes),
         Same(sink'.nodes, sink.nodes, c), ~sink'.overflow => ~sink.overflow
  PROVE  CallShape(k)' /\ (~sink'.overflow => CallCovered(k)' /\ CallOpened(k)')
<1>1. Len(sink.nodes) \in Nat /\ Len(sink'.nodes) \in Nat BY Lengths DEF IInv, Shape, IsSink
<1>2. CallShape(k) /\ stack'[k] = stack[k] BY DEF IInv, Shape
<1>3. /\ Count(stack[k].mark) \in Nat /\ Count(stack[k].here) \in Nat
      /\ Count(stack[k].mark) <= Count(stack[k].here)
  BY <1>1, <1>2, MarkFields DEF CallShape
<1>4. CallShape(k)' BY <1>1, <1>2, <1>3 DEF CallShape, Mark
<1>5. ASSUME ~sink'.overflow PROVE CallCovered(k)'
  <2>1. CallCovered(k) BY <1>5 DEF IInv, Faithful
  <2>2. Covers(sink'.nodes, Count(stack[k].mark), stack[k].start)
    BY <1>3, <2>1, CoversSame DEF CallCovered
  <2>3. Covers(sink'.nodes, Count(stack[k].here), stack[k].at)
    BY <1>3, <2>1, CoversSame DEF CallCovered
  <2> QED BY <1>2, <2>2, <2>3 DEF CallCovered
<1>6. ASSUME ~sink'.overflow PROVE CallOpened(k)'
  <2>1. CallOpened(k) BY <1>6 DEF IInv, Faithful
  <2>2. NodeOf(k)' = NodeOf(k) BY <1>2 DEF NodeOf
  <2>3. NodeOf(k - 1)' = NodeOf(k - 1) BY DEF NodeOf
  <2>4. Count(stack[k].mark) + 1 \in 1 .. c BY <1>3, <2>1 DEF CallOpened
  <2> QED BY <1>2, <2>1, <2>2, <2>3, <2>4 DEF CallOpened, Same
<1> QED BY <1>4, <1>5, <1>6

(* A call begins.                                                          *)
LEMMA Pushed ==
  ASSUME IInv, NEW r, sink' = Start(sink, r),
         stack' = Append(stack, Frame(r, sink, sink')), position' = position
  PROVE  IInv'
<1> DEFINE f == Frame(r, sink, sink')
<1>0. /\ Len(stack) \in Nat /\ Len(sink.nodes) \in Nat /\ IsSink(sink)
      /\ IsSequence(stack)
  BY Lengths DEF IInv, Shape, IsSink
<1>a. PICK n : n = Len(stack) OBVIOUS
<1>b. PICK c : c = Len(sink.nodes) OBVIOUS
<1>1. n \in Nat /\ c \in Nat /\ IsSink(sink) /\ IsSequence(stack) /\ n = Len(stack)
      /\ c = Len(sink.nodes)
  BY <1>0, <1>a, <1>b
<1>2. /\ IsSink(sink)' /\ c <= Len(sink'.nodes) /\ Same(sink'.nodes, sink.nodes, c)
      /\ ~sink'.overflow =>
           /\ ~sink.overflow /\ Len(sink'.nodes) = c + 1 /\ sink'.active = c
           /\ sink'.nodes[c + 1] = Node("rule", r, 0, sink)
  BY <1>1, Started
<1>3. /\ IsSequence(stack)' /\ Len(stack') = n + 1 /\ stack'[n + 1] = f
      /\ \A k \in 1 .. n : stack'[k] = stack[k]
  BY <1>1, Appended
<1>4. ASSUME NEW k \in 1 .. n PROVE Count(stack[k].mark) \in Nat /\ Count(stack[k].here) \in 0 .. c
  BY <1>1, MarkFields DEF IInv, Shape, CallShape
<1>5. /\ f.mark = Checkpoint(sink) /\ f.here = Checkpoint(sink')
      /\ f.start = position /\ f.at = position /\ f.rule = r /\ IsCall(f)
  BY DEF Frame, IsCall, IInv, Shape
<1>6. /\ Mark(f.mark, c) /\ Count(f.mark) = c /\ Active(f.mark) = sink.active
      /\ Mark(f.here, Len(sink'.nodes)) /\ Count(f.here) = Len(sink'.nodes)
      /\ Active(f.here) = sink'.active
  BY <1>1, <1>2, <1>5, MarkOf
<1>7. Len(sink'.nodes) \in Nat BY <1>2, Lengths DEF IsSink
<1>8. ASSUME NEW k \in 1 .. n
      PROVE  CallShape(k)' /\ (~sink'.overflow => CallCovered(k)' /\ CallOpened(k)')
  <2>1. k \in 1 .. Len(stack) /\ Count(stack[k].here) <= c BY <1>1, <1>4
  <2>2. \A j \in 1 .. k : stack'[j] = stack[j] BY <1>1, <1>3
  <2> QED BY <1>1, <1>2, <2>1, <2>2, Kept
<1>9. CallShape(n + 1)' BY <1>2, <1>3, <1>5, <1>6, <1>7, <1>1 DEF CallShape, Mark
<1>10. Shape'
  <2>1. \A j, k \in 1 .. n + 1 : j < k => Count(stack'[j].here) <= Count(stack'[k].mark)
    <3>1. ASSUME NEW j \in 1 .. n, NEW k \in 1 .. n, j < k
          PROVE  Count(stack'[j].here) <= Count(stack'[k].mark)
      BY <1>1, <1>3, <3>1 DEF IInv, Shape
    <3>2. ASSUME NEW j \in 1 .. n PROVE Count(stack'[j].here) <= Count(stack'[n + 1].mark)
      BY <1>1, <1>3, <1>4, <1>5, <1>6
    <3> QED BY <1>1, <3>1, <3>2
  <2> QED BY <1>1, <1>2, <1>3, <1>8, <1>9, <2>1 DEF Shape, IInv
<1>11. ASSUME ~sink'.overflow PROVE Faithful'
  <2>1. Covers(sink.nodes, c, position) /\ sink.active = NodeOf(n)
    BY <1>1, <1>2, <1>11 DEF IInv, Faithful
  <2>2. /\ sink'.nodes[c + 1].kind # "terminal" /\ sink'.nodes[c + 1].name = r
        /\ sink'.nodes[c + 1].parent = sink.active
    BY <1>2, <1>11 DEF Node
  <2>3. Covers(sink'.nodes, c + 1, position) /\ Covers(sink'.nodes, c, position)
    BY <1>1, <1>2, <2>1, <2>2, CoversRule, CoversSame
  <2>4. NodeOf(n + 1)' = c BY <1>1, <1>3, <1>6 DEF NodeOf, Count
  <2>5. NodeOf(n)' = NodeOf(n) BY <1>1, <1>3 DEF NodeOf
  <2>6. CallCovered(n + 1)' BY <1>2, <1>3, <1>5, <1>6, <1>11, <2>3 DEF CallCovered
  <2>7. CallOpened(n + 1)'
    BY <1>1, <1>2, <1>3, <1>5, <1>6, <1>11, <2>1, <2>2, <2>4, <2>5 DEF CallOpened
  <2> QED BY <1>1, <1>2, <1>3, <1>8, <1>11, <2>3, <2>4, <2>6, <2>7 DEF Faithful
<1> QED BY <1>10, <1>11 DEF IInv

(* The innermost call goes on, from a position and a sink that agree with  *)
(* what it has done so far.                                                *)
LEMMA Moved ==
  ASSUME IInv, stack # <<>>, NEW f, NEW p \in Nat, NEW s,
         f.rule = Top.rule, f.start = Top.start, f.mark = Top.mark,
         IsCall([f EXCEPT !.at = p, !.here = Checkpoint(s)]),
         DOMAIN f = DOMAIN Top,
         IsSink(s), Count(Top.here) <= Len(s.nodes),
         Same(s.nodes, sink.nodes, Count(Top.here)),
         ~s.overflow => /\ ~sink.overflow /\ Covers(s.nodes, Len(s.nodes), p)
                        /\ s.active = NodeOf(Len(stack)),
         GoOn(f, p, s)
  PROVE  IInv'
<1>0. Len(stack) \in Nat /\ IsSequence(stack) /\ stack # <<>> /\ Len(stack) # 0
  BY Lengths DEF IInv, Shape, IsSequence
<1>a. PICK n : n = Len(stack) OBVIOUS
<1>b. PICK top : top = Top OBVIOUS
<1> DEFINE g == [f EXCEPT !.at = p, !.here = Checkpoint(s)]
<1>1. n \in Nat /\ n >= 1 /\ n = Len(stack) /\ top = stack[n] /\ IsSequence(stack)
  BY <1>0, <1>a, <1>b DEF Top
<1>2. CallShape(n) BY <1>1 DEF IInv, Shape
<1>3. Len(sink.nodes) \in Nat /\ Len(s.nodes) \in Nat BY Lengths DEF IInv, Shape, IsSink
<1>4. /\ Count(top.mark) \in Nat /\ Count(top.here) \in Nat /\ Mark(top.mark, Len(sink.nodes))
      /\ Count(top.mark) <= Count(top.here)
  BY <1>1, <1>2, <1>3, MarkFields DEF CallShape
<1>5. /\ DOMAIN top = {"rule", "start", "mark", "item", "at", "here", "alternative", "taken"}
      /\ g.rule = top.rule /\ g.start = top.start /\ g.mark = top.mark
      /\ g.at = p /\ g.here = Checkpoint(s) /\ IsCall(g)
  <2>1. DOMAIN top = {"rule", "start", "mark", "item", "at", "here", "alternative", "taken"}
    BY <1>1, <1>2 DEF CallShape, IsCall
  <2>2. DOMAIN f = DOMAIN top BY <1>b
  <2> QED BY <1>b, <2>1, <2>2
<1> HIDE DEF g
<1>6. stack' = [stack EXCEPT ![n] = g] /\ position' = p /\ sink' = s
  BY <1>1 DEF GoOn, g
<1>7. /\ IsSequence(stack)' /\ Len(stack') = n /\ stack'[n] = g
      /\ \A k \in 1 .. n : k # n => stack'[k] = stack[k]
  <2>1. n \in 1 .. Len(stack) BY <1>1
  <2> DEFINE t == [stack EXCEPT ![n] = g]
  <2>2. /\ IsSequence(t) /\ Len(t) = Len(stack) /\ t[n] = g
        /\ \A k \in 1 .. Len(stack) : k # n => t[k] = stack[k]
    <3>1. IsSequence(stack) BY <1>1
    <3> HIDE DEF t
    <3> QED BY <2>1, <3>1, Updated DEF t
  <2> QED BY <1>1, <1>6, <2>2
<1>8. /\ Mark(g.here, Len(s.nodes)) /\ Count(g.here) = Len(s.nodes)
      /\ Active(g.here) = s.active
  BY <1>5, MarkOf
<1>9. ASSUME NEW k \in 1 .. n, k # n
      PROVE  /\ Count(stack[k].here) <= Count(top.mark)
             /\ CallShape(k)' /\ (~sink'.overflow => CallCovered(k)' /\ CallOpened(k)')
  <2>1. k \in 1 .. Len(stack) /\ k < n BY <1>1, <1>9
  <2>2. Count(stack[k].here) <= Count(top.mark) BY <1>1, <2>1 DEF IInv, Shape
  <2>3. \A j \in 1 .. k : stack'[j] = stack[j] BY <1>1, <1>7, <2>1
  <2>4. Same(sink'.nodes, sink.nodes, Count(top.mark)) /\ Count(top.mark) <= Len(sink'.nodes)
    BY <1>b, <1>3, <1>4, <1>6 DEF Same
  <2>5. IsSink(sink)' /\ (~sink'.overflow => ~sink.overflow) BY <1>6
  <2> QED BY <1>4, <2>1, <2>2, <2>3, <2>4, <2>5, Kept
<1>10. CallShape(n)'
  <2>1. Mark(top.mark, Len(s.nodes)) /\ Count(top.mark) <= Count(g.here)
    BY <1>b, <1>3, <1>4, <1>8 DEF Mark
  <2> QED BY <1>5, <1>6, <1>7, <1>8, <2>1 DEF CallShape
<1>11. Shape'
  <2>1. \A j, k \in 1 .. n : j < k => Count(stack'[j].here) <= Count(stack'[k].mark)
    <3>1. ASSUME NEW j \in 1 .. n, NEW k \in 1 .. n, j < k
          PROVE  Count(stack'[j].here) <= Count(stack'[k].mark)
      <4>1. j # n /\ stack'[j] = stack[j] /\ stack'[k].mark = stack[k].mark
        BY <1>1, <1>5, <1>7, <3>1
      <4> QED BY <1>1, <3>1, <4>1 DEF IInv, Shape
    <3> QED BY <3>1
  <2> QED BY <1>6, <1>7, <1>9, <1>10, <2>1 DEF Shape
<1>12. ASSUME ~sink'.overflow PROVE Faithful'
  <2>1. /\ ~sink.overflow /\ Covers(s.nodes, Len(s.nodes), p) /\ s.active = NodeOf(n)
        /\ CallCovered(n) /\ CallOpened(n)
    BY <1>1, <1>6, <1>12 DEF IInv, Faithful
  <2>2. NodeOf(n)' = NodeOf(n) /\ NodeOf(n - 1)' = NodeOf(n - 1)
    BY <1>1, <1>5, <1>7 DEF NodeOf
  <2>3. Covers(s.nodes, Count(top.mark), top.start)
    BY <1>b, <1>1, <1>4, <2>1, CoversSame DEF CallCovered
  <2>4. CallCovered(n)' BY <1>5, <1>6, <1>7, <1>8, <2>1, <2>3 DEF CallCovered
  <2>5. /\ Count(top.mark) + 1 \in 1 .. Count(top.here) /\ Count(top.mark) < Len(s.nodes)
    BY <1>b, <1>1, <1>3, <1>4, <2>1 DEF CallOpened
  <2>6. /\ s.nodes[Count(top.mark) + 1].name = top.rule
        /\ s.nodes[Count(top.mark) + 1].parent = NodeOf(n - 1)
    BY <1>b, <1>1, <2>1, <2>5 DEF CallOpened, Same
  <2>7. CallOpened(n)'
    BY <1>1, <1>5, <1>6, <1>7, <1>8, <2>1, <2>2, <2>5, <2>6 DEF CallOpened
  <2> QED BY <1>6, <1>7, <1>9, <1>12, <2>1, <2>2, <2>4, <2>7 DEF Faithful
<1> QED BY <1>11, <1>12 DEF IInv

(* The innermost call returns.                                             *)
LEMMA Popped ==
  ASSUME IInv, stack # <<>>, stack' = SubSeq(stack, 1, Len(stack) - 1),
         position' \in Nat, IsSink(sink)', Count(Top.mark) <= Len(sink'.nodes),
         Same(sink'.nodes, sink.nodes, Count(Top.mark)),
         ~sink'.overflow => /\ ~sink.overflow
                            /\ Covers(sink'.nodes, Len(sink'.nodes), position')
                            /\ sink'.active = NodeOf(Len(stack) - 1)
  PROVE  IInv'
<1>0. Len(stack) \in Nat /\ IsSequence(stack) /\ Len(stack) # 0
  BY Lengths DEF IInv, Shape, IsSequence
<1>a. PICK n : n = Len(stack) - 1 OBVIOUS
<1>b. PICK c : c = Count(Top.mark) OBVIOUS
<1>1. n \in Nat /\ n = Len(stack) - 1 BY <1>0, <1>a
<1>2. IsSequence(stack)' /\ Len(stack') = n /\ \A k \in 1 .. n : stack'[k] = stack[k]
  BY <1>0, <1>1, Cut
<1>3. c \in Nat /\ c = Count(stack[n + 1].mark)
  <2>1. CallShape(n + 1) BY <1>0, <1>1 DEF IInv, Shape
  <2>2. Len(sink.nodes) \in Nat BY Lengths DEF IInv, Shape, IsSink
  <2> QED BY <1>b, <1>0, <1>1, <2>1, <2>2, MarkFields DEF CallShape, Top
<1>4. ASSUME NEW k \in 1 .. n
      PROVE  CallShape(k)' /\ (~sink'.overflow => CallCovered(k)' /\ CallOpened(k)')
  <2>1. k \in 1 .. Len(stack) /\ Count(stack[k].here) <= c
    BY <1>0, <1>1, <1>3 DEF IInv, Shape
  <2>2. \A j \in 1 .. k : stack'[j] = stack[j] BY <1>1, <1>2
  <2>3. c <= Len(sink'.nodes) /\ Same(sink'.nodes, sink.nodes, c) BY <1>b
  <2> QED BY <1>3, <2>1, <2>2, <2>3, Kept
<1>5. \A j, k \in 1 .. n : j < k => Count(stack'[j].here) <= Count(stack'[k].mark)
  BY <1>0, <1>1, <1>2 DEF IInv, Shape
<1>6. Shape' BY <1>2, <1>4, <1>5 DEF Shape
<1>7. ASSUME ~sink'.overflow PROVE Faithful'
  <2>1. NodeOf(n)' = NodeOf(n) BY <1>1, <1>2 DEF NodeOf
  <2> QED BY <1>1, <1>2, <1>4, <1>7, <2>1 DEF Faithful
<1> QED BY <1>6, <1>7 DEF IInv
-----------------------------------------------------------------------------
(* Before the parse nothing is open and nothing covered.                   *)
LEMMA InitIInv == Init => IInv
<1> SUFFICES ASSUME Init PROVE IInv OBVIOUS
<1>1. Len(stack) = 0 /\ Len(sink.nodes) = 0 /\ position = 0 /\ sink = EmptySink
  BY DEF Init, EmptySink
<1>2. IsSequence(stack) /\ IsSequence(sink.nodes)
  <2>1. <<>> \in Seq({}) OBVIOUS
  <2>2. IsSequence(<<>>) BY <2>1 DEF IsSequence
  <2> QED BY <2>2 DEF Init, EmptySink
<1>3. IsSink(sink)
  <2>1. sink.active = -1 /\ sink.overflow = FALSE BY <1>1 DEF EmptySink, None
  <2>2. sink = [nodes |-> sink.nodes, active |-> sink.active, overflow |-> sink.overflow,
                deep |-> sink.deep]
    BY <1>1 DEF EmptySink
  <2>3. 0 <= NodeLimit BY NodeAssumption
  <2>4. \A i \in 1 .. Len(sink.nodes) : FALSE BY <1>1
  <2>5. -1 \in Int /\ -1 <= -1 /\ -1 < 0 OBVIOUS
  <2> QED BY <1>1, <1>2, <2>1, <2>2, <2>3, <2>4, <2>5 DEF IsSink, None
<1>4. Shape BY <1>1, <1>2, <1>3 DEF Shape
<1>5. Faithful
  <2>1. Covers(sink.nodes, 0, 0) BY DEF Covers
  <2>2. sink.active = NodeOf(0) BY <1>1 DEF EmptySink, NodeOf
  <2> QED BY <1>1, <2>1, <2>2 DEF Faithful
<1> QED BY <1>4, <1>5 DEF IInv

(* What the present sink and position are good for                         *)
LEMMA Innermost ==
  ASSUME IInv, stack # <<>>
  PROVE  /\ Len(stack) \in Nat /\ Len(stack) >= 1 /\ CallShape(Len(stack))
         /\ Len(sink.nodes) \in Nat /\ IsCall(Top)
         /\ Mark(Top.mark, Len(sink.nodes)) /\ Mark(Top.here, Len(sink.nodes))
         /\ Count(Top.mark) \in Nat /\ Count(Top.here) \in Nat
         /\ Count(Top.mark) <= Len(sink.nodes) /\ Count(Top.here) <= Len(sink.nodes)
<1>1. Len(stack) \in Nat /\ Len(stack) # 0 /\ Len(sink.nodes) \in Nat
  BY Lengths DEF IInv, Shape, IsSink, IsSequence
<1>2. CallShape(Len(stack)) BY <1>1 DEF IInv, Shape
<1> QED BY <1>1, <1>2, MarkFields DEF CallShape, Top

(* A function that fails leaves what it found.                             *)
LEMMA GaveUp == ASSUME IInv, stack # <<>>, GiveUp PROVE IInv'
<1>1. /\ Len(stack) \in Nat /\ Len(stack) >= 1 /\ IsCall(Top)
      /\ Mark(Top.mark, Len(sink.nodes)) /\ Count(Top.mark) \in Nat
      /\ Len(sink.nodes) \in Nat
  BY Innermost
<1>2. /\ stack' = SubSeq(stack, 1, Len(stack) - 1) /\ position' = Top.start
      /\ sink' = Restore(sink, Top.mark)
  BY DEF GiveUp, Return
<1>3. IsSink(sink) BY DEF IInv, Shape
<1>4. /\ IsSink(sink)' /\ sink'.overflow = sink.overflow
      /\ Len(sink'.nodes) = Count(Top.mark) /\ sink'.active = Active(Top.mark)
      /\ Same(sink'.nodes, sink.nodes, Count(Top.mark))
  BY <1>1, <1>2, <1>3, Restored
<1>5. position' \in Nat BY <1>1, <1>2 DEF IsCall
<1>6. ASSUME ~sink'.overflow
      PROVE  /\ ~sink.overflow
             /\ Covers(sink'.nodes, Len(sink'.nodes), position')
             /\ sink'.active = NodeOf(Len(stack) - 1)
  <2>1. ~sink.overflow BY <1>4, <1>6
  <2>2. CallCovered(Len(stack)) /\ CallOpened(Len(stack)) BY <1>1, <2>1 DEF IInv, Faithful
  <2>3. Covers(sink.nodes, Count(Top.mark), Top.start) BY <2>2 DEF CallCovered, Top
  <2>4. Covers(sink'.nodes, Count(Top.mark), Top.start) BY <1>1, <1>4, <2>3, CoversSame
  <2> QED BY <1>2, <1>4, <2>1, <2>2, <2>4 DEF CallOpened, Top
<1>7. Count(Top.mark) <= Len(sink'.nodes) BY <1>1, <1>4
<1> QED BY <1>2, <1>4, <1>5, <1>6, <1>7, Popped

(* The next item, from where the parser is                                 *)
LEMMA WentOn ==
  ASSUME IInv, stack # <<>>, NEW f, GoOn(f, position, sink), DOMAIN f = DOMAIN Top,
         f.rule = Top.rule, f.start = Top.start, f.mark = Top.mark,
         IsCall([f EXCEPT !.at = position, !.here = Checkpoint(sink)])
  PROVE  IInv'
<1>1. Count(Top.here) <= Len(sink.nodes) BY Innermost
<1>2. IsSink(sink) /\ position \in Nat BY DEF IInv, Shape
<1>3. Same(sink.nodes, sink.nodes, Count(Top.here)) BY DEF Same
<1>4. ~sink.overflow => /\ Covers(sink.nodes, Len(sink.nodes), position)
                       /\ sink.active = NodeOf(Len(stack))
  BY DEF IInv, Faithful
<1> QED BY <1>1, <1>2, <1>3, <1>4, Moved

(* The same, after the token at the position was taken                     *)
LEMMA TookToken ==
  ASSUME IInv, stack # <<>>, NEW f, NEW s, s = Terminal(sink, position),
         GoOn(f, position + 1, s), DOMAIN f = DOMAIN Top,
         f.rule = Top.rule, f.start = Top.start, f.mark = Top.mark,
         IsCall([f EXCEPT !.at = position + 1, !.here = Checkpoint(s)])
  PROVE  IInv'
<1>1. Count(Top.here) \in Nat /\ Count(Top.here) <= Len(sink.nodes) /\ Len(sink.nodes) \in Nat
  BY Innermost
<1>2. IsSink(sink) /\ position \in Nat BY DEF IInv, Shape
<1>3. /\ IsSink(s) /\ Len(sink.nodes) <= Len(s.nodes)
      /\ Same(s.nodes, sink.nodes, Len(sink.nodes))
      /\ ~s.overflow =>
           /\ ~sink.overflow /\ Len(s.nodes) = Len(sink.nodes) + 1
           /\ s.active = sink.active
           /\ s.nodes[Len(sink.nodes) + 1] = Node("terminal", "none", position, sink)
  BY <1>2, Taken
<1>4. Same(s.nodes, sink.nodes, Count(Top.here)) BY <1>1, <1>3 DEF Same
<1>5. Len(s.nodes) \in Nat BY <1>3, Lengths DEF IsSink
<1>6. ASSUME ~s.overflow
      PROVE  /\ ~sink.overflow /\ Covers(s.nodes, Len(s.nodes), position + 1)
             /\ s.active = NodeOf(Len(stack))
  <2>1. Covers(sink.nodes, Len(sink.nodes), position) /\ sink.active = NodeOf(Len(stack))
    BY <1>3, <1>6 DEF IInv, Faithful
  <2>2. /\ s.nodes[Len(sink.nodes) + 1].kind = "terminal"
        /\ s.nodes[Len(sink.nodes) + 1].token = position
    BY <1>3, <1>6 DEF Node
  <2>3. Covers(s.nodes, Len(sink.nodes) + 1, position + 1)
    BY <1>1, <1>2, <1>3, <2>1, <2>2, CoversToken
  <2> QED BY <1>3, <1>6, <2>1, <2>3
<1>7. Count(Top.here) <= Len(s.nodes) /\ position + 1 \in Nat BY <1>1, <1>2, <1>3, <1>5
<1> QED BY <1>3, <1>4, <1>6, <1>7, Moved

(* The same, back where the item began                                     *)
LEMMA WentBack ==
  ASSUME IInv, stack # <<>>, NEW f, NEW s, s = Restore(sink, Top.here),
         GoOn(f, Top.at, s), DOMAIN f = DOMAIN Top,
         f.rule = Top.rule, f.start = Top.start, f.mark = Top.mark,
         IsCall([f EXCEPT !.at = Top.at, !.here = Checkpoint(s)])
  PROVE  IInv'
<1>1. /\ Len(stack) \in Nat /\ Len(stack) >= 1 /\ IsCall(Top)
      /\ Mark(Top.here, Len(sink.nodes)) /\ Count(Top.here) \in Nat
  BY Innermost
<1>2. IsSink(sink) /\ Top.at \in Nat BY <1>1 DEF IInv, Shape, IsCall
<1>3. /\ IsSink(s) /\ s.overflow = sink.overflow
      /\ Len(s.nodes) = Count(Top.here) /\ s.active = Active(Top.here)
      /\ Same(s.nodes, sink.nodes, Count(Top.here))
  BY <1>1, <1>2, Restored
<1>4. ASSUME ~s.overflow
      PROVE  /\ ~sink.overflow /\ Covers(s.nodes, Len(s.nodes), Top.at)
             /\ s.active = NodeOf(Len(stack))
  <2>1. ~sink.overflow BY <1>3, <1>4
  <2>2. CallCovered(Len(stack)) /\ CallOpened(Len(stack)) BY <1>1, <2>1 DEF IInv, Faithful
  <2>3. Covers(sink.nodes, Count(Top.here), Top.at) BY <2>2 DEF CallCovered, Top
  <2>4. Covers(s.nodes, Count(Top.here), Top.at) BY <1>1, <1>3, <2>3, CoversSame
  <2> QED BY <1>3, <2>1, <2>2, <2>4 DEF CallOpened, Top
<1>5. Count(Top.here) <= Len(s.nodes) BY <1>1, <1>3
<1> QED BY <1>2, <1>3, <1>4, <1>5, Moved

(* The forms in which a call goes on                                       *)
Continues(f, t) ==
  /\ DOMAIN f = DOMAIN t /\ f.rule = t.rule /\ f.start = t.start /\ f.mark = t.mark
  /\ \A p \in Nat : \A h : IsCall([f EXCEPT !.at = p, !.here = h])

(* Fields of the innermost frame that the invariant does not read may change. *)
LEMMA Reframed ==
  ASSUME NEW t, IsCall(t)
  PROVE  /\ Continues(t, t)
         /\ Continues([t EXCEPT !.item = @ + 1, !.alternative = 1, !.taken = 0], t)
         /\ Continues([t EXCEPT !.alternative = @ + 1], t)
         /\ Continues([t EXCEPT !.taken = 1], t)
<1>1. /\ t = [rule |-> t.rule, start |-> t.start, mark |-> t.mark, item |-> t.item,
              at |-> t.at, here |-> t.here, alternative |-> t.alternative, taken |-> t.taken]
      /\ t.start \in Nat
  BY DEF IsCall
<1>2. ASSUME NEW i, NEW a, NEW k
      PROVE  Continues([rule |-> t.rule, start |-> t.start, mark |-> t.mark, item |-> i,
                        at |-> t.at, here |-> t.here, alternative |-> a, taken |-> k], t)
  <2> DEFINE f == [rule |-> t.rule, start |-> t.start, mark |-> t.mark, item |-> i,
                   at |-> t.at, here |-> t.here, alternative |-> a, taken |-> k]
  <2>1. DOMAIN f = DOMAIN t BY <1>1
  <2>2. f.rule = t.rule /\ f.start = t.start /\ f.mark = t.mark OBVIOUS
  <2>3. ASSUME NEW p \in Nat, NEW h PROVE IsCall([f EXCEPT !.at = p, !.here = h])
    <3> DEFINE g == [rule |-> t.rule, start |-> t.start, mark |-> t.mark, item |-> i,
                     at |-> p, here |-> h, alternative |-> a, taken |-> k]
    <3> DEFINE f1 == [f EXCEPT !.at = p]
    <3>a. f1 = [rule |-> t.rule, start |-> t.start, mark |-> t.mark, item |-> i,
                at |-> p, here |-> t.here, alternative |-> a, taken |-> k]
      OBVIOUS
    <3>b. [f EXCEPT !.at = p, !.here = h] = [f1 EXCEPT !.here = h] OBVIOUS
    <3> HIDE DEF f, f1
    <3>c. [f1 EXCEPT !.here = h] = g BY <3>a
    <3>1. [f EXCEPT !.at = p, !.here = h] = g BY <3>b, <3>c
    <3>2. IsCall(g) BY <1>1 DEF IsCall
    <3> QED BY <3>1, <3>2
  <2> QED BY <2>1, <2>2, <2>3 DEF Continues
<1>3. [t EXCEPT !.item = @ + 1, !.alternative = 1, !.taken = 0]
        = [rule |-> t.rule, start |-> t.start, mark |-> t.mark, item |-> t.item + 1,
           at |-> t.at, here |-> t.here, alternative |-> 1, taken |-> 0]
  <2> DEFINE t1 == [t EXCEPT !.item = @ + 1]
             t2 == [t1 EXCEPT !.alternative = 1]
  <2>1. t1 = [rule |-> t.rule, start |-> t.start, mark |-> t.mark, item |-> t.item + 1,
              at |-> t.at, here |-> t.here, alternative |-> t.alternative, taken |-> t.taken]
    BY <1>1
  <2>2. [t EXCEPT !.item = @ + 1, !.alternative = 1, !.taken = 0] = [t2 EXCEPT !.taken = 0]
    OBVIOUS
  <2> HIDE DEF t1
  <2>3. t2 = [rule |-> t.rule, start |-> t.start, mark |-> t.mark, item |-> t.item + 1,
              at |-> t.at, here |-> t.here, alternative |-> 1, taken |-> t.taken]
    BY <2>1
  <2> HIDE DEF t2
  <2>4. [t2 EXCEPT !.taken = 0]
          = [rule |-> t.rule, start |-> t.start, mark |-> t.mark, item |-> t.item + 1,
             at |-> t.at, here |-> t.here, alternative |-> 1, taken |-> 0]
    BY <2>3
  <2> QED BY <2>2, <2>4
<1>4. [t EXCEPT !.alternative = @ + 1]
        = [rule |-> t.rule, start |-> t.start, mark |-> t.mark, item |-> t.item,
           at |-> t.at, here |-> t.here, alternative |-> t.alternative + 1, taken |-> t.taken]
  BY <1>1
<1>5. [t EXCEPT !.taken = 1]
        = [rule |-> t.rule, start |-> t.start, mark |-> t.mark, item |-> t.item,
           at |-> t.at, here |-> t.here, alternative |-> t.alternative, taken |-> 1]
  BY <1>1
<1>6. Continues(t, t)
  <2>1. Continues([rule |-> t.rule, start |-> t.start, mark |-> t.mark, item |-> t.item,
                   at |-> t.at, here |-> t.here, alternative |-> t.alternative,
                   taken |-> t.taken], t)
    BY <1>2
  <2> QED BY <1>1, <2>1
<1> QED BY <1>2, <1>3, <1>4, <1>5, <1>6

(* A call begins, unless the memo answers it.                              *)
LEMMA Entered == ASSUME IInv, NEW r, Enter(r) PROVE IInv'
<1>1. CASE <<r, position>> \in memo
  BY <1>1 DEF Enter, IInv, Shape, Faithful, CallShape, CallCovered, CallOpened, NodeOf
<1>2. CASE <<r, position>> \notin memo BY <1>2, Pushed DEF Enter
<1> QED BY <1>1, <1>2

(* Nor does the invariant read the memo and the answers.                   *)
LEMMA Unmoved == ASSUME IInv, UNCHANGED <<position, stack, sink>> PROVE IInv'
BY DEF IInv, Shape, Faithful, CallShape, CallCovered, CallOpened, NodeOf

(* Every step of the parser keeps the invariant.                           *)
LEMMA Steps == IInv /\ [Next]_vars => IInv'
<1> SUFFICES ASSUME IInv, [Next]_vars PROVE IInv' OBVIOUS
<1> DEFINE next == [Top EXCEPT !.item = @ + 1, !.alternative = 1, !.taken = 0]
<1>1. ASSUME stack # <<>>
      PROVE  /\ Continues(Top, Top) /\ Continues(next, Top)
             /\ Continues([Top EXCEPT !.alternative = @ + 1], Top)
             /\ Continues([Top EXCEPT !.taken = 1], Top) /\ Top.at \in Nat
  <2>1. IsCall(Top) BY <1>1, Innermost
  <2> QED BY <2>1, Reframed DEF IsCall
<1>2. position \in Nat /\ position + 1 \in Nat BY DEF IInv, Shape
<1>3. ASSUME stack # <<>>, NEW f, Continues(f, Top), GoOn(f, position, sink) PROVE IInv'
  BY <1>2, <1>3, WentOn DEF Continues
<1>4. ASSUME stack # <<>>, NEW f, Continues(f, Top),
             GoOn(f, position + 1, Terminal(sink, position))
      PROVE  IInv'
  BY <1>2, <1>4, TookToken DEF Continues
<1>5. ASSUME stack # <<>>, NEW f, Continues(f, Top),
             GoOn(f, Top.at, Restore(sink, Top.here))
      PROVE  IInv'
  BY <1>1, <1>5, WentBack DEF Continues
<1>6. CASE Allocate BY <1>6, Entered DEF Allocate
<1>7. CASE MemoTooLarge \/ MemoNoMem
  BY <1>7, Unmoved DEF MemoTooLarge, MemoNoMem, MemoRefused
<1>8. CASE TakeToken
  <2>1. stack # <<>> BY <1>8 DEF TakeToken, Working
  <2>2. CASE NextItem(position + 1, Terminal(sink, position))
    BY <1>1, <1>4, <2>1, <2>2 DEF NextItem
  <2>3. CASE GiveUp BY <2>1, <2>3, GaveUp
  <2> QED BY <1>8, <2>2, <2>3 DEF TakeToken
<1>9. CASE TakeTokens
  <2>1. stack # <<>> BY <1>9 DEF TakeTokens, Working
  <2>2. CASE GoOn(Top, position + 1, Terminal(sink, position)) BY <1>1, <1>4, <2>1, <2>2
  <2>3. CASE NextItem(position, sink) BY <1>1, <1>3, <2>1, <2>3 DEF NextItem
  <2> QED BY <1>9, <2>2, <2>3 DEF TakeTokens
<1>10. CASE CallRule BY <1>10, Entered DEF CallRule
<1>11. CASE Accept
  <2>1. stack # <<>> BY <1>11 DEF Accept
  <2>2. CASE GoOn([Top EXCEPT !.taken = 1], position, sink) BY <1>1, <1>3, <2>1, <2>2
  <2>3. CASE GiveUp BY <2>1, <2>3, GaveUp
  <2>4. CASE NextItem(position, sink) BY <1>1, <1>3, <2>1, <2>4 DEF NextItem
  <2> QED BY <1>11, <2>2, <2>3, <2>4 DEF Accept
<1>12. CASE Reject
  <2> DEFINE back == Restore(sink, Top.here)
  <2>1. stack # <<>> BY <1>12 DEF Reject
  <2>2. CASE GiveUp BY <2>1, <2>2, GaveUp
  <2>3. CASE GoOn([Top EXCEPT !.alternative = @ + 1], Top.at, back)
    BY <1>1, <1>5, <2>1, <2>3
  <2>4. CASE NextItem(Top.at, back) BY <1>1, <1>5, <2>1, <2>4 DEF NextItem
  <2>5. GiveUp \/ GoOn([Top EXCEPT !.alternative = @ + 1], Top.at, back) \/ NextItem(Top.at, back)
    BY <1>12, Zenon DEF Reject
  <2> QED BY <2>2, <2>3, <2>4, <2>5
<1>13. CASE Succeed
  <2>1. stack # <<>> /\ sink' = End(sink, Top.rule) /\ position' = position
        /\ stack' = SubSeq(stack, 1, Len(stack) - 1)
    BY <1>13 DEF Succeed, Working, Return
  <2>2. /\ Len(stack) \in Nat /\ Len(stack) >= 1 /\ Count(Top.mark) \in Nat
        /\ Count(Top.mark) <= Len(sink.nodes) /\ Len(sink.nodes) \in Nat
    BY <2>1, Innermost
  <2>3. IsSink(sink) BY DEF IInv, Shape
  <2>4. /\ IsSink(sink)' /\ Len(sink'.nodes) = Len(sink.nodes)
        /\ Same(sink'.nodes, sink.nodes, Len(sink.nodes))
        /\ ~sink'.overflow => /\ ~sink.overflow /\ sink.active # None
                              /\ sink'.active = sink.nodes[sink.active + 1].parent
    BY <2>1, <2>3, Ended
  <2>5. Same(sink'.nodes, sink.nodes, Count(Top.mark)) BY <2>2, <2>4 DEF Same
  <2>6. ASSUME ~sink'.overflow
        PROVE  /\ ~sink.overflow /\ Covers(sink'.nodes, Len(sink'.nodes), position')
               /\ sink'.active = NodeOf(Len(stack) - 1)
    <3>1. /\ ~sink.overflow /\ Covers(sink.nodes, Len(sink.nodes), position)
          /\ sink.active = NodeOf(Len(stack)) /\ CallOpened(Len(stack))
      BY <2>2, <2>4, <2>6 DEF IInv, Faithful
    <3>2. Covers(sink'.nodes, Len(sink'.nodes), position')
      BY <2>1, <2>2, <2>4, <3>1, CoversSame
    <3>3. sink.active = Count(stack[Len(stack)].mark) BY <2>2, <3>1 DEF NodeOf, Count
    <3> QED BY <2>4, <2>6, <3>1, <3>2, <3>3 DEF CallOpened
  <2> QED BY <1>2, <2>1, <2>2, <2>4, <2>5, <2>6, Popped
<1>14. CASE Answer BY <1>14, Unmoved DEF Answer
<1>15. CASE UNCHANGED vars BY <1>15, Unmoved DEF vars
<1> QED
  BY <1>6, <1>7, <1>8, <1>9, <1>10, <1>11, <1>12, <1>13, <1>14, <1>15 DEF Next

(* In every state of a parse the marks of the calls in progress name nodes *)
(* that are there, and the sink is faithful to position and calls.         *)
THEOREM Inductive == Spec => []IInv
<1> QED BY InitIInv, Steps, PTL DEF Spec

(* Whatever the parser tried and abandoned, the terminals in the sink are  *)
(* the tokens before its position (bre_restore beside position =           *)
(* __ruleStart in every rule's function).                                  *)
THEOREM EventsCover == Spec => []EventsCoverTokens
<1>1. IInv => EventsCoverTokens BY DEF IInv, Faithful, EventsCoverTokens
<1> QED BY <1>1, Inductive, PTL

(* The open nodes are the calls in progress, so that bre_end closes the    *)
(* node of the rule that ends.                                             *)
THEOREM OpenNodes == Spec => []OpenNodesAreCalls
<1>1. IInv => OpenNodesAreCalls
  <2> SUFFICES ASSUME IInv, ~sink.overflow
               PROVE  /\ sink.active = NodeOf(Len(stack))
                      /\ \A k \in DOMAIN stack :
                           /\ NodeOf(k) < Len(sink.nodes)
                           /\ sink.nodes[NodeOf(k) + 1].name = stack[k].rule
                           /\ sink.nodes[NodeOf(k) + 1].parent = NodeOf(k - 1)
    BY DEF OpenNodesAreCalls
  <2>1. sink.active = NodeOf(Len(stack)) BY DEF IInv, Faithful
  <2>2. DOMAIN stack = 1 .. Len(stack) /\ Len(stack) \in Nat
    BY Lengths DEF IInv, Shape, IsSequence
  <2>3. Len(sink.nodes) \in Nat BY Lengths DEF IInv, Shape, IsSink
  <2>4. ASSUME NEW k \in 1 .. Len(stack)
        PROVE  /\ NodeOf(k) < Len(sink.nodes)
               /\ sink.nodes[NodeOf(k) + 1].name = stack[k].rule
               /\ sink.nodes[NodeOf(k) + 1].parent = NodeOf(k - 1)
    <3>1. CallShape(k) /\ CallOpened(k) BY DEF IInv, Shape, Faithful
    <3>2. NodeOf(k) = Count(stack[k].mark) BY <2>2 DEF NodeOf, Count
    <3>3. /\ Count(stack[k].mark) \in Nat /\ Count(stack[k].here) \in Nat
          /\ Count(stack[k].here) <= Len(sink.nodes)
      BY <2>3, <3>1, MarkFields DEF CallShape
    <3> QED BY <2>3, <3>1, <3>2, <3>3 DEF CallOpened
  <2> QED BY <2>1, <2>2, <2>4
<1> QED BY <1>1, Inductive, PTL
-----------------------------------------------------------------------------
(* The rules that are there once for each depth                            *)
Sequences == {"Sequence0", "Sequence1", "Sequence2", "Sequence3", "Sequence4", "Sequence5",
              "Sequence6", "Sequence7", "Sequence8", "Sequence9"}
Pieces    == {"Piece0", "Piece1", "Piece2", "Piece3", "Piece4", "Piece5", "Piece6", "Piece7",
              "Piece8", "Piece9"}
Atoms     == {"Atom0", "Atom1", "Atom2", "Atom3", "Atom4", "Atom5", "Atom6", "Atom7",
              "Atom8", "Atom9"}
Groups    == {"Group0", "Group1", "Group2", "Group3", "Group4", "Group5", "Group6", "Group7",
              "Group8"}

(* How deep in the stack a call of a rule can be: a rule calls only rules  *)
(* of higher levels.                                                       *)
Level ==
  [r \in RuleNames |->
     CASE r = "Input" -> 1
       [] r = "Sequence0" -> 2 [] r = "Piece0" -> 3 [] r = "Atom0" -> 4 [] r = "Group0" -> 5
       [] r = "Sequence1" -> 6 [] r = "Piece1" -> 7 [] r = "Atom1" -> 8 [] r = "Group1" -> 9
       [] r = "Sequence2" -> 10 [] r = "Piece2" -> 11 [] r = "Atom2" -> 12 [] r = "Group2" -> 13
       [] r = "Sequence3" -> 14 [] r = "Piece3" -> 15 [] r = "Atom3" -> 16 [] r = "Group3" -> 17
       [] r = "Sequence4" -> 18 [] r = "Piece4" -> 19 [] r = "Atom4" -> 20 [] r = "Group4" -> 21
       [] r = "Sequence5" -> 22 [] r = "Piece5" -> 23 [] r = "Atom5" -> 24 [] r = "Group5" -> 25
       [] r = "Sequence6" -> 26 [] r = "Piece6" -> 27 [] r = "Atom6" -> 28 [] r = "Group6" -> 29
       [] r = "Sequence7" -> 30 [] r = "Piece7" -> 31 [] r = "Atom7" -> 32 [] r = "Group7" -> 33
       [] r = "Sequence8" -> 34 [] r = "Piece8" -> 35 [] r = "Atom8" -> 36 [] r = "Group8" -> 37
       [] r = "Sequence9" -> 38 [] r = "Piece9" -> 39 [] r = "Atom9" -> 40
       [] r = "InitialStarPiece" -> 40
       [] r \in {"DepthOverflow", "Quantifier", "Class"} -> 41
       [] r \in {"ClassElement", "InitialCloseRange", "ExactRepeat", "OpenRepeat",
                 "BoundedRepeat"} -> 42
       [] r \in {"NamedClass", "Collating", "Equivalence", "Range"} -> 43
       [] OTHER -> 44]

(* The nodes, over four for each token taken, that a rule leaves behind    *)
(* when it succeeds, and those it may have when it comes to item i.        *)
Total(r) ==
  IF r = "Input" THEN 2
  ELSE IF r \in Sequences THEN 1
  ELSE IF r \in Pieces THEN 0
  ELSE IF r \in Atoms \cup {"ClassElement", "Quantifier", "InitialStarPiece"} THEN -1
  ELSE IF r = "GroupOpen" THEN -5
  ELSE -2

(* Item 1 has what the node of the call itself takes.                      *)
Allowance(r, i) ==
  IF i = 1 THEN 1
  ELSE IF r \in Groups \cup {"Range"} /\ i = 2 THEN -1
  ELSE IF r = "Class" /\ i \in {2, 3} THEN -1
  ELSE IF r \in Groups /\ i = 3 THEN 0
  ELSE IF r = "GroupOpen" /\ i = 2 THEN -2
  ELSE Total(r)

(* The items that call a rule                                              *)
Callers == {"call", "optional", "star", "plus", "choice"}

(* Item i of rule r calls rules further up, and keeps to its allowance.    *)
Sized(r, i) ==
  LET x    == Rules[r].items[i]
      more == Allowance(r, i + 1) - Allowance(r, i)
  IN /\ x.op \in Callers =>
          /\ Len(x.rules) \in 1 .. 7 /\ Allowance(r, i) <= 1
          /\ \A a \in 1 .. Len(x.rules) :
               /\ x.rules[a] \in RuleNames /\ Level[x.rules[a]] > Level[r]
               /\ Total(x.rules[a]) <= IF x.op \in {"call", "choice"} THEN more ELSE 0
     /\ x.op = "take" => more >= -3
     /\ x.op \in {"takeAll", "optional", "star", "plus"} => more >= 0
     /\ "none" \notin x.tokens

(* ... and so do all of them, and the last one leaves the rule's total.    *)
Fits(r) ==
  LET n == Len(Rules[r].items)
  IN /\ n \in Nat /\ Allowance(r, n + 1) = Total(r) /\ Level[r] \in 1 .. 44
     /\ \A i \in 1 .. n : Sized(r, i)
-----------------------------------------------------------------------------
(* Values of the two functions, and which rules the families are           *)
LEMMA LevelsOfLeaves ==
  /\ Level["BeginAnchor"] = 44 /\ Level["EndAnchor"] = 44 /\ Level["InitialStarPiece"] = 40
  /\ Level["Quantifier"] = 41 /\ Level["Class"] = 41 /\ Level["Any"] = 44
  /\ Level["Reference"] = 44 /\ Level["Escape"] = 44 /\ Level["UnsupportedEscape"] = 44
  /\ Level["Literal"] = 44 /\ Level["GroupOpen"] = 44 /\ Level["GroupClose"] = 44
BY DEF Level, RuleNames

LEMMA Families ==
  /\ Sequences \cup Pieces \cup Atoms \cup Groups \subseteq RuleNames
  /\ Pieces \cap (Sequences \cup Atoms \cup Groups) = {}
  /\ Sequences \cap (Atoms \cup Groups) = {} /\ Atoms \cap Groups = {}
  /\ \A r \in Sequences \cup Pieces \cup Atoms \cup Groups :
       r \notin {"Input", "ClassElement", "Quantifier", "InitialStarPiece", "GroupOpen",
                 "Range", "Class"}
BY DEF Sequences, Pieces, Atoms, Groups, RuleNames

LEMMA TotalsOfLeaves ==
  /\ Total("BeginAnchor") = -2 /\ Total("EndAnchor") = -2 /\ Total("InitialStarPiece") = -1
  /\ Total("Quantifier") = -1 /\ Total("Class") = -2 /\ Total("Any") = -2
  /\ Total("Reference") = -2 /\ Total("Escape") = -2 /\ Total("UnsupportedEscape") = -2
  /\ Total("Literal") = -2 /\ Total("GroupOpen") = -5 /\ Total("GroupClose") = -2
BY DEF Total, Sequences, Pieces, Atoms, Groups

(* An item that calls one rule                                             *)
LEMMA CallItem ==
  ASSUME NEW r, NEW i, NEW op \in {"call", "optional", "star", "plus"}, NEW c \in RuleNames,
         Rules[r].items[i] = Item(op, <<c>>, {}),
         Level[c] > Level[r], Allowance(r, i) <= 1,
         op = "call" => Total(c) <= Allowance(r, i + 1) - Allowance(r, i),
         op # "call" => Total(c) <= 0 /\ Allowance(r, i + 1) - Allowance(r, i) >= 0
  PROVE  Sized(r, i)
<1> DEFINE x == Rules[r].items[i]
<1>1. x.op = op /\ x.rules = <<c>> /\ x.tokens = {} BY DEF Item
<1>2. Len(x.rules) = 1 /\ \A a \in 1 .. 1 : x.rules[a] = c BY <1>1
<1> HIDE DEF x
<1>3. Len(x.rules) \in 1 .. 7 BY <1>2
<1>4. x.op \in Callers =>
          /\ Len(x.rules) \in 1 .. 7 /\ Allowance(r, i) <= 1
          /\ \A a \in 1 .. Len(x.rules) :
               /\ x.rules[a] \in RuleNames /\ Level[x.rules[a]] > Level[r]
               /\ Total(x.rules[a]) <= IF x.op \in {"call", "choice"}
                                       THEN Allowance(r, i + 1) - Allowance(r, i) ELSE 0
  BY <1>1, <1>2, <1>3
<1>5. /\ x.op = "take" => FALSE
      /\ x.op \in {"takeAll", "optional", "star", "plus"} =>
           Allowance(r, i + 1) - Allowance(r, i) >= 0
      /\ "none" \notin x.tokens
  BY <1>1
<1> QED BY <1>4, <1>5 DEF Sized, x

(* one that tries several rules                                            *)
LEMMA ChoiceItem ==
  ASSUME NEW r, NEW i, NEW rs, Rules[r].items[i] = Item("choice", rs, {}),
         Len(rs) \in 1 .. 7, Allowance(r, i) <= 1,
         \A a \in 1 .. Len(rs) :
           /\ rs[a] \in RuleNames /\ Level[rs[a]] > Level[r]
           /\ Total(rs[a]) <= Allowance(r, i + 1) - Allowance(r, i)
  PROVE  Sized(r, i)
<1> DEFINE x == Rules[r].items[i]
<1>1. x.op = "choice" /\ x.rules = rs /\ x.tokens = {} BY DEF Item
<1> HIDE DEF x
<1>2. /\ Len(x.rules) \in 1 .. 7
      /\ \A a \in 1 .. Len(x.rules) :
           /\ x.rules[a] \in RuleNames /\ Level[x.rules[a]] > Level[r]
           /\ Total(x.rules[a]) <= IF x.op \in {"call", "choice"}
                                   THEN Allowance(r, i + 1) - Allowance(r, i) ELSE 0
  BY <1>1
<1>3. /\ x.op = "take" => FALSE
      /\ x.op \in {"takeAll", "optional", "star", "plus"} => FALSE
      /\ "none" \notin x.tokens
  BY <1>1
<1> QED BY <1>2, <1>3 DEF Sized, x

(* The four rules that are there for each depth                            *)
LEMMA SequenceFits ==
  ASSUME NEW r \in Sequences, NEW p \in Pieces, Rules[r] = SequenceRule(p),
         Level[r] \in 1 .. 38, Level[p] = Level[r] + 1
  PROVE  Fits(r)
<1>1. Rules[r].items = <<Item("optional", <<"BeginAnchor">>, {}),
                         Item("optional", <<"InitialStarPiece">>, {}),
                         Item("star", <<p>>, {}), Item("optional", <<"EndAnchor">>, {})>>
  BY DEF SequenceRule, Rule, Optional, Star
<1>2. Total(p) = 0 /\ Total(r) = 1 /\ \A i \in Nat : Allowance(r, i) = 1
  BY Families DEF Total, Allowance
<1>3. p \in RuleNames /\ {"BeginAnchor", "InitialStarPiece", "EndAnchor"} \subseteq RuleNames
  BY Families DEF RuleNames
<1> HIDE DEF Total, Allowance, Level, Rules
<1>4. Len(Rules[r].items) = 4 BY <1>1
<1>5. Sized(r, 1) BY <1>1, <1>2, <1>3, LevelsOfLeaves, TotalsOfLeaves, CallItem
<1>6. Sized(r, 2) BY <1>1, <1>2, <1>3, LevelsOfLeaves, TotalsOfLeaves, CallItem
<1>7. Sized(r, 3) BY <1>1, <1>2, <1>3, CallItem
<1>8. Sized(r, 4) BY <1>1, <1>2, <1>3, LevelsOfLeaves, TotalsOfLeaves, CallItem
<1>9. \A i \in 1 .. 4 : Sized(r, i) BY <1>5, <1>6, <1>7, <1>8
<1> QED BY <1>2, <1>4, <1>9 DEF Fits

LEMMA PieceFits ==
  ASSUME NEW r \in Pieces, NEW a \in Atoms, Rules[r] = PieceRule(a),
         Level[r] \in 1 .. 39, Level[a] = Level[r] + 1
  PROVE  Fits(r)
<1>1. Rules[r].items = <<Item("call", <<a>>, {}), Item("optional", <<"Quantifier">>, {})>>
  BY DEF PieceRule, Rule, Call, Optional
<1>2. /\ Total(a) = -1 /\ Total(r) = 0
      /\ \A i \in Nat : Allowance(r, i) = IF i = 1 THEN 1 ELSE 0
  BY Families DEF Total, Allowance
<1>3. a \in RuleNames /\ "Quantifier" \in RuleNames
  BY Families DEF RuleNames
<1> HIDE DEF Total, Allowance, Level, Rules
<1>4. Len(Rules[r].items) = 2 BY <1>1
<1>5. Sized(r, 1) BY <1>1, <1>2, <1>3, CallItem
<1>6. Sized(r, 2) BY <1>1, <1>2, <1>3, LevelsOfLeaves, TotalsOfLeaves, CallItem
<1>7. \A i \in 1 .. 2 : Sized(r, i) BY <1>5, <1>6
<1> QED BY <1>2, <1>4, <1>7 DEF Fits

LEMMA AtomFits ==
  ASSUME NEW r \in Atoms, NEW g \in Groups, Rules[r] = AtomRule(g),
         Level[r] \in 1 .. 39, Level[g] = Level[r] + 1
  PROVE  Fits(r)
<1> DEFINE called == <<g, "Class", "Any", "Reference", "Escape", "UnsupportedEscape", "Literal">>
<1>1. Rules[r].items = <<Item("choice", called, {})>>
  BY DEF AtomRule, Rule, Choice
<1>2. /\ Total(g) = -2 /\ Total(r) = -1
      /\ \A i \in Nat : Allowance(r, i) = IF i = 1 THEN 1 ELSE -1
  BY Families DEF Total, Allowance
<1>3. /\ g \in RuleNames
      /\ {"Class", "Any", "Reference", "Escape", "UnsupportedEscape", "Literal"}
           \subseteq RuleNames
  BY Families DEF RuleNames
<1>4. Len(called) = 7 /\ called # <<>>
      /\ \A k \in 1 .. 7 : called[k] \in {g, "Class", "Any", "Reference", "Escape",
                                         "UnsupportedEscape", "Literal"}
  OBVIOUS
<1> HIDE DEF Total, Allowance, Level, Rules, called
<1>5. ASSUME NEW x \in {g, "Class", "Any", "Reference", "Escape", "UnsupportedEscape", "Literal"}
      PROVE  x \in RuleNames /\ Level[x] > Level[r] /\ Total(x) <= -2
  BY <1>2, <1>3, <1>5, LevelsOfLeaves, TotalsOfLeaves
<1>6. Len(Rules[r].items) = 1 BY <1>1
<1>7. Sized(r, 1)
  <2>1. Rules[r].items[1] = Item("choice", called, {}) BY <1>1
  <2>2. Allowance(r, 1) = 1 /\ Allowance(r, 1 + 1) = -1 BY <1>2
  <2>3. \A k \in 1 .. Len(called) :
          /\ called[k] \in RuleNames /\ Level[called[k]] > Level[r]
          /\ Total(called[k]) <= Allowance(r, 1 + 1) - Allowance(r, 1)
    BY <1>4, <1>5, <2>2
  <2> QED BY <1>4, <2>1, <2>2, <2>3, ChoiceItem
<1> QED BY <1>2, <1>6, <1>7 DEF Fits

LEMMA GroupFits ==
  ASSUME NEW r \in Groups, NEW s \in Sequences, Rules[r] = GroupRule(s),
         Level[r] \in 1 .. 37, Level[s] = Level[r] + 1
  PROVE  Fits(r)
<1>1. Rules[r].items = <<Item("call", <<"GroupOpen">>, {}), Item("call", <<s>>, {}),
                         Item("call", <<"GroupClose">>, {})>>
  BY DEF GroupRule, Rule, Call
<1>2. /\ Total(s) = 1 /\ Total(r) = -2
      /\ \A i \in 1 .. 4 :
           Allowance(r, i) = IF i = 1 THEN 1 ELSE IF i = 2 THEN -1 ELSE IF i = 3 THEN 0 ELSE -2
  BY Families DEF Total, Allowance
<1>3. s \in RuleNames /\ {"GroupOpen", "GroupClose"} \subseteq RuleNames
  BY Families DEF RuleNames
<1> HIDE DEF Total, Allowance, Level, Rules
<1>4. Len(Rules[r].items) = 3 BY <1>1
<1>5. Sized(r, 1) BY <1>1, <1>2, <1>3, LevelsOfLeaves, TotalsOfLeaves, CallItem
<1>6. Sized(r, 2) BY <1>1, <1>2, <1>3, CallItem
<1>7. Sized(r, 3) BY <1>1, <1>2, <1>3, LevelsOfLeaves, TotalsOfLeaves, CallItem
<1>8. \A i \in 1 .. 3 : Sized(r, i) BY <1>5, <1>6, <1>7
<1> QED BY <1>2, <1>4, <1>8 DEF Fits

(* A call of each of them calls a rule of the next level or of a leaf.     *)
LEMMA NestedFit ==
  ASSUME NEW r \in Sequences \cup Pieces \cup (Atoms \ {"Atom9"}) \cup Groups
  PROVE  Fits(r)
<1>1. Fits("Sequence0")
  <2>1. Rules["Sequence0"] = SequenceRule("Piece0") BY DEF Rules, RuleNames, Sequence0
  <2>2. Level["Sequence0"] = 2 /\ Level["Piece0"] = 3 BY DEF Level, RuleNames
  <2> QED BY <2>1, <2>2, SequenceFits DEF Sequences, Pieces, Atoms, Groups
<1>2. Fits("Piece0")
  <2>1. Rules["Piece0"] = PieceRule("Atom0") BY DEF Rules, RuleNames, Piece0
  <2>2. Level["Piece0"] = 3 /\ Level["Atom0"] = 4 BY DEF Level, RuleNames
  <2> QED BY <2>1, <2>2, PieceFits DEF Sequences, Pieces, Atoms, Groups
<1>3. Fits("Atom0")
  <2>1. Rules["Atom0"] = AtomRule("Group0") BY DEF Rules, RuleNames, Atom0
  <2>2. Level["Atom0"] = 4 /\ Level["Group0"] = 5 BY DEF Level, RuleNames
  <2> QED BY <2>1, <2>2, AtomFits DEF Sequences, Pieces, Atoms, Groups
<1>4. Fits("Group0")
  <2>1. Rules["Group0"] = GroupRule("Sequence1") BY DEF Rules, RuleNames, Group0
  <2>2. Level["Group0"] = 5 /\ Level["Sequence1"] = 6 BY DEF Level, RuleNames
  <2> QED BY <2>1, <2>2, GroupFits DEF Sequences, Pieces, Atoms, Groups
<1>5. Fits("Sequence1")
  <2>1. Rules["Sequence1"] = SequenceRule("Piece1") BY DEF Rules, RuleNames, Sequence1
  <2>2. Level["Sequence1"] = 6 /\ Level["Piece1"] = 7 BY DEF Level, RuleNames
  <2> QED BY <2>1, <2>2, SequenceFits DEF Sequences, Pieces, Atoms, Groups
<1>6. Fits("Piece1")
  <2>1. Rules["Piece1"] = PieceRule("Atom1") BY DEF Rules, RuleNames, Piece1
  <2>2. Level["Piece1"] = 7 /\ Level["Atom1"] = 8 BY DEF Level, RuleNames
  <2> QED BY <2>1, <2>2, PieceFits DEF Sequences, Pieces, Atoms, Groups
<1>7. Fits("Atom1")
  <2>1. Rules["Atom1"] = AtomRule("Group1") BY DEF Rules, RuleNames, Atom1
  <2>2. Level["Atom1"] = 8 /\ Level["Group1"] = 9 BY DEF Level, RuleNames
  <2> QED BY <2>1, <2>2, AtomFits DEF Sequences, Pieces, Atoms, Groups
<1>8. Fits("Group1")
  <2>1. Rules["Group1"] = GroupRule("Sequence2") BY DEF Rules, RuleNames, Group1
  <2>2. Level["Group1"] = 9 /\ Level["Sequence2"] = 10 BY DEF Level, RuleNames
  <2> QED BY <2>1, <2>2, GroupFits DEF Sequences, Pieces, Atoms, Groups
<1>9. Fits("Sequence2")
  <2>1. Rules["Sequence2"] = SequenceRule("Piece2") BY DEF Rules, RuleNames, Sequence2
  <2>2. Level["Sequence2"] = 10 /\ Level["Piece2"] = 11 BY DEF Level, RuleNames
  <2> QED BY <2>1, <2>2, SequenceFits DEF Sequences, Pieces, Atoms, Groups
<1>10. Fits("Piece2")
  <2>1. Rules["Piece2"] = PieceRule("Atom2") BY DEF Rules, RuleNames, Piece2
  <2>2. Level["Piece2"] = 11 /\ Level["Atom2"] = 12 BY DEF Level, RuleNames
  <2> QED BY <2>1, <2>2, PieceFits DEF Sequences, Pieces, Atoms, Groups
<1>11. Fits("Atom2")
  <2>1. Rules["Atom2"] = AtomRule("Group2") BY DEF Rules, RuleNames, Atom2
  <2>2. Level["Atom2"] = 12 /\ Level["Group2"] = 13 BY DEF Level, RuleNames
  <2> QED BY <2>1, <2>2, AtomFits DEF Sequences, Pieces, Atoms, Groups
<1>12. Fits("Group2")
  <2>1. Rules["Group2"] = GroupRule("Sequence3") BY DEF Rules, RuleNames, Group2
  <2>2. Level["Group2"] = 13 /\ Level["Sequence3"] = 14 BY DEF Level, RuleNames
  <2> QED BY <2>1, <2>2, GroupFits DEF Sequences, Pieces, Atoms, Groups
<1>13. Fits("Sequence3")
  <2>1. Rules["Sequence3"] = SequenceRule("Piece3") BY DEF Rules, RuleNames, Sequence3
  <2>2. Level["Sequence3"] = 14 /\ Level["Piece3"] = 15 BY DEF Level, RuleNames
  <2> QED BY <2>1, <2>2, SequenceFits DEF Sequences, Pieces, Atoms, Groups
<1>14. Fits("Piece3")
  <2>1. Rules["Piece3"] = PieceRule("Atom3") BY DEF Rules, RuleNames, Piece3
  <2>2. Level["Piece3"] = 15 /\ Level["Atom3"] = 16 BY DEF Level, RuleNames
  <2> QED BY <2>1, <2>2, PieceFits DEF Sequences, Pieces, Atoms, Groups
<1>15. Fits("Atom3")
  <2>1. Rules["Atom3"] = AtomRule("Group3") BY DEF Rules, RuleNames, Atom3
  <2>2. Level["Atom3"] = 16 /\ Level["Group3"] = 17 BY DEF Level, RuleNames
  <2> QED BY <2>1, <2>2, AtomFits DEF Sequences, Pieces, Atoms, Groups
<1>16. Fits("Group3")
  <2>1. Rules["Group3"] = GroupRule("Sequence4") BY DEF Rules, RuleNames, Group3
  <2>2. Level["Group3"] = 17 /\ Level["Sequence4"] = 18 BY DEF Level, RuleNames
  <2> QED BY <2>1, <2>2, GroupFits DEF Sequences, Pieces, Atoms, Groups
<1>17. Fits("Sequence4")
  <2>1. Rules["Sequence4"] = SequenceRule("Piece4") BY DEF Rules, RuleNames, Sequence4
  <2>2. Level["Sequence4"] = 18 /\ Level["Piece4"] = 19 BY DEF Level, RuleNames
  <2> QED BY <2>1, <2>2, SequenceFits DEF Sequences, Pieces, Atoms, Groups
<1>18. Fits("Piece4")
  <2>1. Rules["Piece4"] = PieceRule("Atom4") BY DEF Rules, RuleNames, Piece4
  <2>2. Level["Piece4"] = 19 /\ Level["Atom4"] = 20 BY DEF Level, RuleNames
  <2> QED BY <2>1, <2>2, PieceFits DEF Sequences, Pieces, Atoms, Groups
<1>19. Fits("Atom4")
  <2>1. Rules["Atom4"] = AtomRule("Group4") BY DEF Rules, RuleNames, Atom4
  <2>2. Level["Atom4"] = 20 /\ Level["Group4"] = 21 BY DEF Level, RuleNames
  <2> QED BY <2>1, <2>2, AtomFits DEF Sequences, Pieces, Atoms, Groups
<1>20. Fits("Group4")
  <2>1. Rules["Group4"] = GroupRule("Sequence5") BY DEF Rules, RuleNames, Group4
  <2>2. Level["Group4"] = 21 /\ Level["Sequence5"] = 22 BY DEF Level, RuleNames
  <2> QED BY <2>1, <2>2, GroupFits DEF Sequences, Pieces, Atoms, Groups
<1>21. Fits("Sequence5")
  <2>1. Rules["Sequence5"] = SequenceRule("Piece5") BY DEF Rules, RuleNames, Sequence5
  <2>2. Level["Sequence5"] = 22 /\ Level["Piece5"] = 23 BY DEF Level, RuleNames
  <2> QED BY <2>1, <2>2, SequenceFits DEF Sequences, Pieces, Atoms, Groups
<1>22. Fits("Piece5")
  <2>1. Rules["Piece5"] = PieceRule("Atom5") BY DEF Rules, RuleNames, Piece5
  <2>2. Level["Piece5"] = 23 /\ Level["Atom5"] = 24 BY DEF Level, RuleNames
  <2> QED BY <2>1, <2>2, PieceFits DEF Sequences, Pieces, Atoms, Groups
<1>23. Fits("Atom5")
  <2>1. Rules["Atom5"] = AtomRule("Group5") BY DEF Rules, RuleNames, Atom5
  <2>2. Level["Atom5"] = 24 /\ Level["Group5"] = 25 BY DEF Level, RuleNames
  <2> QED BY <2>1, <2>2, AtomFits DEF Sequences, Pieces, Atoms, Groups
<1>24. Fits("Group5")
  <2>1. Rules["Group5"] = GroupRule("Sequence6") BY DEF Rules, RuleNames, Group5
  <2>2. Level["Group5"] = 25 /\ Level["Sequence6"] = 26 BY DEF Level, RuleNames
  <2> QED BY <2>1, <2>2, GroupFits DEF Sequences, Pieces, Atoms, Groups
<1>25. Fits("Sequence6")
  <2>1. Rules["Sequence6"] = SequenceRule("Piece6") BY DEF Rules, RuleNames, Sequence6
  <2>2. Level["Sequence6"] = 26 /\ Level["Piece6"] = 27 BY DEF Level, RuleNames
  <2> QED BY <2>1, <2>2, SequenceFits DEF Sequences, Pieces, Atoms, Groups
<1>26. Fits("Piece6")
  <2>1. Rules["Piece6"] = PieceRule("Atom6") BY DEF Rules, RuleNames, Piece6
  <2>2. Level["Piece6"] = 27 /\ Level["Atom6"] = 28 BY DEF Level, RuleNames
  <2> QED BY <2>1, <2>2, PieceFits DEF Sequences, Pieces, Atoms, Groups
<1>27. Fits("Atom6")
  <2>1. Rules["Atom6"] = AtomRule("Group6") BY DEF Rules, RuleNames, Atom6
  <2>2. Level["Atom6"] = 28 /\ Level["Group6"] = 29 BY DEF Level, RuleNames
  <2> QED BY <2>1, <2>2, AtomFits DEF Sequences, Pieces, Atoms, Groups
<1>28. Fits("Group6")
  <2>1. Rules["Group6"] = GroupRule("Sequence7") BY DEF Rules, RuleNames, Group6
  <2>2. Level["Group6"] = 29 /\ Level["Sequence7"] = 30 BY DEF Level, RuleNames
  <2> QED BY <2>1, <2>2, GroupFits DEF Sequences, Pieces, Atoms, Groups
<1>29. Fits("Sequence7")
  <2>1. Rules["Sequence7"] = SequenceRule("Piece7") BY DEF Rules, RuleNames, Sequence7
  <2>2. Level["Sequence7"] = 30 /\ Level["Piece7"] = 31 BY DEF Level, RuleNames
  <2> QED BY <2>1, <2>2, SequenceFits DEF Sequences, Pieces, Atoms, Groups
<1>30. Fits("Piece7")
  <2>1. Rules["Piece7"] = PieceRule("Atom7") BY DEF Rules, RuleNames, Piece7
  <2>2. Level["Piece7"] = 31 /\ Level["Atom7"] = 32 BY DEF Level, RuleNames
  <2> QED BY <2>1, <2>2, PieceFits DEF Sequences, Pieces, Atoms, Groups
<1>31. Fits("Atom7")
  <2>1. Rules["Atom7"] = AtomRule("Group7") BY DEF Rules, RuleNames, Atom7
  <2>2. Level["Atom7"] = 32 /\ Level["Group7"] = 33 BY DEF Level, RuleNames
  <2> QED BY <2>1, <2>2, AtomFits DEF Sequences, Pieces, Atoms, Groups
<1>32. Fits("Group7")
  <2>1. Rules["Group7"] = GroupRule("Sequence8") BY DEF Rules, RuleNames, Group7
  <2>2. Level["Group7"] = 33 /\ Level["Sequence8"] = 34 BY DEF Level, RuleNames
  <2> QED BY <2>1, <2>2, GroupFits DEF Sequences, Pieces, Atoms, Groups
<1>33. Fits("Sequence8")
  <2>1. Rules["Sequence8"] = SequenceRule("Piece8") BY DEF Rules, RuleNames, Sequence8
  <2>2. Level["Sequence8"] = 34 /\ Level["Piece8"] = 35 BY DEF Level, RuleNames
  <2> QED BY <2>1, <2>2, SequenceFits DEF Sequences, Pieces, Atoms, Groups
<1>34. Fits("Piece8")
  <2>1. Rules["Piece8"] = PieceRule("Atom8") BY DEF Rules, RuleNames, Piece8
  <2>2. Level["Piece8"] = 35 /\ Level["Atom8"] = 36 BY DEF Level, RuleNames
  <2> QED BY <2>1, <2>2, PieceFits DEF Sequences, Pieces, Atoms, Groups
<1>35. Fits("Atom8")
  <2>1. Rules["Atom8"] = AtomRule("Group8") BY DEF Rules, RuleNames, Atom8
  <2>2. Level["Atom8"] = 36 /\ Level["Group8"] = 37 BY DEF Level, RuleNames
  <2> QED BY <2>1, <2>2, AtomFits DEF Sequences, Pieces, Atoms, Groups
<1>36. Fits("Group8")
  <2>1. Rules["Group8"] = GroupRule("Sequence9") BY DEF Rules, RuleNames, Group8
  <2>2. Level["Group8"] = 37 /\ Level["Sequence9"] = 38 BY DEF Level, RuleNames
  <2> QED BY <2>1, <2>2, GroupFits DEF Sequences, Pieces, Atoms, Groups
<1>37. Fits("Sequence9")
  <2>1. Rules["Sequence9"] = SequenceRule("Piece9") BY DEF Rules, RuleNames, Sequence9
  <2>2. Level["Sequence9"] = 38 /\ Level["Piece9"] = 39 BY DEF Level, RuleNames
  <2> QED BY <2>1, <2>2, SequenceFits DEF Sequences, Pieces, Atoms, Groups
<1>38. Fits("Piece9")
  <2>1. Rules["Piece9"] = PieceRule("Atom9") BY DEF Rules, RuleNames, Piece9
  <2>2. Level["Piece9"] = 39 /\ Level["Atom9"] = 40 BY DEF Level, RuleNames
  <2> QED BY <2>1, <2>2, PieceFits DEF Sequences, Pieces, Atoms, Groups
<1> QED
  BY <1>1, <1>2, <1>3, <1>4, <1>5, <1>6, <1>7, <1>8, <1>9, <1>10, <1>11, <1>12, <1>13,
     <1>14, <1>15, <1>16, <1>17, <1>18, <1>19, <1>20, <1>21, <1>22, <1>23, <1>24, <1>25,
     <1>26, <1>27, <1>28, <1>29, <1>30, <1>31, <1>32, <1>33, <1>34, <1>35, <1>36, <1>37,
     <1>38
  DEF Sequences, Pieces, Atoms, Groups

(* The rules that are there once                                           *)
LEMMA FlatFit ==
  ASSUME NEW r \in RuleNames \ (Sequences \cup Pieces \cup (Atoms \ {"Atom9"}) \cup Groups)
  PROVE  Fits(r)
<1> USE DEF Sized, Total, Allowance, Sequences, Pieces, Atoms, Groups, Callers, Item
<1>1. Fits("Input")
  <2>1. Rules["Input"] = Input BY DEF Rules, RuleNames
  <2>2. Level["Input"] = 1 /\ Level["Sequence0"] = 2
    BY DEF Level, RuleNames
  <2>3. Sized("Input", 1) BY <2>1, <2>2 DEF Input, Call, Rule, RuleNames
  <2>4. Sized("Input", 2) BY <2>1, <2>2 DEF Input, Take, Rule
  <2>5. /\ Len(Rules["Input"].items) = 2
        /\ Allowance("Input", 3) = Total("Input")
    BY <2>1 DEF Input, Rule
  <2> HIDE DEF Sized, Total, Allowance
  <2> QED BY <2>2, <2>3, <2>4, <2>5 DEF Fits
<1>2. Fits("Atom9")
  <2>1. Rules["Atom9"] = Atom9 BY DEF Rules, RuleNames
  <2>2. Level["Atom9"] = 40 /\ Level["DepthOverflow"] = 41 /\ Level["Class"] = 41
        /\ Level["Any"] = 44 /\ Level["Reference"] = 44 /\ Level["Escape"] = 44
        /\ Level["UnsupportedEscape"] = 44 /\ Level["Literal"] = 44
    BY DEF Level, RuleNames
  <2>3. Sized("Atom9", 1)
    <3> DEFINE rs == <<"DepthOverflow", "Class", "Any", "Reference", "Escape",
                       "UnsupportedEscape", "Literal">>
    <3>1. Rules["Atom9"].items[1] = Item("choice", rs, {})
      BY <2>1 DEF Atom9, AtomRule, Choice, Rule
    <3>2. Len(rs) = 7 OBVIOUS
    <3>3. ASSUME NEW a \in 1 .. 7
          PROVE  /\ rs[a] \in RuleNames /\ Level[rs[a]] > Level["Atom9"]
                 /\ Total(rs[a]) <= Allowance("Atom9", 1 + 1) - Allowance("Atom9", 1)
      BY <2>2 DEF RuleNames
    <3> HIDE DEF rs, Sized, Item
    <3> QED BY <3>1, <3>2, <3>3, ChoiceItem
  <2>4. /\ Len(Rules["Atom9"].items) = 1
        /\ Allowance("Atom9", 2) = Total("Atom9")
    BY <2>1 DEF Atom9, AtomRule, Rule
  <2> HIDE DEF Sized, Total, Allowance
  <2> QED BY <2>2, <2>3, <2>4 DEF Fits
<1>3. Fits("DepthOverflow")
  <2>1. Rules["DepthOverflow"] = DepthOverflow BY DEF Rules, RuleNames
  <2>2. Level["DepthOverflow"] = 41 /\ Level["GroupOpen"] = 44
    BY DEF Level, RuleNames
  <2>3. Sized("DepthOverflow", 1) BY <2>1, <2>2 DEF DepthOverflow, Call, Rule, RuleNames
  <2>4. /\ Len(Rules["DepthOverflow"].items) = 1
        /\ Allowance("DepthOverflow", 2) = Total("DepthOverflow")
    BY <2>1 DEF DepthOverflow, Rule
  <2> HIDE DEF Sized, Total, Allowance
  <2> QED BY <2>2, <2>3, <2>4 DEF Fits
<1>4. Fits("BeginAnchor")
  <2>1. Rules["BeginAnchor"] = BeginAnchor BY DEF Rules, RuleNames
  <2>2. Level["BeginAnchor"] = 44
    BY DEF Level, RuleNames
  <2> QED BY <2>1, <2>2 DEF Fits, BeginAnchor, Take, Rule
<1>5. Fits("EndAnchor")
  <2>1. Rules["EndAnchor"] = EndAnchor BY DEF Rules, RuleNames
  <2>2. Level["EndAnchor"] = 44
    BY DEF Level, RuleNames
  <2> QED BY <2>1, <2>2 DEF Fits, EndAnchor, Take, Rule
<1>6. Fits("InitialStarPiece")
  <2>1. Rules["InitialStarPiece"] = InitialStarPiece BY DEF Rules, RuleNames
  <2>2. Level["InitialStarPiece"] = 40 /\ Level["InitialStar"] = 44 /\ Level["Quantifier"] = 41
    BY DEF Level, RuleNames
  <2>3. Sized("InitialStarPiece", 1) BY <2>1, <2>2 DEF InitialStarPiece, Call, Rule, RuleNames
  <2>4. Sized("InitialStarPiece", 2) BY <2>1, <2>2 DEF InitialStarPiece, Optional, Rule, RuleNames
  <2>5. /\ Len(Rules["InitialStarPiece"].items) = 2
        /\ Allowance("InitialStarPiece", 3) = Total("InitialStarPiece")
    BY <2>1 DEF InitialStarPiece, Rule
  <2> HIDE DEF Sized, Total, Allowance
  <2> QED BY <2>2, <2>3, <2>4, <2>5 DEF Fits
<1>7. Fits("InitialStar")
  <2>1. Rules["InitialStar"] = InitialStar BY DEF Rules, RuleNames
  <2>2. Level["InitialStar"] = 44
    BY DEF Level, RuleNames
  <2> QED BY <2>1, <2>2 DEF Fits, InitialStar, Take, Rule
<1>8. Fits("GroupOpen")
  <2>1. Rules["GroupOpen"] = GroupOpen BY DEF Rules, RuleNames
  <2>2. Level["GroupOpen"] = 44
    BY DEF Level, RuleNames
  <2> QED BY <2>1, <2>2 DEF Fits, GroupOpen, Take, Rule
<1>9. Fits("GroupClose")
  <2>1. Rules["GroupClose"] = GroupClose BY DEF Rules, RuleNames
  <2>2. Level["GroupClose"] = 44
    BY DEF Level, RuleNames
  <2> QED BY <2>1, <2>2 DEF Fits, GroupClose, Take, Rule
<1>10. Fits("Any")
  <2>1. Rules["Any"] = Any BY DEF Rules, RuleNames
  <2>2. Level["Any"] = 44
    BY DEF Level, RuleNames
  <2> QED BY <2>1, <2>2 DEF Fits, Any, Take, Rule
<1>11. Fits("Reference")
  <2>1. Rules["Reference"] = Reference BY DEF Rules, RuleNames
  <2>2. Level["Reference"] = 44
    BY DEF Level, RuleNames
  <2> QED BY <2>1, <2>2 DEF Fits, Reference, Take, Rule
<1>12. Fits("Escape")
  <2>1. Rules["Escape"] = Escape BY DEF Rules, RuleNames
  <2>2. Level["Escape"] = 44
    BY DEF Level, RuleNames
  <2> QED BY <2>1, <2>2 DEF Fits, Escape, Take, Rule
<1>13. Fits("UnsupportedEscape")
  <2>1. Rules["UnsupportedEscape"] = UnsupportedEscape BY DEF Rules, RuleNames
  <2>2. Level["UnsupportedEscape"] = 44
    BY DEF Level, RuleNames
  <2> QED BY <2>1, <2>2 DEF Fits, UnsupportedEscape, Take, Rule
<1>14. Fits("Literal")
  <2>1. Rules["Literal"] = Literal BY DEF Rules, RuleNames
  <2>2. Level["Literal"] = 44
    BY DEF Level, RuleNames
  <2> QED BY <2>1, <2>2 DEF Fits, Literal, Take, Rule
<1>15. Fits("Quantifier")
  <2>1. Rules["Quantifier"] = Quantifier BY DEF Rules, RuleNames
  <2>2. Level["Quantifier"] = 41 /\ Level["StarRepeat"] = 44 /\ Level["ExactRepeat"] = 42
        /\ Level["OpenRepeat"] = 42 /\ Level["BoundedRepeat"] = 42
    BY DEF Level, RuleNames
  <2>3. Sized("Quantifier", 1) BY <2>1, <2>2 DEF Quantifier, Choice, Rule, RuleNames
  <2>4. /\ Len(Rules["Quantifier"].items) = 1
        /\ Allowance("Quantifier", 2) = Total("Quantifier")
    BY <2>1 DEF Quantifier, Rule
  <2> HIDE DEF Sized, Total, Allowance
  <2> QED BY <2>2, <2>3, <2>4 DEF Fits
<1>16. Fits("StarRepeat")
  <2>1. Rules["StarRepeat"] = StarRepeat BY DEF Rules, RuleNames
  <2>2. Level["StarRepeat"] = 44
    BY DEF Level, RuleNames
  <2> QED BY <2>1, <2>2 DEF Fits, StarRepeat, Take, Rule
<1>17. Fits("ExactRepeat")
  <2>1. Rules["ExactRepeat"] = ExactRepeat BY DEF Rules, RuleNames
  <2>2. Level["ExactRepeat"] = 42 /\ Level["Number"] = 44
    BY DEF Level, RuleNames
  <2>3. Sized("ExactRepeat", 1) BY <2>1, <2>2 DEF ExactRepeat, Take, Rule
  <2>4. Sized("ExactRepeat", 2) BY <2>1, <2>2 DEF ExactRepeat, Take, Rule
  <2>5. Sized("ExactRepeat", 3) BY <2>1, <2>2 DEF ExactRepeat, Call, Rule, RuleNames
  <2>6. Sized("ExactRepeat", 4) BY <2>1, <2>2 DEF ExactRepeat, Take, Rule
  <2>7. Sized("ExactRepeat", 5) BY <2>1, <2>2 DEF ExactRepeat, Take, Rule
  <2>8. /\ Len(Rules["ExactRepeat"].items) = 5
        /\ Allowance("ExactRepeat", 6) = Total("ExactRepeat")
    BY <2>1 DEF ExactRepeat, Rule
  <2> HIDE DEF Sized, Total, Allowance
  <2> QED BY <2>2, <2>3, <2>4, <2>5, <2>6, <2>7, <2>8 DEF Fits
<1>18. Fits("OpenRepeat")
  <2>1. Rules["OpenRepeat"] = OpenRepeat BY DEF Rules, RuleNames
  <2>2. Level["OpenRepeat"] = 42 /\ Level["Number"] = 44
    BY DEF Level, RuleNames
  <2>3. Sized("OpenRepeat", 1) BY <2>1, <2>2 DEF OpenRepeat, Take, Rule
  <2>4. Sized("OpenRepeat", 2) BY <2>1, <2>2 DEF OpenRepeat, Take, Rule
  <2>5. Sized("OpenRepeat", 3) BY <2>1, <2>2 DEF OpenRepeat, Call, Rule, RuleNames
  <2>6. Sized("OpenRepeat", 4) BY <2>1, <2>2 DEF OpenRepeat, Take, Rule
  <2>7. Sized("OpenRepeat", 5) BY <2>1, <2>2 DEF OpenRepeat, Take, Rule
  <2>8. Sized("OpenRepeat", 6) BY <2>1, <2>2 DEF OpenRepeat, Take, Rule
  <2>9. /\ Len(Rules["OpenRepeat"].items) = 6
        /\ Allowance("OpenRepeat", 7) = Total("OpenRepeat")
    BY <2>1 DEF OpenRepeat, Rule
  <2> HIDE DEF Sized, Total, Allowance
  <2> QED BY <2>2, <2>3, <2>4, <2>5, <2>6, <2>7, <2>8, <2>9 DEF Fits
<1>19. Fits("BoundedRepeat")
  <2>1. Rules["BoundedRepeat"] = BoundedRepeat BY DEF Rules, RuleNames
  <2>2. Level["BoundedRepeat"] = 42 /\ Level["Number"] = 44
    BY DEF Level, RuleNames
  <2>3. Sized("BoundedRepeat", 1) BY <2>1, <2>2 DEF BoundedRepeat, Take, Rule
  <2>4. Sized("BoundedRepeat", 2) BY <2>1, <2>2 DEF BoundedRepeat, Take, Rule
  <2>5. Sized("BoundedRepeat", 3) BY <2>1, <2>2 DEF BoundedRepeat, Call, Rule, RuleNames
  <2>6. Sized("BoundedRepeat", 4) BY <2>1, <2>2 DEF BoundedRepeat, Take, Rule
  <2>7. Sized("BoundedRepeat", 5) BY <2>1, <2>2 DEF BoundedRepeat, Call, Rule, RuleNames
  <2>8. Sized("BoundedRepeat", 6) BY <2>1, <2>2 DEF BoundedRepeat, Take, Rule
  <2>9. Sized("BoundedRepeat", 7) BY <2>1, <2>2 DEF BoundedRepeat, Take, Rule
  <2>10. /\ Len(Rules["BoundedRepeat"].items) = 7
        /\ Allowance("BoundedRepeat", 8) = Total("BoundedRepeat")
    BY <2>1 DEF BoundedRepeat, Rule
  <2> HIDE DEF Sized, Total, Allowance
  <2> QED BY <2>2, <2>3, <2>4, <2>5, <2>6, <2>7, <2>8, <2>9, <2>10 DEF Fits
<1>20. Fits("Number")
  <2>1. Rules["Number"] = Number BY DEF Rules, RuleNames
  <2>2. Level["Number"] = 44
    BY DEF Level, RuleNames
  <2> QED BY <2>1, <2>2 DEF Fits, Number, TakeAll, Take, Rule
<1>21. Fits("Class")
  <2>1. Rules["Class"] = Class BY DEF Rules, RuleNames
  <2>2. Level["Class"] = 41 /\ Level["ClassOpen"] = 44 /\ Level["Negation"] = 44
        /\ Level["InitialCloseRange"] = 42 /\ Level["InitialClose"] = 44
        /\ Level["ClassElement"] = 42
    BY DEF Level, RuleNames
  <2>3. Sized("Class", 1) BY <2>1, <2>2 DEF Class, Call, Rule, RuleNames
  <2>4. Sized("Class", 2) BY <2>1, <2>2 DEF Class, Optional, Rule, RuleNames
  <2>5. Sized("Class", 3)
    <3> DEFINE rs == <<"InitialCloseRange", "InitialClose", "ClassElement">>
    <3>1. Rules["Class"].items[3] = Item("choice", rs, {})
      BY <2>1 DEF Class, Choice, Rule
    <3>2. Len(rs) = 3 OBVIOUS
    <3>3. ASSUME NEW a \in 1 .. 3
          PROVE  /\ rs[a] \in RuleNames /\ Level[rs[a]] > Level["Class"]
                 /\ Total(rs[a]) <= Allowance("Class", 3 + 1) - Allowance("Class", 3)
      BY <2>2 DEF RuleNames
    <3> HIDE DEF rs, Sized, Item
    <3> QED BY <3>1, <3>2, <3>3, ChoiceItem
  <2>6. Sized("Class", 4) BY <2>1, <2>2 DEF Class, Star, Rule, RuleNames
  <2>7. Sized("Class", 5) BY <2>1, <2>2 DEF Class, Take, Rule
  <2>8. /\ Len(Rules["Class"].items) = 5
        /\ Allowance("Class", 6) = Total("Class")
    BY <2>1 DEF Class, Rule
  <2> HIDE DEF Sized, Total, Allowance
  <2> QED BY <2>2, <2>3, <2>4, <2>5, <2>6, <2>7, <2>8 DEF Fits
<1>22. Fits("ClassOpen")
  <2>1. Rules["ClassOpen"] = ClassOpen BY DEF Rules, RuleNames
  <2>2. Level["ClassOpen"] = 44
    BY DEF Level, RuleNames
  <2> QED BY <2>1, <2>2 DEF Fits, ClassOpen, Take, Rule
<1>23. Fits("Negation")
  <2>1. Rules["Negation"] = Negation BY DEF Rules, RuleNames
  <2>2. Level["Negation"] = 44
    BY DEF Level, RuleNames
  <2> QED BY <2>1, <2>2 DEF Fits, Negation, Take, Rule
<1>24. Fits("InitialCloseRange")
  <2>1. Rules["InitialCloseRange"] = InitialCloseRange BY DEF Rules, RuleNames
  <2>2. Level["InitialCloseRange"] = 42 /\ Level["ClassScalar"] = 44
    BY DEF Level, RuleNames
  <2>3. Sized("InitialCloseRange", 1) BY <2>1, <2>2 DEF InitialCloseRange, Take, Rule
  <2>4. Sized("InitialCloseRange", 2) BY <2>1, <2>2 DEF InitialCloseRange, Take, Rule
  <2>5. Sized("InitialCloseRange", 3) BY <2>1, <2>2 DEF InitialCloseRange, Call, Rule, RuleNames
  <2>6. /\ Len(Rules["InitialCloseRange"].items) = 3
        /\ Allowance("InitialCloseRange", 4) = Total("InitialCloseRange")
    BY <2>1 DEF InitialCloseRange, Rule
  <2> HIDE DEF Sized, Total, Allowance
  <2> QED BY <2>2, <2>3, <2>4, <2>5, <2>6 DEF Fits
<1>25. Fits("InitialClose")
  <2>1. Rules["InitialClose"] = InitialClose BY DEF Rules, RuleNames
  <2>2. Level["InitialClose"] = 44
    BY DEF Level, RuleNames
  <2> QED BY <2>1, <2>2 DEF Fits, InitialClose, Take, Rule
<1>26. Fits("ClassElement")
  <2>1. Rules["ClassElement"] = ClassElement BY DEF Rules, RuleNames
  <2>2. Level["ClassElement"] = 42 /\ Level["NamedClass"] = 43 /\ Level["Collating"] = 43
        /\ Level["Equivalence"] = 43 /\ Level["Range"] = 43 /\ Level["ClassScalar"] = 44
    BY DEF Level, RuleNames
  <2>3. Sized("ClassElement", 1)
    <3> DEFINE rs == <<"NamedClass", "Collating", "Equivalence", "Range", "ClassScalar">>
    <3>1. Rules["ClassElement"].items[1] = Item("choice", rs, {})
      BY <2>1 DEF ClassElement, Choice, Rule
    <3>2. Len(rs) = 5 OBVIOUS
    <3>3. ASSUME NEW a \in 1 .. 5
          PROVE  /\ rs[a] \in RuleNames /\ Level[rs[a]] > Level["ClassElement"]
                 /\ Total(rs[a]) <= Allowance("ClassElement", 1 + 1) - Allowance("ClassElement", 1)
      <4>1. rs[a] \in RuleNames BY DEF RuleNames
      <4>2. Level[rs[a]] > Level["ClassElement"] BY <2>2
      <4>3. Total(rs[a]) = -2 OBVIOUS
      <4>4. Allowance("ClassElement", 1 + 1) = -1 /\ Allowance("ClassElement", 1) = 1 OBVIOUS
      <4> HIDE DEF rs, Total, Allowance
      <4> QED BY <4>1, <4>2, <4>3, <4>4
    <3>4. Allowance("ClassElement", 1) <= 1 OBVIOUS
    <3> HIDE DEF rs, Sized, Item, Total, Allowance
    <3>5. /\ Len(rs) \in 1 .. 7
          /\ \A a \in 1 .. Len(rs) :
               /\ rs[a] \in RuleNames /\ Level[rs[a]] > Level["ClassElement"]
               /\ Total(rs[a]) <= Allowance("ClassElement", 1 + 1) - Allowance("ClassElement", 1)
      BY <3>2, <3>3
    <3> QED BY <3>1, <3>4, <3>5, ChoiceItem, Zenon
  <2>4. /\ Len(Rules["ClassElement"].items) = 1
        /\ Allowance("ClassElement", 2) = Total("ClassElement")
    BY <2>1 DEF ClassElement, Rule
  <2> HIDE DEF Sized, Total, Allowance
  <2> QED BY <2>2, <2>3, <2>4 DEF Fits
<1>27. Fits("NamedClass")
  <2>1. Rules["NamedClass"] = NamedClass BY DEF Rules, RuleNames
  <2>2. Level["NamedClass"] = 43 /\ Level["ClassName"] = 44
    BY DEF Level, RuleNames
  <2>3. Sized("NamedClass", 1) BY <2>1, <2>2 DEF NamedClass, Take, Rule
  <2>4. Sized("NamedClass", 2) BY <2>1, <2>2 DEF NamedClass, Take, Rule
  <2>5. Sized("NamedClass", 3) BY <2>1, <2>2 DEF NamedClass, Call, Rule, RuleNames
  <2>6. Sized("NamedClass", 4) BY <2>1, <2>2 DEF NamedClass, Take, Rule
  <2>7. Sized("NamedClass", 5) BY <2>1, <2>2 DEF NamedClass, Take, Rule
  <2>8. /\ Len(Rules["NamedClass"].items) = 5
        /\ Allowance("NamedClass", 6) = Total("NamedClass")
    BY <2>1 DEF NamedClass, Rule
  <2> HIDE DEF Sized, Total, Allowance
  <2> QED BY <2>2, <2>3, <2>4, <2>5, <2>6, <2>7, <2>8 DEF Fits
<1>28. Fits("ClassName")
  <2>1. Rules["ClassName"] = ClassName BY DEF Rules, RuleNames
  <2>2. Level["ClassName"] = 44
    BY DEF Level, RuleNames
  <2> QED BY <2>1, <2>2 DEF Fits, ClassName, TakeAll, Take, Rule
<1>29. Fits("Collating")
  <2>1. Rules["Collating"] = Collating BY DEF Rules, RuleNames
  <2>2. Level["Collating"] = 43 /\ Level["CollatingScalar"] = 44
    BY DEF Level, RuleNames
  <2>3. Sized("Collating", 1) BY <2>1, <2>2 DEF Collating, Take, Rule
  <2>4. Sized("Collating", 2) BY <2>1, <2>2 DEF Collating, Take, Rule
  <2>5. Sized("Collating", 3) BY <2>1, <2>2 DEF Collating, Plus, Rule, RuleNames
  <2>6. Sized("Collating", 4) BY <2>1, <2>2 DEF Collating, Take, Rule
  <2>7. Sized("Collating", 5) BY <2>1, <2>2 DEF Collating, Take, Rule
  <2>8. /\ Len(Rules["Collating"].items) = 5
        /\ Allowance("Collating", 6) = Total("Collating")
    BY <2>1 DEF Collating, Rule
  <2> HIDE DEF Sized, Total, Allowance
  <2> QED BY <2>2, <2>3, <2>4, <2>5, <2>6, <2>7, <2>8 DEF Fits
<1>30. Fits("Equivalence")
  <2>1. Rules["Equivalence"] = Equivalence BY DEF Rules, RuleNames
  <2>2. Level["Equivalence"] = 43 /\ Level["EquivalenceScalar"] = 44
    BY DEF Level, RuleNames
  <2>3. Sized("Equivalence", 1) BY <2>1, <2>2 DEF Equivalence, Take, Rule
  <2>4. Sized("Equivalence", 2) BY <2>1, <2>2 DEF Equivalence, Take, Rule
  <2>5. Sized("Equivalence", 3) BY <2>1, <2>2 DEF Equivalence, Plus, Rule, RuleNames
  <2>6. Sized("Equivalence", 4) BY <2>1, <2>2 DEF Equivalence, Take, Rule
  <2>7. Sized("Equivalence", 5) BY <2>1, <2>2 DEF Equivalence, Take, Rule
  <2>8. /\ Len(Rules["Equivalence"].items) = 5
        /\ Allowance("Equivalence", 6) = Total("Equivalence")
    BY <2>1 DEF Equivalence, Rule
  <2> HIDE DEF Sized, Total, Allowance
  <2> QED BY <2>2, <2>3, <2>4, <2>5, <2>6, <2>7, <2>8 DEF Fits
<1>31. Fits("CollatingScalar")
  <2>1. Rules["CollatingScalar"] = CollatingScalar BY DEF Rules, RuleNames
  <2>2. Level["CollatingScalar"] = 44
    BY DEF Level, RuleNames
  <2> QED BY <2>1, <2>2 DEF Fits, CollatingScalar, Take, Rule, Plain
<1>32. Fits("EquivalenceScalar")
  <2>1. Rules["EquivalenceScalar"] = EquivalenceScalar BY DEF Rules, RuleNames
  <2>2. Level["EquivalenceScalar"] = 44
    BY DEF Level, RuleNames
  <2> QED BY <2>1, <2>2 DEF Fits, EquivalenceScalar, Take, Rule, Plain
<1>33. Fits("Range")
  <2>1. Rules["Range"] = Range BY DEF Rules, RuleNames
  <2>2. Level["Range"] = 43 /\ Level["ClassScalar"] = 44
    BY DEF Level, RuleNames
  <2>3. Sized("Range", 1) BY <2>1, <2>2 DEF Range, Call, Rule, RuleNames
  <2>4. Sized("Range", 2) BY <2>1, <2>2 DEF Range, Take, Rule
  <2>5. Sized("Range", 3) BY <2>1, <2>2 DEF Range, Call, Rule, RuleNames
  <2>6. /\ Len(Rules["Range"].items) = 3
        /\ Allowance("Range", 4) = Total("Range")
    BY <2>1 DEF Range, Rule
  <2> HIDE DEF Sized, Total, Allowance
  <2> QED BY <2>2, <2>3, <2>4, <2>5, <2>6 DEF Fits
<1>34. Fits("ClassScalar")
  <2>1. Rules["ClassScalar"] = ClassScalar BY DEF Rules, RuleNames
  <2>2. Level["ClassScalar"] = 44
    BY DEF Level, RuleNames
  <2> QED BY <2>1, <2>2 DEF Fits, ClassScalar, Take, Rule, Plain
<1> QED
  BY <1>1, <1>2, <1>3, <1>4, <1>5, <1>6, <1>7, <1>8, <1>9, <1>10, <1>11, <1>12, <1>13,
     <1>14, <1>15, <1>16, <1>17, <1>18, <1>19, <1>20, <1>21, <1>22, <1>23, <1>24, <1>25,
     <1>26, <1>27, <1>28, <1>29, <1>30, <1>31, <1>32, <1>33, <1>34
  DEF RuleNames

(* The grammar keeps to levels and allowances.                             *)
LEMMA EveryRuleFits == ASSUME NEW r \in RuleNames PROVE Fits(r)
BY NestedFit, FlatFit
-----------------------------------------------------------------------------
(* A call that has called, and whom                                        *)
Calling(f) == f.item <= Len(Items(f)) /\ Items(f)[f.item].op \in Callers
Callee(f)  == Items(f)[f.item].rules[f.alternative]

(* What is so of the call f that is number k of the stack: ...             *)
Room(f, k) ==
  /\ f.rule \in RuleNames /\ f.item \in 1 .. Len(Items(f)) + 1
  /\ f.alternative \in Nat \ {0}
  /\ Calling(f) => f.alternative <= Len(Items(f)[f.item].rules)
  /\ k <= Level[f.rule] /\ f.start <= f.at
  /\ Count(f.mark) <= 4 * f.start + k - 1
  /\ Count(f.here) <= Count(f.mark) + 4 * (f.at - f.start) + Allowance(f.rule, f.item)

(* ... of a call f and the call g it waits for ...                         *)
Linked(f, g) ==
  /\ Calling(f) /\ g.rule = Callee(f)
  /\ g.start = f.at /\ Count(g.mark) <= Count(f.here)

(* ... and of the innermost call f, when the parser is at p with c nodes.  *)
Due(f, answer, p, c) ==
  /\ answer \in {"none", "failed"} => p = f.at /\ c <= Count(f.here)
  /\ answer = "failed" => Calling(f)
  /\ answer = "ok" => /\ Calling(f) /\ f.at <= p
                      /\ c <= Count(f.here) + 4 * (p - f.at) + Total(Callee(f))

LimitsInv ==
  /\ returned \in {"none", "ok", "failed"}
  /\ \A k \in 1 .. Len(stack) : Room(stack[k], k) /\ stack[k].at <= Len(tokens)
  /\ \A k \in 1 .. Len(stack) - 1 : Linked(stack[k], stack[k + 1])
  /\ stack # <<>> => Due(Top, returned, position, Len(sink.nodes))
  /\ Len(stack) = 0 =>
       Len(sink.nodes) <= 4 * position + (IF returned = "none" THEN 0 ELSE 2)
  /\ position <= Len(tokens) /\ tokens \in Patterns
-----------------------------------------------------------------------------
(* What a rule may have at an item                                         *)
LEMMA AllowanceSmall ==
  ASSUME NEW r, NEW i
  PROVE  Allowance(r, i) \in -5 .. 2 /\ Total(r) \in -5 .. 2 /\ Allowance(r, 1) = 1
BY DEF Allowance, Total

(* A call whose item is i fits its rule there.                             *)
LEMMA ItemFits ==
  ASSUME NEW f, f.rule \in RuleNames, f.item \in 1 .. Len(Items(f))
  PROVE  Sized(f.rule, f.item) /\ Len(Items(f)) \in Nat
<1>1. Fits(f.rule) BY EveryRuleFits
<1> QED BY <1>1 DEF Fits, Items

(* Whom a call may call: a rule of a higher level, with few nodes          *)
LEMMA CalleeFits ==
  ASSUME NEW f, NEW k, Room(f, k), Calling(f)
  PROVE  LET more == Allowance(f.rule, f.item + 1) - Allowance(f.rule, f.item)
             op   == Items(f)[f.item].op
         IN /\ Callee(f) \in RuleNames /\ Level[Callee(f)] > Level[f.rule]
            /\ Allowance(f.rule, f.item) <= 1
            /\ op \in {"call", "choice"} => Total(Callee(f)) <= more
            /\ op \in {"optional", "star", "plus"} => Total(Callee(f)) <= 0 /\ more >= 0
<1>1. f.item \in 1 .. Len(Items(f)) /\ Len(Items(f)) \in Nat
  <2>1. Fits(f.rule) BY EveryRuleFits DEF Room
  <2> QED BY <2>1 DEF Room, Calling, Fits, Items
<1>2. Sized(f.rule, f.item) BY <1>1, ItemFits DEF Room
<1>3. Rules[f.rule].items[f.item] = Items(f)[f.item] BY DEF Items
<1> DEFINE x == Items(f)[f.item]
<1>4. /\ x.op \in Callers /\ Len(x.rules) \in Nat
      /\ f.alternative \in 1 .. Len(x.rules) /\ Callee(f) = x.rules[f.alternative]
  BY <1>2, <1>3 DEF Sized, Calling, Callee, Room
<1> QED BY <1>2, <1>3, <1>4 DEF Sized

(* The numbers of a call                                                   *)
LEMMA RoomTyped ==
  ASSUME IInv, LimitsInv, NEW k \in 1 .. Len(stack)
  PROVE  /\ Room(stack[k], k) /\ IsCall(stack[k])
         /\ stack[k].start \in Nat /\ stack[k].at \in Nat
         /\ Count(stack[k].mark) \in Nat /\ Count(stack[k].here) \in Nat
<1>1. CallShape(k) /\ Len(sink.nodes) \in Nat BY Lengths DEF IInv, Shape, IsSink
<1>2. Count(stack[k].mark) \in Nat /\ Count(stack[k].here) \in Nat
  BY <1>1, MarkFields DEF CallShape
<1> QED BY <1>1, <1>2 DEF CallShape, IsCall, LimitsInv

(* The innermost call goes on at item f.item.                              *)
LEMMA RoomMoved ==
  ASSUME IInv, LimitsInv, stack # <<>>, NEW f, NEW p \in Nat, NEW s, GoOn(f, p, s),
         Continues(f, Top), IsSink(s), Top.start <= p, p <= Len(tokens),
         f.item \in 1 .. Len(Items(Top)) + 1, f.alternative \in Nat \ {0},
         Calling(f) => f.alternative <= Len(Items(f)[f.item].rules),
         Len(s.nodes) <= Count(Top.mark) + 4 * (p - Top.start) + Allowance(Top.rule, f.item)
  PROVE  LimitsInv'
<1>a. PICK n : n = Len(stack) OBVIOUS
<1>b. PICK top : top = Top OBVIOUS
<1> DEFINE g == [f EXCEPT !.at = p, !.here = Checkpoint(s)]
<1>1. /\ n \in Nat /\ n >= 1 /\ n = Len(stack) /\ top = stack[n] /\ IsSequence(stack)
      /\ IsCall(top)
  BY <1>a, <1>b, Innermost DEF Top, IInv, Shape
<1>2. /\ g.rule = top.rule /\ g.start = top.start /\ g.mark = top.mark /\ g.at = p
      /\ g.here = Checkpoint(s) /\ g.item = f.item /\ g.alternative = f.alternative
      /\ f.rule = top.rule
  <2>1. DOMAIN top = {"rule", "start", "mark", "item", "at", "here", "alternative", "taken"}
    BY <1>1 DEF IsCall
  <2>2. DOMAIN f = DOMAIN top /\ f.rule = top.rule /\ f.start = top.start /\ f.mark = top.mark
    BY <1>b DEF Continues
  <2> QED BY <2>1, <2>2
<1>3. stack' = [stack EXCEPT ![n] = g] /\ position' = p /\ sink' = s /\ returned' = "none"
      /\ tokens' = tokens
  BY <1>1 DEF GoOn
<1> HIDE DEF g
<1>4. /\ IsSequence(stack)' /\ Len(stack') = n /\ stack'[n] = g
      /\ \A k \in 1 .. n : k # n => stack'[k] = stack[k]
  <2>1. n \in 1 .. Len(stack) BY <1>1
  <2> DEFINE t == [stack EXCEPT ![n] = g]
  <2>2. /\ IsSequence(t) /\ Len(t) = Len(stack) /\ t[n] = g
        /\ \A k \in 1 .. Len(stack) : k # n => t[k] = stack[k]
    <3>1. IsSequence(stack) BY <1>1
    <3> HIDE DEF t
    <3> QED BY <2>1, <3>1, Updated DEF t
  <2> QED BY <1>1, <1>3, <2>2
<1>5. Count(g.here) = Len(s.nodes) /\ Len(s.nodes) \in Nat
  BY <1>2, MarkOf, Lengths DEF IsSink
<1>6. Room(top, n) BY <1>1 DEF LimitsInv
<1>7. Items(g) = Items(f) /\ Items(g) = Items(top) BY <1>2 DEF Items
<1>8. Room(g, n)
  <2>1. Calling(g) => g.alternative <= Len(Items(g)[g.item].rules)
    BY <1>2, <1>7 DEF Calling
  <2>2. Count(g.here) <= Count(g.mark) + 4 * (g.at - g.start) + Allowance(g.rule, g.item)
    BY <1>b, <1>2, <1>5
  <2> QED BY <1>b, <1>2, <1>6, <1>7, <2>1, <2>2 DEF Room
<1>9. Len(tokens') = Len(tokens) BY <1>3
<1>10. ASSUME NEW k \in 1 .. n PROVE Room(stack'[k], k) /\ stack'[k].at <= Len(tokens)
  BY <1>1, <1>2, <1>4, <1>8 DEF LimitsInv
<1>11. ASSUME NEW k \in 1 .. n - 1 PROVE Linked(stack'[k], stack'[k + 1])
  <2>1. Linked(stack[k], stack[k + 1]) /\ stack'[k] = stack[k] BY <1>1, <1>4 DEF LimitsInv
  <2>2. CASE k + 1 = n BY <1>1, <1>2, <1>4, <2>1, <2>2 DEF Linked
  <2>3. CASE k + 1 # n BY <1>1, <1>4, <2>1, <2>3
  <2> QED BY <2>2, <2>3
<1>12. Top' = g BY <1>4 DEF Top
<1>13. Due(g, "none", p, Len(s.nodes)) BY <1>2, <1>5 DEF Due
<1>14. stack' # <<>> BY <1>1, <1>4
<1> QED BY <1>3, <1>4, <1>9, <1>10, <1>11, <1>12, <1>13, <1>14 DEF LimitsInv

(* What a call that succeeds leaves, counted from the start of the parse   *)
LEMMA Paid ==
  ASSUME NEW c \in Int, NEW m \in Int, NEW a \in Int, NEW p \in Int, NEW t \in Int,
         c <= m + 4 * (p - a) + t, m <= 4 * a, t <= 2
  PROVE  c <= 4 * p + 2
OBVIOUS

(* and from where its caller was                                           *)
LEMMA Carried ==
  ASSUME NEW c \in Int, NEW m \in Int, NEW h \in Int, NEW a \in Int, NEW p \in Int,
         NEW t \in Int, c <= m + 4 * (p - a) + t, m <= h
  PROVE  c <= h + 4 * (p - a) + t
OBVIOUS

(* The innermost call returns.                                             *)
LEMMA RoomPopped ==
  ASSUME IInv, LimitsInv, stack # <<>>, NEW answer \in {"ok", "failed"}, Return(answer),
         position' <= Len(tokens),
         answer = "failed" => /\ position' = Top.start
                              /\ Len(sink'.nodes) <= Count(Top.mark),
         answer = "ok" => /\ Top.start <= position'
                          /\ Len(sink'.nodes) <= Count(Top.mark)
                               + 4 * (position' - Top.start) + Total(Top.rule),
         position' \in Nat, Len(sink'.nodes) \in Nat
  PROVE  LimitsInv'
<1>a. PICK n : n = Len(stack) OBVIOUS
<1>b. PICK top : top = Top OBVIOUS
<1>c. PICK p : p = position' OBVIOUS
<1>d. PICK c : c = Len(sink'.nodes) OBVIOUS
<1>1. /\ n \in Nat /\ n >= 1 /\ n = Len(stack) /\ top = stack[n] /\ IsSequence(stack)
  BY <1>a, <1>b, Innermost DEF Top, IInv, Shape
<1>2. stack' = SubSeq(stack, 1, n - 1) /\ returned' = answer /\ tokens' = tokens
  BY <1>1 DEF Return
<1>3. Len(stack') = n - 1 /\ \A k \in 1 .. n - 1 : stack'[k] = stack[k]
  BY <1>1, <1>2, Cut
<1>4. /\ Room(top, n) /\ top.start \in Nat /\ Count(top.mark) \in Nat
  BY <1>1, RoomTyped
<1>5. CASE n = 1
  <2>1. stack' = <<>> BY <1>1, <1>2, <1>5
  <2>2. Count(top.mark) <= 4 * top.start BY <1>4, <1>5 DEF Room
  <2>3. Total(top.rule) \in Int /\ Total(top.rule) <= 2
    <3>1. Total(top.rule) \in -5 .. 2 BY AllowanceSmall
    <3> QED BY <3>1
  <2>4. c <= 4 * p + 2
    <3>1. CASE answer = "failed" BY <1>b, <1>c, <1>d, <1>4, <2>2, <3>1
    <3>2. CASE answer = "ok"
      <4>1. c <= Count(top.mark) + 4 * (p - top.start) + Total(top.rule)
        BY <1>b, <1>c, <1>d, <3>2
      <4>2. c \in Int /\ p \in Int /\ top.start \in Int /\ Count(top.mark) \in Int
        BY <1>c, <1>d, <1>4
      <4> QED BY <2>2, <2>3, <4>1, <4>2, Paid, Zenon
    <3> QED BY <3>1, <3>2
  <2>5. Len(stack') = 0 BY <1>3, <1>5
  <2>6. /\ \A k \in 1 .. Len(stack') : FALSE
        /\ \A k \in 1 .. Len(stack') - 1 : FALSE
    BY <2>5
  <2>7. Len(sink'.nodes) <= 4 * position' + (IF returned' = "none" THEN 0 ELSE 2)
    BY <1>c, <1>d, <1>2, <2>4
  <2>8. /\ \A k \in 1 .. Len(stack') : Room(stack'[k], k) /\ stack'[k].at <= Len(tokens')
        /\ \A k \in 1 .. Len(stack') - 1 : Linked(stack'[k], stack'[k + 1])
    BY <2>6
  <2>9. returned' \in {"none", "ok", "failed"} /\ position' <= Len(tokens')
        /\ tokens' \in Patterns
    BY <1>2 DEF LimitsInv
  <2> QED BY <2>1, <2>7, <2>8, <2>9 DEF LimitsInv
<1>6. CASE n # 1
  <2>1. n - 1 \in 1 .. n /\ n - 1 \in 1 .. Len(stack) /\ n = n - 1 + 1 BY <1>1, <1>6
  <2>2. Linked(stack[n - 1], top)
    <3>1. n - 1 \in 1 .. Len(stack) - 1 BY <1>1, <1>6
    <3>2. Linked(stack[n - 1], stack[n - 1 + 1]) BY <3>1 DEF LimitsInv
    <3> QED BY <1>1, <2>1, <3>2
  <2>3. Top' = stack[n - 1] /\ stack' # <<>>
    <3>1. Len(stack') # 0 BY <1>1, <1>3, <1>6
    <3>2. n - 1 \in 1 .. n - 1 BY <2>1
    <3> QED BY <1>3, <3>1, <3>2 DEF Top
  <2>4. /\ stack[n - 1].at \in Nat /\ Count(stack[n - 1].here) \in Nat
    BY <2>1, RoomTyped
  <2> DEFINE g == stack[n - 1]
  <2>5. Due(g, answer, p, c)
    <3>1. /\ Calling(g) /\ top.rule = Callee(g) /\ top.start = g.at
          /\ Count(top.mark) <= Count(g.here) /\ g.at \in Nat /\ Count(g.here) \in Nat
      BY <2>2, <2>4 DEF Linked
    <3> HIDE DEF g
    <3>2. CASE answer = "failed"
      BY <1>b, <1>c, <1>d, <1>4, <3>1, <3>2 DEF Due
    <3>3. CASE answer = "ok"
      <4>1. Total(top.rule) \in -5 .. 2 BY AllowanceSmall
      <4>2. /\ top.start <= p
            /\ c <= Count(top.mark) + 4 * (p - top.start) + Total(top.rule)
        BY <1>b, <1>c, <1>d, <3>3
      <4>3. c <= Count(g.here) + 4 * (p - g.at) + Total(top.rule)
        <5>1. c <= Count(top.mark) + 4 * (p - g.at) + Total(top.rule) BY <3>1, <4>2
        <5>2. c \in Int /\ p \in Int BY <1>c, <1>d
        <5>3. g.at \in Int /\ Count(g.here) \in Int /\ Count(top.mark) \in Int
          BY <1>4, <3>1
        <5>4. Total(top.rule) \in Int BY <4>1
        <5> QED BY <3>1, <5>1, <5>2, <5>3, <5>4, Carried, Zenon
      <4> QED BY <3>1, <3>3, <4>2, <4>3 DEF Due
    <3> QED BY <3>2, <3>3
  <2>6. ASSUME NEW k \in 1 .. n - 1 PROVE Room(stack'[k], k) /\ stack'[k].at <= Len(tokens)
    <3>1. k \in 1 .. Len(stack) /\ stack'[k] = stack[k] BY <1>1, <1>3
    <3> QED BY <3>1 DEF LimitsInv
  <2>7. ASSUME NEW k \in 1 .. n - 2 PROVE Linked(stack'[k], stack'[k + 1])
    <3>1. k \in 1 .. Len(stack) - 1 /\ k \in 1 .. n - 1 /\ k + 1 \in 1 .. n - 1 BY <1>1
    <3>2. Linked(stack[k], stack[k + 1]) BY <3>1 DEF LimitsInv
    <3> QED BY <1>3, <3>1, <3>2
  <2>8. Len(stack') - 1 = n - 2 BY <1>1, <1>3
  <2>9. \A k \in 1 .. Len(stack') - 1 : Linked(stack'[k], stack'[k + 1]) BY <2>7, <2>8
  <2>10. \A k \in 1 .. Len(stack') : Room(stack'[k], k) /\ stack'[k].at <= Len(tokens')
    BY <1>2, <1>3, <2>6
  <2>11. Due(Top', returned', position', Len(sink'.nodes))
    BY <1>c, <1>d, <1>2, <2>3, <2>5
  <2>12. Len(stack') # 0 BY <1>1, <1>3, <1>6
  <2>13. returned' \in {"none", "ok", "failed"} /\ position' <= Len(tokens')
         /\ tokens' \in Patterns
    BY <1>2 DEF LimitsInv
  <2> QED BY <2>9, <2>10, <2>11, <2>12, <2>13 DEF LimitsInv
<1> QED BY <1>5, <1>6

(* An event adds at most one node.                                         *)
LEMMA OneMore ==
  ASSUME NEW s, IsSink(s), NEW x
  PROVE  /\ Len(Start(s, x).nodes) <= Len(s.nodes) + 1
         /\ Len(Terminal(s, x).nodes) <= Len(s.nodes) + 1
<1>1. Len(s.nodes) \in Nat /\ IsSequence(s.nodes) BY Lengths DEF IsSink
<1>2. s = [nodes |-> s.nodes, active |-> s.active, overflow |-> s.overflow, deep |-> s.deep]
  BY DEF IsSink
<1>3. ASSUME NEW e PROVE Len(Append(s.nodes, e)) = Len(s.nodes) + 1
  BY <1>1, Appended
<1>4. Start(s, x).nodes = s.nodes \/ \E e : Start(s, x).nodes = Append(s.nodes, e)
  BY <1>2 DEF Start
<1>5. Terminal(s, x).nodes = s.nodes \/ \E e : Terminal(s, x).nodes = Append(s.nodes, e)
  BY <1>2 DEF Terminal
<1> QED BY <1>1, <1>3, <1>4, <1>5

(* A call begins, if the memo does not answer it.                          *)
LEMMA RoomEntered ==
  ASSUME IInv, LimitsInv, NEW r \in RuleNames, Enter(r), returned = "none",
         stack # <<>> => Calling(Top) /\ r = Callee(Top)
  PROVE  LimitsInv'
<1>1. CASE <<r, position>> \in memo
  <2>1. /\ returned' = "failed"
        /\ UNCHANGED <<tokens, position, stack, sink>>
    BY <1>1 DEF Enter
  <2>2. stack # <<>> => Due(Top, "failed", position, Len(sink.nodes))
    BY DEF LimitsInv, Due
  <2>3. Top' = Top BY <2>1 DEF Top
  <2>4. Len(sink.nodes) \in Nat /\ position \in Nat BY Lengths DEF IInv, Shape, IsSink
  <2>5. Len(stack) = 0 => Len(sink.nodes) <= 4 * position + 2
    BY <2>4 DEF LimitsInv
  <2> QED BY <2>1, <2>2, <2>3, <2>5 DEF LimitsInv
<1>2. CASE <<r, position>> \notin memo
  <2> DEFINE f == Frame(r, sink, sink')
  <2>a. PICK n : n = Len(stack) OBVIOUS
  <2>b. PICK c : c = Len(sink.nodes) OBVIOUS
  <2>c. PICK d : d = Len(sink'.nodes) OBVIOUS
  <2>1. /\ sink' = Start(sink, r) /\ stack' = Append(stack, f)
        /\ UNCHANGED <<tokens, position, returned>>
    BY <1>2 DEF Enter
  <2>2. /\ n \in Nat /\ n = Len(stack) /\ IsSequence(stack) /\ IsSink(sink)
        /\ position \in Nat /\ c \in Nat
    BY <2>a, <2>b, Lengths DEF IInv, Shape, IsSink
  <2>3. IsSink(sink)' /\ d \in Nat /\ d <= c + 1
    <3>1. IsSink(Start(sink, r)) BY <2>2, Started
    <3> QED BY <2>b, <2>c, <2>1, <2>2, <3>1, Lengths, OneMore DEF IsSink
  <2>4. /\ f.rule = r /\ f.start = position /\ f.at = position /\ f.item = 1
        /\ f.alternative = 1 /\ Count(f.mark) = c /\ Count(f.here) = d
    <3>1. /\ f.mark = Checkpoint(sink) /\ f.here = Checkpoint(sink')
          /\ f.rule = r /\ f.start = position /\ f.at = position /\ f.item = 1
          /\ f.alternative = 1
      BY DEF Frame
    <3> HIDE DEF f
    <3> QED BY <2>b, <2>c, <2>2, <2>3, <3>1, MarkOf
  <2> HIDE DEF f
  <2>5. /\ Len(stack') = n + 1 /\ stack'[n + 1] = f
        /\ \A k \in 1 .. n : stack'[k] = stack[k]
    BY <2>1, <2>2, Appended
  <2>7. n + 1 <= Level[r] /\ c <= 4 * position + n
    <3>1. Level[r] \in 1 .. 44 BY EveryRuleFits DEF Fits
    <3>2. CASE n = 0
      <4>2. c <= 4 * position + 0 BY <2>b, <2>2, <3>2 DEF LimitsInv
      <4>3. n + 1 <= Level[r]
        <5>1. PICK x \in 1 .. 44 : x = Level[r] BY <3>1
        <5>2. n + 1 <= x BY <3>2
        <5> QED BY <5>1, <5>2
      <4> QED BY <3>2, <4>2, <4>3
    <3>3. CASE n # 0
      <4>1. stack # <<>> /\ n \in 1 .. Len(stack) /\ Top = stack[n]
        BY <2>2, <3>3 DEF Top
      <4>a. PICK t : t = stack[n] OBVIOUS
      <4>2. /\ Room(t, n) /\ t.start \in Nat /\ t.at \in Nat
            /\ Count(t.mark) \in Nat /\ Count(t.here) \in Nat
        BY <4>1, <4>a, RoomTyped
      <4>3. Calling(t) /\ r = Callee(t) /\ position = t.at /\ c <= Count(t.here)
        BY <2>b, <4>1, <4>a DEF LimitsInv, Due
      <4>4. Level[r] > Level[t.rule] /\ Allowance(t.rule, t.item) <= 1
        BY <4>2, <4>3, CalleeFits
      <4>5. Allowance(t.rule, t.item) \in Int
        <5>1. Allowance(t.rule, t.item) \in -5 .. 2 BY AllowanceSmall
        <5> QED BY <5>1
      <4>6. Level[t.rule] \in 1 .. 44 BY <4>2, EveryRuleFits DEF Fits, Room
      <4>7. n + 1 <= Level[r]
        <5>1. n <= Level[t.rule] BY <4>2 DEF Room
        <5>2. PICK x \in 1 .. 44 : x = Level[r] BY <3>1
        <5>3. PICK y \in 1 .. 44 : y = Level[t.rule] BY <4>6
        <5> QED BY <2>2, <4>4, <5>1, <5>2, <5>3
      <4>8. /\ Count(t.mark) <= 4 * t.start + n - 1
            /\ Count(t.here) <= Count(t.mark) + 4 * (t.at - t.start)
                                  + Allowance(t.rule, t.item)
        BY <4>2 DEF Room
      <4>9. c <= 4 * t.at + n
        <5>2. /\ c \in Int /\ n \in Int /\ t.at \in Int /\ t.start \in Int
              /\ Count(t.mark) \in Int /\ Count(t.here) \in Int
          BY <2>2, <4>2
        <5>3. PICK m \in Int : m = Count(t.mark) BY <5>2
        <5>4. PICK h \in Int : h = Count(t.here) BY <5>2
        <5>5. PICK w \in Int : w = Allowance(t.rule, t.item) BY <4>5
        <5>6. PICK a \in Int : a = t.start BY <5>2
        <5>7. PICK b \in Int : b = t.at BY <5>2
        <5>8. /\ c <= h /\ h <= m + 4 * (b - a) + w /\ m <= 4 * a + n - 1 /\ w <= 1
          BY <4>3, <4>4, <4>8, <5>3, <5>4, <5>5, <5>6, <5>7
        <5>9. c <= 4 * b + n BY <5>2, <5>8
        <5> QED BY <5>7, <5>9
      <4> QED BY <4>3, <4>7, <4>9
    <3> QED BY <2>2, <3>2, <3>3
  <2>8. Room(f, n + 1)
    <3>1. Fits(r) /\ Items(f) = Rules[r].items BY <2>4, EveryRuleFits DEF Items
    <3>2. Len(Items(f)) \in Nat /\ \A i \in 1 .. Len(Items(f)) : Sized(r, i)
      BY <3>1 DEF Fits
    <3>3. Calling(f) => f.alternative <= Len(Items(f)[f.item].rules)
      <4> SUFFICES ASSUME Calling(f) PROVE 1 <= Len(Items(f)[1].rules)
        BY <2>4
      <4>1. 1 \in 1 .. Len(Items(f)) /\ Items(f)[1].op \in Callers
        BY <2>4, <3>2 DEF Calling
      <4>2. Sized(r, 1) BY <3>2, <4>1
      <4>3. Len(Items(f)[1].rules) \in 1 .. 7 BY <3>1, <4>1, <4>2 DEF Sized
      <4>4. PICK x \in 1 .. 7 : x = Len(Items(f)[1].rules) BY <4>3
      <4>5. 1 <= x OBVIOUS
      <4> QED BY <4>4, <4>5
    <3>4. Allowance(f.rule, f.item) = 1 BY <2>4, AllowanceSmall
    <3>5. 1 \in 1 .. Len(Items(f)) + 1 BY <3>2
    <3>6. n + 1 - 1 = n BY <2>2
    <3>7. d <= c + 4 * (position - position) + 1 BY <2>2, <2>3
    <3>8. f.item \in 1 .. Len(Items(f)) + 1 /\ f.alternative \in Nat \ {0} BY <2>4, <3>5
    <3>9. Count(f.here) <= Count(f.mark) + 4 * (f.at - f.start) + Allowance(f.rule, f.item)
      BY <2>4, <3>4, <3>7
    <3>10. Count(f.mark) <= 4 * f.start + (n + 1) - 1
      BY <2>2, <2>4, <2>7
    <3>11. n + 1 <= Level[f.rule] /\ f.rule \in RuleNames /\ f.start <= f.at
      BY <2>2, <2>4, <2>7
    <3> QED BY <3>3, <3>8, <3>9, <3>10, <3>11 DEF Room
  <2>9. ASSUME NEW k \in 1 .. n + 1 PROVE Room(stack'[k], k) /\ stack'[k].at <= Len(tokens')
    <3>1. CASE k = n + 1 BY <2>1, <2>4, <2>5, <2>8, <3>1 DEF LimitsInv
    <3>2. CASE k \in 1 .. n BY <2>1, <2>2, <2>5, <3>2 DEF LimitsInv
    <3> QED BY <2>2, <3>1, <3>2
  <2>10. ASSUME NEW k \in 1 .. n PROVE Linked(stack'[k], stack'[k + 1])
    <3>1. CASE k = n
      <4>1. stack # <<>> /\ Top = stack[n] BY <2>2, <3>1 DEF Top
      <4>2. /\ Calling(stack[n]) /\ r = Callee(stack[n]) /\ position = stack[n].at
            /\ c <= Count(stack[n].here)
        BY <2>b, <4>1 DEF LimitsInv, Due
      <4> QED BY <2>4, <2>5, <3>1, <4>2 DEF Linked
    <3>2. CASE k # n
      <4>1. k \in 1 .. Len(stack) - 1 /\ k \in 1 .. n /\ k + 1 \in 1 .. n
        BY <2>2, <3>2
      <4>2. Linked(stack[k], stack[k + 1]) BY <4>1 DEF LimitsInv
      <4> QED BY <2>5, <4>1, <4>2
    <3> QED BY <3>1, <3>2
  <2>11. Due(f, "none", position, d)
    <3>1. d <= d BY <2>3
    <3> QED BY <2>4, <3>1 DEF Due
  <2>12. Top' = f /\ stack' # <<>>
    <3>1. Len(stack') # 0 BY <2>2, <2>5
    <3> QED BY <2>5, <3>1 DEF Top
  <2>13. Len(stack') - 1 = n BY <2>2, <2>5
  <2>14. /\ \A k \in 1 .. Len(stack') : Room(stack'[k], k) /\ stack'[k].at <= Len(tokens')
         /\ \A k \in 1 .. Len(stack') - 1 : Linked(stack'[k], stack'[k + 1])
    BY <2>5, <2>9, <2>10, <2>13
  <2>15. /\ returned' = "none" /\ position' <= Len(tokens') /\ tokens' \in Patterns
    BY <2>1 DEF LimitsInv
  <2>16. Due(Top', returned', position', Len(sink'.nodes))
    BY <2>c, <2>1, <2>11, <2>12, <2>15
  <2> QED BY <2>12, <2>14, <2>15, <2>16 DEF LimitsInv
<1> QED BY <1>1, <1>2

(* A call fails.                                                           *)
LEMMA RoomGivenUp ==
  ASSUME IInv, LimitsInv, stack # <<>>, GiveUp
  PROVE  LimitsInv'
<1>1. /\ Len(stack) \in Nat /\ Len(stack) >= 1 /\ Top = stack[Len(stack)]
      /\ Mark(Top.mark, Len(sink.nodes)) /\ Count(Top.mark) \in Nat
  BY Innermost DEF Top
<1>2. /\ Return("failed") /\ position' = Top.start /\ sink' = Restore(sink, Top.mark)
  BY DEF GiveUp
<1>3. IsSink(sink) BY DEF IInv, Shape
<1>4. Len(sink'.nodes) = Count(Top.mark) BY <1>1, <1>2, <1>3, Restored
<1>5. Len(stack) \in 1 .. Len(stack) BY <1>1
<1>6. Top.start \in Nat /\ Top.at \in Nat /\ Room(Top, Len(stack)) BY <1>1, <1>5, RoomTyped
<1>7. Top.at <= Len(tokens) /\ Len(tokens) \in Nat
  BY <1>1, <1>5, ParserAssumption DEF LimitsInv
<1>8. Top.start <= Len(tokens) BY <1>6, <1>7 DEF Room
<1>9. Len(sink'.nodes) <= Count(Top.mark) BY <1>1, <1>4
<1> QED BY <1>1, <1>2, <1>4, <1>6, <1>8, <1>9, RoomPopped

(* The numbers of the innermost call                                       *)
LEMMA TopNumbers ==
  ASSUME IInv, LimitsInv, stack # <<>>
  PROVE  /\ Room(Top, Len(stack)) /\ Len(tokens) \in Nat /\ Len(stack) \in Nat \ {0}
         /\ IsCall(Top) /\ IsSink(sink) /\ position \in Nat /\ Len(sink.nodes) \in Nat
         /\ \E m, h, a, b \in Nat, w \in Int :
              /\ m = Count(Top.mark) /\ h = Count(Top.here) /\ a = Top.start /\ b = Top.at
              /\ w = Allowance(Top.rule, Top.item) /\ a <= b /\ b <= Len(tokens)
              /\ h <= m + 4 * (b - a) + w /\ m <= 4 * a + Len(stack) - 1
<1>1. /\ Len(stack) \in Nat /\ Len(stack) >= 1 /\ Top = stack[Len(stack)] /\ IsCall(Top)
      /\ Len(sink.nodes) \in Nat
  BY Innermost DEF Top
<1>2. Len(stack) \in 1 .. Len(stack) BY <1>1
<1>3. /\ Room(Top, Len(stack)) /\ Top.start \in Nat /\ Top.at \in Nat
      /\ Count(Top.mark) \in Nat /\ Count(Top.here) \in Nat
  BY <1>1, <1>2, RoomTyped
<1>4. Top.at <= Len(tokens) /\ Len(tokens) \in Nat
  BY <1>1, <1>2, ParserAssumption DEF LimitsInv
<1>5. Allowance(Top.rule, Top.item) \in Int
  <2>1. Allowance(Top.rule, Top.item) \in -5 .. 2 BY AllowanceSmall
  <2> QED BY <2>1
<1>6. PICK m \in Nat : m = Count(Top.mark) BY <1>3
<1>7. PICK h \in Nat : h = Count(Top.here) BY <1>3
<1>8. PICK w \in Int : w = Allowance(Top.rule, Top.item) BY <1>5
<1>9. PICK a \in Nat : a = Top.start BY <1>3
<1>10. PICK b \in Nat : b = Top.at BY <1>3
<1>11. a <= b /\ b <= Len(tokens) /\ h <= m + 4 * (b - a) + w /\ m <= 4 * a + Len(stack) - 1
  BY <1>3, <1>4, <1>6, <1>7, <1>8, <1>9, <1>10 DEF Room
<1>12. \E x, y, u, v \in Nat, z \in Int :
         /\ x = Count(Top.mark) /\ y = Count(Top.here) /\ u = Top.start /\ v = Top.at
         /\ z = Allowance(Top.rule, Top.item) /\ u <= v /\ v <= Len(tokens)
         /\ y <= x + 4 * (v - u) + z /\ x <= 4 * u + Len(stack) - 1
  BY <1>6, <1>7, <1>8, <1>9, <1>10, <1>11
<1>13. IsSink(sink) /\ position \in Nat BY DEF IInv, Shape
<1>14. Len(stack) \in Nat \ {0} BY <1>1
<1> QED BY <1>1, <1>3, <1>4, <1>12, <1>13, <1>14

(* The fields of a call that goes on                                       *)
LEMMA NextFields ==
  ASSUME NEW t, IsCall(t)
  PROVE  /\ LET f == [t EXCEPT !.item = @ + 1, !.alternative = 1, !.taken = 0]
            IN f.item = t.item + 1 /\ f.alternative = 1 /\ f.rule = t.rule
         /\ LET f == [t EXCEPT !.alternative = @ + 1]
            IN f.item = t.item /\ f.alternative = t.alternative + 1 /\ f.rule = t.rule
         /\ LET f == [t EXCEPT !.taken = 1]
            IN f.item = t.item /\ f.alternative = t.alternative /\ f.rule = t.rule
<1>1. DOMAIN t = {"rule", "start", "mark", "item", "at", "here", "alternative", "taken"}
  BY DEF IsCall
<1> QED BY <1>1

(* A rule's item has someone to call if it calls.                          *)
LEMMA FirstAlternative ==
  ASSUME NEW f, f.rule \in RuleNames, f.item \in 1 .. Len(Items(f)) + 1, f.alternative = 1,
         Calling(f)
  PROVE  f.alternative <= Len(Items(f)[f.item].rules)
<1>1. Fits(f.rule) BY EveryRuleFits
<1>2. f.item \in 1 .. Len(Items(f)) BY <1>1 DEF Calling, Fits, Items
<1>3. Sized(f.rule, f.item) BY <1>2, ItemFits
<1>4. Len(Items(f)[f.item].rules) \in 1 .. 7 BY <1>3 DEF Sized, Calling, Items
<1>5. PICK x \in 1 .. 7 : x = Len(Items(f)[f.item].rules) BY <1>4
<1>6. 1 <= x OBVIOUS
<1> QED BY <1>5, <1>6

(* The innermost call goes on with its next item.                          *)
LEMMA RoomNext ==
  ASSUME IInv, LimitsInv, stack # <<>>, NEW p \in Nat, NEW s, NextItem(p, s), IsSink(s),
         Top.item <= Len(Items(Top)), Top.start <= p, p <= Len(tokens),
         Len(s.nodes) <= Count(Top.mark) + 4 * (p - Top.start)
                           + Allowance(Top.rule, Top.item + 1)
  PROVE  LimitsInv'
<1> DEFINE f == [Top EXCEPT !.item = @ + 1, !.alternative = 1, !.taken = 0]
<1>1. IsCall(Top) /\ Room(Top, Len(stack)) BY TopNumbers
<1>2. f.item = Top.item + 1 /\ f.alternative = 1 /\ f.rule = Top.rule
  BY <1>1, NextFields
<1>3. Continues(f, Top) BY <1>1, Reframed
<1>4. GoOn(f, p, s) BY DEF NextItem
<1> HIDE DEF f
<1>5. Items(f) = Items(Top) BY <1>2 DEF Items
<1>6. Fits(Top.rule) BY <1>1, EveryRuleFits DEF Room
<1>7. Len(Items(Top)) \in Nat BY <1>6 DEF Fits, Items
<1>8. f.item \in 1 .. Len(Items(Top)) + 1 BY <1>1, <1>2, <1>7 DEF Room
<1>9. Calling(f) => f.alternative <= Len(Items(f)[f.item].rules)
  BY <1>1, <1>2, <1>5, <1>8, FirstAlternative DEF Room
<1>10. f.alternative \in Nat \ {0} BY <1>2
<1>11. Len(s.nodes) <= Count(Top.mark) + 4 * (p - Top.start) + Allowance(Top.rule, f.item)
  BY <1>2
<1> QED BY <1>3, <1>4, <1>8, <1>9, <1>10, <1>11, RoomMoved

(* A token is taken only where there is one.                               *)
LEMMA PeekFinds ==
  ASSUME IInv, LimitsInv, stack # <<>>, Top.item <= Len(Items(Top)), Peek \in Current.tokens
  PROVE  position + 1 <= Len(tokens)
<1>1. Room(Top, Len(stack)) BY TopNumbers
<1>2. Fits(Top.rule) BY <1>1, EveryRuleFits DEF Room
<1>3. Top.item \in 1 .. Len(Items(Top)) BY <1>1, <1>2 DEF Room, Fits, Items
<1>4. Sized(Top.rule, Top.item) BY <1>1, <1>3, ItemFits DEF Room
<1>5. "none" \notin Current.tokens BY <1>4 DEF Sized, Current, Items
<1>6. position < Len(tokens) BY <1>5 DEF Peek
<1> QED BY <1>6, TopNumbers

(* What a step may add to what an item has                                 *)
LEMMA Advanced ==
  ASSUME IInv, LimitsInv, stack # <<>>, NEW p \in Nat, NEW c \in Nat, NEW x \in Int,
         NEW v \in Int, Top.at <= p, c <= Count(Top.here) + 4 * (p - Top.at) + x,
         x <= v - Allowance(Top.rule, Top.item)
  PROVE  Top.start <= p /\ c <= Count(Top.mark) + 4 * (p - Top.start) + v
<1>1. PICK m, h, a, b \in Nat, w \in Int :
            /\ m = Count(Top.mark) /\ h = Count(Top.here) /\ a = Top.start /\ b = Top.at
            /\ w = Allowance(Top.rule, Top.item) /\ a <= b /\ b <= Len(tokens)
            /\ h <= m + 4 * (b - a) + w /\ m <= 4 * a + Len(stack) - 1
  BY TopNumbers
<1>2. b <= p /\ c <= h + 4 * (p - b) + x /\ x <= v - w BY <1>1
<1>3. a <= b /\ h <= m + 4 * (b - a) + w BY <1>1
<1>4. a <= p /\ c <= m + 4 * (p - a) + v
  <2>1. b \in Int /\ a \in Int /\ h \in Int /\ m \in Int /\ w \in Int OBVIOUS
  <2>2. c <= h + 4 * (p - b) + (v - w) BY <1>2, <2>1
  <2>3. c <= m + 4 * (b - a) + w + 4 * (p - b) + (v - w) BY <1>3, <2>1, <2>2
  <2>4. a <= p BY <1>2, <1>3, <2>1
  <2> QED BY <2>1, <2>3, <2>4
<1> QED BY <1>1, <1>4

(* The innermost call goes on with the same item ...                       *)
LEMMA SameItem ==
  ASSUME IInv, LimitsInv, stack # <<>>, NEW f, NEW p \in Nat, NEW s, GoOn(f, p, s),
         Continues(f, Top), IsSink(s), f.item = Top.item, f.alternative \in Nat \ {0},
         Calling(f) => f.alternative <= Len(Items(f)[f.item].rules),
         Top.at <= p, p <= Len(tokens),
         Len(s.nodes) <= Count(Top.here) + 4 * (p - Top.at) + 0
  PROVE  LimitsInv'
<1>1. Allowance(Top.rule, Top.item) \in -5 .. 2 BY AllowanceSmall
<1>2. PICK v \in Int : v = Allowance(Top.rule, Top.item) BY <1>1
<1>3. 0 <= v - v /\ 0 \in Int BY <1>2
<1>4. PICK c \in Nat : c = Len(s.nodes) BY Lengths DEF IsSink
<1>5. c <= Count(Top.here) + 4 * (p - Top.at) + 0 /\ 0 <= v - Allowance(Top.rule, Top.item)
  BY <1>2, <1>3, <1>4
<1>6. Top.start <= p /\ c <= Count(Top.mark) + 4 * (p - Top.start) + v
  BY <1>3, <1>5, Advanced
<1>7. Len(s.nodes) <= Count(Top.mark) + 4 * (p - Top.start) + Allowance(Top.rule, f.item)
  BY <1>2, <1>4, <1>6
<1>8. f.item \in 1 .. Len(Items(Top)) + 1 BY TopNumbers DEF Room
<1> QED BY <1>6, <1>7, <1>8, RoomMoved

(* ... or with the next, which allows it x more.                           *)
LEMMA NextOne ==
  ASSUME IInv, LimitsInv, stack # <<>>, NEW p \in Nat, NEW s, NextItem(p, s), IsSink(s),
         Top.item <= Len(Items(Top)), Top.at <= p, p <= Len(tokens), NEW x \in Int,
         Len(s.nodes) <= Count(Top.here) + 4 * (p - Top.at) + x,
         x <= Allowance(Top.rule, Top.item + 1) - Allowance(Top.rule, Top.item)
  PROVE  LimitsInv'
<1>1. Allowance(Top.rule, Top.item + 1) \in -5 .. 2 BY AllowanceSmall
<1>2. PICK v \in Int : v = Allowance(Top.rule, Top.item + 1) BY <1>1
<1>4. PICK c \in Nat : c = Len(s.nodes) BY Lengths DEF IsSink
<1>5. c <= Count(Top.here) + 4 * (p - Top.at) + x /\ x <= v - Allowance(Top.rule, Top.item)
  BY <1>2, <1>4
<1>6. Top.start <= p /\ c <= Count(Top.mark) + 4 * (p - Top.start) + v
  BY <1>5, Advanced
<1>7. Len(s.nodes) <= Count(Top.mark) + 4 * (p - Top.start)
                        + Allowance(Top.rule, Top.item + 1)
  BY <1>2, <1>4, <1>6
<1> QED BY <1>6, <1>7, RoomNext

(* The item that the innermost call works on                               *)
LEMMA WorkedOn ==
  ASSUME IInv, LimitsInv, stack # <<>>, Top.item <= Len(Items(Top))
  PROVE  /\ Sized(Top.rule, Top.item) /\ Rules[Top.rule].items[Top.item] = Current
         /\ Calling(Top) <=> Current.op \in Callers
<1>1. Room(Top, Len(stack)) BY TopNumbers
<1>2. Fits(Top.rule) BY <1>1, EveryRuleFits DEF Room
<1>3. Top.item \in 1 .. Len(Items(Top)) BY <1>1, <1>2 DEF Room, Fits, Items
<1>4. Sized(Top.rule, Top.item) BY <1>1, <1>3, ItemFits DEF Room
<1> QED BY <1>4 DEF Current, Items, Calling

(* What the innermost call has where nothing was done since               *)
LEMMA AtRest ==
  ASSUME IInv, LimitsInv, stack # <<>>, returned \in {"none", "failed"}
  PROVE  position = Top.at /\ Len(sink.nodes) <= Count(Top.here)
BY DEF LimitsInv, Due

(* expectToken and matchToken take one token, which makes one node.        *)
LEMMA OneTaken ==
  ASSUME IInv, LimitsInv, stack # <<>>, returned = "none", Top.item <= Len(Items(Top)),
         Peek \in Current.tokens
  PROVE  LET s == Terminal(sink, position)
         IN IsSink(s) /\ \E p \in Nat :
              /\ p = position + 1 /\ Top.at <= p /\ p <= Len(tokens)
              /\ \E x \in Int : x = -3 /\ Len(s.nodes) <= Count(Top.here) + 4 * (p - Top.at) + x
              /\ Len(s.nodes) <= Count(Top.here) + 4 * (p - Top.at) + 0
<1> DEFINE s == Terminal(sink, position)
<1>1. /\ IsSink(sink) /\ position \in Nat /\ Len(sink.nodes) \in Nat BY TopNumbers
<1>2. IsSink(s) /\ Len(s.nodes) <= Len(sink.nodes) + 1 BY <1>1, Taken, OneMore
<1>3. position = Top.at /\ Len(sink.nodes) <= Count(Top.here) BY AtRest
<1>4. position + 1 <= Len(tokens) BY PeekFinds
<1>5. PICK c \in Nat : c = Len(sink.nodes) BY <1>1
<1>6. PICK d \in Nat : d = Len(s.nodes) BY <1>2, Lengths DEF IsSink
<1>7. PICK h \in Nat : h = Count(Top.here) BY Innermost
<1>8. PICK b \in Nat : b = position BY <1>1
<1>9. PICK p \in Nat : p = position + 1 BY <1>1
<1>10. PICK x \in Int : x = -3 OBVIOUS
<1> HIDE DEF s
<1>11. c <= h /\ d <= c + 1 BY <1>2, <1>3, <1>5, <1>6, <1>7
<1>12. p = b + 1 BY <1>8, <1>9
<1>13. b <= p /\ d <= h + 4 * (p - b) + x /\ d <= h + 4 * (p - b) + 0
  BY <1>10, <1>11, <1>12
<1>14. b = Top.at BY <1>3, <1>8
<1>15. /\ Top.at <= p /\ Len(s.nodes) <= Count(Top.here) + 4 * (p - Top.at) + x
       /\ Len(s.nodes) <= Count(Top.here) + 4 * (p - Top.at) + 0
  BY <1>6, <1>7, <1>13, <1>14
<1>16. p <= Len(tokens) BY <1>4, <1>9
<1> QED BY <1>2, <1>9, <1>10, <1>15, <1>16 DEF s

(* A token taken by a "take" item: one more node, and the item allows it.  *)
LEMMA RoomTaken ==
  ASSUME IInv, LimitsInv, TakeToken
  PROVE  LimitsInv'
<1>1. stack # <<>> /\ returned = "none" /\ Top.item <= Len(Items(Top)) /\ Current.op = "take"
  BY DEF TakeToken, Working, Doing
<1>2. CASE GiveUp BY <1>1, <1>2, RoomGivenUp
<1>3. CASE Peek \in Current.tokens /\ NextItem(position + 1, Terminal(sink, position))
  <2> DEFINE s == Terminal(sink, position)
  <2>1. IsSink(s) BY <1>1, <1>3, OneTaken
  <2>2. PICK p \in Nat :
          /\ p = position + 1 /\ Top.at <= p /\ p <= Len(tokens)
          /\ \E x \in Int : x = -3 /\ Len(s.nodes) <= Count(Top.here) + 4 * (p - Top.at) + x
    BY <1>1, <1>3, OneTaken
  <2>3. PICK x \in Int : x = -3 /\ Len(s.nodes) <= Count(Top.here) + 4 * (p - Top.at) + x
    BY <2>2
  <2>4. -3 <= Allowance(Top.rule, Top.item + 1) - Allowance(Top.rule, Top.item)
    <3>1. Sized(Top.rule, Top.item) /\ Rules[Top.rule].items[Top.item].op = "take"
      BY <1>1, WorkedOn
    <3>2. Allowance(Top.rule, Top.item + 1) - Allowance(Top.rule, Top.item) >= -3
      BY <3>1 DEF Sized
    <3>3. /\ Allowance(Top.rule, Top.item + 1) \in -5 .. 2
          /\ Allowance(Top.rule, Top.item) \in -5 .. 2
      BY AllowanceSmall
    <3> HIDE DEF Allowance
    <3> QED BY <3>2, <3>3
  <2>5. NextItem(position + 1, s) BY <1>3
  <2> HIDE DEF s
  <2>6. NextItem(p, s) BY <2>5, <2>2, Zenon
  <2>7. x <= Allowance(Top.rule, Top.item + 1) - Allowance(Top.rule, Top.item)
    BY <2>4, <2>3, Zenon
  <2> QED BY <1>1, <2>1, <2>3, <2>2, <2>6, <2>7, NextOne
<1> QED BY <1>2, <1>3 DEF TakeToken

(* A token taken by a "takeAll" item leaves the call at its item; at the   *)
(* end of the run the call moves on as it stands.                          *)
LEMMA RoomTakenAll ==
  ASSUME IInv, LimitsInv, TakeTokens
  PROVE  LimitsInv'
<1>1. stack # <<>> /\ returned = "none" /\ Top.item <= Len(Items(Top)) /\ Current.op = "takeAll"
  BY DEF TakeTokens, Working, Doing
<1>2. /\ position \in Nat /\ IsSink(sink) /\ Len(sink.nodes) \in Nat /\ Len(tokens) \in Nat
      /\ IsCall(Top) /\ Room(Top, Len(stack))
  BY <1>1, TopNumbers
<1>3. CASE Peek \in Current.tokens /\ GoOn(Top, position + 1, Terminal(sink, position))
  <2> DEFINE s == Terminal(sink, position)
  <2>1. IsSink(s) BY <1>1, <1>3, OneTaken
  <2>2. PICK p \in Nat :
          /\ p = position + 1 /\ Top.at <= p /\ p <= Len(tokens)
          /\ Len(s.nodes) <= Count(Top.here) + 4 * (p - Top.at) + 0
    BY <1>1, <1>3, OneTaken
  <2>3. GoOn(Top, position + 1, s) BY <1>3
  <2> HIDE DEF s
  <2>4. Continues(Top, Top) BY <1>2, Reframed
  <2>5. /\ Top.alternative \in Nat \ {0}
        /\ Calling(Top) => Top.alternative <= Len(Items(Top)[Top.item].rules)
    BY <1>2 DEF Room
  <2>6. GoOn(Top, p, s) BY <2>3, <2>2, Zenon
  <2> QED BY <1>1, <2>1, <2>4, <2>5, <2>2, <2>6, SameItem
<1>4. CASE NextItem(position, sink)
  <2>1. position = Top.at /\ Len(sink.nodes) <= Count(Top.here) BY <1>1, AtRest
  <2>2. 0 <= Allowance(Top.rule, Top.item + 1) - Allowance(Top.rule, Top.item)
    <3>1. Sized(Top.rule, Top.item) /\ Rules[Top.rule].items[Top.item].op = "takeAll"
      BY <1>1, WorkedOn
    <3>2. Allowance(Top.rule, Top.item + 1) - Allowance(Top.rule, Top.item) >= 0
      BY <3>1 DEF Sized
    <3>3. /\ Allowance(Top.rule, Top.item + 1) \in -5 .. 2
          /\ Allowance(Top.rule, Top.item) \in -5 .. 2
      BY AllowanceSmall
    <3> HIDE DEF Allowance
    <3> QED BY <3>2, <3>3
  <2>3. Len(sink.nodes) <= Count(Top.here) + 4 * (position - Top.at) + 0
    <3>1. PICK c \in Nat : c = Len(sink.nodes) BY <1>2
    <3>2. PICK h \in Nat : h = Count(Top.here) BY <1>1, Innermost
    <3>3. PICK b \in Nat : b = Top.at BY <1>2 DEF IsCall
    <3>5. c <= h + 4 * (b - b) + 0 BY <2>1, <3>1, <3>2
    <3> QED BY <2>1, <3>1, <3>2, <3>3, <3>5
  <2>4. Top.at <= position /\ position <= Len(tokens)
    BY <1>2, <2>1 DEF LimitsInv
  <2> QED BY <1>1, <1>2, <1>4, <2>2, <2>3, <2>4, NextOne
<1> QED BY <1>3, <1>4 DEF TakeTokens
-----------------------------------------------------------------------------
(* What a call that succeeded leaves to its caller                         *)
LEMMA CallEnded ==
  ASSUME IInv, LimitsInv, stack # <<>>, returned = "ok"
  PROVE  /\ Top.item <= Len(Items(Top)) /\ Top.at <= position
         /\ \E x \in Int :
              /\ Len(sink.nodes) <= Count(Top.here) + 4 * (position - Top.at) + x
              /\ x <= Allowance(Top.rule, Top.item + 1) - Allowance(Top.rule, Top.item)
         /\ Current.op \in {"star", "plus"} =>
              Len(sink.nodes) <= Count(Top.here) + 4 * (position - Top.at) + 0
<1>1. /\ Calling(Top) /\ Top.at <= position
      /\ Len(sink.nodes) <= Count(Top.here) + 4 * (position - Top.at) + Total(Callee(Top))
  BY DEF LimitsInv, Due
<1>2. Room(Top, Len(stack)) /\ position \in Nat /\ Len(sink.nodes) \in Nat /\ IsCall(Top)
  BY TopNumbers
<1>3. LET more == Allowance(Top.rule, Top.item + 1) - Allowance(Top.rule, Top.item)
          op   == Items(Top)[Top.item].op
      IN /\ op \in {"call", "choice"} => Total(Callee(Top)) <= more
         /\ op \in {"optional", "star", "plus"} => Total(Callee(Top)) <= 0 /\ more >= 0
  BY <1>1, <1>2, CalleeFits
<1>4. Items(Top)[Top.item] = Current /\ Current.op \in Callers /\ Top.item <= Len(Items(Top))
  BY <1>1 DEF Current, Calling
<1>5. /\ Allowance(Top.rule, Top.item) \in -5 .. 2
      /\ Allowance(Top.rule, Top.item + 1) \in -5 .. 2 /\ Total(Callee(Top)) \in -5 .. 2
  BY AllowanceSmall
<1>6. PICK x \in Int : x = Total(Callee(Top)) BY <1>5
<1>7. PICK y \in Int : y = Allowance(Top.rule, Top.item + 1) - Allowance(Top.rule, Top.item)
  BY <1>5
<1>8. /\ Current.op \in {"call", "choice"} => x <= y
      /\ Current.op \in {"optional", "star", "plus"} => x <= 0 /\ y >= 0
  BY <1>3, <1>4, <1>6, <1>7
<1>9. x <= y
  <2>1. CASE Current.op \in {"call", "choice"} BY <1>8, <2>1
  <2>2. CASE Current.op \in {"optional", "star", "plus"}
    <3>1. x <= 0 /\ y >= 0 BY <1>8, <2>2
    <3> QED BY <3>1
  <2> QED BY <1>4, <2>1, <2>2 DEF Callers
<1>10. Len(sink.nodes) <= Count(Top.here) + 4 * (position - Top.at) + x BY <1>1, <1>6
<1>11. ASSUME Current.op \in {"star", "plus"}
       PROVE  Len(sink.nodes) <= Count(Top.here) + 4 * (position - Top.at) + 0
  <2>1. x <= 0 BY <1>8, <1>11
  <2>2. PICK c \in Nat : c = Len(sink.nodes) BY <1>2
  <2>3. PICK h \in Nat : h = Count(Top.here) BY Innermost
  <2>4. PICK b \in Nat : b = Top.at BY <1>2 DEF IsCall
  <2>5. PICK p \in Nat : p = position BY <1>2
  <2>6. c <= h + 4 * (p - b) + x BY <1>10, <2>2, <2>3, <2>4, <2>5
  <2>7. c <= h + 4 * (p - b) + 0 BY <2>1, <2>6
  <2> QED BY <2>2, <2>3, <2>4, <2>5, <2>7
<1>12. x <= Allowance(Top.rule, Top.item + 1) - Allowance(Top.rule, Top.item) BY <1>7, <1>9
<1>13. \E z \in Int :
         /\ Len(sink.nodes) <= Count(Top.here) + 4 * (position - Top.at) + z
         /\ z <= Allowance(Top.rule, Top.item + 1) - Allowance(Top.rule, Top.item)
  BY <1>10, <1>12
<1> QED BY <1>1, <1>4, <1>11, <1>13

(* The caller goes on after a call that succeeded.                         *)
LEMMA RoomAccepted ==
  ASSUME IInv, LimitsInv, Accept
  PROVE  LimitsInv'
<1>1. stack # <<>> /\ returned = "ok" BY DEF Accept
<1>2. /\ Top.item <= Len(Items(Top)) /\ Top.at <= position
      /\ \E x \in Int :
           /\ Len(sink.nodes) <= Count(Top.here) + 4 * (position - Top.at) + x
           /\ x <= Allowance(Top.rule, Top.item + 1) - Allowance(Top.rule, Top.item)
      /\ Current.op \in {"star", "plus"} =>
           Len(sink.nodes) <= Count(Top.here) + 4 * (position - Top.at) + 0
  BY <1>1, CallEnded
<1>3. /\ position \in Nat /\ IsSink(sink) /\ IsCall(Top) /\ Room(Top, Len(stack))
  BY <1>1, TopNumbers
<1>4. position <= Len(tokens) BY DEF LimitsInv
<1>5. CASE Doing({"star", "plus"}) /\ GoOn([Top EXCEPT !.taken = 1], position, sink)
  <2> DEFINE f == [Top EXCEPT !.taken = 1]
  <2>1. f.item = Top.item /\ f.alternative = Top.alternative /\ f.rule = Top.rule
    BY <1>3, NextFields
  <2>2. Continues(f, Top) BY <1>3, Reframed
  <2>3. GoOn(f, position, sink) BY <1>5
  <2> HIDE DEF f
  <2>4. Len(sink.nodes) <= Count(Top.here) + 4 * (position - Top.at) + 0
    BY <1>2, <1>5 DEF Doing
  <2>5. f.alternative \in Nat \ {0} BY <1>3, <2>1 DEF Room
  <2>6. Calling(f) => f.alternative <= Len(Items(f)[f.item].rules)
    BY <1>3, <2>1 DEF Room, Calling, Items
  <2> QED BY <1>1, <1>2, <1>3, <1>4, <2>1, <2>2, <2>3, <2>4, <2>5, <2>6, SameItem
<1>6. CASE GiveUp BY <1>1, <1>6, RoomGivenUp
<1>7. CASE NextItem(position, sink)
  <2>1. PICK x \in Int :
           /\ Len(sink.nodes) <= Count(Top.here) + 4 * (position - Top.at) + x
           /\ x <= Allowance(Top.rule, Top.item + 1) - Allowance(Top.rule, Top.item)
    BY <1>2
  <2> QED BY <1>1, <1>2, <1>3, <1>4, <1>7, <2>1, NextOne
<1> QED BY <1>5, <1>6, <1>7 DEF Accept

(* The caller goes on, or back, after a call that failed.                  *)
LEMMA RoomRejected ==
  ASSUME IInv, LimitsInv, Reject
  PROVE  LimitsInv'
<1> DEFINE back == Restore(sink, Top.here)
           next == [Top EXCEPT !.alternative = @ + 1]
<1>1. stack # <<>> /\ returned = "failed" BY DEF Reject
<1>2. Calling(Top) BY <1>1 DEF LimitsInv, Due
<1>3. /\ IsSink(sink) /\ IsCall(Top) /\ Room(Top, Len(stack)) /\ Top.at \in Nat
  BY <1>1, TopNumbers DEF IsCall
<1>4. Top.item <= Len(Items(Top)) /\ Items(Top)[Top.item] = Current /\ Current.op \in Callers
  BY <1>2 DEF Calling, Current
<1>5. Top.at <= Top.at /\ Top.at <= Len(tokens)
  <2>1. Len(stack) \in 1 .. Len(stack) BY <1>1, Innermost
  <2> QED BY <1>3, <2>1 DEF LimitsInv, Top
<1>6. IsSink(back) /\ Len(back.nodes) <= Count(Top.here) + 4 * (Top.at - Top.at) + 0
  <2>1. Mark(Top.here, Len(sink.nodes)) /\ Count(Top.here) \in Nat BY <1>1, Innermost
  <2>2. IsSink(back) /\ Len(back.nodes) = Count(Top.here) BY <1>3, <2>1, Restored
  <2> HIDE DEF back
  <2>3. PICK h \in Nat : h = Count(Top.here) BY <2>1
  <2>4. PICK b \in Nat : b = Top.at BY <1>3
  <2>5. h <= h + 4 * (b - b) + 0 OBVIOUS
  <2> QED BY <2>2, <2>3, <2>4, <2>5
<1>7. CASE GiveUp BY <1>1, <1>7, RoomGivenUp
<1>8. CASE Top.alternative < Len(Current.rules) /\ GoOn(next, Top.at, back)
  <2>1. /\ next.item = Top.item /\ next.alternative = Top.alternative + 1
        /\ next.rule = Top.rule
    BY <1>3, NextFields
  <2>2. Continues(next, Top) BY <1>3, Reframed
  <2>3. GoOn(next, Top.at, back) BY <1>8
  <2> HIDE DEF next, back
  <2>4. Top.alternative \in Nat BY <1>3 DEF Room
  <2>5. next.alternative \in Nat \ {0} BY <2>1, <2>4
  <2>6. Items(next)[next.item] = Current BY <1>4, <2>1 DEF Items
  <2>7. Len(Current.rules) \in Nat
    <3>1. Sized(Top.rule, Top.item) /\ Rules[Top.rule].items[Top.item] = Current
      BY <1>1, <1>4, WorkedOn
    <3>2. Len(Current.rules) \in 1 .. 7 BY <1>4, <3>1 DEF Sized
    <3> QED BY <3>2
  <2>8. next.alternative <= Len(Items(next)[next.item].rules)
    BY <1>8, <2>1, <2>4, <2>6, <2>7
  <2> QED BY <1>1, <1>3, <1>5, <1>6, <2>1, <2>2, <2>3, <2>5, <2>8, SameItem
<1>9. CASE Current.op \in {"optional", "star", "plus"} /\ NextItem(Top.at, back)
  <2>1. Sized(Top.rule, Top.item) /\ Rules[Top.rule].items[Top.item] = Current
    BY <1>1, <1>4, WorkedOn
  <2>2. Allowance(Top.rule, Top.item + 1) - Allowance(Top.rule, Top.item) >= 0
    BY <1>9, <2>1 DEF Sized
  <2>3. /\ Allowance(Top.rule, Top.item) \in -5 .. 2
        /\ Allowance(Top.rule, Top.item + 1) \in -5 .. 2
    BY AllowanceSmall
  <2>4. PICK x \in Int : x = 0 OBVIOUS
  <2>5. x <= Allowance(Top.rule, Top.item + 1) - Allowance(Top.rule, Top.item)
    <3> HIDE DEF Allowance
    <3> QED BY <2>2, <2>3, <2>4
  <2>6. Len(back.nodes) <= Count(Top.here) + 4 * (Top.at - Top.at) + x
    BY <1>6, <2>4, Zenon
  <2>7. NextItem(Top.at, back) BY <1>9
  <2> HIDE DEF back
  <2> QED BY <1>1, <1>3, <1>4, <1>5, <1>6, <2>4, <2>5, <2>6, <2>7, NextOne
<1>10. \/ GiveUp
       \/ Top.alternative < Len(Current.rules) /\ GoOn(next, Top.at, back)
       \/ Current.op \in {"optional", "star", "plus"} /\ NextItem(Top.at, back)
  <2> HIDE DEF next, back
  <2>1. CASE Doing({"call"}) \/ (Doing({"plus"}) /\ Top.taken = 0)
    <3>1. ~Doing({"choice"}) BY <2>1 DEF Doing
    <3> QED BY <2>1, <3>1 DEF Reject
  <2>2. CASE Doing({"choice"})
    <3>1. ~Doing({"call"}) /\ ~Doing({"plus"}) BY <2>2 DEF Doing
    <3> QED BY <2>2, <3>1 DEF Reject, next, back
  <2>3. CASE ~(Doing({"call"}) \/ (Doing({"plus"}) /\ Top.taken = 0)) /\ ~Doing({"choice"})
    <3>1. Current.op \in {"optional", "star", "plus"}
      BY <1>4, <2>3 DEF Doing, Callers
    <3> QED BY <2>3, <3>1 DEF Reject, back
  <2> QED BY <2>1, <2>2, <2>3
<1> QED BY <1>7, <1>8, <1>9, <1>10

(* A call that worked through its items has no more nodes than its rule    *)
(* leaves.                                                                 *)
LEMMA RoomSucceeded ==
  ASSUME IInv, LimitsInv, Succeed
  PROVE  LimitsInv'
<1>1. /\ stack # <<>> /\ returned = "none" /\ Top.item > Len(Items(Top)) /\ Return("ok")
      /\ sink' = End(sink, Top.rule) /\ position' = position
  BY DEF Succeed, Working
<1>2. /\ IsSink(sink) /\ position \in Nat /\ Len(sink.nodes) \in Nat /\ Len(tokens) \in Nat
      /\ Room(Top, Len(stack)) /\ IsCall(Top)
  BY <1>1, TopNumbers
<1>3. Len(sink'.nodes) = Len(sink.nodes) BY <1>1, <1>2, Ended
<1>4. position = Top.at /\ Len(sink.nodes) <= Count(Top.here) /\ position <= Len(tokens)
  BY <1>1, AtRest DEF LimitsInv
<1>5. Allowance(Top.rule, Top.item) = Total(Top.rule)
  <2>1. Fits(Top.rule) BY <1>2, EveryRuleFits DEF Room
  <2>2. PICK n \in Nat : n = Len(Items(Top)) BY <2>1 DEF Fits, Items
  <2>3. Top.item \in 1 .. n + 1 /\ Top.item > n BY <1>1, <1>2, <2>2 DEF Room
  <2>4. Top.item = n + 1 BY <2>3
  <2> QED BY <2>1, <2>2, <2>4 DEF Fits, Items
<1>6. Total(Top.rule) \in -5 .. 2 BY AllowanceSmall
<1>7. PICK v \in Int : v = Total(Top.rule) BY <1>6
<1>8. PICK c \in Nat : c = Len(sink.nodes) BY <1>2
<1>9. PICK x \in Int : x = v - v BY <1>7
<1>10. Top.at <= position /\ c <= Count(Top.here) + 4 * (position - Top.at) + x
  <2>1. PICK h \in Nat : h = Count(Top.here) BY <1>1, Innermost
  <2>2. PICK b \in Nat : b = position BY <1>2
  <2>3. c <= h BY <1>4, <1>8, <2>1
  <2>4. b <= b /\ c <= h + 4 * (b - b) + x BY <1>9, <2>3
  <2>5. b = Top.at BY <1>4, <2>2
  <2> QED BY <2>1, <2>2, <2>4, <2>5
<1>11. x <= v - Allowance(Top.rule, Top.item)
  <2>1. x <= v - v BY <1>9
  <2> QED BY <1>5, <1>7, <2>1
<1>12. Top.start <= position /\ c <= Count(Top.mark) + 4 * (position - Top.start) + v
  BY <1>1, <1>2, <1>10, <1>11, Advanced
<1>13. Top.start <= position'
       /\ Len(sink'.nodes) <= Count(Top.mark) + 4 * (position' - Top.start) + Total(Top.rule)
  BY <1>1, <1>3, <1>7, <1>8, <1>12
<1>14. position' \in Nat /\ position' <= Len(tokens) /\ Len(sink'.nodes) \in Nat
  BY <1>1, <1>2, <1>3, <1>4
<1> QED BY <1>1, <1>13, <1>14, RoomPopped

(* Nothing else is read.                                                   *)
LEMMA RoomKept ==
  ASSUME LimitsInv, UNCHANGED <<tokens, position, stack, returned, sink>>
  PROVE  LimitsInv'
BY DEF LimitsInv, Top

(* Every step keeps the invariant, which the first state has.              *)
LEMMA LimitsStep == IInv /\ LimitsInv /\ [Next]_vars => LimitsInv'
<1> SUFFICES ASSUME IInv, LimitsInv, [Next]_vars PROVE LimitsInv' OBVIOUS
<1>1. CASE Allocate
  <2>1. stack = <<>> /\ returned = "none" /\ Enter("Input") BY <1>1 DEF Allocate
  <2>2. "Input" \in RuleNames BY DEF RuleNames
  <2> QED BY <2>1, <2>2, RoomEntered
<1>2. CASE MemoTooLarge \/ MemoNoMem
  BY <1>2, RoomKept DEF MemoTooLarge, MemoNoMem, MemoRefused
<1>3. CASE TakeToken BY <1>3, RoomTaken
<1>4. CASE TakeTokens BY <1>4, RoomTakenAll
<1>5. CASE CallRule
  <2>1. stack # <<>> /\ returned = "none" /\ Calling(Top) /\ Enter(Callee(Top))
    BY <1>5 DEF CallRule, Working, Doing, Calling, Callee, Current, Callers
  <2>2. Room(Top, Len(stack)) BY <2>1, TopNumbers
  <2>3. Callee(Top) \in RuleNames BY <2>1, <2>2, CalleeFits
  <2> QED BY <2>1, <2>3, RoomEntered
<1>6. CASE Accept BY <1>6, RoomAccepted
<1>7. CASE Reject BY <1>7, RoomRejected
<1>8. CASE Succeed BY <1>8, RoomSucceeded
<1>9. CASE Answer BY <1>9, RoomKept DEF Answer
<1>10. CASE UNCHANGED vars BY <1>10, RoomKept DEF vars
<1> QED BY <1>1, <1>2, <1>3, <1>4, <1>5, <1>6, <1>7, <1>8, <1>9, <1>10 DEF Next

LEMMA LimitsInit == Init => LimitsInv
<1> SUFFICES ASSUME Init PROVE LimitsInv OBVIOUS
<1>1. /\ stack = <<>> /\ Len(stack) = 0 /\ returned = "none" /\ position = 0
      /\ Len(sink.nodes) = 0 /\ tokens \in Patterns
  BY DEF Init, EmptySink
<1>2. Len(tokens) \in Nat BY <1>1, ParserAssumption
<1>3. /\ \A k \in 1 .. Len(stack) : FALSE
      /\ \A k \in 1 .. Len(stack) - 1 : FALSE
  BY <1>1
<1>4. position <= Len(tokens) /\ Len(sink.nodes) <= 4 * position + 0 BY <1>1, <1>2
<1> QED BY <1>1, <1>3, <1>4 DEF LimitsInv

(* Nodes and calls stay within the bounds.                                 *)
LEMMA LimitsBound == IInv /\ LimitsInv => LimitsSuffice
<1> SUFFICES ASSUME IInv, LimitsInv PROVE LimitsSuffice OBVIOUS
<1>1. /\ Len(stack) \in Nat /\ Len(sink.nodes) \in Nat /\ position \in Nat
  BY Lengths DEF IInv, Shape, IsSink
<1>2. CASE Len(stack) = 0
  <2>1. Len(sink.nodes) <= 4 * position + 2
    <3>1. Len(sink.nodes) <= 4 * position \/ Len(sink.nodes) <= 4 * position + 2
      BY <1>1, <1>2 DEF LimitsInv
    <3>2. PICK c \in Nat : c = Len(sink.nodes) BY <1>1
    <3>3. PICK p \in Nat : p = position BY <1>1
    <3>4. c <= 4 * p \/ c <= 4 * p + 2 BY <3>1, <3>2, <3>3
    <3>5. c <= 4 * p + 2 BY <3>4
    <3> QED BY <3>2, <3>3, <3>5
  <2> QED BY <1>1, <1>2, <2>1 DEF LimitsSuffice, NodesFit, StackFits
<1>3. CASE Len(stack) # 0
  <2>1. stack # <<>> BY <1>3
  <2>2. Room(Top, Len(stack)) /\ Due(Top, returned, position, Len(sink.nodes))
    BY <2>1, TopNumbers DEF LimitsInv
  <2>3. Len(stack) <= 44
    <3>1. Level[Top.rule] \in 1 .. 44 /\ Len(stack) <= Level[Top.rule]
      BY <2>2, EveryRuleFits DEF Room, Fits
    <3>2. PICK l \in 1 .. 44 : l = Level[Top.rule] BY <3>1
    <3>3. PICK n \in Nat : n = Len(stack) BY <1>1
    <3>4. n <= 44
      <4>1. n <= l BY <3>1, <3>2, <3>3
      <4> QED BY <4>1
    <3> QED BY <3>3, <3>4
  <2>4. PICK m, h, a, b \in Nat, w \in Int :
          /\ m = Count(Top.mark) /\ h = Count(Top.here) /\ a = Top.start /\ b = Top.at
          /\ w = Allowance(Top.rule, Top.item) /\ a <= b /\ b <= Len(tokens)
          /\ h <= m + 4 * (b - a) + w /\ m <= 4 * a + Len(stack) - 1
    BY <2>1, TopNumbers
  <2>5. PICK n \in Nat : n = Len(stack) BY <1>1
  <2>6. PICK c \in Nat : c = Len(sink.nodes) BY <1>1
  <2>7. PICK p \in Nat : p = position BY <1>1
  <2>8. w <= 2
    <3>1. Allowance(Top.rule, Top.item) \in -5 .. 2 BY AllowanceSmall
    <3>2. w \in -5 .. 2 BY <2>4, <3>1, Zenon
    <3> QED BY <3>2
  <2>9. PICK t \in -5 .. 2 : t = Total(Callee(Top)) BY AllowanceSmall
  <2>10. h <= m + 4 * (b - a) + w /\ m <= 4 * a + n - 1 BY <2>4, <2>5
  <2>11. b <= p /\ c <= h + 4 * (p - b) + 2
    <3>1. CASE returned \in {"none", "failed"}
      <4>1. p = b /\ c <= h BY <2>1, <2>4, <2>6, <2>7, <3>1, AtRest
      <4> QED BY <4>1
    <3>2. CASE returned = "ok"
      <4>1. b <= p /\ c <= h + 4 * (p - b) + t
        BY <2>2, <2>4, <2>6, <2>7, <2>9, <3>2 DEF Due
      <4> QED BY <2>9, <4>1
    <3> QED BY <3>1, <3>2 DEF LimitsInv
  <2>12. c <= 4 * p + n + 4 BY <2>8, <2>10, <2>11
  <2>13. Len(sink.nodes) <= 4 * position + Len(stack) + 4 BY <2>5, <2>6, <2>7, <2>12
  <2> QED BY <2>3, <2>13 DEF LimitsSuffice, NodesFit, StackFits
<1> QED BY <1>2, <1>3

(* The node array and the C stack have room for every pattern: a call of   *)
(* a rule is never deeper than the rule's level in the grammar, and the    *)
(* nodes never outgrow four for each token taken and one for each call     *)
(* (nodes[8192] of BreCompile; the numbered rules that unroll the groups). *)
THEOREM LimitsHold == Spec => []LimitsSuffice
<1>1. Spec => [](IInv /\ LimitsInv)
  <2>1. Init => IInv /\ LimitsInv BY InitIInv, LimitsInit
  <2>2. IInv /\ LimitsInv /\ [Next]_vars => (IInv /\ LimitsInv)'
    BY Steps, LimitsStep
  <2> QED BY <2>1, <2>2, PTL DEF Spec
<1> QED BY <1>1, LimitsBound, PTL

(* An event overflows the sink only if it is full, or nothing is open.     *)
LEMMA OverflowsOnly ==
  ASSUME NEW s, IsSink(s), ~s.overflow
  PROVE  /\ ~Full(s) => \A r : ~Start(s, r).overflow
         /\ ~Full(s) => \A p : ~Terminal(s, p).overflow
         /\ s.active # None => \A r : ~End(s, r).overflow
         /\ \A m : ~Restore(s, m).overflow
<1>1. s = [nodes |-> s.nodes, active |-> s.active, overflow |-> s.overflow, deep |-> s.deep]
  BY DEF IsSink
<1>2. ~Full(s) => \A r : ~Start(s, r).overflow BY <1>1 DEF Start
<1>3. ~Full(s) => \A p : ~Terminal(s, p).overflow BY <1>1 DEF Terminal
<1>4. s.active # None => \A r : ~End(s, r).overflow BY <1>1 DEF End
<1>5. \A m : ~Restore(s, m).overflow BY <1>1 DEF Restore
<1> QED BY <1>2, <1>3, <1>4, <1>5

(* Room for the nodes of every prefix of the pattern, however deep.        *)
Roomy == 4 * Len(tokens) + 48 < NodeLimit

(* No step overflows an array with room for every token.                   *)
LEMMA RoomyStep ==
  IInv /\ LimitsInv /\ (Roomy => ~sink.overflow) /\ [Next]_vars => (Roomy => ~sink.overflow)'
<1> SUFFICES ASSUME IInv, LimitsInv, Roomy => ~sink.overflow, [Next]_vars, Roomy'
             PROVE  ~sink'.overflow
  OBVIOUS
<1>1. tokens' = tokens
  BY DEF Next, vars, Allocate, Enter, MemoTooLarge, MemoNoMem, MemoRefused, TakeToken,
         TakeTokens, NextItem, GoOn, GiveUp, Return, CallRule, Accept, Reject, Succeed, Answer
<1>2. Roomy /\ ~sink.overflow BY <1>1 DEF Roomy
<1>3. ~Full(sink)
  <2>1. /\ Len(sink.nodes) \in Nat /\ Len(stack) \in Nat /\ position \in Nat
        /\ Len(tokens) \in Nat
    BY Lengths, ParserAssumption DEF IInv, Shape, IsSink, LimitsInv
  <2>2. Len(sink.nodes) <= 4 * position + Len(stack) + 4 /\ Len(stack) <= 44
    BY LimitsBound DEF LimitsSuffice, NodesFit, StackFits
  <2>3. position <= Len(tokens) BY DEF LimitsInv
  <2>4. PICK c \in Nat : c = Len(sink.nodes) BY <2>1
  <2>5. PICK k \in Nat : k = Len(stack) BY <2>1
  <2>6. PICK p \in Nat : p = position BY <2>1
  <2>7. PICK n \in Nat : n = Len(tokens) BY <2>1
  <2>8. PICK l \in Nat : l = NodeLimit BY NodeAssumption
  <2>9. c <= 4 * p + k + 4 /\ k <= 44 /\ p <= n /\ 4 * n + 48 < l
    BY <1>2, <2>2, <2>3, <2>4, <2>5, <2>6, <2>7, <2>8 DEF Roomy
  <2>10. c < l BY <2>9
  <2> QED BY <2>4, <2>8, <2>10 DEF Full
<1>4. IsSink(sink) BY DEF IInv, Shape
<1>5. stack # <<>> => sink.active # None
  <2> SUFFICES ASSUME stack # <<>> PROVE sink.active # None OBVIOUS
  <2>1. Len(stack) \in Nat /\ Len(stack) >= 1 /\ Count(Top.mark) \in Nat BY Innermost
  <2>2. sink.active = NodeOf(Len(stack)) BY <1>2 DEF IInv, Faithful
  <2>3. sink.active = Count(Top.mark) BY <2>1, <2>2 DEF NodeOf, Count, Top
  <2> QED BY <2>1, <2>3 DEF None
<1>6. /\ \A r : ~Start(sink, r).overflow
      /\ \A p : ~Terminal(sink, p).overflow
      /\ stack # <<>> => \A r : ~End(sink, r).overflow
      /\ \A m : ~Restore(sink, m).overflow
  BY <1>2, <1>3, <1>4, <1>5, OverflowsOnly
<1>7. CASE Allocate \/ CallRule BY <1>2, <1>6, <1>7 DEF Allocate, CallRule, Enter
<1>8. CASE TakeToken BY <1>6, <1>8 DEF TakeToken, NextItem, GoOn, GiveUp
<1>9. CASE TakeTokens BY <1>2, <1>6, <1>9 DEF TakeTokens, NextItem, GoOn
<1>10. CASE Accept BY <1>2, <1>6, <1>10 DEF Accept, NextItem, GoOn, GiveUp
<1>11. CASE Reject
  <2>1. sink' = Restore(sink, Top.here) \/ sink' = Restore(sink, Top.mark)
    BY <1>11, Zenon DEF Reject, NextItem, GoOn, GiveUp
  <2> QED BY <1>6, <2>1
<1>12. CASE Succeed BY <1>6, <1>12 DEF Succeed, Working
<1>13. CASE MemoTooLarge \/ MemoNoMem \/ Answer \/ UNCHANGED vars
  BY <1>2, <1>13 DEF MemoTooLarge, MemoNoMem, MemoRefused, Answer, vars
<1> QED BY <1>7, <1>8, <1>9, <1>10, <1>11, <1>12, <1>13 DEF Next

(* So the array of nodes never overflows if it has four nodes for each     *)
(* token and 48 more. BreCompile holds 1025 tokens and 8192 nodes: a       *)
(* pattern never becomes a LIMIT for want of nodes.                        *)
THEOREM NeverOverflows == Spec => [](Roomy => ~sink.overflow)
<1>1. Init => IInv /\ LimitsInv /\ (Roomy => ~sink.overflow)
  <2>1. Init => ~sink.overflow BY DEF Init, EmptySink
  <2> QED BY <2>1, InitIInv, LimitsInit
<1>2. IInv /\ LimitsInv /\ (Roomy => ~sink.overflow) /\ [Next]_vars
        => (IInv /\ LimitsInv /\ (Roomy => ~sink.overflow))'
  BY Steps, LimitsStep, RoomyStep
<1> QED BY <1>1, <1>2, PTL DEF Spec
-----------------------------------------------------------------------------
(* What the grammar gives the tokens (BreDerivations), and what the parser *)
(* makes of them: the nodes a + 1 to b that are closed, as trees ...       *)
TreeAt(nodes, k) ==
  [kind |-> nodes[k].kind, name |-> nodes[k].name, token |-> nodes[k].token,
   size |-> nodes[k].end - (k - 1)]

Forest(nodes, a, b) == [i \in 1 .. b - a |-> TreeAt(nodes, a + i)]

(* ... the alternatives that the call f tried before this one fail at p ... *)
Tried(D, f, p) ==
  Calling(f) =>
    /\ Items(f)[f.item].op # "choice" => f.alternative = 1
    /\ \A a \in 1 .. f.alternative - 1 : Failed(D, Items(f)[f.item].rules[a], p)

(* ... it has read the trees that it left, and its own node is a rule's ... *)
Told(D, f, nodes) ==
  /\ Part(f.rule, f.start, f.item, f.taken, f.at,
          Forest(nodes, Count(f.mark) + 1, Count(f.here))) \in D.parts
  /\ Tried(D, f, f.at)
  /\ nodes[Count(f.mark) + 1].kind = "rule" /\ nodes[Count(f.mark) + 1].token = 0

(* ... and the answer of rule r, called at token i with m nodes, is so.    *)
Learned(D, r, i, m, answer, p, nodes) ==
  /\ answer = "failed" => Failed(D, r, i)
  /\ answer = "ok" => Whole(r, i, p, Forest(nodes, m, Len(nodes))) \in D.ends

(* Nothing is done yet, or the first call is of Input.                     *)
Outset ==
  /\ Len(stack) # 0 => stack[1].rule = "Input" /\ stack[1].start = 0
  /\ Len(stack) = 0 /\ returned = "none" => position = 0 /\ Len(sink.nodes) = 0
  /\ Len(stack) = 0 /\ returned = "ok" => Len(sink.nodes) # 0

Overdeep(D) == \E e \in D.ends : e.rule = "DepthOverflow"

Derived(D) ==
  /\ memo \subseteq D.fails
  /\ \A k \in 1 .. Len(stack) : Told(D, stack[k], sink.nodes)
  /\ Len(stack) # 0 =>
       Learned(D, Callee(Top), Top.at, Count(Top.here), returned, position, sink.nodes)
  /\ Len(stack) = 0 => Learned(D, "Input", 0, 0, returned, position, sink.nodes)
  /\ sink.deep => Overdeep(D)

(* What the status says of the grammar and the tokens                      *)
Judged(D) ==
  /\ verdict = "OK" =>
       Whole("Input", 0, Len(tokens), Forest(sink.nodes, 0, Len(sink.nodes))) \in D.ends
  /\ verdict = "BADPAT" =>
       \/ Failed(D, "Input", 0)
       \/ \E e \in D.ends : e.rule = "Input" /\ e.start = 0 /\ e.at # Len(tokens)
  /\ verdict = "LIMIT" =>
       \/ sink.overflow \/ RuleCount > MemoMax \div (Len(tokens) + 1)
       \/ Overdeep(D)

TreeInv(D) ==
  Closed(D, tokens) => Judged(D) /\ (~sink.overflow => Outset /\ Derived(D))
-----------------------------------------------------------------------------
(* Nodes as trees: what an event or a restore leaves alone reads the same, *)
Untouched(t, s, n) == \A i \in 1 .. n : t[i] = s[i]

LEMMA ForestKept ==
  ASSUME NEW s, NEW t, NEW a \in Nat, NEW b \in Nat, Untouched(t, s, b)
  PROVE  Forest(t, a, b) = Forest(s, a, b)
<1>1. \A i \in 1 .. b - a : TreeAt(t, a + i) = TreeAt(s, a + i)
  <2>1. \A i \in 1 .. b - a : t[a + i] = s[a + i] BY DEF Untouched
  <2> QED BY <2>1 DEF TreeAt
<1> QED BY <1>1 DEF Forest

LEMMA ForestShape ==
  ASSUME NEW s, NEW a \in Nat, NEW b \in Nat, NEW n \in Nat, b = a + n
  PROVE  /\ IsSequence(Forest(s, a, b)) /\ Len(Forest(s, a, b)) = n
         /\ \A i \in 1 .. n : Forest(s, a, b)[i] = TreeAt(s, a + i)
<1> DEFINE S == {TreeAt(s, a + i) : i \in 1 .. n}
           f == [i \in 1 .. n |-> TreeAt(s, a + i)]
<1>1. Forest(s, a, b) = f BY DEF Forest
<1>2. \A i \in 1 .. n : TreeAt(s, a + i) \in S OBVIOUS
<1>3. f \in Seq(S) /\ Len(f) = n
  <2> HIDE DEF S
  <2> QED BY <1>2
<1>4. \A i \in 1 .. n : f[i] = TreeAt(s, a + i) OBVIOUS
<1> HIDE DEF f, S
<1> QED BY <1>1, <1>3, <1>4 DEF IsSequence

(* One sequence after another is given by its places.                      *)
Chained(s, t, u) ==
  /\ Len(u) = Len(s) + Len(t)
  /\ \A i \in 1 .. Len(s) : s[i] = u[i]
  /\ \A i \in 1 .. Len(t) : t[i] = u[Len(s) + i]

LEMMA Joined ==
  ASSUME NEW s, NEW t, NEW u, IsSequence(s), IsSequence(t), IsSequence(u), Chained(s, t, u)
  PROVE  s \o t = u
<1>m. PICK m \in Nat : m = Len(s) BY Lengths
<1>n. PICK n \in Nat : n = Len(t) BY Lengths
<1>c. /\ Len(s) = m /\ Len(t) = n /\ Len(u) = m + n
      /\ \A i \in 1 .. m : s[i] = u[i]
      /\ \A i \in 1 .. n : t[i] = u[m + i]
  BY <1>m, <1>n DEF Chained
<1>1. PICK S : s \in Seq(S) BY DEF IsSequence
<1>2. PICK T : t \in Seq(T) BY DEF IsSequence
<1>3. PICK U : u \in Seq(U) BY DEF IsSequence
<1>4. PICK V : s \in Seq(V) /\ t \in Seq(V) /\ u \in Seq(V)
  <2>1. s \in Seq(S \cup T \cup U) /\ t \in Seq(S \cup T \cup U) /\ u \in Seq(S \cup T \cup U)
    BY <1>1, <1>2, <1>3
  <2> QED BY <2>1
<1>5. s \o t \in Seq(V) /\ Len(s \o t) = m + n BY <1>c, <1>4
<1>6. ASSUME NEW i \in 1 .. m + n PROVE (s \o t)[i] = u[i]
  <2>1. (s \o t)[i] = IF i <= m THEN s[i] ELSE t[i - m] BY <1>c, <1>4, Z3
  <2>2. CASE i <= m BY <1>c, <2>1, <2>2
  <2>3. CASE ~(i <= m)
    <3>1. PICK j \in 1 .. n : j = i - m BY <2>3
    <3>2. i = m + j BY <3>1
    <3>3. (s \o t)[i] = t[j] BY <1>c, <2>1, <2>3, <3>1
    <3> QED BY <1>c, <3>2, <3>3
  <2> QED BY <2>2, <2>3
<1>7. \A i \in 1 .. Len(s \o t) : (s \o t)[i] = u[i] BY <1>5, <1>6
<1> DEFINE v == s \o t
<1>8. v \in Seq(V) /\ Len(v) = Len(u) /\ \A i \in 1 .. Len(v) : v[i] = u[i] BY <1>c, <1>5, <1>7
<1> HIDE DEF v
<1>9. v = u BY <1>4, <1>8
<1> QED BY <1>9 DEF v

(* two runs of nodes read as one,                                          *)
LEMMA ForestJoined ==
  ASSUME NEW s, NEW a \in Nat, NEW b \in Nat, NEW c \in Nat, a <= b, b <= c
  PROVE  Forest(s, a, b) \o Forest(s, b, c) = Forest(s, a, c)
<1> DEFINE f == Forest(s, a, b)  g == Forest(s, b, c)  h == Forest(s, a, c)
<1>1. PICK m \in Nat : b = a + m
  <2>1. b - a \in Nat /\ b = a + (b - a) OBVIOUS
  <2> QED BY <2>1
<1>2. PICK n \in Nat : c = b + n
  <2>1. c - b \in Nat /\ c = b + (c - b) OBVIOUS
  <2> QED BY <2>1
<1>3. PICK l \in Nat : l = m + n /\ c = a + l BY <1>1, <1>2
<1>4. IsSequence(f) /\ Len(f) = m /\ \A i \in 1 .. m : f[i] = TreeAt(s, a + i)
  BY <1>1, ForestShape
<1>5. IsSequence(g) /\ Len(g) = n /\ \A i \in 1 .. n : g[i] = TreeAt(s, b + i)
  BY <1>2, ForestShape
<1>6. IsSequence(h) /\ Len(h) = l /\ \A i \in 1 .. l : h[i] = TreeAt(s, a + i)
  BY <1>3, ForestShape
<1> HIDE DEF f, g, h
<1>7. \A i \in 1 .. m : f[i] = h[i] BY <1>3, <1>4, <1>6
<1>8. ASSUME NEW i \in 1 .. n PROVE g[i] = h[m + i]
  <2>1. PICK j \in 1 .. l : j = m + i BY <1>3
  <2>2. a + j = b + i BY <1>1, <2>1
  <2> QED BY <1>5, <1>6, <2>1, <2>2
<1>9. Len(h) = m + n BY <1>3, <1>6
<1>10. f \o g = h
  <2>1. IsSequence(f) /\ IsSequence(g) /\ IsSequence(h) BY <1>4, <1>5, <1>6
  <2>2. Len(f) = m /\ Len(g) = n BY <1>4, <1>5
  <2>3. Chained(f, g, h) BY <1>7, <1>8, <1>9, <2>2 DEF Chained
  <2> QED BY <2>1, <2>3, Joined
<1> QED BY <1>10 DEF f, g, h

(* none reads as nothing,                                                  *)
LEMMA ForestNone == ASSUME NEW s, NEW a \in Nat PROVE Forest(s, a, a) = <<>>
<1>1. a = a + 0 OBVIOUS
<1>2. IsSequence(Forest(s, a, a)) /\ Len(Forest(s, a, a)) = 0 BY <1>1, ForestShape
<1> QED BY <1>2 DEF IsSequence

(* and one as its tree.                                                    *)
LEMMA ForestOne ==
  ASSUME NEW s, NEW a \in Nat, NEW b \in Nat, b = a + 1
  PROVE  Forest(s, a, b) = <<TreeAt(s, b)>>
<1> DEFINE f == Forest(s, a, b)
           e == TreeAt(s, b)
<1>1. IsSequence(f) /\ Len(f) = 1 /\ f[1] = e BY ForestShape
<1>2. PICK S : f \in Seq(S) BY <1>1 DEF IsSequence
<1> HIDE DEF e, f
<1>3. f = <<e>> BY <1>1, <1>2
<1> QED BY <1>3 DEF e, f
-----------------------------------------------------------------------------
(* A restore leaves the nodes up to the mark, ...                          *)
LEMMA RestoreLeaves ==
  ASSUME NEW s, IsSink(s), NEW m, Mark(m, Len(s.nodes))
  PROVE  LET t == Restore(s, m)
         IN Untouched(t.nodes, s.nodes, Count(m)) /\ t.deep = s.deep
<1> DEFINE t == Restore(s, m)
<1>1. Len(s.nodes) \in Nat /\ IsSequence(s.nodes) BY Lengths DEF IsSink
<1>2. Count(m) \in 0 .. Len(s.nodes) BY <1>1, MarkFields
<1>3. t.nodes = SubSeq(s.nodes, 1, Count(m)) /\ t.deep = s.deep
  <2>1. s = [nodes |-> s.nodes, active |-> s.active, overflow |-> s.overflow, deep |-> s.deep]
    BY DEF IsSink
  <2> QED BY <2>1 DEF Restore, Count
<1>4. \A i \in 1 .. Count(m) : t.nodes[i] = s.nodes[i] BY <1>1, <1>2, <1>3, Cut
<1> HIDE DEF t
<1> QED BY <1>3, <1>4 DEF Untouched, t

(* the start of a rule those that were there, and a rule's node, ...       *)
LEMMA StartLeaves ==
  ASSUME NEW s, IsSink(s), NEW r, ~Start(s, r).overflow
  PROVE  LET t == Start(s, r)
             c == Len(s.nodes)
         IN /\ Untouched(t.nodes, s.nodes, c) /\ t.deep = s.deep
            /\ t.nodes[c + 1].kind = "rule" /\ t.nodes[c + 1].token = 0
<1> DEFINE t == Start(s, r)
           c == Len(s.nodes)
<1>1. c \in Nat /\ IsSequence(s.nodes) BY Lengths DEF IsSink
<1>2. s = [nodes |-> s.nodes, active |-> s.active, overflow |-> s.overflow, deep |-> s.deep]
  BY DEF IsSink
<1>3. ~Full(s) BY <1>2 DEF Start
<1>4. t.nodes = Append(s.nodes, Node("rule", r, 0, s)) /\ t.deep = s.deep
  BY <1>2, <1>3 DEF Start
<1>5. /\ \A i \in 1 .. c : t.nodes[i] = s.nodes[i]
      /\ t.nodes[c + 1] = Node("rule", r, 0, s)
  BY <1>1, <1>4, Appended
<1>6. Node("rule", r, 0, s).kind = "rule" /\ Node("rule", r, 0, s).token = 0 BY DEF Node
<1> HIDE DEF t
<1> QED BY <1>4, <1>5, <1>6 DEF Untouched, t

(* a terminal those that were there, and reads as a leaf after them, ...   *)
LEMMA TerminalLeaves ==
  ASSUME NEW s, IsSink(s), NEW p, ~Terminal(s, p).overflow,
         NEW a \in Nat, a <= Len(s.nodes)
  PROVE  LET t == Terminal(s, p)
             c == Len(s.nodes)
         IN /\ Untouched(t.nodes, s.nodes, c) /\ t.deep = s.deep /\ Len(t.nodes) = c + 1
            /\ Forest(t.nodes, a, Len(t.nodes)) = Forest(s.nodes, a, c) \o Leaf(p)
<1> DEFINE t == Terminal(s, p)
           node == Node("terminal", "none", p, s)
<1>c. PICK c \in Nat : c = Len(s.nodes) BY Lengths DEF IsSink
<1>1. IsSequence(s.nodes) BY DEF IsSink
<1>2. s = [nodes |-> s.nodes, active |-> s.active, overflow |-> s.overflow, deep |-> s.deep]
  BY DEF IsSink
<1>3. ~Full(s) BY <1>2 DEF Terminal
<1>4. t.nodes = Append(s.nodes, node) /\ t.deep = s.deep
  BY <1>2, <1>3 DEF Terminal
<1>5. /\ \A i \in 1 .. c : t.nodes[i] = s.nodes[i]
      /\ t.nodes[c + 1] = node /\ Len(t.nodes) = c + 1
  <2> HIDE DEF node
  <2> QED BY <1>c, <1>1, <1>4, Appended
<1>6. Untouched(t.nodes, s.nodes, c) BY <1>5 DEF Untouched
<1>7. TreeAt(t.nodes, c + 1) = [kind |-> "terminal", name |-> "none", token |-> p, size |-> 1]
  <2>1. /\ node.kind = "terminal" /\ node.name = "none" /\ node.token = p
        /\ node.end = c + 1
    BY <1>c DEF Node
  <2>2. (c + 1) - ((c + 1) - 1) = 1 OBVIOUS
  <2> HIDE DEF node, t
  <2> QED BY <1>5, <2>1, <2>2 DEF TreeAt
<1>8. Forest(t.nodes, a, c) = Forest(s.nodes, a, c) BY <1>6, ForestKept
<1>9. Forest(t.nodes, c, c + 1) = <<TreeAt(t.nodes, c + 1)>> BY ForestOne
<1>10. Forest(t.nodes, a, c) \o Forest(t.nodes, c, c + 1) = Forest(t.nodes, a, c + 1)
  <2> HIDE DEF t
  <2>0. a <= c BY <1>c
  <2>1. PICK m : m = t.nodes OBVIOUS
  <2>2. PICK d \in Nat : d = c + 1 /\ c <= d OBVIOUS
  <2>3. Forest(m, a, c) \o Forest(m, c, d) = Forest(m, a, d) BY <2>0, <2>2, ForestJoined
  <2> QED BY <2>1, <2>2, <2>3
<1>11. Forest(t.nodes, a, c + 1) = Forest(s.nodes, a, c) \o Leaf(p)
  <2> HIDE DEF t
  <2> QED BY <1>7, <1>8, <1>9, <1>10 DEF Leaf
<1> HIDE DEF t
<1> QED BY <1>c, <1>4, <1>5, <1>6, <1>11 DEF t

(* and the end of a rule those before its node, which reads as its tree.   *)
LEMMA EndLeaves ==
  ASSUME NEW s, IsSink(s), NEW r, NEW a \in Nat, s.active = a,
         s.nodes[a + 1].kind = "rule", s.nodes[a + 1].name = r, s.nodes[a + 1].token = 0
  PROVE  LET t == End(s, r)
             c == Len(s.nodes)
         IN /\ Untouched(t.nodes, s.nodes, a) /\ Len(t.nodes) = c
            /\ t.deep <=> s.deep \/ r = "DepthOverflow"
            /\ Forest(t.nodes, a, c) = Tree(r, Forest(s.nodes, a + 1, c))
<1> DEFINE t == End(s, r)
<1>c. PICK c \in Nat : c = Len(s.nodes) BY Lengths DEF IsSink
<1>b. PICK b \in Nat : b = a + 1 OBVIOUS
<1>1. IsSequence(s.nodes) /\ b \in 1 .. c BY <1>b, <1>c DEF IsSink
<1>2. s = [nodes |-> s.nodes, active |-> s.active, overflow |-> s.overflow, deep |-> s.deep]
  BY DEF IsSink
<1>3. s.active # None BY DEF None
<1> DEFINE e == [s.nodes[b] EXCEPT !.end = c]
           n == [s.nodes EXCEPT ![b] = e]
<1>4. t.nodes = n /\ (t.deep <=> s.deep \/ r = "DepthOverflow")
  <2>1. s.nodes[b] = [kind |-> s.nodes[b].kind, name |-> s.nodes[b].name,
                      token |-> s.nodes[b].token, parent |-> s.nodes[b].parent,
                      end |-> s.nodes[b].end]
    BY <1>1, <1>c DEF IsSink, IsNode
  <2>2. t = [s EXCEPT !.nodes[b].end = c, !.active = s.nodes[b].parent,
                      !.deep = @ \/ r = "DepthOverflow"]
    BY <1>b, <1>c, <1>3 DEF End
  <2>3. t = [nodes |-> n, active |-> s.nodes[b].parent, overflow |-> s.overflow,
             deep |-> s.deep \/ r = "DepthOverflow"]
    BY <1>2, <2>2
  <2> HIDE DEF t, n
  <2> QED BY <2>3
<1>5. /\ Len(n) = c /\ n[b] = e /\ \A i \in 1 .. c : i # b => n[i] = s.nodes[i]
  <2> HIDE DEF e
  <2> QED BY <1>c, <1>1, Updated
<1>6. e.kind = "rule" /\ e.name = r /\ e.token = 0 /\ e.end = c
  <2>1. IsNode(s.nodes[b]) BY <1>1, <1>c DEF IsSink
  <2> QED BY <1>b, <2>1 DEF IsNode
<1> HIDE DEF e, n
<1>7. Untouched(n, s.nodes, a) BY <1>b, <1>1, <1>5 DEF Untouched
<1>8. PICK l \in Nat : c = b + l
  <2>1. c - b \in Nat /\ c = b + (c - b) BY <1>1
  <2> QED BY <2>1
<1>9. Forest(n, b, c) = Forest(s.nodes, b, c)
  <2>1. \A i \in 1 .. c - b : n[b + i] = s.nodes[b + i] BY <1>5
  <2>2. \A i \in 1 .. c - b : TreeAt(n, b + i) = TreeAt(s.nodes, b + i) BY <2>1 DEF TreeAt
  <2> QED BY <2>2 DEF Forest
<1>10. Len(Forest(s.nodes, b, c)) = l
  <2> HIDE DEF t
  <2>1. PICK m : m = s.nodes OBVIOUS
  <2>2. Len(Forest(m, b, c)) = l BY <1>8, ForestShape
  <2> QED BY <2>1, <2>2
<1>11. TreeAt(n, b) = [kind |-> "rule", name |-> r, token |-> 0, size |-> l + 1]
  <2>1. c - (b - 1) = l + 1 BY <1>8
  <2> QED BY <1>5, <1>6, <2>1 DEF TreeAt
<1>12. Forest(n, a, b) = <<TreeAt(n, b)>> BY <1>b, ForestOne
<1>13. Forest(n, a, b) \o Forest(n, b, c) = Forest(n, a, c)
  <2>1. a <= b /\ b <= c BY <1>b, <1>1
  <2> QED BY <2>1, ForestJoined
<1>14. Forest(n, a, c) = Tree(r, Forest(s.nodes, b, c))
  BY <1>9, <1>10, <1>11, <1>12, <1>13 DEF Tree
<1> HIDE DEF t
<1>15. /\ Untouched(t.nodes, s.nodes, a) /\ Len(t.nodes) = c
       /\ (t.deep <=> s.deep \/ r = "DepthOverflow")
       /\ Forest(t.nodes, a, c) = Tree(r, Forest(s.nodes, a + 1, c))
  BY <1>b, <1>4, <1>5, <1>7, <1>14
<1> QED BY <1>c, <1>15 DEF t
-----------------------------------------------------------------------------
(* What was read stays read while the nodes up to `here` are left alone.   *)
LEMMA ToldAgain ==
  ASSUME NEW D, NEW f, NEW s, NEW t, Told(D, f, s), NEW m \in Nat, NEW h \in Nat,
         m = Count(f.mark), h = Count(f.here), m < h, Untouched(t, s, h)
  PROVE  Told(D, f, t)
<1>1. Forest(t, m + 1, h) = Forest(s, m + 1, h)
  <2>1. PICK a \in Nat : a = m + 1 OBVIOUS
  <2>2. Forest(t, a, h) = Forest(s, a, h) BY ForestKept
  <2> QED BY <2>1, <2>2
<1>2. t[m + 1] = s[m + 1] BY DEF Untouched
<1> QED BY <1>1, <1>2 DEF Told

(* Where the calls in progress lie                                         *)
LEMMA InPlace ==
  ASSUME IInv, ~sink.overflow, NEW k \in 1 .. Len(stack)
  PROVE  /\ Count(stack[k].mark) \in Nat /\ Count(stack[k].here) \in Nat
         /\ Count(stack[k].mark) < Count(stack[k].here)
         /\ Count(stack[k].here) <= Len(sink.nodes)
         /\ k < Len(stack) => Count(stack[k].here) <= Count(Top.mark)
<1>1. CallShape(k) /\ CallOpened(k) BY DEF IInv, Shape, Faithful
<1>2. Len(sink.nodes) \in Nat /\ Len(stack) \in Nat BY Lengths DEF IInv, Shape, IsSink
<1>3. Count(stack[k].mark) \in Nat /\ Count(stack[k].here) \in 0 .. Len(sink.nodes)
  <2>1. Mark(stack[k].mark, Len(sink.nodes)) /\ Mark(stack[k].here, Len(sink.nodes))
    BY <1>1 DEF CallShape
  <2> QED BY <1>2, <2>1, MarkFields
<1>4. k < Len(stack) => Count(stack[k].here) <= Count(Top.mark)
  <2>1. k < Len(stack) => Len(stack) \in 1 .. Len(stack) BY <1>2
  <2> QED BY <2>1 DEF IInv, Shape, Top
<1> QED BY <1>1, <1>3, <1>4 DEF CallOpened

(* The innermost call goes on, with what it has read by then.              *)
LEMMA TreeMoved ==
  ASSUME IInv, ~sink.overflow, stack # <<>>, NEW D, Outset, Derived(D),
         NEW f, NEW p, NEW s, GoOn(f, p, s), Continues(f, Top), IsSink(s),
         Untouched(s.nodes, sink.nodes, Count(Top.here)), s.deep => Overdeep(D),
         Part(Top.rule, Top.start, f.item, f.taken, p,
              Forest(s.nodes, Count(Top.mark) + 1, Len(s.nodes))) \in D.parts,
         Tried(D, f, p)
  PROVE  Outset' /\ Derived(D)'
<1>a. PICK n : n = Len(stack) OBVIOUS
<1>b. PICK top : top = Top OBVIOUS
<1> DEFINE g == [f EXCEPT !.at = p, !.here = Checkpoint(s)]
<1>1. /\ n \in Nat /\ n >= 1 /\ n = Len(stack) /\ top = stack[n] /\ IsSequence(stack)
      /\ IsCall(top)
  BY <1>a, <1>b, Innermost DEF IInv, Shape, Top
<1>2. /\ g.rule = top.rule /\ g.start = top.start /\ g.mark = top.mark /\ g.at = p
      /\ g.here = Checkpoint(s) /\ g.item = f.item /\ g.alternative = f.alternative
      /\ g.taken = f.taken /\ f.rule = top.rule
  <2>1. DOMAIN top = {"rule", "start", "mark", "item", "at", "here", "alternative", "taken"}
    BY <1>1 DEF IsCall
  <2> QED BY <1>b, <2>1 DEF Continues
<1>3. /\ stack' = [stack EXCEPT ![n] = g] /\ position' = p /\ sink' = s /\ returned' = "none"
      /\ UNCHANGED <<tokens, memo, verdict>>
  BY <1>a DEF GoOn
<1> HIDE DEF g
<1>4. /\ Len(stack') = n /\ stack'[n] = g
      /\ \A k \in 1 .. n : k # n => stack'[k] = stack[k]
  <2>1. n \in 1 .. Len(stack) BY <1>1
  <2> QED BY <1>1, <1>3, <2>1, Updated
<1>5. Count(g.here) = Len(s.nodes) BY <1>2, MarkOf
<1>6. Told(D, g, s.nodes)
  <2>1. Items(g) = Items(f) BY <1>2 DEF Items
  <2>2. Calling(g) <=> Calling(f) BY <1>2, <2>1 DEF Calling
  <2>3. s.nodes[Count(g.mark) + 1] = sink.nodes[Count(g.mark) + 1]
    <3>1. PICK m \in Nat : m = Count(top.mark) BY <1>b, Innermost
    <3>2. PICK h \in Nat : h = Count(top.here) BY <1>b, Innermost
    <3>3. m < h BY <1>1, <3>1, <3>2, InPlace
    <3>4. m + 1 \in 1 .. h BY <3>3
    <3> QED BY <1>b, <1>2, <3>1, <3>2, <3>4 DEF Untouched
  <2>4. Told(D, top, sink.nodes) BY <1>1 DEF Derived
  <2>5. /\ sink.nodes[Count(g.mark) + 1].kind = "rule"
        /\ sink.nodes[Count(g.mark) + 1].token = 0
    BY <1>2, <2>4 DEF Told
  <2>6. Part(g.rule, g.start, g.item, g.taken, g.at,
             Forest(s.nodes, Count(g.mark) + 1, Count(g.here))) \in D.parts
    BY <1>b, <1>2, <1>5
  <2>7. Tried(D, g, g.at) BY <1>2, <2>1, <2>2 DEF Tried
  <2> QED BY <2>3, <2>5, <2>6, <2>7 DEF Told
<1>7. ASSUME NEW k \in 1 .. n PROVE Told(D, stack'[k], s.nodes)
  <2>1. CASE k = n BY <1>4, <1>6, <2>1
  <2>2. CASE k # n
    <3>1. Told(D, stack[k], sink.nodes) /\ k \in 1 .. Len(stack) BY <1>1 DEF Derived
    <3>2. PICK m \in Nat : m = Count(stack[k].mark) BY <3>1, InPlace
    <3>3. PICK h \in Nat : h = Count(stack[k].here) BY <3>1, InPlace
    <3>4. m < h BY <3>1, <3>2, <3>3, InPlace
    <3>5. Untouched(s.nodes, sink.nodes, h)
      <4>1. PICK c \in Nat : c = Count(Top.mark) BY Innermost
      <4>2. PICK d \in Nat : d = Count(Top.here) BY Innermost
      <4>3. k < Len(stack) BY <1>1, <2>2
      <4>4. h <= c BY <3>1, <3>3, <4>1, <4>3, InPlace
      <4>5. c < d
        <5>1. n \in 1 .. Len(stack) BY <1>1
        <5> QED BY <1>1, <1>b, <4>1, <4>2, <5>1, InPlace
      <4>6. h <= d BY <4>4, <4>5
      <4> QED BY <4>2, <4>6 DEF Untouched
    <3>6. Told(D, stack[k], s.nodes) BY <3>1, <3>2, <3>3, <3>4, <3>5, ToldAgain
    <3> QED BY <1>4, <2>2, <3>6
  <2> QED BY <2>1, <2>2
<1>8. Outset'
  <2>1. stack'[1].rule = stack[1].rule /\ stack'[1].start = stack[1].start
    <3>1. CASE n = 1 BY <1>1, <1>2, <1>4, <3>1
    <3>2. CASE n # 1 BY <1>1, <1>4, <3>2
    <3> QED BY <3>1, <3>2
  <2>2. Len(stack') # 0 /\ Len(stack) # 0 BY <1>1, <1>4
  <2> QED BY <2>1, <2>2 DEF Outset
<1>9. memo' \subseteq D.fails BY <1>3 DEF Derived
<1>10. Len(stack') # 0 BY <1>1, <1>4
<1>11. \A k \in 1 .. Len(stack') : Told(D, stack'[k], sink'.nodes) BY <1>3, <1>4, <1>7
<1>12. Learned(D, Callee(Top)', Top'.at, Count(Top'.here), returned', position', sink'.nodes)
  BY <1>3 DEF Learned
<1>13. sink'.deep => Overdeep(D) BY <1>3
<1> QED BY <1>8, <1>9, <1>10, <1>11, <1>12, <1>13 DEF Derived

(* The innermost call returns, and its caller learns something.            *)
LEMMA TreePopped ==
  ASSUME IInv, LimitsInv, ~sink.overflow, stack # <<>>, NEW D, Outset, Derived(D),
         NEW answer \in {"ok", "failed"}, Return(answer),
         Untouched(sink'.nodes, sink.nodes, Count(Top.mark)),
         sink'.deep => Overdeep(D), memo' \subseteq D.fails,
         answer = "failed" => Failed(D, Top.rule, Top.start),
         answer = "ok" =>
           /\ Whole(Top.rule, Top.start, position',
                    Forest(sink'.nodes, Count(Top.mark), Len(sink'.nodes))) \in D.ends
           /\ Len(sink'.nodes) # 0
  PROVE  Outset' /\ Derived(D)'
<1>a. PICK n : n = Len(stack) OBVIOUS
<1>b. PICK top : top = Top OBVIOUS
<1>1. /\ n \in Nat /\ n >= 1 /\ n = Len(stack) /\ top = stack[n] /\ IsSequence(stack)
  BY <1>a, <1>b, Innermost DEF IInv, Shape, Top
<1>2. stack' = SubSeq(stack, 1, n - 1) /\ returned' = answer BY <1>a DEF Return
<1>3. Len(stack') = n - 1 /\ \A k \in 1 .. n - 1 : stack'[k] = stack[k]
  <2>0. n - 1 \in 0 .. Len(stack) BY <1>1
  <2>1. PICK m \in 0 .. Len(stack) : m = n - 1 BY <2>0
  <2> QED BY <1>1, <1>2, <2>1, Cut
<1>4. ASSUME NEW k \in 1 .. n - 1 PROVE Told(D, stack'[k], sink'.nodes)
  <2>1. Told(D, stack[k], sink.nodes) /\ k \in 1 .. Len(stack) /\ k < Len(stack)
    BY <1>1 DEF Derived
  <2>2. PICK m \in Nat : m = Count(stack[k].mark) BY <2>1, InPlace
  <2>3. PICK h \in Nat : h = Count(stack[k].here) BY <2>1, InPlace
  <2>4. PICK c \in Nat : c = Count(Top.mark) BY Innermost
  <2>5. m < h /\ h <= c BY <2>1, <2>2, <2>3, <2>4, InPlace
  <2>6. Untouched(sink'.nodes, sink.nodes, h) BY <2>4, <2>5 DEF Untouched
  <2>7. Told(D, stack[k], sink'.nodes) BY <2>1, <2>2, <2>3, <2>5, <2>6, ToldAgain
  <2> QED BY <1>3, <2>7
<1>5. \A k \in 1 .. Len(stack') : Told(D, stack'[k], sink'.nodes) BY <1>3, <1>4
<1>6. PICK c \in Nat : c = Count(top.mark) BY <1>b, Innermost
<1>7. Learned(D, top.rule, top.start, c, answer, position', sink'.nodes)
  BY <1>b, <1>6 DEF Learned
<1>8. CASE n = 1
  <2>1. Len(stack') = 0 BY <1>3, <1>8
  <2>2. top.rule = "Input" /\ top.start = 0 BY <1>1, <1>8 DEF Outset
  <2>3. c = 0
    <3>1. Room(top, 1) BY <1>1, <1>8 DEF LimitsInv
    <3>2. Count(top.mark) <= 4 * 0 + 1 - 1 BY <2>2, <3>1 DEF Room
    <3> QED BY <1>6, <3>2
  <2>4. Learned(D, "Input", 0, 0, returned', position', sink'.nodes)
    BY <1>2, <1>7, <2>2, <2>3
  <2>5. Outset'
    <3>1. returned' # "none" /\ (returned' = "ok" => Len(sink'.nodes) # 0) BY <1>2
    <3> QED BY <2>1, <3>1 DEF Outset
  <2> QED BY <1>5, <2>1, <2>4, <2>5 DEF Derived
<1>9. CASE n # 1
  <2>1. n - 1 \in 1 .. Len(stack) - 1 /\ n - 1 \in 1 .. Len(stack) /\ n - 1 < Len(stack)
        /\ n - 1 \in 1 .. n - 1
    BY <1>1, <1>9
  <2>2. PICK g : g = stack[n - 1] OBVIOUS
  <2>3. Linked(g, top)
    <3>1. Linked(stack[n - 1], stack[n - 1 + 1]) BY <2>1 DEF LimitsInv
    <3>2. n - 1 + 1 = n BY <1>1
    <3> QED BY <1>1, <2>2, <3>1, <3>2
  <2>4. Top' = g /\ Len(stack') # 0
    <3>1. Len(stack') # 0 BY <1>1, <1>3, <1>9
    <3> QED BY <1>3, <2>1, <2>2, <3>1 DEF Top
  <2>5. Count(g.here) = c
    <3>1. PICK h \in Nat : h = Count(g.here) BY <2>1, <2>2, InPlace
    <3>2. h <= c BY <1>b, <1>6, <2>1, <2>2, <3>1, InPlace
    <3>3. c <= h BY <1>6, <2>3, <3>1 DEF Linked
    <3>4. h = c BY <3>2, <3>3
    <3> QED BY <3>1, <3>4
  <2>6. Learned(D, Callee(Top'), Top'.at, Count(Top'.here), returned', position', sink'.nodes)
    BY <1>2, <1>7, <2>3, <2>4, <2>5 DEF Linked
  <2>7. Outset'
    <3>1. stack'[1] = stack[1]
      <4>1. 1 \in 1 .. n - 1 BY <1>1, <1>9
      <4> QED BY <1>3, <4>1
    <3>2. Len(stack) # 0 BY <1>1
    <3> QED BY <2>4, <3>1, <3>2 DEF Outset
  <2>8. Callee(Top)' = Callee(Top') BY DEF Callee, Items
  <2> QED BY <1>5, <2>4, <2>6, <2>7, <2>8 DEF Derived
<1> QED BY <1>8, <1>9
-----------------------------------------------------------------------------
(* A call fails, and rightly.                                              *)
LEMMA TreeGivenUp ==
  ASSUME IInv, LimitsInv, ~sink.overflow, stack # <<>>, NEW D, Outset, Derived(D), GiveUp,
         Failed(D, Top.rule, Top.start)
  PROVE  Outset' /\ Derived(D)'
<1>1. /\ Return("failed") /\ sink' = Restore(sink, Top.mark)
      /\ memo' = memo \cup {<<Top.rule, Top.start>>}
  BY DEF GiveUp
<1>2. IsSink(sink) /\ Mark(Top.mark, Len(sink.nodes)) BY Innermost DEF IInv, Shape
<1>3. Untouched(sink'.nodes, sink.nodes, Count(Top.mark)) /\ sink'.deep = sink.deep
  BY <1>1, <1>2, RestoreLeaves
<1>4. sink'.deep => Overdeep(D) BY <1>3 DEF Derived
<1>5. memo' \subseteq D.fails BY <1>1 DEF Derived, Failed
<1> QED BY <1>1, <1>3, <1>4, <1>5, TreePopped

(* A call begins, if the memo does not answer it.                          *)
LEMMA TreeEntered ==
  ASSUME IInv, LimitsInv, ~sink.overflow, NEW D, Outset, Derived(D), Starts(D, tokens),
         NEW r \in RuleNames, Enter(r), returned = "none", ~sink'.overflow,
         Len(stack) # 0 => Calling(Top) /\ r = Callee(Top),
         Len(stack) = 0 => r = "Input"
  PROVE  Outset' /\ Derived(D)'
<1>a. PICK n \in Nat : n = Len(stack) BY Lengths DEF IInv, Shape
<1>b. PICK c \in Nat : c = Len(sink.nodes) BY Lengths DEF IInv, Shape, IsSink
<1>0. IsSink(sink) /\ IsSequence(stack) BY DEF IInv, Shape
<1>1. CASE <<r, position>> \in memo
  <2>1. returned' = "failed" /\ UNCHANGED <<tokens, position, stack, sink, memo, verdict>>
    BY <1>1 DEF Enter
  <2>2. Failed(D, r, position) BY <1>1 DEF Derived, Failed
  <2>3. /\ position' = position /\ stack' = stack /\ sink' = sink /\ memo' = memo
        /\ Top' = Top /\ Callee(Top)' = Callee(Top)
    BY <2>1 DEF Top, Callee, Items
  <2>4. CASE Len(stack) = 0
    <3>1. position = 0 BY <2>4 DEF Outset
    <3>2. Learned(D, "Input", 0, 0, returned', position', sink'.nodes)
      BY <2>1, <2>2, <2>4, <3>1 DEF Learned
    <3> QED BY <2>1, <2>3, <2>4, <3>2 DEF Derived, Outset
  <2>5. CASE Len(stack) # 0
    <3>0. stack # <<>> BY <2>5
    <3>1. position = Top.at BY <3>0, AtRest
    <3>2. Learned(D, Callee(Top), Top.at, Count(Top.here), returned', position', sink'.nodes)
      BY <2>1, <2>2, <2>5, <3>1 DEF Learned
    <3> QED BY <2>1, <2>3, <2>5, <3>2 DEF Derived, Outset
  <2> QED BY <2>4, <2>5
<1>2. CASE <<r, position>> \notin memo
  <2> DEFINE f == Frame(r, sink, sink')
  <2>1. /\ sink' = Start(sink, r) /\ stack' = Append(stack, f)
        /\ UNCHANGED <<tokens, position, returned, memo, verdict>>
    BY <1>2 DEF Enter
  <2>2. /\ IsSink(sink') /\ Len(sink'.nodes) = c + 1 BY <1>0, <1>b, <2>1, Started
  <2>3. /\ Untouched(sink'.nodes, sink.nodes, c) /\ sink'.deep = sink.deep
        /\ sink'.nodes[c + 1].kind = "rule" /\ sink'.nodes[c + 1].token = 0
    BY <1>0, <1>b, <2>1, StartLeaves
  <2>4. /\ f.rule = r /\ f.start = position /\ f.item = 1 /\ f.at = position
        /\ f.alternative = 1 /\ f.taken = 0 /\ f.mark = Checkpoint(sink)
        /\ f.here = Checkpoint(sink')
    BY DEF Frame
  <2> HIDE DEF f
  <2>5. Count(f.mark) = c /\ Count(f.here) = c + 1 BY <1>0, <1>b, <2>2, <2>4, MarkOf
  <2>6. Told(D, f, sink'.nodes)
    <3>1. Part(r, position, 1, 0, position, <<>>) \in D.parts
      <4>1. position \in 0 .. Len(tokens)
        <5>1. Len(tokens) \in Nat BY ParserAssumption DEF LimitsInv
        <5> QED BY <5>1 DEF LimitsInv, IInv, Shape
      <4> QED BY <4>1 DEF Starts
    <3>2. Forest(sink'.nodes, c + 1, c + 1) = <<>>
      <4>1. PICK d \in Nat : d = c + 1 OBVIOUS
      <4>2. PICK s : s = sink'.nodes OBVIOUS
      <4>3. Forest(s, d, d) = <<>> BY ForestNone
      <4> QED BY <4>1, <4>2, <4>3
    <3>3. Tried(D, f, f.at)
      <4>1. \A a \in 1 .. f.alternative - 1 : FALSE BY <2>4
      <4> QED BY <2>4, <4>1 DEF Tried
    <3> QED BY <2>3, <2>4, <2>5, <3>1, <3>2, <3>3 DEF Told
  <2>7. /\ Len(stack') = n + 1 /\ stack'[n + 1] = f
        /\ \A k \in 1 .. n : stack'[k] = stack[k]
    BY <1>0, <1>a, <2>1, Appended
  <2>8. ASSUME NEW k \in 1 .. Len(stack') PROVE Told(D, stack'[k], sink'.nodes)
    <3>1. CASE k = n + 1 BY <2>6, <2>7, <3>1
    <3>2. CASE k # n + 1
      <4>0. k \in 1 .. n BY <2>7, <3>2
      <4>1. Told(D, stack[k], sink.nodes) /\ k \in 1 .. Len(stack) BY <1>a, <4>0 DEF Derived
      <4>2. PICK m \in Nat : m = Count(stack[k].mark) BY <4>1, InPlace
      <4>3. PICK h \in Nat : h = Count(stack[k].here) BY <4>1, InPlace
      <4>4. m < h /\ h <= c BY <1>b, <4>1, <4>2, <4>3, InPlace
      <4>5. Untouched(sink'.nodes, sink.nodes, h) BY <2>3, <4>4 DEF Untouched
      <4>6. Told(D, stack[k], sink'.nodes) BY <4>1, <4>2, <4>3, <4>4, <4>5, ToldAgain
      <4> QED BY <2>7, <4>0, <4>6
    <3> QED BY <3>1, <3>2
  <2>9. Len(stack') # 0 BY <2>7
  <2>10. returned' = "none" BY <2>1
  <2>11. Outset'
    <3>1. CASE n = 0
      <4>1. stack'[1] = f /\ r = "Input" BY <1>a, <2>7, <3>1
      <4>2. position = 0 BY <1>a, <3>1 DEF Outset
      <4> QED BY <2>4, <2>9, <4>1, <4>2 DEF Outset
    <3>2. CASE n # 0
      <4>1. stack'[1] = stack[1] BY <2>7, <3>2
      <4> QED BY <1>a, <2>9, <3>2, <4>1 DEF Outset
    <3> QED BY <3>1, <3>2
  <2>12. Learned(D, Callee(Top)', Top'.at, Count(Top'.here), returned', position', sink'.nodes)
    BY <2>10 DEF Learned
  <2>13. memo' \subseteq D.fails /\ (sink'.deep => Overdeep(D)) BY <2>1, <2>3 DEF Derived
  <2> QED BY <2>8, <2>9, <2>11, <2>12, <2>13 DEF Derived
<1> QED BY <1>1, <1>2
-----------------------------------------------------------------------------
(* What the grammar lets the innermost call do: the part that it has come  *)
(* to is in D, and so is what follows.                                     *)
Allowed(D, x) ==
  /\ Current.op = "take" => Takes(D, tokens, Current, x)
  /\ Current.op = "takeAll" => TakesAll(D, tokens, Current, x)
  /\ Current.op = "call" => Calls(D, Current, x)
  /\ Current.op = "optional" => Tries(D, Current, x)
  /\ Current.op = "choice" => Chooses(D, Current, x)
  /\ Current.op \in {"star", "plus"} => Loops(D, Current, x)

Mine(x) ==
  x = Part(Top.rule, Top.start, Top.item, Top.taken, Top.at,
           Forest(sink.nodes, Count(Top.mark) + 1, Count(Top.here)))

LEMMA TopDerived ==
  ASSUME IInv, LimitsInv, stack # <<>>, NEW D, Closed(D, tokens), Derived(D)
  PROVE  \E x :
           /\ Mine(x)
           /\ Top.item > Len(Items(Top)) =>
                Whole(x.rule, x.start, x.at, Tree(x.rule, x.trees)) \in D.ends
           /\ Top.item <= Len(Items(Top)) => Allowed(D, x)
<1> DEFINE x == Part(Top.rule, Top.start, Top.item, Top.taken, Top.at,
                     Forest(sink.nodes, Count(Top.mark) + 1, Count(Top.here)))
<1>1. x.rule = Top.rule /\ x.item = Top.item BY DEF Part
<1>2. x \in D.parts
  <2>1. Len(stack) \in 1 .. Len(stack) BY Innermost
  <2> QED BY <2>1 DEF Derived, Told, Top
<1>3. GoesOn(D, tokens, x) BY <1>2 DEF Closed
<1> HIDE DEF x
<1>4. Rules[x.rule].items = Items(Top) BY <1>1 DEF Items
<1>5. Top.item > Len(Items(Top)) =>
        Whole(x.rule, x.start, x.at, Tree(x.rule, x.trees)) \in D.ends
  BY <1>1, <1>3, <1>4 DEF GoesOn
<1>6. ASSUME Top.item <= Len(Items(Top)) PROVE Allowed(D, x)
  <2>1. Room(Top, Len(stack)) BY TopNumbers
  <2>2. Fits(Top.rule) BY <2>1, EveryRuleFits DEF Room
  <2>3. PICK n \in Nat : n = Len(Items(Top)) BY <2>2 DEF Fits, Items
  <2>4. PICK i \in Nat : i = Top.item BY <2>1, <2>3 DEF Room
  <2>5. ~(i > n) BY <1>6, <2>3, <2>4
  <2>6. ~(x.item > Len(Rules[x.rule].items)) BY <1>1, <1>4, <2>3, <2>4, <2>5
  <2>7. Rules[x.rule].items[x.item] = Current BY <1>1, <1>4 DEF Current
  <2> QED BY <1>3, <2>6, <2>7, Zenon DEF GoesOn, Allowed
<1>7. Mine(x) BY DEF Mine, x
<1> QED BY <1>5, <1>6, <1>7

(* The fields of the part                                                  *)
LEMMA MineIs ==
  ASSUME NEW x, Mine(x)
  PROVE  /\ x.rule = Top.rule /\ x.start = Top.start /\ x.item = Top.item
         /\ x.taken = Top.taken /\ x.at = Top.at
         /\ x.trees = Forest(sink.nodes, Count(Top.mark) + 1, Count(Top.here))
BY DEF Mine, Part

(* The fields of a call that goes on that the limits do not read           *)
LEMMA LoopFields ==
  ASSUME NEW t, IsCall(t)
  PROVE  /\ LET f == [t EXCEPT !.item = @ + 1, !.alternative = 1, !.taken = 0]
            IN f.taken = 0
         /\ LET f == [t EXCEPT !.alternative = @ + 1] IN f.taken = t.taken
         /\ LET f == [t EXCEPT !.taken = 1] IN f.taken = 1
<1>1. DOMAIN t = {"rule", "start", "mark", "item", "at", "here", "alternative", "taken"}
  BY DEF IsCall
<1> QED BY <1>1

(* The innermost call goes on with its next item.                          *)
LEMMA TreeNext ==
  ASSUME IInv, ~sink.overflow, stack # <<>>, NEW D, Outset, Derived(D),
         NEW p, NEW s, NextItem(p, s), IsSink(s),
         Untouched(s.nodes, sink.nodes, Count(Top.here)), s.deep => Overdeep(D),
         NEW x, Mine(x),
         Onward(x, p, Forest(s.nodes, Count(Top.mark) + 1, Len(s.nodes))) \in D.parts
  PROVE  Outset' /\ Derived(D)'
<1> DEFINE f == [Top EXCEPT !.item = @ + 1, !.alternative = 1, !.taken = 0]
<1>1. IsCall(Top) BY Innermost
<1>2. f.item = Top.item + 1 /\ f.alternative = 1 /\ f.taken = 0
  BY <1>1, NextFields, LoopFields
<1>3. Continues(f, Top) BY <1>1, Reframed
<1>4. GoOn(f, p, s) BY DEF NextItem
<1> HIDE DEF f
<1>5. Part(Top.rule, Top.start, f.item, f.taken, p,
           Forest(s.nodes, Count(Top.mark) + 1, Len(s.nodes))) \in D.parts
  BY <1>2, MineIs DEF Onward
<1>6. Tried(D, f, p)
  <2>1. \A a \in 1 .. f.alternative - 1 : FALSE BY <1>2
  <2> QED BY <1>2, <2>1 DEF Tried
<1> QED BY <1>3, <1>4, <1>5, <1>6, TreeMoved

(* The same item is tried again, with the same alternative.                *)
LEMMA TreeAgain ==
  ASSUME IInv, ~sink.overflow, stack # <<>>, NEW D, Outset, Derived(D),
         NEW f, f = Top \/ f = [Top EXCEPT !.taken = 1],
         ~(Current.op = "choice" /\ Calling(Top)),
         NEW p, NEW s, GoOn(f, p, s), IsSink(s),
         Untouched(s.nodes, sink.nodes, Count(Top.here)), s.deep => Overdeep(D),
         NEW x, Mine(x),
         Again(x, f.taken, p, Forest(s.nodes, Count(Top.mark) + 1, Len(s.nodes))) \in D.parts
  PROVE  Outset' /\ Derived(D)'
<1>1. IsCall(Top) BY Innermost
<1>2. f.item = Top.item /\ f.alternative = Top.alternative /\ f.rule = Top.rule
  BY <1>1, NextFields
<1>3. Continues(f, Top) BY <1>1, Reframed
<1>4. Part(Top.rule, Top.start, f.item, f.taken, p,
           Forest(s.nodes, Count(Top.mark) + 1, Len(s.nodes))) \in D.parts
  BY <1>2, MineIs DEF Again
<1>5. Tried(D, f, p)
  <2>1. Items(f) = Items(Top) BY <1>2 DEF Items
  <2>2. Calling(f) <=> Calling(Top) BY <1>2, <2>1 DEF Calling
  <2>3. Tried(D, Top, Top.at)
    <3>1. Len(stack) \in 1 .. Len(stack) BY Innermost
    <3> QED BY <3>1 DEF Derived, Told, Top
  <2>4. Items(f)[f.item] = Current BY <1>2, <2>1 DEF Current
  <2>5. Calling(f) => f.alternative = 1
    BY <1>2, <2>2, <2>3, <2>4 DEF Tried, Current
  <2>6. Calling(f) => \A a \in 1 .. f.alternative - 1 : FALSE BY <2>5
  <2> QED BY <2>5, <2>6 DEF Tried
<1> QED BY <1>3, <1>4, <1>5, TreeMoved
-----------------------------------------------------------------------------
(* The numbers between which the innermost call's trees lie                *)
LEMMA TopNodes ==
  ASSUME IInv, LimitsInv, stack # <<>>, ~sink.overflow
  PROVE  \E m \in Nat, h \in Nat, c \in Nat :
           /\ m + 1 = Count(Top.mark) + 1 /\ m = Count(Top.mark)
           /\ h = Count(Top.here) /\ c = Len(sink.nodes)
           /\ m < h /\ h <= c
           /\ returned \in {"none", "failed"} => h = c
<1>1. Len(stack) \in 1 .. Len(stack) /\ Top = stack[Len(stack)] BY Innermost DEF Top
<1>2. PICK m \in Nat : m = Count(Top.mark) BY Innermost
<1>3. PICK h \in Nat : h = Count(Top.here) BY Innermost
<1>4. PICK c \in Nat : c = Len(sink.nodes) BY Innermost
<1>5. m < h /\ h <= c BY <1>1, <1>2, <1>3, <1>4, InPlace
<1>6. returned \in {"none", "failed"} => h = c
  <2>1. returned \in {"none", "failed"} => c <= h BY <1>3, <1>4, AtRest
  <2> QED BY <1>5, <2>1
<1> QED BY <1>2, <1>3, <1>4, <1>5, <1>6

(* A token that the item takes is one that the grammar reads there.        *)
LEMMA PeekReads ==
  ASSUME IInv, LimitsInv, stack # <<>>, returned = "none", Top.item <= Len(Items(Top)),
         NEW x, Mine(x)
  PROVE  Reads(tokens, Current, x) <=> Peek \in Current.tokens
<1>1. position = Top.at /\ x.at = Top.at BY AtRest, MineIs
<1>2. "none" \notin Current.tokens BY WorkedOn DEF Sized
<1> QED BY <1>1, <1>2 DEF Peek, Reads

(* expectToken and matchToken: what one token adds                         *)
LEMMA TokenRead ==
  ASSUME IInv, LimitsInv, stack # <<>>, ~sink.overflow, returned = "none",
         ~Terminal(sink, position).overflow, NEW D, Derived(D), NEW x, Mine(x)
  PROVE  LET s == Terminal(sink, position)
         IN /\ IsSink(s) /\ Untouched(s.nodes, sink.nodes, Count(Top.here))
            /\ s.deep => Overdeep(D)
            /\ Forest(s.nodes, Count(Top.mark) + 1, Len(s.nodes)) = x.trees \o Leaf(x.at)
            /\ x.at = position
<1> DEFINE s == Terminal(sink, position)
<1>1. PICK m \in Nat, h \in Nat, c \in Nat :
        /\ m + 1 = Count(Top.mark) + 1 /\ m = Count(Top.mark)
        /\ h = Count(Top.here) /\ c = Len(sink.nodes)
        /\ m < h /\ h <= c
        /\ returned \in {"none", "failed"} => h = c
  BY TopNodes
<1>2. PICK a \in Nat : a = m + 1 OBVIOUS
<1>3. a <= c /\ h = c BY <1>1, <1>2
<1>4. IsSink(sink) BY DEF IInv, Shape
<1>5. /\ Untouched(s.nodes, sink.nodes, c) /\ s.deep = sink.deep
      /\ Forest(s.nodes, a, Len(s.nodes)) = Forest(sink.nodes, a, c) \o Leaf(position)
  BY <1>1, <1>3, <1>4, TerminalLeaves
<1>6. IsSink(s) BY <1>4, Taken
<1>7. x.at = position /\ x.trees = Forest(sink.nodes, a, c)
  BY <1>1, <1>2, <1>3, MineIs, AtRest
<1>8. s.deep => Overdeep(D) BY <1>5 DEF Derived
<1> HIDE DEF s
<1>9. /\ IsSink(s) /\ Untouched(s.nodes, sink.nodes, Count(Top.here))
      /\ s.deep => Overdeep(D)
      /\ Forest(s.nodes, Count(Top.mark) + 1, Len(s.nodes)) = x.trees \o Leaf(x.at)
      /\ x.at = position
  BY <1>1, <1>2, <1>3, <1>5, <1>6, <1>7, <1>8
<1> QED BY <1>9 DEF s

(* The grammar and the parser agree on a token wanted, ...                 *)
LEMMA TreeTaken ==
  ASSUME IInv, LimitsInv, ~sink.overflow, NEW D, Outset, Derived(D), Closed(D, tokens),
         TakeToken, ~sink'.overflow
  PROVE  Outset' /\ Derived(D)'
<1>1. /\ stack # <<>> /\ returned = "none" /\ Top.item <= Len(Items(Top))
      /\ Current.op = "take"
  BY DEF TakeToken, Working, Doing
<1>2. PICK x : Mine(x) /\ (Top.item <= Len(Items(Top)) => Allowed(D, x))
  BY <1>1, TopDerived
<1>3. Takes(D, tokens, Current, x) BY <1>1, <1>2 DEF Allowed
<1>4. CASE Peek \in Current.tokens
  <2> DEFINE s == Terminal(sink, position)
  <2>1. NextItem(position + 1, s) BY <1>4 DEF TakeToken
  <2>2. ~s.overflow BY <2>1 DEF NextItem, GoOn
  <2>3. /\ IsSink(s) /\ Untouched(s.nodes, sink.nodes, Count(Top.here))
        /\ s.deep => Overdeep(D)
        /\ Forest(s.nodes, Count(Top.mark) + 1, Len(s.nodes)) = x.trees \o Leaf(x.at)
        /\ x.at = position
    BY <1>1, <1>2, <2>2, TokenRead
  <2>4. Onward(x, x.at + 1, x.trees \o Leaf(x.at)) \in D.parts
    BY <1>1, <1>2, <1>3, <1>4, PeekReads DEF Takes
  <2> HIDE DEF s
  <2>5. Onward(x, position + 1, Forest(s.nodes, Count(Top.mark) + 1, Len(s.nodes))) \in D.parts
    BY <2>3, <2>4
  <2> QED BY <1>1, <1>2, <2>1, <2>3, <2>5, TreeNext
<1>5. CASE Peek \notin Current.tokens
  <2>1. GiveUp BY <1>5 DEF TakeToken
  <2>2. Failed(D, x.rule, x.start) BY <1>1, <1>2, <1>3, <1>5, PeekReads DEF Takes
  <2>3. Failed(D, Top.rule, Top.start) BY <1>2, <2>2, MineIs
  <2> QED BY <1>1, <2>1, <2>3, TreeGivenUp
<1> QED BY <1>4, <1>5

(* Where nothing is done, nothing is read.                                 *)
LEMMA NothingRead ==
  ASSUME IInv, LimitsInv, stack # <<>>, ~sink.overflow, returned \in {"none", "failed"},
         NEW D, Derived(D), NEW x, Mine(x)
  PROVE  /\ IsSink(sink) /\ Untouched(sink.nodes, sink.nodes, Count(Top.here))
         /\ sink.deep => Overdeep(D)
         /\ Forest(sink.nodes, Count(Top.mark) + 1, Len(sink.nodes)) = x.trees
         /\ x.at = position
<1>1. PICK m \in Nat, h \in Nat, c \in Nat :
        /\ m + 1 = Count(Top.mark) + 1 /\ m = Count(Top.mark)
        /\ h = Count(Top.here) /\ c = Len(sink.nodes)
        /\ m < h /\ h <= c
        /\ returned \in {"none", "failed"} => h = c
  BY TopNodes
<1>2. Count(Top.here) = Len(sink.nodes) BY <1>1
<1>3. x.trees = Forest(sink.nodes, Count(Top.mark) + 1, Len(sink.nodes)) /\ x.at = position
  BY <1>2, MineIs, AtRest
<1>4. IsSink(sink) BY DEF IInv, Shape
<1> QED BY <1>3, <1>4 DEF Derived, Untouched

(* on a run of tokens, ...                                                 *)
LEMMA TreeTakenAll ==
  ASSUME IInv, LimitsInv, ~sink.overflow, NEW D, Outset, Derived(D), Closed(D, tokens),
         TakeTokens, ~sink'.overflow
  PROVE  Outset' /\ Derived(D)'
<1>1. /\ stack # <<>> /\ returned = "none" /\ Top.item <= Len(Items(Top))
      /\ Current.op = "takeAll"
  BY DEF TakeTokens, Working, Doing
<1>2. PICK x : Mine(x) /\ (Top.item <= Len(Items(Top)) => Allowed(D, x))
  BY <1>1, TopDerived
<1>3. TakesAll(D, tokens, Current, x) BY <1>1, <1>2 DEF Allowed
<1>4. CASE Peek \in Current.tokens
  <2> DEFINE s == Terminal(sink, position)
  <2>1. GoOn(Top, position + 1, s) BY <1>4 DEF TakeTokens
  <2>2. ~s.overflow BY <2>1 DEF GoOn
  <2>3. /\ IsSink(s) /\ Untouched(s.nodes, sink.nodes, Count(Top.here))
        /\ s.deep => Overdeep(D)
        /\ Forest(s.nodes, Count(Top.mark) + 1, Len(s.nodes)) = x.trees \o Leaf(x.at)
        /\ x.at = position
    BY <1>1, <1>2, <2>2, TokenRead
  <2>4. Again(x, x.taken, x.at + 1, x.trees \o Leaf(x.at)) \in D.parts
    BY <1>1, <1>2, <1>3, <1>4, PeekReads DEF TakesAll
  <2> HIDE DEF s
  <2>5. Again(x, Top.taken, position + 1,
              Forest(s.nodes, Count(Top.mark) + 1, Len(s.nodes))) \in D.parts
    BY <1>2, <2>3, <2>4, MineIs
  <2>6. ~(Current.op = "choice" /\ Calling(Top)) BY <1>1
  <2> QED BY <1>1, <1>2, <2>1, <2>3, <2>5, <2>6, TreeAgain
<1>5. CASE Peek \notin Current.tokens
  <2>1. NextItem(position, sink) BY <1>5 DEF TakeTokens
  <2>2. Onward(x, x.at, x.trees) \in D.parts BY <1>1, <1>2, <1>3, <1>5, PeekReads DEF TakesAll
  <2>3. /\ IsSink(sink) /\ Untouched(sink.nodes, sink.nodes, Count(Top.here))
        /\ sink.deep => Overdeep(D)
        /\ Forest(sink.nodes, Count(Top.mark) + 1, Len(sink.nodes)) = x.trees
        /\ x.at = position
    BY <1>1, <1>2, NothingRead
  <2>4. Onward(x, position, Forest(sink.nodes, Count(Top.mark) + 1, Len(sink.nodes))) \in D.parts
    BY <2>2, <2>3
  <2> QED BY <1>1, <1>2, <2>1, <2>3, <2>4, TreeNext
<1> QED BY <1>4, <1>5

(* on the end of a rule, ...                                               *)
LEMMA TreeSucceeded ==
  ASSUME IInv, LimitsInv, ~sink.overflow, NEW D, Outset, Derived(D), Closed(D, tokens),
         Succeed
  PROVE  Outset' /\ Derived(D)'
<1>1. /\ stack # <<>> /\ returned = "none" /\ Top.item > Len(Items(Top)) /\ Return("ok")
      /\ sink' = End(sink, Top.rule) /\ position' = position /\ memo' = memo
  BY DEF Succeed, Working
<1>2. PICK x : /\ Mine(x)
               /\ Top.item > Len(Items(Top)) =>
                    Whole(x.rule, x.start, x.at, Tree(x.rule, x.trees)) \in D.ends
  BY <1>1, TopDerived
<1>3. Whole(x.rule, x.start, x.at, Tree(x.rule, x.trees)) \in D.ends BY <1>1, <1>2
<1>4. PICK m \in Nat, h \in Nat, c \in Nat :
        /\ m + 1 = Count(Top.mark) + 1 /\ m = Count(Top.mark)
        /\ h = Count(Top.here) /\ c = Len(sink.nodes)
        /\ m < h /\ h <= c
        /\ returned \in {"none", "failed"} => h = c
  BY <1>1, TopNodes
<1>5. /\ IsSink(sink) /\ sink.active = m
      /\ sink.nodes[m + 1].kind = "rule" /\ sink.nodes[m + 1].name = Top.rule
      /\ sink.nodes[m + 1].token = 0
  <2>1. Len(stack) \in 1 .. Len(stack) /\ Len(stack) # 0 BY <1>1, Innermost
  <2>2. CallOpened(Len(stack)) /\ sink.active = NodeOf(Len(stack))
    BY <2>1 DEF IInv, Faithful
  <2>3. Told(D, Top, sink.nodes) BY <2>1 DEF Derived, Top
  <2> QED BY <1>4, <2>1, <2>2, <2>3 DEF CallOpened, NodeOf, Told, Count, Top, IInv, Shape
<1>6. /\ Untouched(sink'.nodes, sink.nodes, m) /\ Len(sink'.nodes) = c
      /\ sink'.deep <=> sink.deep \/ Top.rule = "DepthOverflow"
      /\ Forest(sink'.nodes, m, c) = Tree(Top.rule, Forest(sink.nodes, m + 1, c))
  BY <1>1, <1>4, <1>5, EndLeaves
<1>7. /\ x.rule = Top.rule /\ x.start = Top.start /\ x.at = position
      /\ x.trees = Forest(sink.nodes, m + 1, c)
  BY <1>1, <1>2, <1>4, MineIs, AtRest
<1>8. Whole(Top.rule, Top.start, position',
            Forest(sink'.nodes, Count(Top.mark), Len(sink'.nodes))) \in D.ends
  BY <1>1, <1>3, <1>4, <1>6, <1>7
<1>9. Len(sink'.nodes) # 0 BY <1>4, <1>6
<1>10. sink'.deep => Overdeep(D)
  <2>1. Whole(x.rule, x.start, x.at, Tree(x.rule, x.trees)).rule = Top.rule
    BY <1>7 DEF Whole
  <2>2. Top.rule = "DepthOverflow" => Overdeep(D) BY <1>3, <2>1 DEF Overdeep
  <2> QED BY <1>6, <2>2 DEF Derived
<1>11. memo' \subseteq D.fails BY <1>1 DEF Derived
<1>12. Untouched(sink'.nodes, sink.nodes, Count(Top.mark)) BY <1>4, <1>6
<1> QED BY <1>1, <1>8, <1>9, <1>10, <1>11, <1>12, TreePopped
-----------------------------------------------------------------------------
(* The alternatives before the one that is called are known to fail.       *)
LEMMA TopTried ==
  ASSUME IInv, LimitsInv, stack # <<>>, Calling(Top), NEW D, Derived(D), NEW x, Mine(x)
  PROVE  /\ Current.op # "choice" => Callee(Top) = Current.rules[1]
         /\ \A a \in 1 .. Top.alternative - 1 : Failed(D, Current.rules[a], x.at)
         /\ Callee(Top) = Current.rules[Top.alternative]
         /\ Top.alternative \in 1 .. Len(Current.rules) /\ Len(Current.rules) \in Nat
<1>1. Tried(D, Top, Top.at)
  <2>1. Len(stack) \in 1 .. Len(stack) BY Innermost
  <2> QED BY <2>1 DEF Derived, Told, Top
<1>2. Items(Top)[Top.item] = Current /\ Top.item <= Len(Items(Top)) /\ Current.op \in Callers
  BY DEF Current, Calling
<1>3. Callee(Top) = Current.rules[Top.alternative] BY <1>2 DEF Callee
<1>4. Len(Current.rules) \in 1 .. 7
  <2>1. Sized(Top.rule, Top.item) /\ Rules[Top.rule].items[Top.item] = Current
    BY <1>2, WorkedOn
  <2> QED BY <1>2, <2>1 DEF Sized
<1>5. Top.alternative \in 1 .. Len(Current.rules)
  <2>1. Room(Top, Len(stack)) BY TopNumbers
  <2> QED BY <1>2, <1>4, <2>1 DEF Room
<1>6. x.at = Top.at BY MineIs
<1> QED BY <1>1, <1>2, <1>3, <1>4, <1>5, <1>6 DEF Tried

(* What a call that succeeded adds to its caller                           *)
LEMMA CallRead ==
  ASSUME IInv, LimitsInv, stack # <<>>, ~sink.overflow, returned = "ok",
         NEW D, Derived(D), NEW x, Mine(x)
  PROVE  /\ IsSink(sink) /\ Untouched(sink.nodes, sink.nodes, Count(Top.here))
         /\ sink.deep => Overdeep(D)
         /\ Calling(Top)
         /\ \E e \in D.ends :
              /\ e.rule = Callee(Top) /\ e.start = x.at /\ e.at = position
              /\ x.trees \o e.trees
                   = Forest(sink.nodes, Count(Top.mark) + 1, Len(sink.nodes))
<1>1. PICK m \in Nat, h \in Nat, c \in Nat :
        /\ m + 1 = Count(Top.mark) + 1 /\ m = Count(Top.mark)
        /\ h = Count(Top.here) /\ c = Len(sink.nodes)
        /\ m < h /\ h <= c
  BY TopNodes
<1>2. PICK a \in Nat : a = m + 1 OBVIOUS
<1>3. a <= h /\ h <= c BY <1>1, <1>2
<1>4. IsSink(sink) BY DEF IInv, Shape
<1>5. Calling(Top) BY DEF LimitsInv, Due
<1> DEFINE e == Whole(Callee(Top), Top.at, position, Forest(sink.nodes, h, c))
<1>6. e \in D.ends
  <2>1. Len(stack) # 0 BY Innermost
  <2>2. Learned(D, Callee(Top), Top.at, Count(Top.here), returned, position, sink.nodes)
    BY <2>1 DEF Derived
  <2> QED BY <1>1, <2>2 DEF Learned
<1>7. /\ e.rule = Callee(Top) /\ e.start = Top.at /\ e.at = position
      /\ e.trees = Forest(sink.nodes, h, c)
  BY DEF Whole
<1> HIDE DEF e
<1>8. x.at = Top.at /\ x.trees = Forest(sink.nodes, a, h) BY <1>1, <1>2, MineIs
<1>9. Forest(sink.nodes, a, h) \o Forest(sink.nodes, h, c) = Forest(sink.nodes, a, c)
  <2>1. PICK s : s = sink.nodes OBVIOUS
  <2>2. Forest(s, a, h) \o Forest(s, h, c) = Forest(s, a, c) BY <1>3, ForestJoined
  <2> QED BY <2>1, <2>2
<1>10. x.trees \o e.trees = Forest(sink.nodes, Count(Top.mark) + 1, Len(sink.nodes))
  BY <1>1, <1>2, <1>7, <1>8, <1>9
<1>11. Untouched(sink.nodes, sink.nodes, Count(Top.here)) BY DEF Untouched
<1>12. sink.deep => Overdeep(D) BY DEF Derived
<1> QED BY <1>4, <1>5, <1>6, <1>7, <1>8, <1>10, <1>11, <1>12

(* on a call that succeeded, ...                                           *)
LEMMA TreeAccepted ==
  ASSUME IInv, LimitsInv, ~sink.overflow, NEW D, Outset, Derived(D), Closed(D, tokens),
         Accept
  PROVE  Outset' /\ Derived(D)'
<1>1. stack # <<>> /\ returned = "ok" BY DEF Accept
<1>2. PICK x : Mine(x) /\ (Top.item <= Len(Items(Top)) => Allowed(D, x))
  BY <1>1, TopDerived
<1>3. /\ IsSink(sink) /\ Untouched(sink.nodes, sink.nodes, Count(Top.here))
      /\ sink.deep => Overdeep(D)
      /\ Calling(Top)
  BY <1>1, <1>2, CallRead
<1>4. PICK e \in D.ends :
        /\ e.rule = Callee(Top) /\ e.start = x.at /\ e.at = position
        /\ x.trees \o e.trees = Forest(sink.nodes, Count(Top.mark) + 1, Len(sink.nodes))
  BY <1>1, <1>2, CallRead
<1>5. Allowed(D, x) /\ Current.op \in Callers /\ Top.item <= Len(Items(Top))
  BY <1>2, <1>3 DEF Calling, Current
<1>6. /\ Current.op # "choice" => Callee(Top) = Current.rules[1]
      /\ \A a \in 1 .. Top.alternative - 1 : Failed(D, Current.rules[a], x.at)
      /\ Callee(Top) = Current.rules[Top.alternative]
      /\ Top.alternative \in 1 .. Len(Current.rules)
  BY <1>1, <1>2, <1>3, TopTried
<1>7. x.at = Top.at /\ x.taken = Top.taken /\ x.rule = Top.rule /\ x.start = Top.start
  BY <1>2, MineIs
<1>8. CASE Doing({"star", "plus"}) /\ position # Top.at
  <2> DEFINE f == [Top EXCEPT !.taken = 1]
  <2>1. GoOn(f, position, sink) BY <1>8 DEF Accept
  <2>2. IsCall(Top) BY <1>1, Innermost
  <2>3. f.taken = 1 BY <2>2, LoopFields
  <2>4. f = [Top EXCEPT !.taken = 1] OBVIOUS
  <2> HIDE DEF f
  <2>5. Current.op \in {"star", "plus"} BY <1>8 DEF Doing
  <2>6. Loops(D, Current, x) BY <1>5, <2>5 DEF Allowed
  <2>7. Again(x, 1, position, x.trees \o e.trees) \in D.parts
    BY <1>4, <1>6, <1>7, <1>8, <2>5, <2>6 DEF Loops
  <2>8. Again(x, f.taken, position,
              Forest(sink.nodes, Count(Top.mark) + 1, Len(sink.nodes))) \in D.parts
    BY <1>4, <2>3, <2>7
  <2>9. ~(Current.op = "choice" /\ Calling(Top)) BY <2>5
  <2> QED BY <1>1, <1>2, <1>3, <2>1, <2>4, <2>8, <2>9, TreeAgain
<1>9. CASE /\ ~(Doing({"star", "plus"}) /\ position # Top.at)
           /\ Doing({"plus"}) /\ Top.taken = 0
  <2>1. GiveUp BY <1>9 DEF Accept
  <2>2. Current.op = "plus" /\ position = Top.at BY <1>9 DEF Doing
  <2>3. Loops(D, Current, x) BY <1>5, <2>2 DEF Allowed
  <2>4. Failed(D, Top.rule, Top.start) BY <1>4, <1>6, <1>7, <1>9, <2>2, <2>3 DEF Loops
  <2> QED BY <1>1, <2>1, <2>4, TreeGivenUp
<1>10. CASE /\ ~(Doing({"star", "plus"}) /\ position # Top.at)
            /\ ~(Doing({"plus"}) /\ Top.taken = 0)
  <2>1. NextItem(position, sink) BY <1>10 DEF Accept
  <2>2. Onward(x, position, x.trees \o e.trees) \in D.parts
    <3>1. CASE Current.op = "call" BY <1>4, <1>5, <1>6, <3>1 DEF Allowed, Calls, Follows
    <3>2. CASE Current.op = "optional" BY <1>4, <1>5, <1>6, <3>2 DEF Allowed, Tries, Follows
    <3>3. CASE Current.op = "choice"
      <4>1. Chooses(D, Current, x) BY <1>5, <3>3 DEF Allowed
      <4>2. Follows(D, Callee(Top), x) BY <1>6, <4>1 DEF Chooses
      <4> QED BY <1>4, <4>2 DEF Follows
    <3>4. CASE Current.op \in {"star", "plus"}
      <4>1. Loops(D, Current, x) BY <1>5, <3>4 DEF Allowed
      <4>2. position = Top.at /\ ~(Current.op = "plus" /\ Top.taken = 0)
        BY <1>5, <1>10, <3>4 DEF Doing
      <4> QED BY <1>4, <1>6, <1>7, <3>4, <4>1, <4>2 DEF Loops
    <3> QED BY <1>5, <3>1, <3>2, <3>3, <3>4 DEF Callers
  <2>3. Onward(x, position,
               Forest(sink.nodes, Count(Top.mark) + 1, Len(sink.nodes))) \in D.parts
    BY <1>4, <2>2
  <2> QED BY <1>1, <1>2, <1>3, <2>1, <2>3, TreeNext
<1> QED BY <1>8, <1>9, <1>10

(* and on one that failed.                                                 *)
LEMMA TreeRejected ==
  ASSUME IInv, LimitsInv, ~sink.overflow, NEW D, Outset, Derived(D), Closed(D, tokens),
         Reject
  PROVE  Outset' /\ Derived(D)'
<1> DEFINE back == Restore(sink, Top.here)
           next == [Top EXCEPT !.alternative = @ + 1]
<1>1. stack # <<>> /\ returned = "failed" BY DEF Reject
<1>2. PICK x : Mine(x) /\ (Top.item <= Len(Items(Top)) => Allowed(D, x))
  BY <1>1, TopDerived
<1>3. Calling(Top) BY <1>1 DEF LimitsInv, Due
<1>4. Allowed(D, x) /\ Current.op \in Callers /\ Top.item <= Len(Items(Top))
      /\ Items(Top)[Top.item] = Current
  BY <1>2, <1>3 DEF Calling, Current
<1>5. /\ Current.op # "choice" => Callee(Top) = Current.rules[1]
      /\ \A a \in 1 .. Top.alternative - 1 : Failed(D, Current.rules[a], x.at)
      /\ Callee(Top) = Current.rules[Top.alternative]
      /\ Top.alternative \in 1 .. Len(Current.rules) /\ Len(Current.rules) \in Nat
  BY <1>1, <1>2, <1>3, TopTried
<1>6. x.at = Top.at /\ x.taken = Top.taken /\ x.rule = Top.rule /\ x.start = Top.start
  BY <1>2, MineIs
<1>7. Failed(D, Callee(Top), x.at)
  <2>1. Len(stack) # 0 BY <1>1, Innermost
  <2>2. Learned(D, Callee(Top), Top.at, Count(Top.here), returned, position, sink.nodes)
    BY <2>1 DEF Derived
  <2> QED BY <1>1, <1>6, <2>2 DEF Learned
<1>8. /\ IsSink(back) /\ Untouched(back.nodes, sink.nodes, Count(Top.here))
      /\ back.deep => Overdeep(D)
      /\ Forest(back.nodes, Count(Top.mark) + 1, Len(back.nodes)) = x.trees
  <2>1. IsSink(sink) /\ Mark(Top.here, Len(sink.nodes)) BY <1>1, Innermost DEF IInv, Shape
  <2>2. IsSink(back) /\ Len(back.nodes) = Count(Top.here) BY <2>1, Restored
  <2>3. Untouched(back.nodes, sink.nodes, Count(Top.here)) /\ back.deep = sink.deep
    BY <2>1, RestoreLeaves
  <2> HIDE DEF back
  <2>4. PICK h \in Nat : h = Count(Top.here) BY <1>1, Innermost
  <2>5. PICK a \in Nat : a = Count(Top.mark) + 1
    <3>1. PICK m \in Nat : m = Count(Top.mark) BY <1>1, Innermost
    <3>2. m + 1 \in Nat OBVIOUS
    <3> QED BY <3>1, <3>2
  <2>6. Forest(back.nodes, a, h) = Forest(sink.nodes, a, h)
    <3>1. PICK s : s = sink.nodes OBVIOUS
    <3>2. PICK t : t = back.nodes OBVIOUS
    <3>3. Untouched(t, s, h) BY <2>3, <2>4, <3>1, <3>2
    <3>4. Forest(t, a, h) = Forest(s, a, h) BY <3>3, ForestKept
    <3> QED BY <3>1, <3>2, <3>4
  <2>7. x.trees = Forest(sink.nodes, a, h) BY <1>2, <2>4, <2>5, MineIs
  <2>8. back.deep => Overdeep(D) BY <2>3 DEF Derived
  <2> QED BY <2>2, <2>3, <2>4, <2>5, <2>6, <2>7, <2>8
<1>9. CASE Current.op = "call" \/ (Current.op = "plus" /\ Top.taken = 0)
  <2>1. GiveUp
    <3>1. ~Doing({"choice"}) /\ (Doing({"call"}) \/ (Doing({"plus"}) /\ Top.taken = 0))
      BY <1>4, <1>9 DEF Doing
    <3> QED BY <3>1 DEF Reject
  <2>2. Failed(D, Top.rule, Top.start)
    BY <1>4, <1>5, <1>6, <1>7, <1>9 DEF Allowed, Calls, Loops
  <2> QED BY <1>1, <2>1, <2>2, TreeGivenUp
<1>10. CASE Current.op = "choice"
  <2>1. IF Top.alternative < Len(Current.rules) THEN GoOn(next, Top.at, back) ELSE GiveUp
    <3>1. ~Doing({"call"}) /\ ~Doing({"plus"}) /\ Doing({"choice"}) BY <1>4, <1>10 DEF Doing
    <3> HIDE DEF back, next
    <3> QED BY <3>1 DEF Reject, back, next
  <2>2. PICK i \in Nat : i = Top.alternative BY <1>5
  <2>3. \A a \in 1 .. i : Failed(D, Current.rules[a], x.at)
    <3>1. ASSUME NEW a \in 1 .. i PROVE Failed(D, Current.rules[a], x.at)
      <4>1. CASE a = i BY <1>5, <1>7, <2>2, <4>1
      <4>2. CASE a # i
        <5>1. a \in 1 .. i - 1 BY <4>2
        <5> QED BY <1>5, <2>2, <5>1
      <4> QED BY <4>1, <4>2
    <3> QED BY <3>1
  <2>4. CASE i < Len(Current.rules)
    <3>1. GoOn(next, Top.at, back) BY <2>1, <2>2, <2>4
    <3>2. IsCall(Top) BY <1>1, Innermost
    <3>3. /\ next.item = Top.item /\ next.alternative = i + 1 /\ next.rule = Top.rule
          /\ next.taken = Top.taken
      BY <2>2, <3>2, NextFields, LoopFields
    <3>4. Continues(next, Top) BY <3>2, Reframed
    <3> HIDE DEF next, back
    <3>5. Part(Top.rule, Top.start, next.item, next.taken, Top.at,
               Forest(back.nodes, Count(Top.mark) + 1, Len(back.nodes))) \in D.parts
      <4>1. x \in D.parts
        <5>1. Len(stack) \in 1 .. Len(stack) BY <1>1, Innermost
        <5> QED BY <1>2, <5>1 DEF Derived, Told, Top, Mine
      <4>2. x = Part(Top.rule, Top.start, Top.item, Top.taken, Top.at, x.trees)
        BY <1>2, MineIs DEF Mine
      <4> QED BY <1>8, <3>3, <4>1, <4>2
    <3>6. Tried(D, next, Top.at)
      <4>1. Items(next)[next.item] = Current BY <1>4, <3>3 DEF Items
      <4>2. \A a \in 1 .. next.alternative - 1 : Failed(D, Current.rules[a], Top.at)
        <5>1. next.alternative - 1 = i BY <3>3
        <5> QED BY <1>6, <2>3, <5>1
      <4> QED BY <1>10, <4>1, <4>2 DEF Tried
    <3> QED BY <1>1, <1>8, <3>1, <3>4, <3>5, <3>6, TreeMoved
  <2>5. CASE ~(i < Len(Current.rules))
    <3>1. GiveUp BY <2>1, <2>2, <2>5
    <3>2. i = Len(Current.rules) BY <1>5, <2>2, <2>5
    <3>3. Failed(D, x.rule, x.start) BY <1>4, <1>10, <2>3, <3>2 DEF Allowed, Chooses
    <3> QED BY <1>1, <1>6, <3>1, <3>3, TreeGivenUp
  <2> QED BY <2>4, <2>5
<1>11. CASE Current.op \in {"optional", "star", "plus"} /\ ~(Current.op = "plus" /\ Top.taken = 0)
  <2>1. NextItem(Top.at, back)
    <3>1. /\ ~(Doing({"call"}) \/ (Doing({"plus"}) /\ Top.taken = 0))
          /\ ~Doing({"choice"})
      BY <1>11 DEF Doing
    <3> HIDE DEF back
    <3> QED BY <3>1 DEF Reject, back
  <2>2. Onward(x, x.at, x.trees) \in D.parts
    <3>1. CASE Current.op = "optional" BY <1>4, <1>5, <1>7, <3>1 DEF Allowed, Tries
    <3>2. CASE Current.op \in {"star", "plus"}
      <4>1. Loops(D, Current, x) BY <1>4, <3>2 DEF Allowed
      <4> QED BY <1>5, <1>6, <1>7, <1>11, <3>2, <4>1 DEF Loops
    <3> QED BY <1>11, <3>1, <3>2
  <2> HIDE DEF back
  <2>3. Onward(x, Top.at, Forest(back.nodes, Count(Top.mark) + 1, Len(back.nodes))) \in D.parts
    BY <1>6, <1>8, <2>2
  <2> QED BY <1>1, <1>2, <1>8, <2>1, <2>3, TreeNext
<1> QED BY <1>4, <1>9, <1>10, <1>11 DEF Callers
-----------------------------------------------------------------------------
(* No step mends an overflow.                                              *)
LEMMA OverflowStays ==
  ASSUME IInv, LimitsInv, Next, ~sink'.overflow
  PROVE  ~sink.overflow
<1>1. IsSink(sink) BY DEF IInv, Shape
<1>2. /\ \A r : ~Start(sink, r).overflow => ~sink.overflow
      /\ \A p : ~Terminal(sink, p).overflow => ~sink.overflow
      /\ \A r : ~End(sink, r).overflow => ~sink.overflow
  <2>1. ASSUME NEW r, ~Start(sink, r).overflow PROVE ~sink.overflow BY <1>1, <2>1, Started
  <2>2. ASSUME NEW p, ~Terminal(sink, p).overflow PROVE ~sink.overflow BY <1>1, <2>2, Taken
  <2>3. ASSUME NEW r, ~End(sink, r).overflow PROVE ~sink.overflow BY <1>1, <2>3, Ended
  <2> QED BY <2>1, <2>2, <2>3, Zenon
<1>3. \A m : Restore(sink, m).overflow = sink.overflow
  <2>1. sink = [nodes |-> sink.nodes, active |-> sink.active, overflow |-> sink.overflow,
                deep |-> sink.deep]
    BY <1>1 DEF IsSink
  <2> QED BY <2>1 DEF Restore
<1>4. \/ sink' = sink
      \/ \E r : sink' = Start(sink, r)
      \/ \E p : sink' = Terminal(sink, p)
      \/ \E r : sink' = End(sink, r)
      \/ \E m : sink' = Restore(sink, m)
  <2>1. CASE Allocate \/ CallRule BY <2>1, Zenon DEF Allocate, CallRule, Enter
  <2>2. CASE TakeToken BY <2>2, Zenon DEF TakeToken, NextItem, GoOn, GiveUp
  <2>3. CASE TakeTokens BY <2>3, Zenon DEF TakeTokens, NextItem, GoOn
  <2>4. CASE Accept BY <2>4, Zenon DEF Accept, NextItem, GoOn, GiveUp
  <2>5. CASE Reject BY <2>5, Zenon DEF Reject, NextItem, GoOn, GiveUp
  <2>6. CASE Succeed BY <2>6, Zenon DEF Succeed
  <2>7. CASE MemoTooLarge \/ MemoNoMem \/ Answer
    BY <2>7, Zenon DEF MemoTooLarge, MemoNoMem, MemoRefused, Answer
  <2> QED BY <2>1, <2>2, <2>3, <2>4, <2>5, <2>6, <2>7 DEF Next
<1> QED BY <1>2, <1>3, <1>4, Zenon

(* The status says of the grammar what the parser learned.                 *)
LEMMA AnswerJudges ==
  ASSUME IInv, LimitsInv, NEW D, ~sink.overflow => Outset /\ Derived(D), Answer
  PROVE  Judged(D)'
<1>1. /\ Len(stack) = 0 /\ returned # "none"
      /\ tokens' = tokens /\ position' = position /\ sink' = sink
  BY DEF Answer
<1>2. CASE sink.overflow \/ sink.deep
  <2>1. verdict' = "LIMIT" BY <1>2, Zenon DEF Answer
  <2>2. sink.overflow \/ Overdeep(D) BY <1>2 DEF Derived
  <2> QED BY <1>1, <2>1, <2>2 DEF Judged
<1>3. CASE ~(sink.overflow \/ sink.deep)
  <2>1. Outset /\ Derived(D) BY <1>3
  <2>2. Learned(D, "Input", 0, 0, returned, position, sink.nodes) BY <1>1, <2>1 DEF Derived
  <2>3. returned \in {"ok", "failed"} BY <1>1 DEF LimitsInv
  <2>4. sink.active = None
    <3>1. sink.active = NodeOf(Len(stack)) BY <1>3 DEF IInv, Faithful
    <3> QED BY <1>1, <3>1 DEF NodeOf
  <2>5. CASE returned = "failed"
    <3>1. verdict' = "BADPAT" BY <1>3, <2>5, Zenon DEF Answer
    <3>2. Failed(D, "Input", 0) BY <2>2, <2>5 DEF Learned
    <3> QED BY <1>1, <3>1, <3>2 DEF Judged
  <2>6. CASE returned = "ok"
    <3> DEFINE e == Whole("Input", 0, position, Forest(sink.nodes, 0, Len(sink.nodes)))
    <3>1. e \in D.ends BY <2>2, <2>6 DEF Learned
    <3>2. e.rule = "Input" /\ e.start = 0 /\ e.at = position BY DEF Whole
    <3>3. sink.nodes # <<>>
      <4>1. Len(sink.nodes) # 0 BY <1>1, <2>1, <2>6 DEF Outset
      <4> QED BY <4>1
    <3>4. CASE position # Len(tokens)
      <4>1. verdict' = "BADPAT" BY <1>3, <3>4, Zenon DEF Answer
      <4> HIDE DEF e
      <4> QED BY <1>1, <3>1, <3>2, <3>4, <4>1 DEF Judged
    <3>5. CASE position = Len(tokens)
      <4>1. verdict' = "OK" BY <1>3, <2>4, <2>6, <3>3, <3>5 DEF Answer
      <4>2. Whole("Input", 0, Len(tokens), Forest(sink.nodes, 0, Len(sink.nodes))) \in D.ends
        BY <3>1, <3>5
      <4> QED BY <1>1, <4>1, <4>2 DEF Judged
    <3> QED BY <3>4, <3>5
  <2> QED BY <2>3, <2>5, <2>6
<1> QED BY <1>2, <1>3

(* Nothing else is read.                                                   *)
LEMMA TreeKept ==
  ASSUME NEW D, UNCHANGED <<tokens, position, stack, returned, sink, memo>>
  PROVE  Outset' = Outset /\ Derived(D)' = Derived(D)
<1>1. /\ position' = position /\ stack' = stack /\ returned' = returned /\ sink' = sink
      /\ memo' = memo
  OBVIOUS
<1>2. Outset' = Outset BY <1>1 DEF Outset
<1>3. Derived(D)' = Derived(D) BY <1>1 DEF Derived, Top, Callee, Items
<1> QED BY <1>2, <1>3

LEMMA TreeInit == ASSUME NEW D PROVE Init => TreeInv(D)
<1> SUFFICES ASSUME Init PROVE TreeInv(D) OBVIOUS
<1>1. /\ Len(stack) = 0 /\ returned = "none" /\ position = 0 /\ Len(sink.nodes) = 0
      /\ memo = {} /\ verdict = "none" /\ ~sink.deep
  BY DEF Init, EmptySink
<1>2. \A k \in 1 .. Len(stack) : FALSE BY <1>1
<1>3. Judged(D) BY <1>1 DEF Judged
<1>4. Outset BY <1>1 DEF Outset
<1>5. Derived(D) BY <1>1, <1>2 DEF Derived, Learned
<1> QED BY <1>3, <1>4, <1>5 DEF TreeInv

LEMMA TreeStep ==
  ASSUME NEW D
  PROVE  IInv /\ LimitsInv /\ TreeInv(D) /\ [Next]_vars => TreeInv(D)'
<1> SUFFICES ASSUME IInv, LimitsInv, TreeInv(D), [Next]_vars, Closed(D, tokens)'
             PROVE  Judged(D)' /\ (~sink'.overflow => Outset' /\ Derived(D)')
  BY DEF TreeInv
<1>1. tokens' = tokens
  BY DEF Next, vars, Allocate, Enter, MemoTooLarge, MemoNoMem, MemoRefused, TakeToken,
         TakeTokens, NextItem, GoOn, GiveUp, Return, CallRule, Accept, Reject, Succeed, Answer
<1>2. Closed(D, tokens) BY <1>1
<1>3. Judged(D) /\ (~sink.overflow => Outset /\ Derived(D)) BY <1>2 DEF TreeInv
<1>4. Starts(D, tokens) BY <1>2 DEF Closed
<1>5. CASE UNCHANGED vars
  <2>1. UNCHANGED <<tokens, position, stack, returned, sink, memo>> /\ verdict' = verdict
    BY <1>5 DEF vars
  <2>2. Judged(D)' BY <1>3, <2>1 DEF Judged
  <2>3. sink' = sink BY <2>1
  <2> QED BY <1>3, <2>1, <2>2, <2>3, TreeKept
<1>6. CASE MemoTooLarge \/ MemoNoMem
  <2>1. UNCHANGED <<tokens, position, stack, returned, sink, memo>>
    BY <1>6 DEF MemoTooLarge, MemoNoMem, MemoRefused
  <2>2. \/ verdict' = "LIMIT" /\ RuleCount > MemoMax \div (Len(tokens) + 1)
        \/ verdict' = "NOMEM"
    BY <1>6 DEF MemoTooLarge, MemoNoMem, MemoRefused
  <2>3. Judged(D)' BY <1>1, <2>2 DEF Judged
  <2>4. sink' = sink BY <2>1
  <2> QED BY <1>3, <2>1, <2>3, <2>4, TreeKept
<1>7. CASE Answer
  <2>1. UNCHANGED <<tokens, position, stack, returned, sink, memo>> BY <1>7 DEF Answer
  <2>2. sink' = sink BY <2>1
  <2> QED BY <1>3, <1>7, <2>1, <2>2, AnswerJudges, TreeKept
<1>8. CASE \/ Allocate \/ TakeToken \/ TakeTokens \/ CallRule \/ Accept \/ Reject \/ Succeed
  <2>1. verdict' = "none"
    <3>1. verdict = "none" BY <1>8 DEF Allocate, TakeToken, TakeTokens, CallRule, Accept,
            Reject, Succeed, Working
    <3>2. CASE Allocate \/ CallRule BY <3>1, <3>2, Zenon DEF Allocate, CallRule, Enter
    <3>3. CASE TakeToken \/ TakeTokens \/ Accept \/ Reject
      BY <3>1, <3>3, Zenon DEF TakeToken, TakeTokens, Accept, Reject, NextItem, GoOn,
         GiveUp, Return
    <3>4. CASE Succeed BY <3>1, <3>4 DEF Succeed, Return
    <3> QED BY <1>8, <3>2, <3>3, <3>4
  <2>2. Judged(D)' BY <2>1 DEF Judged
  <2> SUFFICES ASSUME ~sink'.overflow PROVE Outset' /\ Derived(D)' BY <2>2
  <2>3. Next BY <1>8 DEF Next
  <2>4. ~sink.overflow BY <2>3, OverflowStays
  <2>5. Outset /\ Derived(D) BY <1>3, <2>4
  <2>6. CASE Allocate
    <3>1. stack = <<>> /\ returned = "none" /\ Enter("Input") BY <2>6 DEF Allocate
    <3>2. "Input" \in RuleNames BY DEF RuleNames
    <3>3. Len(stack) = 0 BY <3>1
    <3> QED BY <1>4, <2>4, <2>5, <3>1, <3>2, <3>3, TreeEntered
  <2>7. CASE TakeToken BY <1>2, <2>4, <2>5, <2>7, TreeTaken
  <2>8. CASE TakeTokens BY <1>2, <2>4, <2>5, <2>8, TreeTakenAll
  <2>9. CASE CallRule
    <3>1. stack # <<>> /\ returned = "none" /\ Calling(Top) /\ Enter(Callee(Top))
      BY <2>9 DEF CallRule, Working, Doing, Calling, Callee, Current, Callers
    <3>2. Room(Top, Len(stack)) BY <3>1, TopNumbers
    <3>3. Callee(Top) \in RuleNames BY <3>1, <3>2, CalleeFits
    <3>4. Len(stack) # 0 BY <3>1, Innermost
    <3> QED BY <1>4, <2>4, <2>5, <3>1, <3>3, <3>4, TreeEntered
  <2>10. CASE Accept BY <1>2, <2>4, <2>5, <2>10, TreeAccepted
  <2>11. CASE Reject BY <1>2, <2>4, <2>5, <2>11, TreeRejected
  <2>12. CASE Succeed BY <1>2, <2>4, <2>5, <2>12, TreeSucceeded
  <2> QED BY <1>8, <2>6, <2>7, <2>8, <2>9, <2>10, <2>11, <2>12
<1> QED BY <1>5, <1>6, <1>7, <1>8 DEF Next

LEMMA TreeHolds == ASSUME NEW D PROVE Spec => []TreeInv(D)
<1>1. Init => IInv /\ LimitsInv /\ TreeInv(D) BY InitIInv, LimitsInit, TreeInit
<1>2. IInv /\ LimitsInv /\ TreeInv(D) /\ [Next]_vars => (IInv /\ LimitsInv /\ TreeInv(D))'
  BY Steps, LimitsStep, TreeStep
<1> QED BY <1>1, <1>2, PTL DEF Spec

(* The parser's answer is what the grammar gives the tokens, for every     *)
(* pattern: what it calls OK is read as Input to the last token, into the  *)
(* very trees that the nodes are; where it says BADPAT, Input fails or     *)
(* stops short; LIMIT is for the node array, the memo's size or the rule   *)
(* DepthOverflow. Restored events, remembered failures, the order of the   *)
(* alternatives: none makes the parser read anything else. D is any set    *)
(* of facts closed under the rules, so the least one, the grammar's own.   *)
THEOREM ParsesByTheGrammar == ASSUME NEW D PROVE Spec => [](Closed(D, tokens) => Judged(D))
<1>1. TreeInv(D) => (Closed(D, tokens) => Judged(D)) BY DEF TreeInv
<1> QED BY <1>1, TreeHolds, PTL

(* What the memo of failures spares would have failed: wherever a rule is  *)
(* called next, and whoever calls it, the grammar has it fail there.       *)
THEOREM MemoFailsByTheGrammar ==
  ASSUME NEW D
  PROVE  Spec => [](Closed(D, tokens) /\ ~sink.overflow =>
                      \A r, i : <<r, i>> \in memo => Failed(D, r, i))
<1>1. TreeInv(D) =>
        (Closed(D, tokens) /\ ~sink.overflow =>
           \A r, i : <<r, i>> \in memo => Failed(D, r, i))
  BY DEF TreeInv, Derived, Failed
<1> QED BY <1>1, TreeHolds, PTL
=============================================================================
