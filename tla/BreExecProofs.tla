---------------------------- MODULE BreExecProofs ----------------------------
(***************************************************************************)
(* Theorems about the executions of a session, for all patterns, calls,    *)
(* limits and sizes: the reference counts of the histories are exact, and  *)
(* so are the accounts of memory; captures are intervals.                  *)
(***************************************************************************)
EXTENDS BreCompileProofs

LEMMA Fronted ==
  ASSUME NEW s, IsSeq(s), s # <<>>
  PROVE  /\ IsSeq(Front(s))
         /\ Len(s) >= 1 /\ Len(Front(s)) = Len(s) - 1
         /\ \A k \in 1 .. Len(s) - 1 : Front(s)[k] = s[k]
         /\ Last(s) = s[Len(s)]
  <1>1. s \in Seq(Elements(s)) /\ Len(s) >= 1
    BY AnySeq, EmptySeq
  <1>2. /\ Front(s) \in Seq(Elements(s)) /\ Len(Front(s)) = Len(s) - 1
        /\ \A k \in 1 .. Len(s) - 1 : Front(s)[k] = s[k]
    <2>1. Len(s) - 1 \in Int /\ \A k \in 1 .. Len(s) - 1 : s[k] \in Elements(s)
      BY <1>1 DEF Elements, IsSeq
    <2>2. /\ SubSeq(s, 1, Len(s) - 1) \in Seq(Elements(s))
          /\ Len(SubSeq(s, 1, Len(s) - 1)) =
               IF 1 <= Len(s) - 1 THEN (Len(s) - 1) - 1 + 1 ELSE 0
          /\ \A k \in 1 .. (Len(s) - 1) - 1 + 1 :
               SubSeq(s, 1, Len(s) - 1)[k] = s[1 + k - 1]
      BY <2>1, SubSeqProperties
    <2>3. Len(s) \in Nat /\ Front(s) = SubSeq(s, 1, Len(s) - 1)
      BY DEF IsSeq, Front
    <2>4. /\ (IF 1 <= Len(s) - 1 THEN (Len(s) - 1) - 1 + 1 ELSE 0) = Len(s) - 1
          /\ (Len(s) - 1) - 1 + 1 = Len(s) - 1
          /\ \A k \in 1 .. Len(s) - 1 : 1 + k - 1 = k
      <3>1. ASSUME NEW n \in Nat, n >= 1
            PROVE  /\ (IF 1 <= n - 1 THEN (n - 1) - 1 + 1 ELSE 0) = n - 1
                   /\ (n - 1) - 1 + 1 = n - 1
                   /\ \A k \in 1 .. n - 1 : 1 + k - 1 = k
        BY <3>1
      <3> QED BY <1>1, <2>3, <3>1
    <2> QED BY <2>2, <2>3, <2>4
  <1> QED BY <1>1, <1>2, TypedSeq DEF Last

LEMMA Tailed ==
  ASSUME NEW s, IsSeq(s), s # <<>>
  PROVE  /\ IsSeq(Tail(s))
         /\ Len(s) >= 1 /\ Len(Tail(s)) = Len(s) - 1
         /\ \A k \in 1 .. Len(s) - 1 : Tail(s)[k] = s[k + 1]
         /\ Head(s) = s[1]
  <1>1. s \in Seq(Elements(s)) /\ Len(s) >= 1
    BY AnySeq, EmptySeq
  <1>2. /\ Tail(s) \in Seq(Elements(s)) /\ Len(Tail(s)) = Len(s) - 1
        /\ \A k \in 1 .. Len(s) - 1 : Tail(s)[k] = s[k + 1]
    BY <1>1, HeadTailProperties
  <1>3. IsSeq(Tail(s))
    BY <1>2, TypedSeq
  <1>4. Head(s) = s[1]
    BY <1>1
  <1> QED BY <1>1, <1>2, <1>3, <1>4
-----------------------------------------------------------------------------
(* What a run and its records are                                          *)
IsRun(r) ==
  r = [limits |-> r.limits, steps |-> r.steps, used |-> r.used, error |-> r.error,
       stack |-> r.stack, capacity |-> r.capacity, units |-> r.units,
       offsets |-> r.offsets, history |-> r.history,
       history_capacity |-> r.history_capacity, free |-> r.free,
       history_order |-> r.history_order, priority_capacity |-> r.priority_capacity]

IsNode(n) ==
  n = [prev |-> n.prev, refs |-> n.refs, kind |-> n.kind, key |-> n.key,
       pos |-> n.pos, open |-> n.open, order |-> n.order]

Ids == Nat \ {0}

Arena(r) ==
  /\ IsRun(r) /\ IsSeq(r.history) /\ IsSeq(r.free) /\ r.history_order \in Nat
  /\ \A n \in DOMAIN r.history :
       /\ IsNode(Node(r, n))
       /\ Node(r, n).refs \in Nat
       /\ Node(r, n).prev \in {NONE} \cup Ids
       /\ Node(r, n).order \in 0 .. r.history_order

InUse(r) == {n \in DOMAIN r.history : Node(r, n).refs > 0}

(* Orders fall along a chain.                                              *)
Chained(r) ==
  \A n \in InUse(r) :
    LET p == Node(r, n).prev
    IN p # NONE => p \in DOMAIN r.history /\ Node(r, p).order < Node(r, n).order

(* The records in use whose predecessor is n                               *)
Followers(r, n) == {m \in InUse(r) : Node(r, m).prev = n}

(* e[n] is the number of references to record n that no record has.        *)
Counted(r, e) ==
  /\ e \in [Ids -> Nat]
  /\ \A n \in Ids \ DOMAIN r.history : e[n] = 0
  /\ \A n \in DOMAIN r.history : Node(r, n).refs = e[n] + Cardinality(Followers(r, n))

FreeListed(r) == ToSet(r.free) = DOMAIN r.history \ InUse(r) /\ IsInjective(r.free)

HistoryOK(r, e) == Arena(r) /\ Chained(r) /\ Counted(r, e) /\ FreeListed(r)

Held(r, id) == id \in {NONE} \cup InUse(r)
-----------------------------------------------------------------------------
LEMMA ArenaFinite ==
  ASSUME NEW r, Arena(r)
  PROVE  /\ DOMAIN r.history = 1 .. Len(r.history) /\ Len(r.history) \in Nat
         /\ IsFiniteSet(InUse(r)) /\ InUse(r) \subseteq Ids
         /\ \A n : /\ IsFiniteSet(Followers(r, n))
                   /\ Cardinality(Followers(r, n)) \in Nat
                   /\ Followers(r, n) # {} => Cardinality(Followers(r, n)) > 0
  <1>1. DOMAIN r.history = 1 .. Len(r.history) /\ Len(r.history) \in Nat
    BY AnySeq DEF Arena, IsSeq
  <1>2. IsFiniteSet(DOMAIN r.history)
    BY <1>1, FS_Interval
  <1>3. IsFiniteSet(InUse(r))
    BY <1>2, FS_Subset DEF InUse
  <1>4. ASSUME NEW n
        PROVE  /\ IsFiniteSet(Followers(r, n))
               /\ Cardinality(Followers(r, n)) \in Nat
               /\ Followers(r, n) # {} => Cardinality(Followers(r, n)) > 0
    <2>1. Followers(r, n) \in SUBSET InUse(r)
      BY DEF Followers
    <2>2. IsFiniteSet(Followers(r, n))
      BY <1>3, <2>1, FS_Subset
    <2>3. Cardinality(Followers(r, n)) \in Nat
      BY <2>2, FS_CardinalityType
    <2>4. Cardinality(Followers(r, n)) = 0 <=> Followers(r, n) = {}
      BY <2>2, FS_EmptySet
    <2> QED BY <2>2, <2>3, <2>4
  <1> QED BY <1>1, <1>3, <1>4 DEF InUse, Ids

(* What a record in use follows is in use.                                 *)
LEMMA PrevInUse ==
  ASSUME NEW r, NEW e, HistoryOK(r, e), NEW n \in InUse(r)
  PROVE  /\ Held(r, Node(r, n).prev)
         /\ Node(r, n).prev # NONE => Node(r, Node(r, n).prev).order < Node(r, n).order
  <1>. DEFINE p == Node(r, n).prev
  <1>1. CASE p = NONE
    BY <1>1 DEF Held
  <1>2. CASE p # NONE
    <2>1. p \in DOMAIN r.history /\ Node(r, p).order < Node(r, n).order
      BY <1>2 DEF HistoryOK, Chained
    <2>2. p \in Ids
      BY <2>1, ArenaFinite DEF HistoryOK, Ids
    <2>3. n \in Followers(r, p)
      BY DEF Followers
    <2>4. Cardinality(Followers(r, p)) \in Nat /\ Cardinality(Followers(r, p)) > 0
      BY <2>3, ArenaFinite DEF HistoryOK
    <2>5. Node(r, p).refs > 0
      BY <2>1, <2>2, <2>4 DEF HistoryOK, Counted
    <2> QED BY <2>1, <2>5 DEF Held, InUse
  <1> QED BY <1>1, <1>2
-----------------------------------------------------------------------------
(* The first records of the chain of `id`                                  *)
Part(r, id, part) ==
  /\ part \in Seq(InUse(r))
  /\ part # <<>> => part[1] = id
  /\ \A k \in 1 .. Len(part) - 1 : part[k + 1] = Node(r, part[k]).prev
  /\ \A j, k \in 1 .. Len(part) :
       j < k => Node(r, part[k]).order < Node(r, part[j]).order

(* Where the chain goes on                                                 *)
Beyond(r, id, part) == IF part = <<>> THEN id ELSE Node(r, Last(part)).prev

LEMMA BeyondHeld ==
  ASSUME NEW r, NEW e, HistoryOK(r, e), NEW id, Held(r, id), NEW part, Part(r, id, part)
  PROVE  Held(r, Beyond(r, id, part))
  <1>1. CASE part = <<>>
    BY <1>1 DEF Beyond
  <1>2. CASE part # <<>>
    <2>1. Len(part) \in Nat /\ Len(part) >= 1 /\ part[Len(part)] \in InUse(r)
      BY <1>2, EmptySeq DEF Part
    <2> QED BY <1>2, <2>1, PrevInUse DEF Beyond, Last
  <1> QED BY <1>1, <1>2

LEMMA OnwardPart ==
  ASSUME NEW r, NEW e, HistoryOK(r, e), NEW id, Held(r, id), NEW part, Part(r, id, part)
  PROVE  /\ Part(r, id, Onward(r, id, part))
         /\ Beyond(r, id, part) = NONE => Onward(r, id, part) = part
         /\ Beyond(r, id, part) # NONE => Len(Onward(r, id, part)) = Len(part) + 1
  <1>. DEFINE next == Beyond(r, id, part)
  <1>0. Held(r, next)
    BY BeyondHeld
  <1>1. Onward(r, id, part) = IF next = NONE THEN part ELSE Append(part, next)
    BY DEF Onward, Beyond
  <1>2. CASE next = NONE
    BY <1>1, <1>2
  <1>3. CASE next # NONE
    <2>. DEFINE n == Len(part)
                more == Append(part, next)
    <2>1. next \in InUse(r) /\ n \in Nat /\ part \in Seq(InUse(r))
      BY <1>0, <1>3 DEF Held, Part
    <2>2. /\ more \in Seq(InUse(r)) /\ Len(more) = n + 1
          /\ \A k \in 1 .. n : more[k] = part[k]
          /\ more[n + 1] = next
      BY <2>1
    <2>3. more[1] = id
      <3>1. CASE part = <<>>
        BY <2>2, <3>1 DEF Beyond
      <3>2. CASE part # <<>>
        <4>1. n >= 1
          BY <2>1, <3>2, EmptySeq
        <4> QED BY <2>1, <2>2, <3>2, <4>1 DEF Part
      <3> QED BY <3>1, <3>2
    <2>4. n >= 1 => next = Node(r, part[n]).prev
      <3>1. n >= 1 => part # <<>>
        BY <2>1
      <3> QED BY <3>1 DEF Beyond, Last
    <2>5. ASSUME NEW k \in 1 .. n PROVE more[k + 1] = Node(r, more[k]).prev
      <3>1. CASE k = n
        BY <2>1, <2>2, <2>4, <3>1
      <3>2. CASE k # n
        <4>1. k \in 1 .. n - 1 /\ k + 1 \in 1 .. n
          BY <2>1, <3>2
        <4> QED BY <2>2, <4>1 DEF Part
      <3> QED BY <3>1, <3>2
    <2>6. ASSUME NEW j \in 1 .. n PROVE Node(r, next).order < Node(r, part[j]).order
      <3>1. n >= 1 /\ part[n] \in InUse(r) /\ part[j] \in InUse(r)
        BY <2>1
      <3>2. Node(r, next).order < Node(r, part[n]).order
        BY <1>3, <2>4, <3>1, PrevInUse
      <3>3. j # n => Node(r, part[n]).order < Node(r, part[j]).order
        BY <2>1, <3>1 DEF Part
      <3>4. /\ Node(r, next).order \in Nat /\ Node(r, part[n]).order \in Nat
            /\ Node(r, part[j]).order \in Nat
        BY <2>1, <3>1 DEF HistoryOK, Arena, InUse
      <3> QED BY <3>2, <3>3, <3>4
    <2>7. ASSUME NEW j \in 1 .. n + 1, NEW k \in 1 .. n + 1, j < k
          PROVE  Node(r, more[k]).order < Node(r, more[j]).order
      <3>1. j \in 1 .. n
        BY <2>1, <2>7
      <3>2. CASE k = n + 1
        BY <2>2, <2>6, <3>1, <3>2
      <3>3. CASE k # n + 1
        <4>1. k \in 1 .. n
          BY <2>1, <3>3
        <4>2. Node(r, part[k]).order < Node(r, part[j]).order
          BY <2>7, <3>1, <4>1 DEF Part
        <4> QED BY <2>2, <3>1, <4>1, <4>2
      <3> QED BY <3>2, <3>3
    <2>. HIDE DEF more
    <2>8. Part(r, id, more)
      BY <2>1, <2>2, <2>3, <2>5, <2>7 DEF Part
    <2> QED BY <1>1, <1>3, <2>2, <2>8 DEF more
  <1> QED BY <1>2, <1>3

(* A part of a chain has at most as many records as there are, and all of  *)
(* them only when the chain ends.                                          *)
LEMMA PartBounded ==
  ASSUME NEW r, NEW e, HistoryOK(r, e), NEW id, Held(r, id), NEW part, Part(r, id, part),
         Len(part) >= Len(r.history)
  PROVE  Beyond(r, id, part) = NONE
  <1>1. SUFFICES ASSUME Beyond(r, id, part) # NONE PROVE FALSE
    OBVIOUS
  <1>. DEFINE more == Onward(r, id, part)
              n == Len(r.history)
              m == Len(more)
  <1>2. Part(r, id, more) /\ m = Len(part) + 1
    BY <1>1, OnwardPart
  <1>3. n \in Nat /\ DOMAIN r.history = 1 .. n
    BY ArenaFinite DEF HistoryOK
  <1>4. more \in Seq(InUse(r)) /\ m \in Nat /\ Len(part) \in Nat
    BY <1>2 DEF Part
  <1>5. m > n
    BY <1>2, <1>3, <1>4
  <1>6. more \in [1 .. m -> 1 .. n]
    BY <1>3, <1>4 DEF InUse
  <1>7. /\ IsFiniteSet(1 .. m) /\ Cardinality(1 .. m) = m
        /\ IsFiniteSet(1 .. n) /\ Cardinality(1 .. n) = n
    <2>1. 1 \in Int /\ m \in Int /\ n \in Int
      BY <1>3, <1>4
    <2>2. \A k \in Int : /\ IsFiniteSet(1 .. k)
                         /\ Cardinality(1 .. k) = IF 1 > k THEN 0 ELSE k - 1 + 1
      BY <2>1, FS_Interval
    <2>. HIDE DEF m, n
    <2> QED BY <1>3, <1>4, <2>1, <2>2
  <1>. HIDE DEF more, m, n
  <1>8. PICK j \in 1 .. m, k \in 1 .. m : j # k /\ more[j] = more[k]
    <2>1. Cardinality(1 .. n) < Cardinality(1 .. m)
      BY <1>3, <1>4, <1>5, <1>7
    <2> QED BY <1>6, <1>7, <2>1, FS_PigeonHole, Zenon
  <1>9. Node(r, more[j]).order \in Nat
    BY <1>6, <1>3 DEF HistoryOK, Arena
  <1> QED
    BY <1>2, <1>4, <1>8, <1>9 DEF Part, m

LEMMA ChainIs ==
  ASSUME NEW r, NEW e, HistoryOK(r, e), NEW id, Held(r, id)
  PROVE  Part(r, id, Chain(r, id)) /\ Beyond(r, id, Chain(r, id)) = NONE
  <1>. DEFINE S == {part \in Seq(InUse(r)) : Part(r, id, part)}
              Walk(f) == f = [k \in Nat |-> IF k = 0 THEN <<>> ELSE Onward(r, id, f[k - 1])]
              walk == CHOOSE f : Walk(f)
              n == Len(r.history)
              g == [x \in Nat \X S |-> Onward(r, id, x[2])]
  <1>1. <<>> \in S
    BY DEF Part
  <1>2. g \in [Nat \X S -> S]
    <2>1. ASSUME NEW part \in S PROVE Onward(r, id, part) \in S
      <3>1. Part(r, id, Onward(r, id, part))
        BY OnwardPart
      <3> QED BY <3>1 DEF Part
    <2> QED BY <2>1
  <1>3. Walk(walk)
    <2>. HIDE DEF S
    <2>1. PICK f \in [Nat -> S] : Recursion(f, Nat, <<>>, g)
      BY <1>1, <1>2, RecursionExists
    <2>2. ASSUME NEW k \in Nat, k # 0
          PROVE  g[<<k, f[k - 1]>>] = Onward(r, id, f[k - 1])
      <3>1. f[k - 1] \in S
        BY <2>1, <2>2
      <3> QED BY <2>2, <3>1
    <2>3. Walk(f)
      BY <2>1, <2>2 DEF Recursion
    <2> QED BY <2>3
  <1>4. Chain(r, id) = walk[n]
    BY DEF Chain
  <1>. HIDE DEF walk
  <1>5. /\ walk[0] = <<>>
        /\ \A k \in Nat \ {0} : walk[k] = Onward(r, id, walk[k - 1])
    BY <1>3
  <1>6. n \in Nat
    BY ArenaFinite DEF HistoryOK
  <1>. DEFINE Good(k) == /\ Part(r, id, walk[k])
                         /\ Beyond(r, id, walk[k]) = NONE \/ Len(walk[k]) = k
              T == {k \in Nat : ~Good(k)}
  <1>7. T = {}
    <2>1. SUFFICES ASSUME T # {} PROVE FALSE
      OBVIOUS
    <2>2. PICK k \in T : \A j \in T : k <= j
      BY <2>1, LeastNat
    <2>3. k # 0
      <3>1. Part(r, id, <<>>)
        BY DEF Part
      <3> QED BY <1>5, <2>2, <3>1
    <2>4. k - 1 \in Nat /\ Good(k - 1)
      BY <2>2, <2>3
    <2>5. walk[k] = Onward(r, id, walk[k - 1])
      BY <1>5, <2>2, <2>3
    <2>6. Part(r, id, walk[k])
      BY <2>4, <2>5, OnwardPart
    <2>7. Beyond(r, id, walk[k]) = NONE \/ Len(walk[k]) = k
      <3>1. CASE Beyond(r, id, walk[k - 1]) = NONE
        BY <2>4, <2>5, <3>1, OnwardPart
      <3>2. CASE Beyond(r, id, walk[k - 1]) # NONE
        BY <2>4, <2>5, <3>2, OnwardPart
      <3> QED BY <3>1, <3>2
    <2> QED BY <2>2, <2>6, <2>7
  <1>8. Good(n)
    BY <1>6, <1>7
  <1>9. Beyond(r, id, walk[n]) = NONE
    <2>1. CASE Len(walk[n]) = n
      <3>1. Len(walk[n]) >= Len(r.history)
        BY <2>1, <1>6
      <3> QED BY <1>8, <3>1, PartBounded
    <2> QED BY <1>8, <2>1
  <1> QED BY <1>4, <1>8, <1>9
-----------------------------------------------------------------------------
(* One reference more to the record id, if there is one                    *)
More(e, id) == [n \in Ids |-> IF n = id THEN e[n] + 1 ELSE e[n]]

LEMMA MoreType ==
  ASSUME NEW e \in [Ids -> Nat], NEW id
  PROVE  More(e, id) \in [Ids -> Nat]
  BY DEF More

LEMMA MoreNone ==
  ASSUME NEW e \in [Ids -> Nat]
  PROVE  More(e, NONE) = e
  BY DEF More, Ids, NONE

LEMMA MoreCommutes ==
  ASSUME NEW e \in [Ids -> Nat], NEW i, NEW j
  PROVE  More(More(e, i), j) = More(More(e, j), i)
  BY DEF More

(* A record that is referred to is in use.                                 *)
LEMMA HeldByCount ==
  ASSUME NEW r, NEW e \in [Ids -> Nat], NEW id \in {NONE} \cup Ids,
         HistoryOK(r, More(e, id))
  PROVE  Held(r, id)
  <1>1. CASE id = NONE
    BY <1>1 DEF Held
  <1>2. CASE id \in Ids
    <2>1. More(e, id)[id] = e[id] + 1 /\ e[id] \in Nat
      BY <1>2 DEF More
    <2>2. id \in DOMAIN r.history
      BY <1>2, <2>1 DEF HistoryOK, Counted
    <2>3. Node(r, id).refs = More(e, id)[id] + Cardinality(Followers(r, id))
      BY <2>2 DEF HistoryOK, Counted
    <2>4. Cardinality(Followers(r, id)) \in Nat
      BY ArenaFinite DEF HistoryOK
    <2> QED BY <2>1, <2>2, <2>3, <2>4 DEF Held, InUse
  <1> QED BY <1>1, <1>2

LEMMA ChainFacts ==
  ASSUME NEW r, NEW e, HistoryOK(r, e), NEW id, Held(r, id), NEW ch, ch = Chain(r, id)
  PROVE  /\ ch \in Seq(InUse(r)) /\ Len(ch) \in Nat
         /\ IF id = NONE THEN Len(ch) = 0 ELSE Len(ch) >= 1 /\ ch[1] = id
         /\ \A k \in 1 .. Len(ch) :
              Node(r, ch[k]).prev = IF k = Len(ch) THEN NONE ELSE ch[k + 1]
         /\ \A j, k \in 1 .. Len(ch) : ch[j] = ch[k] => j = k
  <1>1. Part(r, id, ch) /\ Beyond(r, id, ch) = NONE
    BY ChainIs
  <1>2. ch \in Seq(InUse(r)) /\ Len(ch) \in Nat
    BY <1>1 DEF Part
  <1>3. Len(ch) = 0 <=> ch = <<>>
    BY <1>2, EmptySeq
  <1>4. IF id = NONE THEN Len(ch) = 0 ELSE Len(ch) >= 1 /\ ch[1] = id
    <2>1. CASE ch = <<>>
      BY <1>1, <1>3, <2>1 DEF Beyond
    <2>2. CASE ch # <<>>
      <3>1. Len(ch) >= 1 /\ ch[1] = id /\ ch[1] \in InUse(r)
        BY <1>1, <1>2, <1>3, <2>2 DEF Part
      <3>2. NONE \notin InUse(r)
        BY ArenaFinite DEF HistoryOK, Ids, NONE
      <3> QED BY <3>1, <3>2
    <2> QED BY <2>1, <2>2
  <1>5. ASSUME NEW k \in 1 .. Len(ch)
        PROVE  Node(r, ch[k]).prev = IF k = Len(ch) THEN NONE ELSE ch[k + 1]
    <2>1. CASE k = Len(ch)
      BY <1>1, <1>2, <1>3, <2>1 DEF Beyond, Last
    <2>2. CASE k # Len(ch)
      BY <1>1, <1>2, <2>2 DEF Part
    <2> QED BY <2>1, <2>2
  <1>6. ASSUME NEW j \in 1 .. Len(ch), NEW k \in 1 .. Len(ch), ch[j] = ch[k]
        PROVE  j = k
    <2>1. Node(r, ch[j]).order \in Nat /\ Node(r, ch[k]).order \in Nat
      BY <1>2 DEF HistoryOK, Arena, InUse
    <2> QED BY <1>1, <1>2, <1>6, <2>1 DEF Part
  <1> QED BY <1>2, <1>4, <1>5, <1>6

LEMMA MinIs ==
  ASSUME NEW S, S \subseteq Nat, S # {}
  PROVE  Min(S) \in S /\ \A x \in S : Min(S) <= x
  BY LeastNat DEF Min
-----------------------------------------------------------------------------
(* Only the arena and the free list differ.                                *)
OnlyArena(r, d) ==
  /\ IsRun(d)
  /\ d = [r EXCEPT !.history = d.history, !.free = d.free,
                   !.history_order = d.history_order]

LEMMA CountingIs ==
  ASSUME NEW r, Arena(r), NEW ids, NEW d \in Int
  PROVE  LET c2 == Counting(r, ids, d) IN
         /\ IsRun(c2) /\ OnlyArena(r, c2)
         /\ c2.free = r.free /\ c2.history_order = r.history_order
         /\ IsSeq(c2.history) /\ DOMAIN c2.history = DOMAIN r.history
         /\ Len(c2.history) = Len(r.history)
         /\ \A n \in DOMAIN r.history :
              /\ IsNode(Node(c2, n))
              /\ Node(c2, n).prev = Node(r, n).prev
              /\ Node(c2, n).order = Node(r, n).order
              /\ Node(c2, n).refs = Node(r, n).refs + (IF n \in ids THEN d ELSE 0)
  <1>. DEFINE h == [n \in DOMAIN r.history |->
                     IF n \in ids THEN [Node(r, n) EXCEPT !.refs = @ + d] ELSE Node(r, n)]
              c2 == Counting(r, ids, d)
  <1>1. IsRun(r) /\ DOMAIN r.history = 1 .. Len(r.history) /\ Len(r.history) \in Nat
    BY ArenaFinite DEF Arena
  <1>2. /\ IsRun(c2) /\ OnlyArena(r, c2)
        /\ c2.free = r.free /\ c2.history_order = r.history_order /\ c2.history = h
    <2>. HIDE DEF h
    <2>1. c2 = [r EXCEPT !.history = h]
      BY DEF Counting, h
    <2> QED BY <1>1, <2>1 DEF IsRun, OnlyArena
  <1>3. IsSeq(h) /\ Len(h) = Len(r.history) /\ DOMAIN h = DOMAIN r.history
    <2>1. h = [k \in 1 .. Len(r.history) |-> h[k]]
      BY <1>1
    <2>. HIDE DEF h
    <2>2. IsSeq(h) /\ Len(h) = Len(r.history)
      BY <1>1, <2>1, Indexed
    <2> QED BY <1>1, <2>1, <2>2
  <1>4. ASSUME NEW n \in DOMAIN r.history
        PROVE  /\ IsNode(h[n])
               /\ h[n].prev = Node(r, n).prev
               /\ h[n].order = Node(r, n).order
               /\ h[n].refs = Node(r, n).refs + (IF n \in ids THEN d ELSE 0)
    <2>1. IsNode(Node(r, n)) /\ Node(r, n).refs \in Nat
      BY DEF Arena
    <2>2. h[n] = IF n \in ids THEN [Node(r, n) EXCEPT !.refs = @ + d] ELSE Node(r, n)
      OBVIOUS
    <2>. HIDE DEF h
    <2> QED BY <2>1, <2>2 DEF IsNode
  <1> QED BY <1>2, <1>3, <1>4 DEF Node

(* Dropping a reference gives back exactly this one.                       *)
LEMMA DropOK ==
  ASSUME NEW r, NEW e \in [Ids -> Nat], NEW id \in {NONE} \cup Ids,
         HistoryOK(r, More(e, id))
  PROVE  HistoryOK(Drop(r, id), e) /\ OnlyArena(r, Drop(r, id))
  <1>. DEFINE ch == Chain(r, id)
              L == Len(ch)
              shared == {k \in DOMAIN ch : Node(r, ch[k]).refs > 1}
              stops == {k - 1 : k \in shared} \cup {L}
              freed == Min(stops)
              losers == {ch[k] : k \in DOMAIN ch \cap 1 .. freed + 1}
              F == {ch[k] : k \in 1 .. freed}
              d == Drop(r, id)
  <1>1. Held(r, id) /\ Arena(r)
    BY HeldByCount DEF HistoryOK
  <1>2. /\ ch \in Seq(InUse(r)) /\ L \in Nat /\ DOMAIN ch = 1 .. L
        /\ IF id = NONE THEN L = 0 ELSE L >= 1 /\ ch[1] = id
        /\ \A k \in 1 .. L : Node(r, ch[k]).prev = IF k = L THEN NONE ELSE ch[k + 1]
        /\ \A j, k \in 1 .. L : ch[j] = ch[k] => j = k
    <2>. DEFINE e2 == More(e, id)
    <2>1. HistoryOK(r, e2)
      OBVIOUS
    <2>. HIDE DEF e2, ch
    <2>2. ch = Chain(r, id)
      BY DEF ch
    <2> QED BY <1>1, <2>1, <2>2, ChainFacts
  <1>3. /\ DOMAIN r.history = 1 .. Len(r.history) /\ Len(r.history) \in Nat
        /\ InUse(r) \subseteq Ids /\ InUse(r) \subseteq DOMAIN r.history
        /\ \A n \in DOMAIN r.history : Node(r, n).refs \in Nat
    BY <1>1, ArenaFinite DEF InUse, Arena
  <1>4. /\ freed \in 0 .. L
        /\ \A k \in 1 .. freed : Node(r, ch[k]).refs = 1
        /\ freed < L => Node(r, ch[freed + 1]).refs > 1
    <2>. HIDE DEF ch, L
    <2>1. shared \subseteq 1 .. L
      BY <1>2
    <2>2. stops \subseteq Nat /\ L \in stops
      BY <1>2, <2>1
    <2>3. freed \in stops /\ \A x \in stops : freed <= x
      <3>. HIDE DEF stops
      <3> QED BY <2>2, MinIs
    <2>. HIDE DEF freed
    <2>4. freed \in 0 .. L
      BY <1>2, <2>2, <2>3
    <2>5. ASSUME NEW k \in 1 .. freed PROVE Node(r, ch[k]).refs = 1
      <3>1. k \in 1 .. L /\ k - 1 < freed
        BY <1>2, <2>4
      <3>2. k \notin shared
        BY <2>3, <2>4, <3>1
      <3>3. ch[k] \in InUse(r) /\ Node(r, ch[k]).refs \in Nat
        BY <1>2, <1>3, <3>1
      <3> QED BY <1>2, <3>1, <3>2, <3>3 DEF InUse
    <2>6. freed < L => Node(r, ch[freed + 1]).refs > 1
      <3>1. CASE freed < L
        <4>1. PICK k \in shared : freed = k - 1
          BY <1>2, <2>3, <2>4, <3>1
        <4>2. k = freed + 1
          BY <2>1, <2>4, <4>1, <1>2
        <4> QED BY <4>1, <4>2
      <3> QED BY <3>1
    <2> QED BY <2>4, <2>5, <2>6
  <1>5. losers = {ch[k] : k \in {j \in 1 .. L : j <= freed + 1}}
    <2>. HIDE DEF ch, L, freed
    <2>1. DOMAIN ch \cap 1 .. freed + 1 = {j \in 1 .. L : j <= freed + 1}
      BY <1>2, <1>4
    <2> QED BY <2>1
  <1>. DEFINE f == [k \in 1 .. freed |-> ch[freed + 1 - k]]
  <1>6. /\ OnlyArena(r, d) /\ IsRun(d) /\ d.history_order = r.history_order
        /\ IsSeq(d.history) /\ DOMAIN d.history = DOMAIN r.history
        /\ d.free = f \o r.free
        /\ \A n \in DOMAIN r.history :
             /\ IsNode(Node(d, n))
             /\ Node(d, n).prev = Node(r, n).prev
             /\ Node(d, n).order = Node(r, n).order
             /\ Node(d, n).refs = Node(r, n).refs + (IF n \in losers THEN -1 ELSE 0)
    <2>. DEFINE c2 == Counting(r, losers, -1)
    <2>. HIDE DEF losers, f
    <2>1. /\ IsRun(c2) /\ OnlyArena(r, c2)
          /\ c2.free = r.free /\ c2.history_order = r.history_order
          /\ IsSeq(c2.history) /\ DOMAIN c2.history = DOMAIN r.history
          /\ \A n \in DOMAIN r.history :
               /\ IsNode(Node(c2, n))
               /\ Node(c2, n).prev = Node(r, n).prev
               /\ Node(c2, n).order = Node(r, n).order
               /\ Node(c2, n).refs = Node(r, n).refs + (IF n \in losers THEN -1 ELSE 0)
      BY <1>1, CountingIs
    <2>2. d = [c2 EXCEPT !.free = f \o @]
      BY DEF Drop, Released, losers, f
    <2>. HIDE DEF c2, d
    <2>3. IsRun(r)
      BY <1>1 DEF Arena
    <2>4. d.history = c2.history /\ d.history_order = c2.history_order /\ d.free = f \o c2.free /\ IsRun(d)
      BY <2>1, <2>2 DEF IsRun
    <2>5. OnlyArena(r, d)
      BY <2>1, <2>2, <2>3, <2>4 DEF IsRun, OnlyArena
    <2> QED BY <2>1, <2>4, <2>5 DEF Node
  <1>. HIDE DEF d, f, losers, freed, L, ch
  <1>7. F \subseteq losers /\ F \subseteq InUse(r) /\ losers \subseteq InUse(r)
    BY <1>2, <1>4, <1>5
  <1>8. InUse(d) = InUse(r) \ F
    <2>1. ASSUME NEW n \in InUse(r) PROVE n \in InUse(d) <=> n \notin F
      <3>1. n \in DOMAIN r.history /\ Node(r, n).refs \in Nat /\ Node(r, n).refs > 0
        BY <1>3 DEF InUse
      <3>2. CASE n \in F
        <4>1. Node(r, n).refs = 1
          BY <1>4, <3>2
        <4>2. Node(d, n).refs = 0
          BY <1>6, <1>7, <3>1, <3>2, <4>1
        <4> QED BY <3>2, <4>2 DEF InUse
      <3>3. CASE n \in losers \ F
        <4>1. freed < L /\ n = ch[freed + 1]
          BY <1>2, <1>4, <1>5, <3>3
        <4> QED BY <1>4, <1>6, <3>1, <3>3, <4>1 DEF InUse
      <3>4. CASE n \notin losers
        BY <1>6, <1>7, <3>1, <3>4 DEF InUse
      <3> QED BY <3>2, <3>3, <3>4
    <2>2. InUse(d) \subseteq InUse(r)
      BY <1>3, <1>6, <1>7 DEF InUse
    <2> QED BY <2>1, <2>2
  <1>9. ASSUME NEW n PROVE Followers(d, n) = Followers(r, n) \ F
    BY <1>6, <1>8 DEF Followers, InUse
  (* Of the records that are freed, at most one follows n.                 *)
  <1>10. ASSUME NEW n \in Ids, NEW k \in 1 .. freed
         PROVE  ch[k] \in Followers(r, n) <=> k < L /\ n = ch[k + 1]
    <2>1. k \in 1 .. L /\ ch[k] \in InUse(r) /\ n # NONE
      BY <1>2, <1>4 DEF Ids, NONE
    <2> QED BY <1>2, <2>1 DEF Followers
  <1>11. ASSUME NEW n \in Ids
         PROVE  /\ IsFiniteSet(Followers(r, n)) /\ Cardinality(Followers(r, n)) \in Nat
                /\ n \in losers /\ n # id =>
                     Cardinality(Followers(d, n)) = Cardinality(Followers(r, n)) - 1
                /\ n \notin losers \/ n = id =>
                     Cardinality(Followers(d, n)) = Cardinality(Followers(r, n))
    <2>1. IsFiniteSet(Followers(r, n)) /\ Cardinality(Followers(r, n)) \in Nat
      BY <1>1, ArenaFinite
    <2>2. ASSUME n \in losers, n # id
          PROVE  Cardinality(Followers(d, n)) = Cardinality(Followers(r, n)) - 1
      <3>1. PICK j \in 1 .. L : j <= freed + 1 /\ n = ch[j]
        BY <1>5, <2>2
      <3>2. j # 1
        <4>1. id = NONE => L = 0
          BY <1>2
        <4> QED BY <1>2, <2>2, <3>1, <4>1
      <3>3. j - 1 \in 1 .. freed /\ j - 1 < L /\ (j - 1) + 1 = j
        BY <1>2, <1>4, <3>1, <3>2
      <3>4. ch[j - 1] \in Followers(r, n)
        BY <1>10, <3>1, <3>3
      <3>5. ASSUME NEW k \in 1 .. freed, ch[k] \in Followers(r, n) PROVE k = j - 1
        <4>1. k < L /\ n = ch[k + 1]
          BY <1>10, <3>5
        <4>2. k + 1 \in 1 .. L
          BY <1>2, <1>4, <4>1
        <4>3. k + 1 = j
          BY <1>2, <3>1, <4>1, <4>2
        <4> QED BY <4>3, <1>4
      <3>6. Followers(d, n) = Followers(r, n) \ {ch[j - 1]}
        BY <1>9, <3>3, <3>4, <3>5
      <3>7. \A x \in Followers(r, n) :
              Cardinality(Followers(r, n) \ {x}) = Cardinality(Followers(r, n)) - 1
        BY <2>1, FS_RemoveElement
      <3> QED BY <3>4, <3>6, <3>7
    <2>3. ASSUME n \notin losers \/ n = id
          PROVE  Cardinality(Followers(d, n)) = Cardinality(Followers(r, n))
      <3>1. ASSUME NEW k \in 1 .. freed, ch[k] \in Followers(r, n) PROVE FALSE
        <4>1. k < L /\ n = ch[k + 1] /\ k + 1 \in 1 .. L
          BY <1>2, <1>4, <1>10, <3>1
        <4>2. n \in losers
          BY <1>4, <1>5, <4>1
        <4>3. n = ch[1] /\ 1 \in 1 .. L
          BY <1>2, <2>3, <4>1, <4>2
        <4>4. k + 1 = 1
          BY <1>2, <4>1, <4>3
        <4> QED BY <4>4, <1>4
      <3>2. Followers(d, n) = Followers(r, n)
        BY <1>9, <3>1 DEF Followers
      <3> QED BY <3>2
    <2> QED BY <2>1, <2>2, <2>3
  <1>12. Arena(d)
    <2>1. IsSeq(f) /\ IsSeq(d.free)
      <3>1. f = [k \in 1 .. freed |-> f[k]] /\ freed \in Nat
        BY <1>2, <1>4 DEF f
      <3>2. IsSeq(f)
        BY <3>1, Indexed
      <3> QED BY <1>1, <1>6, <3>2, Concatenated DEF Arena
    <2>2. ASSUME NEW n \in DOMAIN d.history PROVE Node(d, n).refs \in Nat
      <3>1. n \in DOMAIN r.history /\ Node(r, n).refs \in Nat
        BY <1>3, <1>6
      <3>2. n \in losers => Node(r, n).refs > 0
        BY <1>7 DEF InUse
      <3> QED BY <1>6, <3>1, <3>2
    <2> QED BY <1>1, <1>6, <2>1, <2>2 DEF Arena
  <1>13. Counted(d, e)
    <2>1. Counted(r, More(e, id))
      BY DEF HistoryOK
    <2>2. ASSUME NEW n \in Ids \ DOMAIN d.history PROVE e[n] = 0
      <3>1. More(e, id)[n] = 0
        BY <1>6, <2>1 DEF Counted
      <3> QED BY <3>1 DEF More
    <2>3. ASSUME NEW n \in DOMAIN d.history
          PROVE  Node(d, n).refs = e[n] + Cardinality(Followers(d, n))
      <3>1. n \in DOMAIN r.history /\ n \in Ids /\ e[n] \in Nat
        BY <1>3, <1>6 DEF Ids
      <3>2. Node(r, n).refs = (IF n = id THEN e[n] + 1 ELSE e[n])
                              + Cardinality(Followers(r, n))
        BY <2>1, <3>1 DEF Counted, More
      <3>3. n = id => n \in losers
        <4>1. n = id => L >= 1 /\ ch[1] = n
          BY <1>2, <3>1 DEF Ids, NONE
        <4> QED BY <1>2, <1>4, <1>5, <4>1
      <3>4. Node(d, n).refs = Node(r, n).refs + (IF n \in losers THEN -1 ELSE 0)
        BY <1>6, <3>1
      <3> QED BY <1>11, <3>1, <3>2, <3>3, <3>4
    <2> QED BY <2>2, <2>3 DEF Counted
  <1>14. Chained(d)
    BY <1>6, <1>8 DEF Chained, HistoryOK, InUse
  <1>15. FreeListed(d)
    <2>. DEFINE m == Len(r.free)
    <2>1. /\ IsSeq(f) /\ Len(f) = freed /\ freed \in Nat
      <3>1. f = [k \in 1 .. freed |-> f[k]] /\ freed \in Nat
        BY <1>2, <1>4 DEF f
      <3> QED BY <3>1, Indexed
    <2>2. /\ IsSeq(d.free) /\ Len(d.free) = freed + m /\ m \in Nat
          /\ \A k \in 1 .. freed : d.free[k] = f[k]
          /\ \A k \in 1 .. m : d.free[freed + k] = r.free[k]
          /\ DOMAIN r.free = 1 .. m /\ DOMAIN d.free = 1 .. freed + m
      <3>1. IsSeq(r.free) /\ m \in Nat /\ DOMAIN r.free = 1 .. m
        BY <1>1, AnySeq DEF Arena, IsSeq
      <3>2. /\ IsSeq(d.free) /\ Len(d.free) = Len(f) + m
            /\ \A k \in 1 .. Len(f) : d.free[k] = f[k]
            /\ \A k \in 1 .. m : d.free[Len(f) + k] = r.free[k]
        <4>1. /\ IsSeq(f \o r.free) /\ Len(f \o r.free) = Len(f) + Len(r.free)
              /\ \A k \in 1 .. Len(f) : (f \o r.free)[k] = f[k]
              /\ \A k \in 1 .. Len(r.free) : (f \o r.free)[Len(f) + k] = r.free[k]
          <5>1. IsSeq(f) /\ IsSeq(r.free)
            BY <2>1, <3>1
          <5>2. IsSeq(f \o r.free)
            BY <5>1, Concatenated
          <5>3. Len(f \o r.free) = Len(f) + Len(r.free)
            BY <5>1, Concatenated
          <5>4. \A k \in 1 .. Len(f) : (f \o r.free)[k] = f[k]
            BY <5>1, Concatenated
          <5>5. \A k \in 1 .. Len(r.free) : (f \o r.free)[Len(f) + k] = r.free[k]
            BY <5>1, Concatenated
          <5> QED BY <5>2, <5>3, <5>4, <5>5
        <4> QED BY <1>6, <4>1
      <3>3. DOMAIN d.free = 1 .. Len(d.free)
        BY <3>2, AnySeq
      <3> QED BY <2>1, <3>1, <3>2, <3>3
    <2>3. /\ \A k \in 1 .. freed : f[k] = ch[freed + 1 - k] /\ freed + 1 - k \in 1 .. freed
          /\ \A k \in 1 .. freed : f[freed + 1 - k] = ch[k] /\ freed + 1 - k \in 1 .. freed
      BY <2>1 DEF f
    <2>4. ToSet(r.free) = DOMAIN r.history \ InUse(r) /\ IsInjective(r.free)
      BY DEF HistoryOK, FreeListed
    <2>5. ToSet(d.free) = F \cup ToSet(r.free)
      <3>1. ASSUME NEW k \in DOMAIN d.free PROVE d.free[k] \in F \cup ToSet(r.free)
        <4>1. CASE k <= freed
          <5>1. k \in 1 .. freed
            BY <2>1, <2>2, <4>1
          <5>2. d.free[k] = ch[freed + 1 - k] /\ freed + 1 - k \in 1 .. freed
            BY <2>2, <2>3, <5>1
          <5> QED BY <5>2
        <4>2. CASE k > freed
          <5>1. k - freed \in 1 .. m /\ freed + (k - freed) = k
            BY <2>1, <2>2, <4>2
          <5> QED BY <2>2, <5>1 DEF ToSet
        <4> QED BY <2>1, <2>2, <4>1, <4>2
      <3>2. ASSUME NEW k \in 1 .. freed PROVE ch[k] \in ToSet(d.free)
        <4>1. freed + 1 - k \in DOMAIN d.free /\ d.free[freed + 1 - k] = ch[k]
          BY <2>1, <2>2, <2>3
        <4> QED BY <4>1 DEF ToSet
      <3>3. ASSUME NEW k \in DOMAIN r.free PROVE r.free[k] \in ToSet(d.free)
        <4>1. freed + k \in DOMAIN d.free
          BY <2>1, <2>2
        <4> QED BY <2>2, <4>1 DEF ToSet
      <3> QED BY <3>1, <3>2, <3>3 DEF ToSet
    <2>6. ToSet(d.free) = DOMAIN d.history \ InUse(d)
      BY <1>3, <1>6, <1>7, <1>8, <2>4, <2>5
    <2>7. ASSUME NEW j \in DOMAIN d.free, NEW k \in DOMAIN d.free, d.free[j] = d.free[k]
          PROVE  j = k
      <3>1. ASSUME NEW i \in DOMAIN d.free, i > freed
            PROVE  i - freed \in DOMAIN r.free /\ d.free[i] = r.free[i - freed]
        <4>1. i - freed \in 1 .. m /\ freed + (i - freed) = i
          BY <2>1, <2>2, <3>1
        <4> QED BY <2>2, <4>1
      <3>2. ASSUME NEW i \in DOMAIN d.free, i <= freed
            PROVE  /\ i \in 1 .. freed /\ freed + 1 - i \in 1 .. L
                   /\ d.free[i] = ch[freed + 1 - i] /\ d.free[i] \in InUse(r)
        <4>1. i \in 1 .. freed
          BY <2>1, <2>2, <3>2
        <4>2. d.free[i] = ch[freed + 1 - i] /\ freed + 1 - i \in 1 .. freed
          BY <2>2, <2>3, <4>1
        <4>3. freed + 1 - i \in 1 .. L /\ ch[freed + 1 - i] \in InUse(r)
          BY <1>2, <1>4, <4>2
        <4> QED BY <4>1, <4>2, <4>3
      <3>3. \A i \in DOMAIN r.free : r.free[i] \notin InUse(r)
        BY <2>4 DEF ToSet
      <3>4. CASE j <= freed /\ k <= freed
        <4>1. freed + 1 - j = freed + 1 - k
          BY <1>2, <2>7, <3>2, <3>4
        <4> QED BY <2>1, <2>2, <4>1
      <3>5. CASE j > freed /\ k > freed
        <4>1. j - freed = k - freed
          BY <2>4, <2>7, <3>1, <3>5 DEF IsInjective
        <4> QED BY <2>1, <2>2, <4>1
      <3>6. CASE ~(j <= freed <=> k <= freed)
        <4>1. ASSUME NEW i \in DOMAIN d.free PROVE i <= freed <=> d.free[i] \in InUse(r)
          <5>1. i > freed => d.free[i] \notin InUse(r)
            BY <3>1, <3>3
          <5> QED BY <2>1, <2>2, <3>2, <5>1
        <4> QED BY <2>7, <3>6, <4>1
      <3> QED BY <2>1, <2>2, <3>4, <3>5, <3>6
    <2> QED BY <2>6, <2>7 DEF FreeListed, IsInjective
  <1> QED BY <1>6, <1>12, <1>13, <1>14, <1>15 DEF HistoryOK, d

LEMMA SameHistory ==
  ASSUME NEW r, NEW e, HistoryOK(r, e), NEW d, IsRun(d),
         d.history = r.history, d.free = r.free, d.history_order = r.history_order
  PROVE  HistoryOK(d, e)
  <1>1. \A n : Node(d, n) = Node(r, n)
    BY DEF Node
  <1>2. InUse(d) = InUse(r) /\ \A n : Followers(d, n) = Followers(r, n)
    BY <1>1 DEF InUse, Followers
  <1>3. Arena(d)
    BY <1>1 DEF HistoryOK, Arena
  <1>4. Chained(d)
    BY <1>1, <1>2 DEF HistoryOK, Chained
  <1>5. Counted(d, e)
    BY <1>1, <1>2 DEF HistoryOK, Counted
  <1>6. FreeListed(d)
    BY <1>2 DEF HistoryOK, FreeListed
  <1> QED BY <1>3, <1>4, <1>5, <1>6 DEF HistoryOK

(* A reference can be added to what is referred to.                        *)
LEMMA RetainOK ==
  ASSUME NEW r, NEW e, HistoryOK(r, e), NEW id, Held(r, id)
  PROVE  HistoryOK(Retain(r, id), More(e, id)) /\ OnlyArena(r, Retain(r, id))
  <1>. DEFINE d == Counting(r, {id}, 1)
  <1>1. Arena(r) /\ e \in [Ids -> Nat]
    BY DEF HistoryOK, Counted
  <1>2. /\ IsRun(d) /\ OnlyArena(r, d)
        /\ d.free = r.free /\ d.history_order = r.history_order
        /\ IsSeq(d.history) /\ DOMAIN d.history = DOMAIN r.history
        /\ \A n \in DOMAIN r.history :
             /\ IsNode(Node(d, n))
             /\ Node(d, n).prev = Node(r, n).prev
             /\ Node(d, n).order = Node(r, n).order
             /\ Node(d, n).refs = Node(r, n).refs + (IF n \in {id} THEN 1 ELSE 0)
    BY <1>1, CountingIs
  <1>. HIDE DEF d
  <1>3. InUse(d) = InUse(r)
    <2>1. ASSUME NEW n \in DOMAIN r.history PROVE n \in InUse(d) <=> n \in InUse(r)
      <3>1. Node(r, n).refs \in Nat
        BY <1>1 DEF Arena
      <3>2. CASE n = id
        <4>1. n \in Ids
          BY <1>1, ArenaFinite DEF Ids
        <4>2. n \in InUse(r)
          BY <3>2, <4>1 DEF Held, Ids, NONE
        <4>3. Node(r, n).refs > 0 /\ Node(d, n).refs = Node(r, n).refs + 1
          BY <1>2, <3>2, <4>2 DEF InUse
        <4> QED BY <1>2, <3>1, <4>2, <4>3 DEF InUse
      <3>3. CASE n # id
        <4>1. Node(d, n).refs = Node(r, n).refs
          BY <1>2, <3>1, <3>3
        <4> QED BY <1>2, <4>1 DEF InUse
      <3> QED BY <3>2, <3>3
    <2> QED BY <1>2, <2>1 DEF InUse
  <1>4. ASSUME NEW n PROVE Followers(d, n) = Followers(r, n)
    BY <1>2, <1>3 DEF Followers, InUse
  <1>5. Arena(d)
    BY <1>1, <1>2 DEF Arena
  <1>6. Chained(d)
    BY <1>2, <1>3 DEF Chained, HistoryOK, InUse
  <1>7. Counted(d, More(e, id))
    <2>1. DOMAIN r.history \subseteq Ids
      BY <1>1, ArenaFinite DEF Ids
    <2>2. ASSUME NEW n \in DOMAIN r.history
          PROVE  Node(d, n).refs = More(e, id)[n] + Cardinality(Followers(d, n))
      <3>1. Node(r, n).refs = e[n] + Cardinality(Followers(r, n))
        BY DEF HistoryOK, Counted
      <3>2. Cardinality(Followers(r, n)) \in Nat /\ e[n] \in Nat /\ n \in Ids
        BY <1>1, <2>1, ArenaFinite
      <3> QED BY <1>2, <1>4, <3>1, <3>2 DEF More
    <2>3. ASSUME NEW n \in Ids \ DOMAIN d.history PROVE More(e, id)[n] = 0
      <3>1. e[n] = 0 /\ n # id
        BY <1>2 DEF HistoryOK, Counted, Held, InUse, Ids, NONE
      <3> QED BY <3>1 DEF More
    <2> QED BY <1>1, <1>2, <2>2, <2>3, MoreType DEF Counted
  <1>8. FreeListed(d)
    BY <1>2, <1>3 DEF FreeListed, HistoryOK
  <1> QED BY <1>2, <1>5, <1>6, <1>7, <1>8 DEF HistoryOK, d, Retain

(* A record that is new to the histories takes over a reference.           *)
LEMMA NewRecord ==
  ASSUME NEW r, NEW e \in [Ids -> Nat], NEW p \in {NONE} \cup Ids,
         HistoryOK(r, More(e, p)),
         NEW id \in Ids, id \notin InUse(r), e[id] = 0, Followers(r, id) = {},
         NEW d, IsRun(d), IsSeq(d.history), IsSeq(d.free),
         DOMAIN d.history = DOMAIN r.history \cup {id},
         \A n \in DOMAIN r.history \ {id} : Node(d, n) = Node(r, n),
         IsNode(Node(d, id)), Node(d, id).prev = p, Node(d, id).refs = 1,
         Node(d, id).order = r.history_order + 1,
         d.history_order = r.history_order + 1,
         ToSet(d.free) = DOMAIN d.history \ (InUse(r) \cup {id}), IsInjective(d.free)
  PROVE  HistoryOK(d, More(e, id))
  <1>1. Arena(r) /\ Held(r, p)
    BY HeldByCount DEF HistoryOK
  <1>2. DOMAIN r.history \subseteq Ids
    BY <1>1, ArenaFinite DEF Ids
  <1>3. InUse(d) = InUse(r) \cup {id}
    BY DEF InUse
  <1>4. p # id /\ p # NONE => p \in InUse(r)
    BY <1>1 DEF Held, Ids, NONE
  <1>4a. p # id
    BY <1>1 DEF Held, Ids, NONE
  <1>5. ASSUME NEW n
        PROVE  Followers(d, n) = IF n = p THEN Followers(r, n) \cup {id} ELSE Followers(r, n)
    BY <1>3 DEF Followers, InUse
  <1>6. Arena(d)
    BY <1>1, <1>2 DEF Arena
  <1>7. Chained(d)
    <2>1. ASSUME NEW n \in InUse(d), Node(d, n).prev # NONE
          PROVE  /\ Node(d, n).prev \in DOMAIN d.history
                 /\ Node(d, Node(d, n).prev).order < Node(d, n).order
      <3>1. CASE n = id
        <4>1. p \in InUse(r) /\ p \in DOMAIN r.history \ {id}
          BY <1>4, <1>4a, <2>1, <3>1 DEF InUse
        <4>2. Node(r, p).order \in 0 .. r.history_order /\ r.history_order \in Nat
          BY <1>1, <4>1 DEF Arena
        <4> QED BY <3>1, <4>1, <4>2
      <3>2. CASE n # id
        <4>1. n \in InUse(r) /\ Node(d, n) = Node(r, n)
          BY <1>3, <3>2 DEF InUse
        <4>2. /\ Held(r, Node(r, n).prev)
              /\ Node(r, Node(r, n).prev).order < Node(r, n).order
          BY <2>1, <4>1, PrevInUse
        <4>3. Node(r, n).prev \in DOMAIN r.history \ {id}
          BY <2>1, <4>1, <4>2 DEF Held, InUse
        <4> QED BY <4>1, <4>2, <4>3
      <3> QED BY <3>1, <3>2
    <2> QED BY <2>1 DEF Chained
  <1>8. Counted(d, More(e, id))
    <2>1. Counted(r, More(e, p))
      BY DEF HistoryOK
    <2>2. ASSUME NEW n \in Ids \ DOMAIN d.history PROVE More(e, id)[n] = 0
      <3>1. More(e, p)[n] = 0 /\ n # id
        BY <2>1 DEF Counted
      <3>2. e[n] \in Nat
        OBVIOUS
      <3> QED BY <3>1, <3>2 DEF More
    <2>3. ASSUME NEW n \in DOMAIN d.history
          PROVE  Node(d, n).refs = More(e, id)[n] + Cardinality(Followers(d, n))
      <3>1. n \in Ids /\ e[n] \in Nat
        BY <1>2
      <3>2. IsFiniteSet(Followers(r, n)) /\ Cardinality(Followers(r, n)) \in Nat
        BY <1>1, ArenaFinite
      <3>3. CASE n = id
        <4>1. Cardinality(Followers(d, n)) = 0
          BY <1>4a, <1>5, <3>3, FS_EmptySet
        <4> QED BY <3>1, <3>3, <4>1 DEF More
      <3>4. CASE n # id
        <4>1. /\ n \in DOMAIN r.history /\ Node(d, n) = Node(r, n)
              /\ Node(r, n).refs = More(e, p)[n] + Cardinality(Followers(r, n))
          BY <2>1, <3>4 DEF Counted
        <4>2. CASE n = p
          <5>1. id \notin Followers(r, n)
            BY DEF Followers
          <5>2. Cardinality(Followers(r, n) \cup {id}) = Cardinality(Followers(r, n)) + 1
            BY <3>2, <5>1, FS_AddElement
          <5> QED BY <1>5, <3>1, <3>2, <3>4, <4>1, <4>2, <5>2 DEF More
        <4>3. CASE n # p
          BY <1>5, <3>1, <3>4, <4>1, <4>3 DEF More
        <4> QED BY <4>2, <4>3
      <3> QED BY <3>3, <3>4
    <2> QED BY <2>2, <2>3, MoreType DEF Counted
  <1>9. FreeListed(d)
    BY <1>3 DEF FreeListed
  <1> QED BY <1>6, <1>7, <1>8, <1>9 DEF HistoryOK

-----------------------------------------------------------------------------
(* What the steps of a run keep: the stack, the limits and the input.      *)
Kept(r, d) ==
  /\ IsRun(d) /\ d.stack = r.stack /\ d.limits = r.limits
  /\ d.units = r.units /\ d.offsets = r.offsets

(* A step that keeps the arena, too                                        *)
SameArena(r, d) ==
  /\ Kept(r, d) /\ d.history = r.history /\ d.free = r.free
  /\ d.history_order = r.history_order

LEMMA OnlyArenaKept ==
  ASSUME NEW r, IsRun(r), NEW d, OnlyArena(r, d)
  PROVE  Kept(r, d) /\ d.error = r.error
  BY DEF OnlyArena, Kept, IsRun


LEMMA SameArenaOK ==
  ASSUME NEW r, NEW d, SameArena(r, d), NEW e, HistoryOK(r, e)
  PROVE  HistoryOK(d, e)
  BY SameHistory DEF SameArena, Kept

LEMMA FailedKeeps ==
  ASSUME NEW r, IsRun(r), NEW x
  PROVE  SameArena(r, Failed(r, x)) /\ Failed(r, x).error = x
  BY DEF Failed, SameArena, Kept, IsRun

LEMMA TickKeeps ==
  ASSUME NEW r, IsRun(r), NEW n
  PROVE  SameArena(r, Tick(r, n))
  <1>1. CASE n > r.limits.max_steps - r.steps
    BY <1>1, FailedKeeps DEF Tick
  <1>2. CASE ~(n > r.limits.max_steps - r.steps)
    BY <1>2 DEF Tick, SameArena, Kept, IsRun
  <1> QED BY <1>1, <1>2

LEMMA GrowKeeps ==
  ASSUME NEW r, IsRun(r), NEW block, NEW old, NEW new, NEW unit, NEW fails
  PROVE  SameArena(r, Grow(r, block, old, new, unit, fails))
  <1>. DEFINE g == Grow(r, block, old, new, unit, fails)
              u == r.used - old * unit + new * unit
  <1>1. \/ g = Failed(r, "LIMIT")
        \/ g = Failed(r, "NOMEM")
        \/ g = [r EXCEPT !.used = u]
    BY DEF Grow
  <1>. HIDE DEF g, u
  <1>2. SameArena(r, [r EXCEPT !.used = u])
    BY DEF SameArena, Kept, IsRun
  <1>3. SameArena(r, g)
    BY <1>1, <1>2, FailedKeeps
  <1> QED BY <1>3 DEF g

LEMMA ReserveKeeps ==
  ASSUME NEW r, IsRun(r), NEW fails
  PROVE  SameArena(r, Reserve(r, fails))
  <1>. DEFINE cap == IF r.history_capacity = 0 THEN InitialNodes
                     ELSE 2 * r.history_capacity
              g == Grow(r, "history", r.history_capacity, cap, NodeBytes, fails)
              d == Reserve(r, fails)
  <1>1. \/ d = r \/ d = Failed(r, "LIMIT") \/ d = g
        \/ d = [g EXCEPT !.history_capacity = cap]
    BY DEF Reserve
  <1>2. SameArena(r, g)
    BY GrowKeeps
  <1>3. SameArena(r, r)
    BY DEF SameArena, Kept
  <1>. HIDE DEF g, d, cap
  <1>4. SameArena(r, [g EXCEPT !.history_capacity = cap])
    BY <1>2 DEF SameArena, Kept, IsRun
  <1>5. SameArena(r, d)
    BY <1>1, <1>2, <1>3, <1>4, FailedKeeps
  <1> QED BY <1>5 DEF d

LEMMA ReservePrioritiesKeeps ==
  ASSUME NEW r, IsRun(r), NEW n, NEW fails
  PROVE  SameArena(r, ReservePriorities(r, n, fails))
  <1>. DEFINE first1 == IF r.priority_capacity = 0 THEN InitialPriorities
                        ELSE r.priority_capacity
              cap == CHOOSE f : f = [k \in Nat |-> IF k = 0 THEN first1 ELSE 2 * f[k - 1]]
              most == cap[Min({k \in 0 .. n : cap[k] >= n})]
              g == Grow(r, "priorities", r.priority_capacity, most, PriorityBytes, fails)
              d == ReservePriorities(r, n, fails)
  <1>1. \/ d = r \/ d = Failed(r, "LIMIT") \/ d = g
        \/ d = [g EXCEPT !.priority_capacity = most]
    BY DEF ReservePriorities
  <1>2. SameArena(r, g)
    <2>. HIDE DEF most
    <2> QED BY GrowKeeps
  <1>3. SameArena(r, r)
    BY DEF SameArena, Kept
  <1>. HIDE DEF g, d, most
  <1>4. SameArena(r, [g EXCEPT !.priority_capacity = most])
    BY <1>2 DEF SameArena, Kept, IsRun
  <1>5. SameArena(r, d)
    BY <1>1, <1>2, <1>3, <1>4, FailedKeeps
  <1> QED BY <1>5 DEF d

LEMMA SameArenaTransitive ==
  ASSUME NEW r, NEW d, SameArena(r, d), NEW f, SameArena(d, f)
  PROVE  SameArena(r, f)
  BY DEF SameArena, Kept

LEMMA BetterKeeps ==
  ASSUME NEW r, IsRun(r), NEW id, NEW best1, NEW fails
  PROVE  SameArena(r, Better(r, id, best1, fails)[1])
  <1>. DEFINE walk == Len(Chain(r, id)) + Len(Chain(r, best1))
              t == Tick(r, walk)
              left == Scopes(r, id)
              right == Scopes(r, best1)
              p == ReservePriorities(t, Max({Len(left), Len(right)}), fails)
  <1>1. SameArena(r, t) /\ IsRun(t)
    <2>. HIDE DEF walk
    <2> QED BY TickKeeps DEF SameArena, Kept
  <1>. HIDE DEF left, right, walk, t
  <1>2. SameArena(t, p) /\ IsRun(p)
    BY <1>1, ReservePrioritiesKeeps DEF SameArena, Kept
  <1>. HIDE DEF p
  <1>3. SameArena(t, Decided(p, Sorted(left), Sorted(right), walk)[1])
    <2>. DEFINE l == Sorted(left)
                q == Sorted(right)
                m == walk + l.ticks + q.ticks + Compared(l.q, q.q)
    <2>1. Decided(p, l, q, walk)[1] \in {p, Tick(p, m)}
      BY DEF Decided
    <2>. HIDE DEF l, q, m
    <2>2. SameArena(p, Tick(p, m)) /\ SameArena(p, p)
      BY <1>2, TickKeeps DEF SameArena, Kept
    <2>3. SameArena(t, Decided(p, l, q, walk)[1])
      BY <1>2, <2>1, <2>2, SameArenaTransitive
    <2> QED BY <2>3 DEF l, q
  <1>4. SameArena(t, Contest(t, left, right, walk, fails)[1])
    <2>. DEFINE w == Decided(p, Sorted(left), Sorted(right), walk)
                x == Contest(t, left, right, walk, fails)
    <2>1. x = <<t, FALSE>> \/ x = w
      BY DEF Contest, p
    <2>2. SameArena(t, t)
      BY <1>1 DEF SameArena, Kept
    <2>3. SameArena(t, w[1])
      BY <1>3
    <2>. HIDE DEF w, x
    <2>4. SameArena(t, x[1])
      <3>1. CASE x = <<t, FALSE>>
        <4>1. x[1] = t
          BY <3>1
        <4> QED BY <2>2, <4>1
      <3>2. CASE x = w
        BY <2>3, <3>2
      <3> QED BY <2>1, <3>1, <3>2
    <2> QED BY <2>4 DEF x
  <1>5. Better(r, id, best1, fails) = Contest(t, left, right, walk, fails)
    BY DEF Better, t, left, right, walk
  <1> QED BY <1>1, <1>4, <1>5, SameArenaTransitive

-----------------------------------------------------------------------------
(* A state of the executor, and one with a reference or none               *)
IsState(s) ==
  s = [pc |-> s.pc, pos |-> s.pos, loops |-> s.loops, begin |-> s.begin,
       end |-> s.end, history |-> s.history, group_history |-> s.group_history]

Referring(s) == IsState(s) /\ s.history \in {NONE} \cup Ids

(* A run and a state after a step that may push a record: the state is the *)
(* same but for its history, and refers to it in place of the old one.     *)
Tagged(r, s, e, d, t) ==
  /\ Kept(r, d) /\ Referring(t)
  /\ t = [s EXCEPT !.history = t.history]
  /\ HistoryOK(d, More(e, t.history))
  /\ ~Ok(d) => t = s

LEMMA PrependOK ==
  ASSUME NEW r, NEW e \in [Ids -> Nat], NEW s, Referring(s),
         HistoryOK(r, More(e, s.history)),
         NEW node, IsNode(node), node.prev = s.history, node.refs = 1,
         node.order = r.history_order + 1
  PROVE  Tagged(r, s, e, Prepend(r, s, node)[1], Prepend(r, s, node)[2])
  <1>. DEFINE p == s.history
              reuse == r.free # <<>>
              id == IF reuse THEN Head(r.free) ELSE Len(r.history) + 1
              f == IF reuse THEN Tail(r.free) ELSE r.free
              h == IF reuse THEN [r.history EXCEPT ![id] = node]
                   ELSE Append(r.history, node)
              made == [r EXCEPT !.free = f, !.history = h, !.history_order = node.order]
              n == Len(r.history)
  <1>1. /\ Arena(r) /\ IsRun(r) /\ IsSeq(r.history) /\ IsSeq(r.free)
        /\ n \in Nat /\ DOMAIN r.history = 1 .. n
        /\ InUse(r) \subseteq 1 .. n
        /\ p \in {NONE} \cup Ids /\ Held(r, p)
    <2>1. Arena(r) /\ p \in {NONE} \cup Ids
      BY DEF HistoryOK, Referring
    <2>2. Held(r, p)
      <3>. HIDE DEF p
      <3>1. HistoryOK(r, More(e, p))
        BY DEF p
      <3> QED BY <2>1, <3>1, HeldByCount
    <2> QED BY <2>1, <2>2, ArenaFinite DEF Arena, InUse
  <1>2. ToSet(r.free) = (1 .. n) \ InUse(r) /\ IsInjective(r.free)
    BY <1>1 DEF HistoryOK, FreeListed
  (* The new record is one that is free, or one that is new.               *)
  <1>. DEFINE Fresh ==
         /\ id \in Ids /\ id \notin InUse(r) /\ id \in 1 .. n + 1
         /\ IsSeq(h) /\ DOMAIN h = (1 .. n) \cup {id} /\ h[id] = node
         /\ \A k \in 1 .. n : k # id => h[k] = r.history[k]
         /\ IsSeq(f) /\ IsInjective(f)
         /\ ToSet(f) = DOMAIN h \ (InUse(r) \cup {id})
  <1>3. ASSUME reuse PROVE Fresh
    <2>. DEFINE m == Len(r.free)
    <2>1. /\ IsSeq(f) /\ m \in Nat /\ m >= 1 /\ Len(f) = m - 1 /\ DOMAIN r.free = 1 .. m
          /\ DOMAIN f = 1 .. m - 1
          /\ \A k \in 1 .. m - 1 : f[k] = r.free[k + 1]
          /\ id = r.free[1]
      <3>1. /\ IsSeq(f) /\ m >= 1 /\ Len(f) = m - 1
            /\ \A k \in 1 .. m - 1 : f[k] = r.free[k + 1]
            /\ id = r.free[1]
        BY <1>1, <1>3, Tailed
      <3>2. m \in Nat /\ DOMAIN r.free = 1 .. m /\ DOMAIN f = 1 .. Len(f)
        BY <1>1, <3>1, AnySeq DEF IsSeq
      <3> QED BY <3>1, <3>2
    <2>2. id \in (1 .. n) \ InUse(r)
      BY <1>2, <2>1 DEF ToSet
    <2>. HIDE DEF f, id
    <2>3. ToSet(f) = ToSet(r.free) \ {id}
      <3>1. ASSUME NEW k \in 1 .. m - 1 PROVE f[k] \in ToSet(r.free) \ {id}
        <4>1. k + 1 \in DOMAIN r.free /\ 1 \in DOMAIN r.free /\ k + 1 # 1
          BY <2>1
        <4>2. r.free[k + 1] # r.free[1]
          BY <1>2, <4>1 DEF IsInjective
        <4>3. r.free[k + 1] \in ToSet(r.free)
          BY <4>1 DEF ToSet
        <4>4. f[k] = r.free[k + 1]
          BY <2>1
        <4> QED BY <2>1, <4>2, <4>3, <4>4
      <3>2. ASSUME NEW k \in 1 .. m, r.free[k] # id PROVE r.free[k] \in ToSet(f)
        <4>1. k - 1 \in DOMAIN f /\ (k - 1) + 1 = k
          BY <2>1, <3>2
        <4> QED BY <2>1, <4>1 DEF ToSet
      <3>3. ToSet(f) = {f[k] : k \in 1 .. m - 1}
        BY <2>1 DEF ToSet
      <3>4. ToSet(r.free) = {r.free[k] : k \in 1 .. m}
        BY <2>1 DEF ToSet
      <3>. HIDE DEF m
      <3>5. ToSet(f) \subseteq ToSet(r.free) \ {id}
        BY <3>1, <3>3
      <3>6. ToSet(r.free) \ {id} \subseteq ToSet(f)
        BY <3>2, <3>4
      <3> QED BY <3>5, <3>6
    <2>4. IsInjective(f)
      <3>1. ASSUME NEW j \in DOMAIN f, NEW k \in DOMAIN f, f[j] = f[k] PROVE j = k
        <4>1. j + 1 \in DOMAIN r.free /\ k + 1 \in DOMAIN r.free
          BY <2>1
        <4>2. j + 1 = k + 1
          BY <1>2, <2>1, <3>1, <4>1 DEF IsInjective
        <4> QED BY <2>1, <4>2
      <3> QED BY <3>1 DEF IsInjective
    <2>5. /\ IsSeq(h) /\ DOMAIN h = 1 .. n /\ h[id] = node
          /\ \A k \in 1 .. n : k # id => h[k] = r.history[k]
      <3>1. h = [r.history EXCEPT ![id] = node]
        BY <1>3
      <3>. HIDE DEF h
      <3>2. r.history = [k \in 1 .. n |-> r.history[k]]
        BY <1>1 DEF IsSeq
      <3>3. h = [k \in 1 .. n |-> h[k]]
        BY <3>1, <3>2
      <3>. HIDE DEF n
      <3>4. IsSeq(h)
        BY <1>1, <3>3, Indexed
      <3> QED BY <2>2, <3>1, <3>2, <3>3, <3>4
    <2>6. ToSet(f) = (1 .. n) \ (InUse(r) \cup {id})
      BY <1>2, <2>3
    <2>7. id \in Ids /\ DOMAIN h = (1 .. n) \cup {id}
      BY <1>1, <2>2, <2>5 DEF Ids
    <2>. HIDE DEF h
    <2> QED BY <1>1, <2>2, <2>1, <2>4, <2>5, <2>6, <2>7
  <1>4. ASSUME ~reuse PROVE Fresh
    <2>1. f = r.free /\ id = n + 1 /\ h = Append(r.history, node) /\ r.free = <<>>
      BY <1>4
    <2>2. /\ IsSeq(h) /\ Len(h) = n + 1 /\ h[id] = node
          /\ \A k \in 1 .. n : h[k] = r.history[k]
      BY <1>1, <2>1, Appended
    <2>3. DOMAIN h = 1 .. n + 1
      BY <2>2, AnySeq
    <2>4. InUse(r) = 1 .. n /\ ToSet(f) = {} /\ IsInjective(f)
      <3>1. DOMAIN r.free = {}
        <4>1. Len(r.free) = 0 /\ DOMAIN r.free = 1 .. Len(r.free)
          BY <1>1, <2>1, AnySeq
        <4> QED BY <4>1
      <3>2. ToSet(r.free) = {}
        BY <3>1 DEF ToSet
      <3> QED BY <1>1, <1>2, <2>1, <3>2
    <2>. HIDE DEF f, h, id
    <2>5. id \in Ids /\ DOMAIN h = (1 .. n) \cup {id} /\ id \notin InUse(r)
      BY <1>1, <2>1, <2>3, <2>4 DEF Ids
    <2> QED BY <1>1, <2>1, <2>2, <2>4, <2>5
  <1>5. Fresh
    BY <1>3, <1>4
  <1>. HIDE DEF id, f, h
  <1>6. /\ IsRun(made) /\ Kept(r, made) /\ made.history = h /\ made.free = f
        /\ made.history_order = node.order /\ made.error = r.error
    <2>1. made = [r EXCEPT !.free = f, !.history = h, !.history_order = node.order]
      OBVIOUS
    <2>. HIDE DEF made
    <2>2. ASSUME NEW o, made = [r EXCEPT !.free = f, !.history = h, !.history_order = o]
          PROVE  /\ IsRun(made) /\ OnlyArena(r, made) /\ made.history = h
                 /\ made.free = f /\ made.history_order = o
      <3>1. IsRun(r)
        BY <1>1
      <3>2. IsRun(made)
        BY <2>2, <3>1 DEF IsRun
      <3>3. made.history = h /\ made.free = f /\ made.history_order = o
        BY <2>2, <3>1 DEF IsRun
      <3>4. OnlyArena(r, made)
        BY <2>2, <3>1, <3>2, <3>3 DEF OnlyArena, IsRun
      <3> QED BY <3>2, <3>3, <3>4
    <2>3. /\ IsRun(made) /\ OnlyArena(r, made) /\ made.history = h
          /\ made.free = f /\ made.history_order = node.order
      BY <2>1, <2>2
    <2> QED BY <1>1, <2>3, OnlyArenaKept
  <1>. HIDE DEF made
  <1>7. HistoryOK(made, More(e, id))
    <2>1. Counted(r, More(e, p)) /\ More(e, p) \in [Ids -> Nat]
      BY DEF HistoryOK, Counted
    <2>2. Followers(r, id) = {}
      <3>1. ASSUME NEW m \in InUse(r), Node(r, m).prev = id PROVE FALSE
        <4>. DEFINE e2 == More(e, p)
        <4>1. HistoryOK(r, e2)
          OBVIOUS
        <4>. HIDE DEF e2
        <4>2. Held(r, id)
          BY <3>1, <4>1, PrevInUse
        <4> QED BY <1>5, <4>2 DEF Held, Ids, NONE
      <3> QED BY <3>1 DEF Followers
    <2>3. e[id] = 0
      <3>1. More(e, p)[id] = IF id = p THEN e[id] + 1 ELSE e[id]
        BY <1>5 DEF More
      <3>2. More(e, p)[id] = 0
        <4>1. CASE id \in DOMAIN r.history
          <5>1. Node(r, id).refs = 0
            BY <1>1, <1>5, <4>1 DEF Arena, InUse
          <5>2. Node(r, id).refs = More(e, p)[id] + Cardinality(Followers(r, id))
            BY <2>1, <4>1 DEF Counted
          <5>3. Cardinality(Followers(r, id)) = 0
            BY <2>2, FS_EmptySet
          <5> QED BY <1>5, <2>1, <5>1, <5>2, <5>3
        <4>2. CASE id \notin DOMAIN r.history
          BY <1>5, <2>1, <4>2 DEF Counted
        <4> QED BY <4>1, <4>2
      <3>3. e[id] \in Nat
        BY <1>5
      <3> QED BY <3>1, <3>2, <3>3
    <2>4. \A k \in DOMAIN r.history \ {id} : Node(made, k) = Node(r, k)
      BY <1>1, <1>5, <1>6 DEF Node
    <2>5. Node(made, id) = node
      BY <1>5, <1>6 DEF Node
    <2>. HIDE DEF p
    <2>6. node.prev = p
      BY DEF p
    <2>7. HistoryOK(r, More(e, p))
      BY DEF p
    <2>8. DOMAIN made.history = DOMAIN r.history \cup {id}
      BY <1>1, <1>5, <1>6
    <2>9. ToSet(made.free) = DOMAIN made.history \ (InUse(r) \cup {id})
      BY <1>5, <1>6
    <2>10. IsSeq(made.history) /\ IsSeq(made.free) /\ IsInjective(made.free)
      BY <1>5, <1>6
    <2>11. id \in Ids /\ id \notin InUse(r)
      BY <1>5
    <2> QED
      BY <1>1, <1>6, <2>2, <2>3, <2>4, <2>5, <2>6, <2>7, <2>8, <2>9, <2>10, <2>11,
         NewRecord
  <1>. DEFINE e1 == More(e, id)
              kept == Retain(made, p)
              d == Drop(kept, p)
  <1>8. e1 \in [Ids -> Nat]
    BY MoreType
  <1>9. HistoryOK(kept, More(e1, p)) /\ OnlyArena(made, kept)
    <2>1. Held(made, p)
      <3>1. CASE p = NONE
        BY <3>1 DEF Held
      <3>2. CASE p # NONE
        <4>1. p \in InUse(r) /\ p \in 1 .. n /\ p # id
          BY <1>1, <1>5, <3>2 DEF Held
        <4>2. Node(made, p) = Node(r, p) /\ p \in DOMAIN made.history
          BY <1>5, <1>6, <4>1 DEF Node
        <4> QED BY <4>1, <4>2 DEF Held, InUse
      <3> QED BY <3>1, <3>2
    <2>. HIDE DEF p
    <2> QED BY <1>7, <2>1, RetainOK
  <1>10. HistoryOK(d, e1) /\ OnlyArena(kept, d)
    <2>. HIDE DEF p, kept, e1
    <2> QED BY <1>1, <1>8, <1>9, DropOK
  <1>11. Kept(r, d) /\ d.error = r.error
    <2>. HIDE DEF p, kept, d
    <2>1. IsRun(kept) /\ Kept(made, kept) /\ kept.error = made.error
      BY <1>6, <1>9, OnlyArenaKept DEF Kept
    <2>2. Kept(kept, d) /\ d.error = kept.error
      BY <1>10, <2>1, OnlyArenaKept
    <2> QED BY <1>6, <2>1, <2>2 DEF Kept
  <1>. DEFINE t == [s EXCEPT !.history = id]
  <1>12. Prepend(r, s, node) = IF Ok(r) THEN <<d, t>> ELSE <<r, s>>
    BY DEF Prepend, d, kept, made, h, f, id
  <1>13. t.history = id /\ Referring(t) /\ t = [s EXCEPT !.history = t.history]
    BY <1>5 DEF Referring, IsState
  <1>. HIDE DEF d, t
  <1>14. CASE Ok(r)
    <2>1. Ok(d)
      BY <1>11, <1>14 DEF Ok
    <2>2. Prepend(r, s, node)[1] = d /\ Prepend(r, s, node)[2] = t
      BY <1>12, <1>14
    <2> QED BY <1>10, <1>11, <1>13, <2>1, <2>2 DEF Tagged
  <1>15. CASE ~Ok(r)
    <2>1. Prepend(r, s, node)[1] = r /\ Prepend(r, s, node)[2] = s
      BY <1>12, <1>15
    <2>2. s = [s EXCEPT !.history = s.history]
      BY DEF Referring, IsState
    <2> QED BY <1>1, <2>1, <2>2 DEF Tagged, Kept
  <1> QED BY <1>14, <1>15

LEMMA TagOK ==
  ASSUME NEW r, NEW e \in [Ids -> Nat], NEW s, Referring(s),
         HistoryOK(r, More(e, s.history)), NEW kind, NEW key, NEW open, NEW fails
  PROVE  Tagged(r, s, e, Tag(r, s, kind, key, open, fails)[1],
                Tag(r, s, kind, key, open, fails)[2])
  <1>. DEFINE d == Tick(r, 1)
              node == [prev |-> s.history, refs |-> 1, kind |-> kind, key |-> key,
                       pos |-> s.pos, open |-> open, order |-> r.history_order + 1]
              v == Reserve(d, fails)
              t == Tag(r, s, kind, key, open, fails)
  <1>1. IsRun(r) /\ s = [s EXCEPT !.history = s.history] /\ r.history_order \in Nat
    BY DEF HistoryOK, Arena, Referring, IsState
  <1>2. SameArena(r, d) /\ IsRun(d)
    BY <1>1, TickKeeps DEF SameArena, Kept
  <1>3. \/ ~Ok(d) /\ t = <<d, s>>
        \/ t = <<Failed(d, "LIMIT"), s>>
        \/ t = Prepend(v, s, node)
    BY DEF Tag
  <1>. HIDE DEF d, t, v
  <1>4. ASSUME NEW x, SameArena(r, x), ~Ok(x) PROVE Tagged(r, s, e, x, s)
    <2>. DEFINE e1 == More(e, s.history)
    <2>1. HistoryOK(r, e1)
      OBVIOUS
    <2>. HIDE DEF e1
    <2>2. HistoryOK(x, e1)
      BY <1>4, <2>1, SameArenaOK
    <2> QED BY <1>1, <1>4, <2>2 DEF Tagged, SameArena, e1
  <1>5. CASE ~Ok(d) /\ t = <<d, s>>
    <2>1. t[1] = d /\ t[2] = s
      BY <1>5
    <2>2. Tagged(r, s, e, t[1], t[2])
      BY <1>2, <1>4, <1>5, <2>1
    <2> QED BY <2>2 DEF t
  <1>6. CASE t = <<Failed(d, "LIMIT"), s>>
    <2>1. t[1] = Failed(d, "LIMIT") /\ t[2] = s
      BY <1>6
    <2>2. SameArena(r, Failed(d, "LIMIT")) /\ ~Ok(Failed(d, "LIMIT"))
      BY <1>2, FailedKeeps, SameArenaTransitive DEF Ok
    <2>3. Tagged(r, s, e, t[1], t[2])
      BY <1>4, <2>1, <2>2
    <2> QED BY <2>3 DEF t
  <1>7. CASE t = Prepend(v, s, node)
    <2>1. SameArena(r, v)
      BY <1>2, ReserveKeeps, SameArenaTransitive DEF v
    <2>2. HistoryOK(v, More(e, s.history)) /\ v.history_order = r.history_order
      <3>. DEFINE e1 == More(e, s.history)
      <3>1. HistoryOK(r, e1)
        OBVIOUS
      <3>. HIDE DEF e1
      <3>2. HistoryOK(v, e1)
        BY <2>1, <3>1, SameArenaOK
      <3> QED BY <2>1, <3>2 DEF e1, SameArena
    <2>3. /\ IsNode(node) /\ node.prev = s.history /\ node.refs = 1
          /\ node.order = v.history_order + 1
      BY <2>2 DEF IsNode
    <2>. HIDE DEF node
    <2>4. Tagged(v, s, e, t[1], t[2])
      BY <1>7, <2>2, <2>3, PrependOK
    <2>5. Tagged(r, s, e, t[1], t[2])
      BY <2>1, <2>4 DEF Tagged, SameArena, Kept
    <2> QED BY <2>5 DEF t
  <1> QED BY <1>3, <1>5, <1>6, <1>7

-----------------------------------------------------------------------------
(* How many of the states H refer to each record                           *)
Refs(H) == [n \in Ids |-> Cardinality({k \in DOMAIN H : H[k].history = n})]

LEMMA RefsStep ==
  ASSUME NEW A, IsSeq(A), NEW B, IsSeq(B), Len(B) = Len(A) + 1,
         \A k \in 1 .. Len(A) : B[k] = A[k]
  PROVE  Refs(A) \in [Ids -> Nat] /\ Refs(B) = More(Refs(A), B[Len(A) + 1].history)
  <1>. DEFINE m == Len(A)
              In(H, n) == {k \in DOMAIN H : H[k].history = n}
  <1>1. /\ m \in Nat /\ DOMAIN A = 1 .. m /\ DOMAIN B = 1 .. m + 1
        /\ IsFiniteSet(1 .. m)
    <2>1. m \in Nat /\ DOMAIN A = 1 .. m /\ DOMAIN B = 1 .. m + 1
      BY AnySeq DEF IsSeq
    <2>2. 1 \in Int /\ m \in Int
      BY <2>1
    <2>3. IsFiniteSet(1 .. m)
      BY <2>2, FS_Interval
    <2> QED BY <2>1, <2>3
  <1>2. ASSUME NEW n PROVE IsFiniteSet(In(A, n)) /\ Cardinality(In(A, n)) \in Nat
    <2>1. In(A, n) \in SUBSET (1 .. m)
      BY <1>1
    <2>2. IsFiniteSet(In(A, n))
      BY <1>1, <2>1, FS_Subset
    <2> QED BY <2>2, FS_CardinalityType
  <1>3. ASSUME NEW n
        PROVE  Cardinality(In(B, n)) =
                 IF n = B[m + 1].history THEN Cardinality(In(A, n)) + 1
                 ELSE Cardinality(In(A, n))
    <2>1. In(B, n) = IF n = B[m + 1].history THEN In(A, n) \cup {m + 1} ELSE In(A, n)
      BY <1>1
    <2>2. m + 1 \notin In(A, n)
      BY <1>1
    <2>. HIDE DEF In, m
    <2>3. Cardinality(In(A, n) \cup {m + 1}) = Cardinality(In(A, n)) + 1
      BY <1>2, <2>2, FS_AddElement
    <2> QED BY <2>1, <2>3
  <1>4. Refs(A) \in [Ids -> Nat]
    BY <1>2 DEF Refs
  <1>5. Refs(B) = More(Refs(A), B[m + 1].history)
    <2>1. \A n \in Ids : Refs(A)[n] = Cardinality(In(A, n))
      BY DEF Refs
    <2>2. Refs(B) = [n \in Ids |-> Cardinality(In(B, n))]
      BY DEF Refs
    <2>. HIDE DEF In, m
    <2> QED BY <1>3, <2>1, <2>2 DEF More
  <1> QED BY <1>4, <1>5

LEMMA RefsAppend ==
  ASSUME NEW H, IsSeq(H), NEW s
  PROVE  /\ Refs(H) \in [Ids -> Nat]
         /\ Refs(Append(H, s)) = More(Refs(H), s.history)
         /\ IsSeq(Append(H, s))
  <1>. DEFINE B == Append(H, s)
  <1>1. /\ IsSeq(B) /\ Len(B) = Len(H) + 1 /\ \A k \in 1 .. Len(H) : B[k] = H[k]
        /\ B[Len(H) + 1] = s
    BY Appended
  <1>. HIDE DEF B
  <1>2. Refs(H) \in [Ids -> Nat] /\ Refs(B) = More(Refs(H), s.history)
    BY <1>1, RefsStep
  <1> QED BY <1>1, <1>2 DEF B

LEMMA RefsFront ==
  ASSUME NEW H, IsSeq(H), H # <<>>
  PROVE  /\ IsSeq(Front(H)) /\ Refs(Front(H)) \in [Ids -> Nat]
         /\ Refs(H) = More(Refs(Front(H)), Last(H).history)
         /\ Last(H) \in Elements(H)
         /\ Elements(Front(H)) \subseteq Elements(H)
  <1>. DEFINE A == Front(H)
              m == Len(A)
  <1>1. /\ IsSeq(A) /\ Len(H) \in Nat /\ Len(H) >= 1 /\ m = Len(H) - 1
        /\ \A k \in 1 .. Len(H) - 1 : A[k] = H[k]
        /\ Last(H) = H[Len(H)]
    BY Fronted DEF IsSeq
  <1>. HIDE DEF A, m
  <1>2. Len(H) = m + 1 /\ m \in Nat /\ \A k \in 1 .. m : H[k] = A[k]
    BY <1>1
  <1>3. Refs(A) \in [Ids -> Nat] /\ Refs(H) = More(Refs(A), H[m + 1].history)
    BY <1>1, <1>2, RefsStep DEF m
  <1>4. Last(H) \in Elements(H)
    BY <1>1 DEF Elements
  <1>5. Elements(A) \subseteq Elements(H)
    BY <1>1, <1>2 DEF Elements, m
  <1> QED BY <1>1, <1>2, <1>3, <1>4, <1>5 DEF A

LEMMA RefsNone ==
  ASSUME NEW H, IsSeq(H), H = <<>>
  PROVE  Refs(H) = [n \in Ids |-> 0]
  <1>1. DOMAIN H = {}
    <2>1. Len(H) = 0 /\ DOMAIN H = 1 .. Len(H)
      BY AnySeq
    <2> QED BY <2>1
  <1>2. \A n : {k \in DOMAIN H : H[k].history = n} = {}
    BY <1>1
  <1>3. Cardinality({}) = 0
    BY FS_EmptySet
  <1> QED BY <1>2, <1>3 DEF Refs

-----------------------------------------------------------------------------
(* A run whose histories are referred to by its stack and by the states b  *)
(* and x alone                                                             *)
Shares(r, b, x) ==
  /\ IsRun(r) /\ IsSeq(r.stack) /\ (\A s \in Elements(r.stack) : Referring(s))
  /\ Referring(b) /\ Referring(x)
  /\ HistoryOK(r, More(More(Refs(r.stack), b.history), x.history))

LEMMA SharesSame ==
  ASSUME NEW r, NEW b, NEW x, Shares(r, b, x),
         NEW d, IsRun(d), d.stack = r.stack, d.history = r.history, d.free = r.free,
         d.history_order = r.history_order,
         NEW y, Referring(y), y.history = x.history
  PROVE  Shares(d, b, y)
  <1>. DEFINE e == More(More(Refs(r.stack), b.history), x.history)
  <1>1. HistoryOK(r, e)
    BY DEF Shares
  <1>. HIDE DEF e
  <1>2. HistoryOK(d, e)
    BY <1>1, SameHistory
  <1> QED BY <1>2 DEF Shares, e

LEMMA SharesKept ==
  ASSUME NEW r, NEW b, NEW x, Shares(r, b, x), NEW d, SameArena(r, d)
  PROVE  Shares(d, b, x)
  BY SharesSame DEF SameArena, Kept, Shares

LEMMA SharesTypes ==
  ASSUME NEW r, NEW b, NEW x, Shares(r, b, x)
  PROVE  /\ Refs(r.stack) \in [Ids -> Nat]
         /\ More(Refs(r.stack), b.history) \in [Ids -> Nat]
         /\ More(Refs(r.stack), x.history) \in [Ids -> Nat]
         /\ b.history \in {NONE} \cup Ids /\ x.history \in {NONE} \cup Ids
  BY RefsAppend, MoreType DEF Shares, Referring

(* A record is pushed on the history of x.                                 *)
LEMMA SharesTag ==
  ASSUME NEW r, NEW b, NEW x, Shares(r, b, x), NEW y, Referring(y), y.history = x.history,
         NEW kind, NEW key, NEW open, NEW fails,
         NEW t, t = Tag(r, y, kind, key, open, fails)
  PROVE  Shares(t[1], b, t[2])
  <1>. DEFINE e == More(Refs(r.stack), b.history)
  <1>1. e \in [Ids -> Nat]
    BY SharesTypes
  <1>2. HistoryOK(r, More(e, y.history))
    BY DEF Shares
  <1>. HIDE DEF e
  <1>3. Tagged(r, y, e, t[1], t[2])
    BY <1>1, <1>2, TagOK
  <1> QED BY <1>3 DEF Tagged, Shares, Kept, e

(* A push that fails leaves the state as it is.                            *)
LEMMA TagFails ==
  ASSUME NEW r, NEW b, NEW x, Shares(r, b, x), NEW y, Referring(y), y.history = x.history,
         NEW kind, NEW key, NEW open, NEW fails,
         ~Ok(Tag(r, y, kind, key, open, fails)[1])
  PROVE  Tag(r, y, kind, key, open, fails)[2] = y
  <1>. DEFINE e == More(Refs(r.stack), b.history)
              t == Tag(r, y, kind, key, open, fails)
  <1>1. e \in [Ids -> Nat]
    BY SharesTypes
  <1>2. HistoryOK(r, More(e, y.history))
    BY DEF Shares
  <1>. HIDE DEF e
  <1>3. Tagged(r, y, e, t[1], t[2])
    BY <1>1, <1>2, TagOK
  <1> QED BY <1>3 DEF Tagged

(* A reference of x is given back.                                         *)
LEMMA SharesDrop ==
  ASSUME NEW r, NEW b, NEW x, Shares(r, b, x)
  PROVE  LET d == Drop(r, x.history)
         IN /\ HistoryOK(d, More(Refs(r.stack), b.history))
            /\ Kept(r, d) /\ d.error = r.error
  <1>. DEFINE e == More(Refs(r.stack), b.history)
              d == Drop(r, x.history)
              id == x.history
  <1>1. e \in [Ids -> Nat] /\ id \in {NONE} \cup Ids
    BY SharesTypes
  <1>2. HistoryOK(r, More(e, id)) /\ IsRun(r)
    BY DEF Shares
  <1>. HIDE DEF e, id
  <1>3. HistoryOK(Drop(r, id), e) /\ OnlyArena(r, Drop(r, id))
    BY <1>1, <1>2, DropOK
  <1>4. Kept(r, Drop(r, id)) /\ Drop(r, id).error = r.error
    BY <1>2, <1>3, OnlyArenaKept
  <1> QED BY <1>3, <1>4 DEF e, id

(* The latest of the states to come back to is taken.                      *)
LEMMA BacktrackShares ==
  ASSUME NEW r, NEW b, Shares(r, b, current), Backtrack(r)
  PROVE  /\ Shares(run', b, current') /\ pc' \in {"ended", "step"}
         /\ pc' = "ended" => current'.history = NONE
  <1>. DEFINE d == Drop(r, current.history)
              e == More(Refs(r.stack), b.history)
  <1>1. HistoryOK(d, e) /\ Kept(r, d) /\ IsRun(d) /\ d.stack = r.stack
    BY SharesDrop DEF Kept
  <1>2. Shares(r, b, current) /\ e \in [Ids -> Nat] /\ Refs(r.stack) \in [Ids -> Nat]
    BY SharesTypes
  <1>3. CASE d.stack = <<>>
    <2>1. /\ pc' = "ended" /\ run' = d
          /\ current' = [current EXCEPT !.history = NONE]
      BY <1>3 DEF Backtrack
    <2>2. Referring(current') /\ current'.history = NONE
      BY <1>2, <2>1 DEF Shares, Referring, IsState
    <2>. HIDE DEF d
    <2>3. HistoryOK(d, More(e, NONE))
      <3>. HIDE DEF e
      <3> QED BY <1>1, <1>2, MoreNone
    <2> QED BY <1>1, <1>2, <2>1, <2>2, <2>3 DEF Shares
  <1>4. CASE d.stack # <<>>
    <2>. DEFINE H == Front(r.stack)
                s == Last(r.stack)
    <2>1. pc' = "step" /\ run' = [d EXCEPT !.stack = H] /\ current' = s
      BY <1>1, <1>4 DEF Backtrack
    <2>. HIDE DEF d
    <2>2. /\ IsRun(run') /\ run'.stack = H /\ run'.history = d.history
          /\ run'.free = d.free /\ run'.history_order = d.history_order
      <3>. HIDE DEF H
      <3> QED BY <1>1, <2>1 DEF IsRun
    <2>3. /\ IsSeq(H) /\ Refs(H) \in [Ids -> Nat]
          /\ Refs(r.stack) = More(Refs(H), s.history)
          /\ s \in Elements(r.stack) /\ Elements(H) \subseteq Elements(r.stack)
      BY <1>1, <1>2, <1>4, RefsFront DEF Shares
    <2>4. e = More(More(Refs(H), b.history), s.history)
      BY <2>3, MoreCommutes
    <2>. HIDE DEF H, s, e
    <2>5. HistoryOK(run', e)
      BY <1>1, <2>2, SameHistory
    <2> QED BY <1>2, <2>1, <2>2, <2>3, <2>4, <2>5 DEF Shares
  <1> QED BY <1>3, <1>4

-----------------------------------------------------------------------------
LEMMA TickedKeeps ==
  ASSUME Shares(run, best, current)
  PROVE  Shares(Ticked, best, current) /\ SameArena(run, Ticked) /\ IsRun(Ticked)
  <1>1. SameArena(run, Ticked)
    BY TickKeeps DEF Ticked, Shares
  <1> QED BY <1>1, SharesKept DEF SameArena, Kept

LEMMA LoopingShares ==
  ASSUME Shares(run, best, current), NEW fails, NEW l, l = Looping(fails)
  PROVE  Shares(l[1], best, l[2]) /\ (~Ok(l[1]) => l[2] = current)
  <1>1. Shares(Ticked, best, current) /\ IsRun(Ticked) /\ Referring(current)
    BY TickedKeeps DEF Shares
  <1>2. CASE l = <<Ticked, current>>
    <2>1. l[1] = Ticked /\ l[2] = current
      BY <1>2
    <2> QED BY <1>1, <2>1
  <1>3. CASE l = <<Failed(Ticked, "LIMIT"), current>>
    <2>1. l[1] = Failed(Ticked, "LIMIT") /\ l[2] = current
      BY <1>3
    <2>2. SameArena(Ticked, Failed(Ticked, "LIMIT"))
      BY <1>1, FailedKeeps
    <2>3. Shares(Failed(Ticked, "LIMIT"), best, current)
      BY <1>1, <2>2, SharesKept
    <2> QED BY <2>1, <2>3
  <1>. DEFINE s == Entered(current)
              t == Tag(Ticked, s, 0, code.b, NONE, fails)
  <1>4. CASE l = Opening(t)
    <2>1. Referring(s) /\ s.history = current.history
      <3>. DEFINE k == Append(current.loops,
                              [pc |-> current.pc, count |-> 0, start |-> current.pos,
                               zero |-> FALSE, history_open |-> NONE])
      <3>1. s = [current EXCEPT !.loops = k]
        BY DEF Entered
      <3>. HIDE DEF k, s
      <3> QED BY <1>1, <3>1 DEF Referring, IsState
    <2>2a. ~Ok(t[1]) => t[2] = s
      <3>. HIDE DEF s
      <3> QED BY <1>1, <2>1, TagFails
    <2>2. Shares(t[1], best, t[2]) /\ Referring(t[2])
      <3>. HIDE DEF s
      <3> QED BY <1>1, <2>1, SharesTag DEF Shares
    <2>. HIDE DEF t
    <2>3. CASE ~Ok(t[1])
      <3>1. l[1] = t[1] /\ l[2] = current
        BY <1>4, <2>3 DEF Opening
      <3>2. Shares(t[1], best, current)
        <4>1. t[2].history = current.history
          BY <2>1, <2>2a, <2>3
        <4>2. Shares(t[1], best, t[2]) /\ IsRun(t[1])
          BY <2>2 DEF Shares
        <4> QED BY <1>1, <4>1, <4>2, SharesSame
      <3> QED BY <3>1, <3>2
    <2>4. CASE Ok(t[1])
      <3>. DEFINE y == [t[2] EXCEPT !.loops[Len(t[2].loops)].history_open = t[2].history]
      <3>1. l[1] = t[1] /\ l[2] = y
        BY <1>4, <2>4 DEF Opening
      <3>2. Referring(y) /\ y.history = t[2].history
        BY <2>2 DEF Referring, IsState
      <3>. HIDE DEF y
      <3>3. Shares(t[1], best, y)
        BY <2>2, <3>2, SharesSame DEF Shares
      <3> QED BY <2>4, <3>1, <3>3
    <2> QED BY <2>3, <2>4
  <1>5. \/ l = <<Ticked, current>> \/ l = <<Failed(Ticked, "LIMIT"), current>>
        \/ l = Opening(t)
    BY DEF Looping
  <1> QED BY <1>2, <1>3, <1>4, <1>5

LEMMA PushIs ==
  ASSUME NEW r, IsRun(r), NEW s, NEW fails
  PROVE  LET p == Push(r, s, fails)
         IN \/ ~Ok(p) /\ SameArena(r, p)
            \/ /\ IsRun(p) /\ Ok(p) /\ p.stack = Append(r.stack, s)
               /\ p.history = r.history /\ p.free = r.free
               /\ p.history_order = r.history_order
  <1>. DEFINE most == limits.max_frames - 1
              twice == IF r.capacity = 0 THEN InitialStates ELSE 2 * r.capacity
              cap == IF twice > most THEN most ELSE twice
              grown == Grow(r, "stack", r.capacity, cap, StateBytes, fails)
              room == IF Len(r.stack) < r.capacity THEN r
                      ELSE IF Ok(grown) THEN [grown EXCEPT !.capacity = cap] ELSE grown
              p == Push(r, s, fails)
  <1>1. \/ p = Failed(r, "LIMIT")
        \/ ~Ok(room) /\ p = room
        \/ Ok(room) /\ p = [room EXCEPT !.stack = Append(@, s)]
    BY DEF Push
  <1>2. SameArena(r, grown)
    <2>. HIDE DEF cap
    <2> QED BY GrowKeeps
  <1>3. SameArena(r, room)
    <2>. HIDE DEF grown, cap
    <2>1. SameArena(r, r)
      BY DEF SameArena, Kept
    <2>2. SameArena(r, [grown EXCEPT !.capacity = cap])
      BY <1>2 DEF SameArena, Kept, IsRun
    <2> QED BY <1>2, <2>1, <2>2
  <1>. HIDE DEF room, p
  <1>4. CASE p = Failed(r, "LIMIT")
    <2>1. SameArena(r, p) /\ p.error = "LIMIT"
      BY <1>4, FailedKeeps
    <2> QED BY <2>1 DEF Ok, p
  <1>5. CASE ~Ok(room) /\ p = room
    BY <1>3, <1>5 DEF p
  <1>6. CASE Ok(room) /\ p = [room EXCEPT !.stack = Append(@, s)]
    <2>. DEFINE h == Append(room.stack, s)
    <2>1. p = [room EXCEPT !.stack = h] /\ h = Append(r.stack, s)
      BY <1>3, <1>6 DEF SameArena, Kept
    <2>. HIDE DEF h
    <2>2. /\ IsRun(p) /\ p.stack = h /\ p.history = r.history
          /\ p.free = r.free /\ p.history_order = r.history_order
          /\ p.error = room.error
      BY <1>3, <2>1 DEF SameArena, Kept, IsRun
    <2> QED BY <1>6, <2>1, <2>2 DEF p, Ok
  <1> QED BY <1>1, <1>4, <1>5, <1>6

(* An exit that is left for later shares the history of its state x.       *)
LEMMA DeferredShares ==
  ASSUME NEW r, NEW b, NEW x, Shares(r, b, x), NEW y, Referring(y), y.history = x.history,
         NEW kind, NEW key, NEW open, NEW fails, NEW more,
         NEW t, t = Tag(Retain(r, x.history), y, kind, key, open, fails)
  PROVE  Shares(Deferred(t, more), b, x)
  <1>. DEFINE e == More(More(Refs(r.stack), b.history), x.history)
              k == Retain(r, x.history)
              p == Push(t[1], t[2], more)
              z == t[2].history
  <1>1. HistoryOK(r, e) /\ e \in [Ids -> Nat] /\ IsRun(r) /\ x.history \in {NONE} \cup Ids
    BY SharesTypes, MoreType DEF Shares
  <1>2. HistoryOK(k, More(e, x.history)) /\ OnlyArena(r, k)
    <2>. HIDE DEF e
    <2>1. Held(r, x.history)
      <3>. DEFINE e1 == More(Refs(r.stack), b.history)
                  id == x.history
      <3>1. HistoryOK(r, More(e1, id)) /\ e1 \in [Ids -> Nat] /\ id \in {NONE} \cup Ids
        BY <1>1, SharesTypes DEF e
      <3>. HIDE DEF e1, id
      <3>2. Held(r, id)
        BY <3>1, HeldByCount
      <3> QED BY <3>2 DEF id
    <2>2. \A id : Held(r, id) => HistoryOK(Retain(r, id), More(e, id))
                                 /\ OnlyArena(r, Retain(r, id))
      BY <1>1, RetainOK
    <2> QED BY <2>1, <2>2
  <1>3. Kept(r, k)
    BY <1>1, <1>2, OnlyArenaKept
  <1>. HIDE DEF e, k
  <1>4. Tagged(k, y, e, t[1], t[2])
    <2>1. HistoryOK(k, More(e, y.history)) /\ t = Tag(k, y, kind, key, open, fails)
      BY <1>2 DEF k
    <2> QED BY <1>1, <2>1, TagOK
  <1>5. /\ Kept(r, t[1]) /\ IsRun(t[1]) /\ Referring(t[2])
        /\ HistoryOK(t[1], More(e, z)) /\ z \in {NONE} \cup Ids
    BY <1>3, <1>4 DEF Tagged, Kept, Referring
  <1>. HIDE DEF z
  (* When it cannot be left, the share is given back.                      *)
  <1>6. ASSUME NEW q, IsRun(q), q.stack = r.stack, HistoryOK(q, More(e, z))
        PROVE  Shares(Drop(q, z), b, x)
    <2>1. HistoryOK(Drop(q, z), e) /\ OnlyArena(q, Drop(q, z))
      BY <1>1, <1>5, <1>6, DropOK
    <2>2. Kept(q, Drop(q, z))
      BY <1>6, <2>1, OnlyArenaKept
    <2> QED BY <1>6, <2>1, <2>2 DEF Shares, Kept, e
  <1>. HIDE DEF p
  <1>7. Deferred(t, more) = IF Ok(t[1]) THEN (IF Ok(p) THEN p ELSE Drop(p, z))
                            ELSE Drop(t[1], z)
    BY DEF Deferred, Shared, p, z
  <1>8. CASE ~Ok(t[1])
    <2>1. Shares(Drop(t[1], z), b, x)
      BY <1>5, <1>6 DEF Kept
    <2> QED BY <1>7, <1>8, <2>1
  <1>9. CASE Ok(t[1]) /\ ~Ok(p) /\ SameArena(t[1], p)
    <2>. DEFINE e2 == More(e, z)
    <2>1. HistoryOK(t[1], e2)
      BY <1>5
    <2>. HIDE DEF e2
    <2>2. HistoryOK(p, e2)
      BY <1>9, <2>1, SameArenaOK
    <2>3. Shares(Drop(p, z), b, x)
      BY <1>5, <1>6, <1>9, <2>2 DEF Kept, SameArena, e2
    <2> QED BY <1>7, <1>9, <2>3
  <1>10. CASE /\ Ok(t[1]) /\ IsRun(p) /\ Ok(p) /\ p.stack = Append(t[1].stack, t[2])
              /\ p.history = t[1].history /\ p.free = t[1].free
              /\ p.history_order = t[1].history_order
    <2>1. IsSeq(r.stack) /\ p.stack = Append(r.stack, t[2]) /\ t[1].stack = r.stack
      BY <1>5, <1>10 DEF Shares, Kept
    <2>2. /\ IsSeq(p.stack) /\ Refs(p.stack) = More(Refs(r.stack), z)
          /\ Refs(r.stack) \in [Ids -> Nat]
      BY <2>1, RefsAppend DEF z
    <2>3. \A s \in Elements(p.stack) : Referring(s)
      <3>1. /\ Len(p.stack) = Len(r.stack) + 1 /\ Len(r.stack) \in Nat
            /\ \A i \in 1 .. Len(r.stack) : p.stack[i] = r.stack[i]
            /\ p.stack[Len(r.stack) + 1] = t[2]
        BY <2>1, Appended DEF IsSeq
      <3>2. ASSUME NEW i \in 1 .. Len(r.stack) + 1 PROVE Referring(p.stack[i])
        <4>1. CASE i \in 1 .. Len(r.stack)
          BY <3>1, <4>1 DEF Shares, Elements
        <4>2. CASE i \notin 1 .. Len(r.stack)
          <5>1. i = Len(r.stack) + 1
            BY <3>1, <4>2
          <5> QED BY <1>5, <3>1, <5>1
        <4> QED BY <4>1, <4>2
      <3> QED BY <3>1, <3>2 DEF Elements
    <2>4. More(More(Refs(p.stack), b.history), x.history) = More(e, z)
      <3>. DEFINE R == Refs(r.stack)
      <3>1. More(More(R, z), b.history) = More(More(R, b.history), z)
        BY <2>2, MoreCommutes
      <3>2. More(R, b.history) \in [Ids -> Nat]
        BY SharesTypes
      <3>3. More(More(More(R, b.history), z), x.history)
            = More(More(More(R, b.history), x.history), z)
        BY <3>2, MoreCommutes
      <3> QED BY <2>2, <3>1, <3>3 DEF e
    <2>5. HistoryOK(p, More(e, z))
      <3>. DEFINE e2 == More(e, z)
      <3>1. HistoryOK(t[1], e2)
        BY <1>5
      <3>. HIDE DEF e2
      <3>2. HistoryOK(p, e2)
        BY <1>10, <3>1, SameHistory
      <3> QED BY <3>2 DEF e2
    <2>6. Shares(p, b, x)
      BY <1>10, <2>2, <2>3, <2>4, <2>5 DEF Shares
    <2> QED BY <1>7, <1>10, <2>6
  <1>11. \/ ~Ok(p) /\ SameArena(t[1], p)
         \/ /\ IsRun(p) /\ Ok(p) /\ p.stack = Append(t[1].stack, t[2])
            /\ p.history = t[1].history /\ p.free = t[1].free
            /\ p.history_order = t[1].history_order
    BY <1>5, PushIs DEF p
  <1> QED BY <1>8, <1>9, <1>10, <1>11

-----------------------------------------------------------------------------
(* The inductive invariant: the references of the histories are those of   *)
(* the states that the executor still has.                                 *)
Sharing ==
  pc \in {"enter", "decode", "step", "ended", "cleanup"} => Shares(run, best, current)

Giving ==
  pc = "release" => /\ IsRun(run) /\ IsSeq(run.stack)
                    /\ \A s \in Elements(run.stack) : Referring(s)
                    /\ HistoryOK(run, Refs(run.stack))

Gave == pc = "done" => HistoryOK(run, [n \in Ids |-> 0])

(* Between two candidates, and before the first, no state is current.      *)
Unshared ==
  /\ pc \in {"enter", "decode", "ended"} => current.history = NONE
  /\ pc = "enter" => run.stack = <<>> /\ best.history = NONE

Places ==
  pc \in {"idle", "enter", "decode", "step", "ended", "cleanup", "release", "done"}

SharesInv == Places /\ Sharing /\ Giving /\ Gave /\ Unshared

LEMMA NoRefs ==
  ASSUME NEW r, NEW b, NEW x, Shares(r, b, x), r.stack = <<>>, b.history = NONE,
         x.history = NONE
  PROVE  HistoryOK(r, [n \in Ids |-> 0])
  <1>. DEFINE e == [n \in Ids |-> 0]
  <1>1. Refs(r.stack) = e /\ e \in [Ids -> Nat]
    BY RefsNone DEF Shares
  <1>. HIDE DEF e
  <1>2. More(More(e, NONE), NONE) = e
    BY <1>1, MoreNone
  <1>3. HistoryOK(r, e)
    BY <1>1, <1>2 DEF Shares
  <1> QED BY <1>3 DEF e

LEMMA CallShares ==
  ASSUME NEW x, Call(x)
  PROVE  SharesInv'
  <1>. DEFINE r == FreshRun(x.limits)
              s == FreshState(x.program, 0)
              e == [n \in Ids |-> 0]
  <1>1. pc' = "enter" /\ run' = r /\ current' = s /\ best' = s
    BY DEF Call
  <1>2. /\ IsRun(r) /\ r.stack = <<>> /\ r.history = <<>> /\ r.free = <<>>
        /\ r.history_order = 0
    BY DEF FreshRun, IsRun
  <1>3. Referring(s) /\ s.history = NONE
    BY DEF FreshState, Referring, IsState
  <1>. HIDE DEF r, s
  <1>4. IsSeq(r.stack) /\ IsSeq(r.history) /\ IsSeq(r.free) /\ DOMAIN r.history = {}
        /\ DOMAIN r.free = {} /\ Elements(r.stack) = {}
    <2>1. ASSUME NEW q, q = <<>> PROVE IsSeq(q) /\ DOMAIN q = {} /\ Elements(q) = {}
      <3>1. Len(q) = 0
        BY <2>1
      <3>2. q \in Seq({})
        BY <2>1
      <3>3. IsSeq(q)
        BY <3>2, TypedSeq
      <3>4. DOMAIN q = 1 .. 0
        BY <3>1, <3>3, AnySeq
      <3> QED BY <3>1, <3>3, <3>4 DEF Elements
    <2> QED BY <1>2, <2>1
  <1>5. Refs(r.stack) = e
    BY <1>2, <1>4, RefsNone
  <1>6. More(More(e, NONE), NONE) = e
    <2>1. e \in [Ids -> Nat]
      OBVIOUS
    <2>. HIDE DEF e
    <2> QED BY <2>1, MoreNone
  <1>7. HistoryOK(r, e)
    <2>1. Arena(r)
      BY <1>2, <1>4 DEF Arena
    <2>2. InUse(r) = {}
      BY <1>4 DEF InUse
    <2>3. Chained(r)
      BY <2>2 DEF Chained
    <2>4. Counted(r, e)
      BY <1>4 DEF Counted
    <2>5. FreeListed(r)
      BY <1>4, <2>2 DEF FreeListed, ToSet, IsInjective
    <2> QED BY <2>1, <2>3, <2>4, <2>5 DEF HistoryOK
  <1>8. Shares(r, s, s)
    BY <1>2, <1>3, <1>4, <1>5, <1>6, <1>7 DEF Shares
  <1> QED BY <1>1, <1>2, <1>3, <1>8
          DEF SharesInv, Places, Sharing, Giving, Gave, Unshared

LEMMA EntersShares ==
  ASSUME SharesInv, Enters
  PROVE  SharesInv'
  <1>1. pc = "enter" /\ Shares(run, best, current)
    BY DEF Enters, RejectLimits, RejectArguments, RejectSizes, UnitsNoMem, Allocate,
           Accepted, SharesInv, Sharing
  <1>2. CASE Allocate
    <2>. DEFINE u == run.used + Decoded
    <2>1. pc' = "decode" /\ run' = [run EXCEPT !.used = u]
          /\ UNCHANGED <<best, current>>
      BY <1>2 DEF Allocate
    <2>. HIDE DEF u
    <2>2. /\ IsRun(run') /\ run'.stack = run.stack /\ run'.history = run.history
          /\ run'.free = run.free /\ run'.history_order = run.history_order
      BY <1>1, <2>1 DEF Shares, IsRun
    <2>3. Shares(run', best, current)
      BY <1>1, <2>2, SharesSame DEF Shares
    <2> QED BY <1>1, <2>1, <2>3
            DEF SharesInv, Places, Sharing, Giving, Gave, Unshared
  <1>3. CASE \E s : Return(s)
    <2>1. pc' = "done" /\ run' = run
      BY <1>3 DEF Return
    <2>2. HistoryOK(run, [n \in Ids |-> 0])
      BY <1>1, NoRefs DEF SharesInv, Unshared
    <2> QED BY <2>1, <2>2 DEF SharesInv, Places, Sharing, Giving, Gave, Unshared
  <1> QED BY <1>2, <1>3 DEF Enters, RejectLimits, RejectArguments, RejectSizes, UnitsNoMem

(* A step that goes on, or gives up                                        *)
LEMMA GoesOn ==
  ASSUME Shares(run', best', current'), pc' \in {"step", "cleanup"}
  PROVE  SharesInv'
  BY DEF SharesInv, Places, Sharing, Giving, Gave, Unshared

LEMMA AbandonShares ==
  ASSUME NEW r, Shares(r, best, current), Abandon(r)
  PROVE  SharesInv'
  BY GoesOn DEF Abandon

LEMMA ContinueShares ==
  ASSUME pc = "step", NEW r, NEW s, Shares(r, best, s), Continue(r, s)
  PROVE  SharesInv'
  BY GoesOn DEF Continue

LEMMA BacktrackInv ==
  ASSUME NEW r, NEW b, Shares(r, b, current), Backtrack(r), best' = b
  PROVE  SharesInv'
  <1>1. /\ Shares(run', best', current') /\ pc' \in {"ended", "step"}
        /\ pc' = "ended" => current'.history = NONE
    BY BacktrackShares
  <1> QED BY <1>1 DEF SharesInv, Places, Sharing, Giving, Gave, Unshared

LEMMA DecodesShares ==
  ASSUME SharesInv, Decodes
  PROVE  SharesInv'
  <1>1. pc = "decode" /\ Shares(run, best, current) /\ IsRun(run)
    BY DEF Decodes, Decode, StartInsideScalar, FirstCandidate, SharesInv, Sharing, Shares
  <1>2. ASSUME NEW x PROVE Shares(Failed(run, x), best, current)
    BY <1>1, FailedKeeps, SharesKept
  <1>3. CASE Decode
    <2>. DEFINE t == Tick(run, Piece.width)
                d == [t EXCEPT !.units = Append(@, Piece.value),
                               !.offsets = Append(@, BytesUpTo(length))]
    <2>1. \/ Abandon(Failed(run, Piece.status))
          \/ Abandon(t)
          \/ run' = d /\ UNCHANGED <<pc, current, best>>
      BY <1>3 DEF Decode
    <2>2. SameArena(run, t) /\ Shares(t, best, current) /\ IsRun(t)
      BY <1>1, TickKeeps, SharesKept DEF SameArena, Kept
    <2>3. CASE run' = d /\ UNCHANGED <<pc, current, best>>
      <3>. DEFINE u == Append(t.units, Piece.value)
                  o == Append(t.offsets, BytesUpTo(length))
      <3>1. run' = [t EXCEPT !.units = u, !.offsets = o]
        BY <2>3
      <3>. HIDE DEF t, u, o
      <3>2. /\ IsRun(run') /\ run'.stack = t.stack /\ run'.history = t.history
            /\ run'.free = t.free /\ run'.history_order = t.history_order
        BY <2>2, <3>1 DEF IsRun
      <3>3. Shares(run', best, current)
        BY <2>2, <3>2, SharesSame DEF Shares
      <3> QED BY <1>1, <2>3, <3>3
              DEF SharesInv, Places, Sharing, Giving, Gave, Unshared
    <2>. HIDE DEF t
    <2> QED BY <1>2, <2>1, <2>2, <2>3, AbandonShares
  <1>4. CASE StartInsideScalar
    BY <1>2, <1>4, AbandonShares DEF StartInsideScalar
  <1>5. CASE FirstCandidate
    <2>. DEFINE o == Append(run.offsets, bytes)
    <2>1. PICK k \in Start : Begin(k)
      BY <1>5 DEF FirstCandidate
    <2>2. run' = [run EXCEPT !.offsets = o]
      BY <1>5 DEF FirstCandidate
    <2>. HIDE DEF o
    <2>3. /\ IsRun(run') /\ run'.stack = run.stack /\ run'.history = run.history
          /\ run'.free = run.free /\ run'.history_order = run.history_order
      BY <1>1, <2>2 DEF IsRun
    <2>4. /\ pc' = "step" /\ best' = best
          /\ Referring(current') /\ current'.history = current.history
      BY <1>1, <2>1 DEF Begin, FreshState, Referring, IsState, SharesInv, Unshared
    <2>5. Shares(run', best, current')
      BY <1>1, <2>3, <2>4, SharesSame
    <2> QED BY <2>4, <2>5, GoesOn
  <1> QED BY <1>3, <1>4, <1>5 DEF Decodes

-----------------------------------------------------------------------------
LEMMA RankingKeeps ==
  ASSUME Shares(run, best, current), NEW x \in Rankings
  PROVE  Shares(x[1], best, current)
  <1>1. PICK fails \in Outcomes : x = Ranking(fails)
    BY DEF Rankings
  <1>2. Shares(Ticked, best, current) /\ IsRun(Ticked)
    BY TickedKeeps
  <1>3. CASE x = Better(Ticked, current.history, best.history, fails)
    BY <1>2, <1>3, BetterKeeps, SharesKept
  <1>4. CASE x = <<Ticked, ~found \/ current.pos > best.pos>>
    <2>1. x[1] = Ticked
      BY <1>4
    <2> QED BY <1>2, <2>1
  <1> QED BY <1>1, <1>3, <1>4 DEF Ranking

LEMMA AcceptShares ==
  ASSUME SharesInv, RankingFails \/ AcceptWorse \/ AcceptBetter
  PROVE  SharesInv'
  <1>1. pc = "step" /\ Shares(run, best, current)
    BY DEF RankingFails, AcceptWorse, AcceptBetter, At, SharesInv, Sharing
  <1>2. CASE RankingFails
    BY <1>1, <1>2, RankingKeeps, AbandonShares DEF RankingFails
  <1>3. CASE AcceptWorse
    BY <1>1, <1>3, RankingKeeps, BacktrackInv DEF AcceptWorse
  <1>4. CASE AcceptBetter
    <2>1. PICK x \in Rankings :
            Backtrack(Retain(Drop(x[1], best.history), current.history))
      BY <1>4 DEF AcceptBetter
    <2>2. best' = [current EXCEPT !.end[0] = current.pos]
      BY <1>4 DEF AcceptBetter
    <2>. DEFINE r == x[1]
                i == best.history
                j == current.history
                d == Drop(r, i)
                k == Retain(d, j)
                R == Refs(r.stack)
    <2>3. Shares(r, best, current)
      BY <1>1, RankingKeeps
    <2>. HIDE DEF r
    <2>4. /\ R \in [Ids -> Nat] /\ More(R, j) \in [Ids -> Nat] /\ More(R, i) \in [Ids -> Nat]
          /\ i \in {NONE} \cup Ids /\ j \in {NONE} \cup Ids
      BY <2>3, SharesTypes
    <2>5. HistoryOK(r, More(More(R, j), i)) /\ IsRun(r)
      <3>1. HistoryOK(r, More(More(R, i), j)) /\ IsRun(r)
        BY <2>3 DEF Shares
      <3>. HIDE DEF R, i, j
      <3> QED BY <2>4, <3>1, MoreCommutes
    <2>. HIDE DEF R, i, j
    <2>6. HistoryOK(d, More(R, j)) /\ OnlyArena(r, d)
      <3>. DEFINE e == More(R, j)
      <3>1. e \in [Ids -> Nat] /\ HistoryOK(r, More(e, i))
        BY <2>4, <2>5
      <3>. HIDE DEF e
      <3>2. HistoryOK(d, e) /\ OnlyArena(r, d)
        BY <2>4, <3>1, DropOK
      <3> QED BY <3>2 DEF e
    <2>. HIDE DEF d
    <2>7. HistoryOK(k, More(More(R, j), j)) /\ OnlyArena(d, k)
      <3>1. Held(d, j)
        BY <2>4, <2>6, HeldByCount
      <3>. DEFINE e == More(R, j)
      <3>2. HistoryOK(d, e)
        BY <2>6
      <3>. HIDE DEF e
      <3>3. HistoryOK(k, More(e, j)) /\ OnlyArena(d, k)
        BY <3>1, <3>2, RetainOK
      <3> QED BY <3>3 DEF e
    <2>. HIDE DEF k
    <2>8. Kept(r, k)
      BY <2>5, <2>6, <2>7, OnlyArenaKept DEF Kept
    <2>9. Referring(current) /\ Referring(best') /\ best'.history = j
      <3>1. Referring(current)
        BY <1>1 DEF Shares
      <3>. DEFINE f == [current.end EXCEPT ![0] = current.pos]
      <3>2. best' = [current EXCEPT !.end = f]
        BY <2>2, <3>1 DEF Referring, IsState
      <3>. HIDE DEF f
      <3> QED BY <3>1, <3>2 DEF Referring, IsState, j
    <2>10. Shares(k, best', current)
      BY <2>3, <2>7, <2>8, <2>9 DEF Shares, Kept, R, j
    <2>11. Backtrack(k)
      BY <2>1 DEF k, d, r, i, j
    <2> QED BY <2>10, <2>11, BacktrackInv
  <1> QED BY <1>2, <1>3, <1>4

(* A state that differs in what is no reference                            *)
LEMMA WithPart ==
  ASSUME NEW s, Referring(s), NEW v
  PROVE  /\ Referring([s EXCEPT !.pc = v]) /\ [s EXCEPT !.pc = v].history = s.history
         /\ Referring([s EXCEPT !.pos = v]) /\ [s EXCEPT !.pos = v].history = s.history
         /\ Referring([s EXCEPT !.loops = v]) /\ [s EXCEPT !.loops = v].history = s.history
  BY DEF Referring, IsState

Counts(s, n, v, w) == [s EXCEPT !.loops[n].zero = v, !.loops[n].count = w]
Starts(s, n, v)    == [s EXCEPT !.loops[n].start = v]

LEMMA WithLoop ==
  ASSUME NEW s, Referring(s), NEW n, NEW v, NEW w
  PROVE  /\ Referring(Counts(s, n, v, w)) /\ Counts(s, n, v, w).history = s.history
         /\ Referring(Starts(s, n, v)) /\ Starts(s, n, v).history = s.history
  <1>. DEFINE t1 == [s EXCEPT !.loops[n].zero = v]
              t == Counts(s, n, v, w)
              u == Starts(s, n, v)
              l == [s.loops EXCEPT ![n].start = v]
              l1 == [s.loops EXCEPT ![n].zero = v]
              l2 == [t1.loops EXCEPT ![n].count = w]
  <1>1. Referring(u) /\ u.history = s.history
    <2>1. u = [s EXCEPT !.loops = l]
      BY DEF Referring, IsState, Starts
    <2>. HIDE DEF u, l
    <2> QED BY <2>1, WithPart
  <1>2. Referring(t1) /\ t1.history = s.history
    <2>1. t1 = [s EXCEPT !.loops = l1]
      BY DEF Referring, IsState
    <2>. HIDE DEF t1, l1
    <2> QED BY <2>1, WithPart
  <1>3. Referring(t) /\ t.history = s.history
    <2>1. t = [t1 EXCEPT !.loops[n].count = w]
      BY DEF Referring, IsState, Counts
    <2>. HIDE DEF t1, t
    <2>2. t = [t1 EXCEPT !.loops = l2]
      BY <1>2, <2>1 DEF Referring, IsState
    <2>. HIDE DEF l2
    <2> QED BY <1>2, <2>2, WithPart
  <1> QED BY <1>1, <1>3

LEMMA WithGo ==
  ASSUME NEW s, Referring(s), NEW i
  PROVE  Referring(Go(s, i)) /\ Go(s, i).history = s.history
  BY WithPart DEF Go

LEMMA MatchingShares ==
  ASSUME SharesInv,
         \/ Abort \/ Consume \/ Mismatch \/ AnchorHolds \/ AnchorFails \/ Reference
         \/ ReferenceFails \/ IterationDone \/ IterationRefused
  PROVE  SharesInv'
  <1>1. pc = "step" /\ Shares(run, best, current)
    BY DEF Abort, Consume, Mismatch, AnchorHolds, AnchorFails, Reference, ReferenceFails,
           IterationDone, IterationRefused, At, SharesInv, Sharing
  <1>2. Shares(Ticked, best, current) /\ IsRun(Ticked) /\ Referring(current)
    BY <1>1, TickedKeeps DEF Shares
  <1>3. Shares(Examined, best, current) /\ Shares(Compare, best, current)
    <2>1. SameArena(Ticked, Examined)
      BY <1>2, TickKeeps DEF Examined
    <2>2. SameArena(Ticked, Compare)
      BY <1>2, TickKeeps DEF Compare
    <2> QED BY <1>2, <2>1, <2>2, SharesKept
  <1>4. ASSUME NEW r, Shares(r, best, current), NEW s, Referring(s),
               s.history = current.history
        PROVE  Shares(r, best, s)
    <2>1. IsRun(r)
      BY <1>4 DEF Shares
    <2> QED BY <1>4, <2>1, SharesSame
  <1>5. CASE Abort
    <2>1. Shares(Failed(Ticked, "ARGUMENT"), best, current)
      BY <1>2, FailedKeeps, SharesKept
    <2> QED BY <1>2, <1>5, <2>1, AbandonShares DEF Abort
  <1>6. CASE Consume
    <2>. DEFINE s == [Go(current, code.next) EXCEPT !.pos = @ + 1]
    <2>1. Referring(s) /\ s.history = current.history
      <3>. DEFINE g == Go(current, code.next)
                  q == g.pos + 1
      <3>1. Referring(g) /\ g.history = current.history
        BY <1>2, WithGo
      <3>2. s = [g EXCEPT !.pos = q]
        OBVIOUS
      <3>. HIDE DEF g, q, s
      <3> QED BY <3>1, <3>2, WithPart
    <2>2. Continue(Examined, s)
      BY <1>6 DEF Consume
    <2>. HIDE DEF s
    <2> QED BY <1>1, <1>3, <1>4, <2>1, <2>2, ContinueShares
  <1>7. CASE AnchorHolds
    <2>. DEFINE s == Go(current, code.next)
    <2>1. Referring(s) /\ s.history = current.history
      BY <1>2 DEF Go, Referring, IsState
    <2>2. Continue(Ticked, s)
      BY <1>7 DEF AnchorHolds
    <2>. HIDE DEF s
    <2> QED BY <1>1, <1>2, <1>4, <2>1, <2>2, ContinueShares
  <1>8. CASE Reference
    <2>. DEFINE s == [Go(current, code.next) EXCEPT !.pos = @ + size]
    <2>1. Referring(s) /\ s.history = current.history
      <3>. DEFINE g == Go(current, code.next)
                  q == g.pos + size
      <3>1. Referring(g) /\ g.history = current.history
        BY <1>2, WithGo
      <3>2. s = [g EXCEPT !.pos = q]
        OBVIOUS
      <3>. HIDE DEF g, q, s
      <3> QED BY <3>1, <3>2, WithPart
    <2>2. Continue(Compare, s)
      BY <1>8 DEF Reference
    <2>. HIDE DEF s
    <2> QED BY <1>1, <1>3, <1>4, <2>1, <2>2, ContinueShares
  <1>9. CASE IterationDone
    <2>. DEFINE g == Go(current, loop.pc)
                n == Len(current.loops)
                w == g.loops[n].count + 1
                z == Empty
                s == Counts(g, n, z, w)
    <2>1. Continue(Ticked, s)
      BY <1>9 DEF IterationDone, Counts
    <2>2. Referring(s) /\ s.history = current.history
      <3>1. Referring(g) /\ g.history = current.history
        BY <1>2, WithGo
      <3>. HIDE DEF g, n, w, z
      <3> QED BY <3>1, WithLoop
    <2>. HIDE DEF s
    <2> QED BY <1>1, <1>2, <1>4, <2>1, <2>2, ContinueShares
  <1>10. CASE Mismatch \/ AnchorFails \/ ReferenceFails \/ IterationRefused
    <2>1. /\ Backtrack(Ticked) \/ Backtrack(Examined) \/ Backtrack(Compare)
          /\ best' = best
      BY <1>10 DEF Mismatch, AnchorFails, ReferenceFails, IterationRefused
    <2> QED BY <1>2, <1>3, <2>1, BacktrackInv
  <1> QED BY <1>5, <1>6, <1>7, <1>8, <1>9, <1>10

LEMMA ScopeShares ==
  ASSUME SharesInv, Open \/ Close
  PROVE  SharesInv'
  <1>1. pc = "step" /\ Shares(run, best, current)
    BY DEF Open, Close, At, SharesInv, Sharing
  <1>2. Shares(Ticked, best, current) /\ IsRun(Ticked) /\ Referring(current)
    BY <1>1, TickedKeeps DEF Shares
  <1>3. ASSUME NEW kind, NEW key, NEW open, NEW t \in Tags(kind, key, open)
        PROVE  /\ Shares(t[1], best, t[2]) /\ Referring(t[2])
               /\ ~Ok(t[1]) => t[2] = current
    <2>1. PICK fails \in Outcomes : t = Tag(Ticked, current, kind, key, open, fails)
      BY <1>3 DEF Tags
    <2>2. Shares(t[1], best, t[2])
      BY <1>2, <2>1, SharesTag
    <2>3. ~Ok(t[1]) => t[2] = current
      BY <1>2, <2>1, TagFails
    <2> QED BY <2>2, <2>3 DEF Shares
  <1>4. ASSUME NEW r, NEW s, NEW x, Shares(r, best, s), Referring(x),
               x.history = s.history
        PROVE  Shares(r, best, x)
    <2>1. IsRun(r)
      BY <1>4 DEF Shares
    <2> QED BY <1>4, <2>1, SharesSame
  <1>5. CASE Open
    <2>1. PICK t \in Tags(0, code.max, NONE) :
            Continue(t[1], IF Ok(t[1]) THEN Opened(t[2]) ELSE current)
      BY <1>5 DEF Open
    <2>2. Shares(t[1], best, t[2]) /\ Referring(t[2]) /\ (~Ok(t[1]) => t[2] = current)
      BY <1>3
    <2>. DEFINE s == t[2]
                g == Go(s, code.next)
                inside == code.a .. code.b
                h == [g.group_history EXCEPT ![code.a] = s.history]
                b == [i \in Slots |-> IF i = code.a THEN s.pos
                                      ELSE IF i \in inside THEN NONE ELSE g.begin[i]]
                e == [i \in Slots |-> IF i \in inside THEN NONE ELSE g.end[i]]
    <2>3. Referring(g) /\ g.history = s.history
      <3>. HIDE DEF s
      <3> QED BY <2>2, WithGo DEF s
    <2>4. Opened(s) = [g EXCEPT !.group_history = h, !.begin = b, !.end = e]
      <3>1. g = [pc |-> g.pc, pos |-> g.pos, loops |-> g.loops, begin |-> g.begin,
                 end |-> g.end, history |-> g.history, group_history |-> g.group_history]
        BY <2>3 DEF Referring, IsState
      <3>2. Opened(s) = [g EXCEPT !.group_history[code.a] = s.history, !.begin = b, !.end = e]
        BY DEF Opened
      <3>. HIDE DEF g, b, e, s
      <3> QED BY <3>1, <3>2 DEF h
    <2>. HIDE DEF g, h, b, e
    <2>5. Referring(Opened(s)) /\ Opened(s).history = s.history
      BY <2>3, <2>4 DEF Referring, IsState
    <2>6. Shares(t[1], best, IF Ok(t[1]) THEN Opened(s) ELSE current)
      <3>1. CASE Ok(t[1])
        BY <1>4, <2>2, <2>5, <3>1
      <3>2. CASE ~Ok(t[1])
        BY <2>2, <3>2
      <3> QED BY <3>1, <3>2
    <2> QED BY <1>1, <2>1, <2>6, ContinueShares
  <1>6. CASE Close
    <2>1. PICK t \in Tags(1, 0, current.group_history[code.a]) :
            Continue(t[1], IF Ok(t[1]) THEN Closed(t[2]) ELSE current)
      BY <1>6 DEF Close
    <2>2. Shares(t[1], best, t[2]) /\ Referring(t[2]) /\ (~Ok(t[1]) => t[2] = current)
      BY <1>3
    <2>. DEFINE s == t[2]
                g == Go(s, code.next)
                e == [g.end EXCEPT ![code.a] = s.pos]
    <2>3. Referring(g) /\ g.history = s.history
      <3>. HIDE DEF s
      <3> QED BY <2>2, WithGo DEF s
    <2>4. Closed(s) = [g EXCEPT !.end = e]
      <3>1. g = [pc |-> g.pc, pos |-> g.pos, loops |-> g.loops, begin |-> g.begin,
                 end |-> g.end, history |-> g.history, group_history |-> g.group_history]
        BY <2>3 DEF Referring, IsState
      <3>2. Closed(s) = [g EXCEPT !.end[code.a] = s.pos]
        BY DEF Closed
      <3>. HIDE DEF g, s
      <3> QED BY <3>1, <3>2 DEF e
    <2>. HIDE DEF g, e
    <2>5. Referring(Closed(s)) /\ Closed(s).history = s.history
      BY <2>3, <2>4 DEF Referring, IsState
    <2>6. Shares(t[1], best, IF Ok(t[1]) THEN Closed(s) ELSE current)
      <3>1. CASE Ok(t[1])
        BY <1>4, <2>2, <2>5, <3>1
      <3>2. CASE ~Ok(t[1])
        BY <2>2, <3>2
      <3> QED BY <3>1, <3>2
    <2> QED BY <1>1, <2>1, <2>6, ContinueShares
  <1> QED BY <1>5, <1>6

LEMMA LoopShares ==
  ASSUME SharesInv, LoopFails \/ Fork \/ MustIterate \/ MustExit
  PROVE  SharesInv'
  <1>1. pc = "step" /\ Shares(run, best, current)
    BY DEF LoopFails, Fork, MustIterate, MustExit, At, SharesInv, Sharing
  <1>2. ASSUME NEW l \in Loopings
        PROVE  /\ Shares(l[1], best, l[2]) /\ Referring(l[2]) /\ IsRun(l[1])
               /\ ~Ok(l[1]) => l[2] = current
    <2>1. PICK fails \in Outcomes : l = Looping(fails)
      BY <1>2 DEF Loopings
    <2>2. Shares(l[1], best, l[2]) /\ (~Ok(l[1]) => l[2] = current)
      BY <1>1, <2>1, LoopingShares
    <2> QED BY <2>2 DEF Shares
  <1>3. ASSUME NEW r, NEW s, NEW x, Shares(r, best, s), Referring(x),
               x.history = s.history
        PROVE  Shares(r, best, x)
    <2>1. IsRun(r)
      BY <1>3 DEF Shares
    <2> QED BY <1>3, <2>1, SharesSame
  <1>4. ASSUME NEW s, Referring(s)
        PROVE  Referring(Iterate(s)) /\ Iterate(s).history = s.history
    <2>. DEFINE g == Go(s, code.a)
                n == Len(s.loops)
                v == s.pos
    <2>1. Referring(g) /\ g.history = s.history
      BY <1>4, WithGo
    <2>2. Iterate(s) = Starts(g, n, v)
      BY DEF Iterate, Starts
    <2>. HIDE DEF g, n, v
    <2> QED BY <2>1, <2>2, WithLoop
  (* Where an exit goes on                                                 *)
  <1>. DEFINE Left(s) == [Go(s, code.next) EXCEPT !.loops = Front(@)]
  <1>5. ASSUME NEW s, Referring(s)
        PROVE  Referring(Left(s)) /\ Left(s).history = s.history
    <2>. DEFINE g == Go(s, code.next)
                f == Front(g.loops)
    <2>1. Referring(g) /\ g.history = s.history
      BY <1>5, WithGo
    <2>2. Left(s) = [g EXCEPT !.loops = f]
      OBVIOUS
    <2>. HIDE DEF g, f, Left
    <2> QED BY <2>1, <2>2 DEF Referring, IsState
  <1>6. ASSUME NEW r, NEW s, NEW x \in Exits(r, s)
        PROVE  \E fails : x = Tag(r, Left(s), 1, 0, Last(s.loops).history_open, fails)
    BY <1>6 DEF Exits
  <1>. HIDE DEF Left
  <1>7. CASE LoopFails
    BY <1>2, <1>7, AbandonShares DEF LoopFails
  <1>8. CASE MustIterate
    <2>1. PICK l \in Loopings : Continue(l[1], Iterate(l[2]))
      BY <1>8 DEF MustIterate
    <2>2. Shares(l[1], best, Iterate(l[2]))
      BY <1>2, <1>3, <1>4
    <2> QED BY <1>1, <2>1, <2>2, ContinueShares
  <1>9. CASE MustExit
    <2>0. PICK l \in Loopings :
            \E x \in Exits(l[1], l[2]) : Continue(x[1], IF Ok(x[1]) THEN x[2] ELSE l[2])
      BY <1>9 DEF MustExit
    <2>1. PICK x \in Exits(l[1], l[2]) : Continue(x[1], IF Ok(x[1]) THEN x[2] ELSE l[2])
      BY <2>0
    <2>. DEFINE r == l[1]
                s == l[2]
    <2>2. Shares(r, best, s) /\ Referring(s)
      BY <1>2
    <2>. HIDE DEF r, s
    <2>3. PICK fails : x = Tag(r, Left(s), 1, 0, Last(s.loops).history_open, fails)
      BY <1>6, <2>1 DEF r, s
    <2>. DEFINE h == Last(s.loops).history_open
                y == Left(s)
    <2>4. Referring(y) /\ y.history = s.history
      BY <1>5, <2>2
    <2>. HIDE DEF h, y
    <2>5. x = Tag(r, y, 1, 0, h, fails)
      BY <2>3 DEF h, y
    <2>6. Shares(x[1], best, x[2])
      BY <2>2, <2>4, <2>5, SharesTag
    <2>7. ~Ok(x[1]) => x[2] = y
      BY <2>2, <2>4, <2>5, TagFails
    <2>8. ~Ok(x[1]) => Shares(x[1], best, s)
      BY <1>3, <2>2, <2>4, <2>6, <2>7
    <2>9. Shares(x[1], best, IF Ok(x[1]) THEN x[2] ELSE s)
      BY <2>6, <2>8
    <2> QED BY <1>1, <2>1, <2>9, ContinueShares DEF s
  <1>10. CASE Fork
    <2>. DEFINE Forks(m, x, f) ==
                  LET q == Deferred(x, f)
                  IN Continue(q, IF Ok(q) THEN Iterate(m[2]) ELSE m[2])
    <2>0. PICK l \in Loopings :
            \E x \in Exits(Retain(l[1], l[2].history), l[2]) :
            \E f \in Outcomes : Forks(l, x, f)
      BY <1>10 DEF Fork
    <2>1. PICK x \in Exits(Retain(l[1], l[2].history), l[2]), fails \in Outcomes :
            Forks(l, x, fails)
      BY <2>0
    <2>. DEFINE r == l[1]
                s == l[2]
                d == Deferred(x, fails)
    <2>2. Shares(r, best, s) /\ Referring(s)
      BY <1>2
    <2>. HIDE DEF r, s
    <2>3. PICK others : x = Tag(Retain(r, s.history), Left(s), 1, 0,
                                Last(s.loops).history_open, others)
      BY <1>6, <2>1 DEF r, s
    <2>. DEFINE h == Last(s.loops).history_open
                y == Left(s)
    <2>4. Referring(y) /\ y.history = s.history
      BY <1>5, <2>2
    <2>. HIDE DEF h, y
    <2>5. x = Tag(Retain(r, s.history), y, 1, 0, h, others)
      BY <2>3 DEF h, y
    <2>6. Shares(d, best, s)
      BY <2>2, <2>4, <2>5, DeferredShares
    <2>. HIDE DEF d
    <2>7. Shares(d, best, IF Ok(d) THEN Iterate(s) ELSE s)
      BY <1>3, <1>4, <2>2, <2>6
    <2> QED BY <1>1, <2>1, <2>7, ContinueShares DEF d, s
  <1> QED BY <1>7, <1>8, <1>9, <1>10

LEMMA EndsShares ==
  ASSUME SharesInv, Ends
  PROVE  SharesInv'
  <1>1. CASE NextCandidate
    <2>1. /\ pc' = "step" /\ run' = run /\ best' = best
          /\ current' = FreshState(program, candidate + 1)
      BY <1>1 DEF NextCandidate, Begin
    <2>2. Shares(run, best, current) /\ current.history = NONE
      BY <1>1 DEF NextCandidate, SharesInv, Sharing, Unshared
    <2>3. Referring(current') /\ current'.history = NONE
      BY <2>1 DEF FreshState, Referring, IsState
    <2>4. Shares(run, best, current')
      BY <2>2, <2>3, SharesSame DEF Shares
    <2> QED BY <2>1, <2>4, GoesOn
  <1>2. CASE NoMatch
    <2>1. Shares(run, best, current) /\ IsRun(run)
      BY <1>2 DEF NoMatch, SharesInv, Sharing, Shares
    <2>2. Shares(Failed(run, "NOMATCH"), best, current)
      BY <2>1, FailedKeeps, SharesKept
    <2> QED BY <1>2, <2>2, AbandonShares DEF NoMatch
  <1>3. CASE Report
    <2>1. Shares(run, best, current)
      BY <1>3 DEF Report, SharesInv, Sharing
    <2> QED BY <1>3, <2>1, GoesOn DEF Report
  <1>4. CASE Cleanup
    <2>. DEFINE R == Refs(run.stack)
                i == best.history
                d == Drop(run, current.history)
                k == Drop(d, i)
    <2>1. Shares(run, best, current) /\ pc' = "release" /\ run' = k
      BY <1>4 DEF Cleanup, SharesInv, Sharing
    <2>2. R \in [Ids -> Nat] /\ i \in {NONE} \cup Ids
      BY <2>1, SharesTypes
    <2>3. HistoryOK(d, More(R, i)) /\ Kept(run, d) /\ IsRun(d)
      BY <2>1, SharesDrop DEF Kept
    <2>. HIDE DEF R, i, d
    <2>4. HistoryOK(k, R) /\ OnlyArena(d, k)
      BY <2>2, <2>3, DropOK
    <2>. HIDE DEF k
    <2>5. Kept(d, k)
      BY <2>3, <2>4, OnlyArenaKept
    <2> QED BY <2>1, <2>3, <2>4, <2>5
            DEF SharesInv, Places, Sharing, Giving, Gave, Unshared, Shares, Kept, R
  <1>5. CASE ReleaseState
    <2>. DEFINE H == run.stack
                F == Front(H)
                i == Last(H).history
                d == Drop(run, i)
    <2>1. /\ pc = "release" /\ pc' = "release" /\ H # <<>> /\ IsRun(run) /\ IsSeq(H)
          /\ \A s \in Elements(H) : Referring(s)
          /\ HistoryOK(run, Refs(H))
          /\ run' = [d EXCEPT !.stack = Front(@)]
      BY <1>5 DEF ReleaseState, SharesInv, Giving
    <2>2. /\ IsSeq(F) /\ Refs(F) \in [Ids -> Nat]
          /\ Refs(H) = More(Refs(F), i)
          /\ Last(H) \in Elements(H) /\ Elements(F) \subseteq Elements(H)
      BY <2>1, RefsFront
    <2>3. i \in {NONE} \cup Ids
      BY <2>1, <2>2 DEF Referring
    <2>. HIDE DEF i, F
    <2>4. HistoryOK(d, Refs(F)) /\ OnlyArena(run, d)
      BY <2>1, <2>2, <2>3, DropOK
    <2>. HIDE DEF d
    <2>5. Kept(run, d)
      BY <2>1, <2>4, OnlyArenaKept
    <2>6. run' = [d EXCEPT !.stack = F]
      BY <2>1, <2>5 DEF F, Kept
    <2>7. /\ IsRun(run') /\ run'.stack = F /\ run'.history = d.history
          /\ run'.free = d.free /\ run'.history_order = d.history_order
      BY <2>5, <2>6 DEF Kept, IsRun
    <2>. DEFINE e == Refs(F)
    <2>8. HistoryOK(d, e)
      BY <2>4
    <2>. HIDE DEF e
    <2>9. HistoryOK(run', e)
      BY <2>7, <2>8, SameHistory
    <2> QED BY <2>1, <2>2, <2>7, <2>9
            DEF SharesInv, Places, Sharing, Giving, Gave, Unshared, e
  <1>6. CASE Finish
    <2>1. /\ pc = "release" /\ pc' = "done" /\ run' = run /\ run.stack = <<>>
          /\ IsSeq(run.stack) /\ HistoryOK(run, Refs(run.stack))
      BY <1>6 DEF Finish, Return, SharesInv, Giving
    <2>2. HistoryOK(run, [n \in Ids |-> 0])
      BY <2>1, RefsNone
    <2> QED BY <2>1, <2>2 DEF SharesInv, Places, Sharing, Giving, Gave, Unshared
  <1> QED BY <1>1, <1>2, <1>3, <1>4, <1>5, <1>6 DEF Ends

(* Every step of a session keeps the invariant.                            *)
LEMMA SessionShares ==
  ASSUME SharesInv, [SessionNext]_<<vars, compiling>>
  PROVE  SharesInv'
  <1>1. CASE UNCHANGED vars
    BY <1>1 DEF vars, SharesInv, Places, Sharing, Giving, Gave, Unshared
  <1>2. CASE Ask
    BY <1>2, CallShares DEF Ask
  <1>3. CASE Match
    <2>1. CASE Enters
      BY <2>1, EntersShares
    <2>2. CASE Decodes
      BY <2>2, DecodesShares
    <2>3. CASE Steps
      BY <2>3, AcceptShares, MatchingShares, ScopeShares, LoopShares DEF Steps
    <2>4. CASE Ends
      BY <2>4, EndsShares
    <2> QED BY <1>3, <2>1, <2>2, <2>3, <2>4 DEF Match, Next
  <1> QED BY <1>1, <1>2, <1>3 DEF SessionNext, Compile, Rest

(* What the executor refers to is what is counted.                         *)
LEMMA SharesExact ==
  ASSUME SharesInv
  PROVE  RefsExact
  <1>1. SUFFICES ASSUME pc # "idle" PROVE HistoryOK(run, Refs(Holders))
    <2>. DEFINE U == {n \in DOMAIN run.history : Node(run, n).refs > 0}
                Holding(n) == {k \in DOMAIN Holders : Holders[k].history = n}
                Before(n) == {m \in U : Node(run, m).prev = n}
    <2>1. SUFFICES ASSUME HistoryOK(run, Refs(Holders))
          PROVE  /\ \A n \in DOMAIN run.history :
                      Node(run, n).refs = Cardinality(Holding(n)) + Cardinality(Before(n))
                 /\ ToSet(run.free) = DOMAIN run.history \ U
                 /\ IsInjective(run.free)
      BY DEF RefsExact
    <2>2. U = InUse(run) /\ \A n : Before(n) = Followers(run, n)
      BY DEF InUse, Followers
    <2>3. \A n \in Ids : Refs(Holders)[n] = Cardinality(Holding(n))
      BY DEF Refs
    <2>. HIDE DEF U, Holding, Before
    <2>4. DOMAIN run.history \subseteq Ids
      BY <2>1, ArenaFinite DEF HistoryOK, Ids
    <2>5. ASSUME NEW n \in DOMAIN run.history
          PROVE  Node(run, n).refs = Cardinality(Holding(n)) + Cardinality(Before(n))
      <3>1. Node(run, n).refs = Refs(Holders)[n] + Cardinality(Followers(run, n))
        BY <2>1 DEF HistoryOK, Counted
      <3> QED BY <2>2, <2>3, <2>4, <3>1
    <2>6. ToSet(run.free) = DOMAIN run.history \ U /\ IsInjective(run.free)
      BY <2>1, <2>2 DEF HistoryOK, FreeListed
    <2> QED BY <2>5, <2>6
  <1>2. CASE pc = "done"
    <2>1. Holders = <<>>
      BY <1>2 DEF Holders
    <2>2. IsSeq(Holders)
      <3>1. Holders \in Seq({})
        BY <2>1
      <3> QED BY <3>1, TypedSeq
    <2>3. Refs(Holders) = [n \in Ids |-> 0]
      BY <2>1, <2>2, RefsNone
    <2> QED BY <1>2, <2>3 DEF SharesInv, Gave
  <1>3. CASE pc = "release"
    <2>1. Holders = run.stack
      BY <1>3 DEF Holders
    <2> QED BY <1>3, <2>1 DEF SharesInv, Giving
  <1>4. CASE pc \in {"enter", "decode", "step", "ended", "cleanup"}
    <2>. DEFINE H == Append(run.stack, best)
    <2>1. Holders = Append(H, current)
      BY <1>4 DEF Holders
    <2>2. Shares(run, best, current)
      BY <1>4 DEF SharesInv, Sharing
    <2>3. IsSeq(H) /\ Refs(H) = More(Refs(run.stack), best.history)
      BY <2>2, RefsAppend DEF Shares
    <2>. HIDE DEF H
    <2>4. Refs(Append(H, current)) = More(Refs(H), current.history)
      BY <2>3, RefsAppend
    <2> QED BY <2>1, <2>2, <2>3, <2>4 DEF Shares
  <1> QED BY <1>1, <1>2, <1>3, <1>4 DEF SharesInv, Places

(* In every session, for all patterns, inputs and limits and whatever      *)
(* allocation fails, the count of a history record is the number of states *)
(* and records that refer to it, the free list has the records without a   *)
(* reference, each once, and a call that returns leaves no reference.      *)
(* (bre_history_retain, bre_history_drop, bre_history_tag, bre_push)       *)
THEOREM ReferencesExact == Session => []RefsExact
  <1>1. SessionInit => SharesInv
    BY DEF SessionInit, Init, SharesInv, Places, Sharing, Giving, Gave, Unshared
  <1>2. SharesInv /\ [SessionNext]_<<vars, compiling>> => SharesInv'
    BY SessionShares
  <1>3. SharesInv => RefsExact
    BY SharesExact
  <1> QED BY <1>1, <1>2, <1>3, PTL DEF Session

(* The accounts of a run r with the limits l and the bytes `base` that it  *)
(* starts with                                                             *)
Balanced(r, l, base) ==
  /\ IsRun(r) /\ IsSeq(r.stack) /\ IsSeq(r.history) /\ r.limits = l
  /\ base \in Int /\ r.used \in Int /\ r.steps \in Int
  /\ r.capacity \in Nat /\ r.history_capacity \in Nat /\ r.priority_capacity \in Nat
  /\ l.max_workspace_bytes \in Int /\ l.max_steps \in Int /\ l.max_frames \in Int
  /\ r.used = base + Blocks(r)
  /\ r.used <= l.max_workspace_bytes /\ r.steps <= l.max_steps
  /\ Len(r.stack) <= r.capacity /\ r.capacity <= l.max_frames - 1
  /\ Len(r.history) <= r.history_capacity

LEMMA SameBlocks ==
  ASSUME NEW r, NEW d, d.capacity = r.capacity, d.history_capacity = r.history_capacity,
         d.priority_capacity = r.priority_capacity
  PROVE  Blocks(d) = Blocks(r)
  BY Zenon DEF Blocks

(* Only the records of the arena and the free list differ.                 *)
Recounted(r, d) ==
  /\ IsRun(d) /\ IsSeq(d.history) /\ Len(d.history) = Len(r.history)
  /\ d = [r EXCEPT !.history = d.history, !.free = d.free]

LEMMA RecountedFields ==
  ASSUME NEW r, IsRun(r), NEW d, Recounted(r, d)
  PROVE  /\ Kept(r, d) /\ d.error = r.error /\ d.steps = r.steps /\ d.used = r.used
         /\ d.capacity = r.capacity /\ d.history_capacity = r.history_capacity
         /\ d.priority_capacity = r.priority_capacity
         /\ d.history_order = r.history_order
  BY DEF Recounted, IsRun, Kept

LEMMA RecountedBalanced ==
  ASSUME NEW r, NEW l, NEW base, Balanced(r, l, base), NEW d, Recounted(r, d)
  PROVE  Balanced(d, l, base)
  <1>1. IsRun(r)
    BY DEF Balanced
  <1>2. /\ IsRun(d) /\ d.stack = r.stack /\ IsSeq(d.history)
        /\ Len(d.history) = Len(r.history) /\ d.limits = r.limits
        /\ d.used = r.used /\ d.steps = r.steps /\ d.capacity = r.capacity
        /\ d.history_capacity = r.history_capacity
        /\ d.priority_capacity = r.priority_capacity
    BY <1>1, RecountedFields DEF Recounted, Kept
  <1>3. Blocks(d) = Blocks(r)
    BY <1>2, SameBlocks
  <1> QED BY <1>2, <1>3 DEF Balanced

LEMMA RecountedAgain ==
  ASSUME NEW r, IsRun(r), NEW d, Recounted(r, d), NEW f, Recounted(d, f)
  PROVE  Recounted(r, f)
  BY DEF Recounted, IsRun

LEMMA CountingRecounts ==
  ASSUME NEW r, IsRun(r), IsSeq(r.history), NEW ids, NEW n
  PROVE  Recounted(r, Counting(r, ids, n))
  <1>. DEFINE h == [k \in DOMAIN r.history |->
                     IF k \in ids THEN [Node(r, k) EXCEPT !.refs = @ + n] ELSE Node(r, k)]
              d == Counting(r, ids, n)
  <1>1. d = [r EXCEPT !.history = h]
    BY DEF Counting
  <1>2. IsSeq(h) /\ Len(h) = Len(r.history)
    <2>1. Len(r.history) \in Nat /\ DOMAIN r.history = 1 .. Len(r.history)
      BY AnySeq DEF IsSeq
    <2>2. h = [k \in 1 .. Len(r.history) |-> h[k]]
      BY <2>1
    <2>. HIDE DEF h
    <2> QED BY <2>1, <2>2, Indexed
  <1>. HIDE DEF h, d
  <1>3. Recounted(r, d)
    BY <1>1, <1>2 DEF Recounted, IsRun
  <1> QED BY <1>3 DEF d

LEMMA DropRecounts ==
  ASSUME NEW r, IsRun(r), IsSeq(r.history), NEW id
  PROVE  Recounted(r, Drop(r, id))
  <1>. DEFINE chain == Chain(r, id)
              shared == {k \in DOMAIN chain : Node(r, chain[k]).refs > 1}
              freed == Min({k - 1 : k \in shared} \cup {Len(chain)})
              losers == {chain[k] : k \in DOMAIN chain \cap 1 .. freed + 1}
              e == Counting(r, losers, -1)
              f == [k \in 1 .. freed |-> chain[freed + 1 - k]] \o e.free
              d == Drop(r, id)
  <1>1. d = [e EXCEPT !.free = f]
    BY DEF Drop, Released
  <1>2. Recounted(r, e)
    <2>. HIDE DEF losers
    <2> QED BY CountingRecounts
  <1>. HIDE DEF e, f, d
  <1>3. Recounted(r, d)
    BY <1>1, <1>2 DEF Recounted, IsRun
  <1> QED BY <1>3 DEF d

LEMMA RetainRecounts ==
  ASSUME NEW r, IsRun(r), IsSeq(r.history), NEW id
  PROVE  Recounted(r, Retain(r, id))
  BY CountingRecounts DEF Retain

LEMMA FailedBalanced ==
  ASSUME NEW r, NEW l, NEW base, Balanced(r, l, base), NEW x
  PROVE  Balanced(Failed(r, x), l, base)
  <1>. DEFINE d == Failed(r, x)
  <1>1. /\ IsRun(d) /\ d.stack = r.stack /\ d.history = r.history /\ d.limits = r.limits
        /\ d.used = r.used /\ d.steps = r.steps /\ d.capacity = r.capacity
        /\ d.history_capacity = r.history_capacity
        /\ d.priority_capacity = r.priority_capacity
    <2>1. IsRun(r)
      BY DEF Balanced
    <2> QED BY <2>1 DEF Failed, IsRun
  <1>. HIDE DEF d
  <1>2. Balanced(d, l, base)
    BY <1>1, SameBlocks DEF Balanced
  <1> QED BY <1>2 DEF d

LEMMA TickBalanced ==
  ASSUME NEW r, NEW l, NEW base, Balanced(r, l, base), NEW n \in Int
  PROVE  Balanced(Tick(r, n), l, base)
  <1>1. CASE n > r.limits.max_steps - r.steps
    BY <1>1, FailedBalanced DEF Tick
  <1>2. CASE ~(n > r.limits.max_steps - r.steps)
    <2>. DEFINE s == r.steps + n
                d == [r EXCEPT !.steps = s]
    <2>1. s \in Int /\ s <= l.max_steps
      BY <1>2, SMTT(30) DEF Balanced
    <2>2. Tick(r, n) = d
      BY <1>2 DEF Tick, Balanced, IsRun
    <2>. HIDE DEF s
    <2>3. /\ IsRun(d) /\ d.stack = r.stack /\ d.history = r.history
          /\ d.limits = r.limits /\ d.used = r.used /\ d.steps = s
          /\ d.capacity = r.capacity /\ d.history_capacity = r.history_capacity
          /\ d.priority_capacity = r.priority_capacity
      <3>1. IsRun(r)
        BY DEF Balanced
      <3>. HIDE DEF s
      <3> QED BY <3>1 DEF IsRun
    <2>. HIDE DEF d
    <2>4. Balanced(d, l, base)
      BY <2>1, <2>3, SameBlocks DEF Balanced
    <2> QED BY <2>2, <2>4
  <1> QED BY <1>1, <1>2

(* What a block of a new size costs                                        *)
Grown(r, g, l, old, new, unit) ==
  /\ g = [r EXCEPT !.used = r.used - old * unit + new * unit]
  /\ r.used - old * unit + new * unit <= l.max_workspace_bytes
  /\ g.error = r.error

LEMMA GrowIs ==
  ASSUME NEW r, NEW l, NEW base, Balanced(r, l, base), NEW block, NEW old \in Nat,
         NEW new \in Nat, NEW unit \in Nat, NEW fails,
         NEW g, g = Grow(r, block, old, new, unit, fails)
  PROVE  \/ ~Ok(g) /\ Balanced(g, l, base)
         \/ Grown(r, g, l, old, new, unit)
  <1>. DEFINE a == old * unit
              b == new * unit
              u == r.used - a + b
  <1>1. \/ g = Failed(r, "LIMIT") \/ g = Failed(r, "NOMEM")
        \/ g = [r EXCEPT !.used = u] /\ ~(b > r.limits.max_workspace_bytes - r.used)
    BY DEF Grow
  <1>2. a \in Int /\ a >= 0 /\ b \in Int
    OBVIOUS
  <1>. HIDE DEF a, b
  <1>3. \A x : x # "OK" => ~Ok(Failed(r, x)) /\ Balanced(Failed(r, x), l, base)
    <2>1. IsRun(r)
      BY DEF Balanced
    <2>. TAKE x
    <2>2. Balanced(Failed(r, x), l, base)
      BY FailedBalanced
    <2>3. Failed(r, x).error = x
      BY <2>1 DEF Failed, IsRun
    <2> QED BY <2>2, <2>3 DEF Ok
  <1>4. CASE g = [r EXCEPT !.used = u] /\ ~(b > r.limits.max_workspace_bytes - r.used)
    <2>1. u <= l.max_workspace_bytes
      <3>1. r.used \in Int /\ r.limits = l /\ l.max_workspace_bytes \in Int
        BY DEF Balanced
      <3> QED BY <1>2, <1>4, <3>1
    <2>. HIDE DEF u
    <2>2. g.error = r.error
      BY <1>4 DEF Balanced, IsRun
    <2> QED BY <1>4, <2>1, <2>2 DEF u, a, b, Grown
  <1> QED BY <1>1, <1>3, <1>4

-----------------------------------------------------------------------------
(* The captures of a state s are intervals of what it matched; Alike(s, x) *)
(* says that x has the captures and the position of s.                     *)
SpanOK(s) ==
  /\ IsState(s) /\ s.pos \in Nat
  /\ s.begin \in [Slots -> Int] /\ s.end \in [Slots -> Int]
  /\ s.begin[0] \in 0 .. s.pos
  /\ \A g \in Slots :
       /\ s.begin[g] # NONE => s.begin[0] <= s.begin[g] /\ s.begin[g] <= s.pos
       /\ s.begin[g] # NONE /\ s.end[g] # NONE =>
            s.begin[g] <= s.end[g] /\ s.end[g] <= s.pos

Alike(s, x) == IsState(x) /\ x.pos = s.pos /\ x.begin = s.begin /\ x.end = s.end

LEMMA AlikeOK ==
  ASSUME NEW s, SpanOK(s), NEW x, Alike(s, x)
  PROVE  SpanOK(x)
  BY DEF SpanOK, Alike

LEMMA SpanFields ==
  ASSUME NEW s, SpanOK(s)
  PROVE  IsState(s) /\ s.pos \in Nat
  BY DEF SpanOK

LEMMA AlikeParts ==
  ASSUME NEW s, IsState(s), NEW v
  PROVE  /\ Alike(s, s)
         /\ Alike(s, [s EXCEPT !.pc = v]) /\ Alike(s, [s EXCEPT !.loops = v])
         /\ Alike(s, [s EXCEPT !.history = v])
  BY DEF Alike, IsState

LEMMA AlikeTwice ==
  ASSUME NEW s, NEW x, Alike(s, x), NEW y, Alike(x, y)
  PROVE  Alike(s, y)
  BY DEF Alike

LEMMA FreshOK ==
  ASSUME NEW p, NEW k \in Nat
  PROVE  SpanOK(FreshState(p, k))
  <1>. DEFINE s == FreshState(p, k)
  <1>1. /\ IsState(s) /\ s.pos = k
        /\ s.begin = [g \in Slots |-> IF g = 0 THEN k ELSE NONE]
        /\ s.end = [g \in Slots |-> NONE]
    BY DEF FreshState, IsState
  <1>. HIDE DEF s
  <1>2. SpanOK(s)
    BY <1>1 DEF SpanOK, Slots, MaxCaptures, NONE
  <1> QED BY <1>2 DEF s

(* A state may read on.                                                    *)
LEMMA FurtherOK ==
  ASSUME NEW s, SpanOK(s), NEW n \in Nat, NEW next
  PROVE  SpanOK([Go(s, next) EXCEPT !.pos = @ + n])
  <1>. DEFINE g == Go(s, next)
              q == g.pos + n
              x == [g EXCEPT !.pos = q]
  <1>1. IsState(g) /\ g.pos = s.pos /\ g.begin = s.begin /\ g.end = s.end
    BY SpanFields, AlikeParts DEF Go, Alike
  <1>2. q \in Nat /\ s.pos <= q
    BY <1>1 DEF SpanOK
  <1>. HIDE DEF g, q
  <1>3. IsState(x) /\ x.pos = q /\ x.begin = s.begin /\ x.end = s.end
    BY <1>1 DEF IsState
  <1>. HIDE DEF x
  <1>4. SpanOK(x)
    BY <1>2, <1>3 DEF SpanOK, Slots, MaxCaptures
  <1> QED BY <1>4 DEF x, q, g

Reset(g, h, b, e, x) == x = [g EXCEPT !.group_history = h, !.begin = b, !.end = e]

LEMMA WithSlots ==
  ASSUME NEW g, IsState(g), NEW h, NEW b, NEW e, NEW x, Reset(g, h, b, e, x)
  PROVE  IsState(x) /\ x.pos = g.pos /\ x.begin = b /\ x.end = e
  <1>. DEFINE y == [g EXCEPT !.group_history = h]
              z == [y EXCEPT !.begin = b]
  <1>1. IsState(y) /\ y.pos = g.pos
    BY DEF IsState
  <1>2. x = [z EXCEPT !.end = e]
    BY DEF Reset
  <1>. HIDE DEF y
  <1>3. IsState(z) /\ z.pos = g.pos /\ z.begin = b
    BY <1>1 DEF IsState
  <1>. HIDE DEF z
  <1> QED BY <1>2, <1>3 DEF IsState

LEMMA OpenedOK ==
  ASSUME NEW s, SpanOK(s), code.a \in 1 .. MaxCaptures, code.b \in code.a .. MaxCaptures
  PROVE  SpanOK(Opened(s))
  <1>. DEFINE g == Go(s, code.next)
              inside == code.a .. code.b
              h == [g.group_history EXCEPT ![code.a] = s.history]
              b == [i \in Slots |-> IF i = code.a THEN s.pos
                                    ELSE IF i \in inside THEN NONE ELSE g.begin[i]]
              e == [i \in Slots |-> IF i \in inside THEN NONE ELSE g.end[i]]
              x == [g EXCEPT !.group_history = h, !.begin = b, !.end = e]
  <1>1. IsState(g) /\ g.pos = s.pos /\ g.begin = s.begin /\ g.end = s.end
    BY SpanFields, AlikeParts DEF Go, Alike
  <1>2. Opened(s) = x
    <2>1. g = [pc |-> g.pc, pos |-> g.pos, loops |-> g.loops, begin |-> g.begin,
               end |-> g.end, history |-> g.history, group_history |-> g.group_history]
      BY <1>1 DEF IsState
    <2>2. Opened(s) = [g EXCEPT !.group_history[code.a] = s.history, !.begin = b, !.end = e]
      BY DEF Opened
    <2>. HIDE DEF g, b, e
    <2> QED BY <2>1, <2>2 DEF h
  <1>3. /\ \A i \in Slots : b[i] = IF i = code.a THEN s.pos
                                   ELSE IF i \in inside THEN NONE ELSE s.begin[i]
        /\ \A i \in Slots : e[i] = IF i \in inside THEN NONE ELSE s.end[i]
        /\ b = [i \in Slots |-> b[i]] /\ e = [i \in Slots |-> e[i]]
    BY <1>1
  <1>. HIDE DEF g, h, b, e, inside
  <1>4. IsState(x) /\ x.pos = s.pos /\ x.begin = b /\ x.end = e
    <2>1. Reset(g, h, b, e, x)
      BY DEF Reset
    <2>. HIDE DEF x
    <2>2. IsState(x) /\ x.pos = g.pos /\ x.begin = b /\ x.end = e
      BY <1>1, <2>1, WithSlots
    <2> QED BY <1>1, <2>2
  <1>. HIDE DEF x
  <1>5. 0 \in Slots /\ code.a # 0 /\ 0 \notin inside
    BY DEF Slots, MaxCaptures, inside
  <1>6. b[0] = s.begin[0]
    BY <1>3, <1>5
  <1>7. b \in [Slots -> Int] /\ e \in [Slots -> Int]
    <2>1. \A i \in Slots : b[i] \in Int /\ e[i] \in Int
      BY <1>3 DEF SpanOK, NONE
    <2> QED BY <1>3, <2>1
  <1>8. ASSUME NEW i \in Slots
        PROVE  /\ b[i] # NONE => b[0] <= b[i] /\ b[i] <= s.pos
               /\ b[i] # NONE /\ e[i] # NONE => b[i] <= e[i] /\ e[i] <= s.pos
    <2>1. CASE i \in inside
      <3>1. e[i] = NONE /\ b[i] \in {s.pos, NONE}
        BY <1>3, <2>1
      <3> QED BY <1>6, <3>1 DEF SpanOK
    <2>2. CASE i \notin inside
      <3>1. i # code.a
        BY <2>2 DEF MaxCaptures, inside
      <3>2. e[i] = s.end[i] /\ b[i] = s.begin[i]
        BY <1>3, <2>2, <3>1
      <3> QED BY <1>6, <3>2 DEF SpanOK
    <2> QED BY <2>1, <2>2
  <1>9. SpanOK(x)
    BY <1>4, <1>6, <1>7, <1>8 DEF SpanOK
  <1> QED BY <1>2, <1>9

LEMMA SlotSet ==
  ASSUME NEW f \in [Slots -> Int], NEW i, NEW v \in Int
  PROVE  /\ [f EXCEPT ![i] = v] \in [Slots -> Int]
         /\ \A g \in Slots : [f EXCEPT ![i] = v][g] \in {v, f[g]}
  OBVIOUS

LEMMA ClosedOK ==
  ASSUME NEW s, SpanOK(s)
  PROVE  SpanOK(Closed(s))
  <1>. DEFINE g == Go(s, code.next)
              e == [g.end EXCEPT ![code.a] = s.pos]
              x == [g EXCEPT !.end = e]
  <1>1. IsState(g) /\ g.pos = s.pos /\ g.begin = s.begin /\ g.end = s.end
    BY SpanFields, AlikeParts DEF Go, Alike
  <1>2. Closed(s) = x
    <2>1. g = [pc |-> g.pc, pos |-> g.pos, loops |-> g.loops, begin |-> g.begin,
               end |-> g.end, history |-> g.history, group_history |-> g.group_history]
      BY <1>1 DEF IsState
    <2>2. Closed(s) = [g EXCEPT !.end[code.a] = s.pos]
      BY DEF Closed
    <2>. HIDE DEF g
    <2> QED BY <2>1, <2>2 DEF e
  <1>3. e \in [Slots -> Int] /\ \A i \in Slots : e[i] \in {s.pos, s.end[i]}
    <2>1. s.end \in [Slots -> Int] /\ s.pos \in Int
      BY DEF SpanOK
    <2>2. e = [s.end EXCEPT ![code.a] = s.pos]
      BY <1>1
    <2>. HIDE DEF e
    <2> QED BY <2>1, <2>2, SlotSet
  <1>. HIDE DEF g, e
  <1>4. IsState(x) /\ x.pos = s.pos /\ x.begin = s.begin /\ x.end = e
    BY <1>1 DEF IsState
  <1>. HIDE DEF x
  <1>5. ASSUME NEW i \in Slots, s.begin[i] # NONE, e[i] # NONE
        PROVE  s.begin[i] <= e[i] /\ e[i] <= s.pos
    BY <1>3, <1>5 DEF SpanOK
  <1>6. SpanOK(x)
    BY <1>3, <1>4, <1>5 DEF SpanOK
  <1> QED BY <1>2, <1>6

(* An accepting state closes the whole match.                              *)
LEMMA AcceptedOK ==
  ASSUME NEW s, SpanOK(s)
  PROVE  SpanOK([s EXCEPT !.end[0] = s.pos])
  <1>. DEFINE e == [s.end EXCEPT ![0] = s.pos]
              x == [s EXCEPT !.end = e]
  <1>1. [s EXCEPT !.end[0] = s.pos] = x
    BY DEF SpanOK, IsState
  <1>2. e \in [Slots -> Int] /\ \A i \in Slots : e[i] \in {s.pos, s.end[i]}
    <2>1. s.end \in [Slots -> Int] /\ s.pos \in Int
      BY DEF SpanOK
    <2> QED BY <2>1, SlotSet
  <1>. HIDE DEF e
  <1>3. IsState(x) /\ x.pos = s.pos /\ x.begin = s.begin /\ x.end = e
    BY DEF SpanOK, IsState
  <1>. HIDE DEF x
  <1>4. ASSUME NEW i \in Slots, s.begin[i] # NONE, e[i] # NONE
        PROVE  s.begin[i] <= e[i] /\ e[i] <= s.pos
    BY <1>2, <1>4 DEF SpanOK
  <1>5. SpanOK(x)
    BY <1>2, <1>3, <1>4 DEF SpanOK
  <1> QED BY <1>1, <1>5

-----------------------------------------------------------------------------
(* The accounts hold, and every state to come back to has good captures.   *)
Sound(r, l, base) ==
  /\ Balanced(r, l, base) /\ IsSeq(r.units)
  /\ \A s \in Elements(r.stack) : SpanOK(s)

(* Whatever differs, the states and the input do not.                      *)
LEMMA StillSound ==
  ASSUME NEW r, NEW l, NEW base, Sound(r, l, base), NEW d, Balanced(d, l, base),
         d.stack = r.stack, d.units = r.units
  PROVE  Sound(d, l, base)
  BY DEF Sound

LEMMA FailedSound ==
  ASSUME NEW r, NEW l, NEW base, Sound(r, l, base), NEW x
  PROVE  Sound(Failed(r, x), l, base) /\ Failed(r, x).error = x
  <1>1. Balanced(r, l, base) /\ IsRun(r)
    BY DEF Sound, Balanced
  <1>2. Balanced(Failed(r, x), l, base) /\ SameArena(r, Failed(r, x))
        /\ Failed(r, x).error = x
    BY <1>1, FailedBalanced, FailedKeeps
  <1> QED BY <1>2, StillSound DEF SameArena, Kept

LEMMA TickSound ==
  ASSUME NEW r, NEW l, NEW base, Sound(r, l, base), NEW n \in Int
  PROVE  Sound(Tick(r, n), l, base)
  <1>1. Balanced(r, l, base) /\ IsRun(r)
    BY DEF Sound, Balanced
  <1>2. Balanced(Tick(r, n), l, base) /\ SameArena(r, Tick(r, n))
    BY <1>1, TickBalanced, TickKeeps
  <1>. DEFINE d == Tick(r, n)
  <1>. HIDE DEF d
  <1>3. Sound(d, l, base)
    BY <1>2, StillSound DEF SameArena, Kept, d
  <1> QED BY <1>3 DEF d

LEMMA RecountedSound ==
  ASSUME NEW r, NEW l, NEW base, Sound(r, l, base), NEW d, Recounted(r, d)
  PROVE  Sound(d, l, base) /\ d.error = r.error
  <1>1. Balanced(r, l, base) /\ IsRun(r)
    BY DEF Sound, Balanced
  <1>2. Balanced(d, l, base) /\ Kept(r, d) /\ d.error = r.error
    BY <1>1, RecountedBalanced, RecountedFields
  <1> QED BY <1>2, StillSound DEF Kept

LEMMA DropSound ==
  ASSUME NEW r, NEW l, NEW base, Sound(r, l, base), NEW id
  PROVE  /\ Sound(Drop(r, id), l, base) /\ Drop(r, id).error = r.error
         /\ Drop(r, id).stack = r.stack
         /\ Sound(Retain(r, id), l, base) /\ Retain(r, id).error = r.error
         /\ Retain(r, id).stack = r.stack
  <1>1. IsRun(r) /\ IsSeq(r.history)
    BY DEF Sound, Balanced
  <1>2. Recounted(r, Drop(r, id)) /\ Recounted(r, Retain(r, id))
    BY <1>1, DropRecounts, RetainRecounts
  <1>3. Drop(r, id).stack = r.stack /\ Retain(r, id).stack = r.stack
    BY <1>1, <1>2, RecountedFields DEF Kept
  <1> QED BY <1>2, <1>3, RecountedSound

(* A block grows and its new size is noted.                                *)
LEMMA GrownBlocks ==
  ASSUME NEW r, NEW d, IsRun(r), IsRun(d),
         {r.capacity, r.history_capacity, r.priority_capacity, d.capacity,
          d.history_capacity, d.priority_capacity} \subseteq Nat
  PROVE  /\ d.history_capacity = r.history_capacity
            /\ d.priority_capacity = r.priority_capacity =>
            Blocks(d) = Blocks(r) - r.capacity * StateBytes + d.capacity * StateBytes
         /\ d.capacity = r.capacity /\ d.priority_capacity = r.priority_capacity =>
            Blocks(d) = Blocks(r) - r.history_capacity * NodeBytes
                        + d.history_capacity * NodeBytes
         /\ d.capacity = r.capacity /\ d.history_capacity = r.history_capacity =>
            Blocks(d) = Blocks(r) - r.priority_capacity * PriorityBytes
                        + d.priority_capacity * PriorityBytes
  <1>. DEFINE a == r.capacity * StateBytes
              b == r.history_capacity * NodeBytes
              e == r.priority_capacity * PriorityBytes
              x == d.capacity * StateBytes
              y == d.history_capacity * NodeBytes
              z == d.priority_capacity * PriorityBytes
  <1>1. StateBytes \in Nat /\ NodeBytes \in Nat /\ PriorityBytes \in Nat
    BY ExecAssumption, HistoryAssumption
  <1>2. a \in Int /\ b \in Int /\ e \in Int /\ x \in Int /\ y \in Int /\ z \in Int
    BY <1>1
  <1>3. Blocks(r) = a + b + e /\ Blocks(d) = x + y + z
    BY DEF Blocks
  <1>4. /\ d.capacity = r.capacity => x = a
        /\ d.history_capacity = r.history_capacity => y = b
        /\ d.priority_capacity = r.priority_capacity => z = e
    OBVIOUS
  <1>. HIDE DEF a, b, e, x, y, z
  <1>5. /\ y = b /\ z = e => Blocks(d) = Blocks(r) - a + x
        /\ x = a /\ z = e => Blocks(d) = Blocks(r) - b + y
        /\ x = a /\ y = b => Blocks(d) = Blocks(r) - e + z
    BY <1>2, <1>3
  <1> QED BY <1>4, <1>5 DEF a, b, e, x, y, z

LEMMA BiggerBalanced ==
  ASSUME NEW r, NEW l, NEW base, Balanced(r, l, base),
         NEW d, SameArena(r, d), d.steps = r.steps,
         d.capacity \in Nat, d.history_capacity \in Nat, d.priority_capacity \in Nat,
         Blocks(r) \in Int, Blocks(d) \in Int,
         d.used = r.used - Blocks(r) + Blocks(d), d.used <= l.max_workspace_bytes,
         r.capacity <= d.capacity, d.capacity <= l.max_frames - 1,
         r.history_capacity <= d.history_capacity
  PROVE  Balanced(d, l, base)
  <1>1. /\ IsRun(d) /\ d.stack = r.stack /\ d.history = r.history /\ d.limits = r.limits
    BY DEF SameArena, Kept
  <1>2. Len(d.stack) \in Nat /\ Len(d.history) \in Nat
    BY <1>1 DEF Balanced, IsSeq
  <1>3. d.used \in Int /\ d.used = base + Blocks(d)
    BY DEF Balanced
  <1>4. Len(d.stack) <= d.capacity /\ Len(d.history) <= d.history_capacity
    <2>1. /\ Len(r.stack) <= r.capacity /\ Len(r.history) <= r.history_capacity
          /\ r.capacity \in Nat /\ r.history_capacity \in Nat
      BY DEF Balanced
    <2>2. Len(d.stack) <= r.capacity /\ Len(d.history) <= r.history_capacity
      BY <1>1, <2>1
    <2> QED BY <1>2, <2>1, <2>2
  <1> QED BY <1>1, <1>3, <1>4 DEF Balanced

LEMMA BlocksType ==
  ASSUME NEW r, r.capacity \in Nat, r.history_capacity \in Nat, r.priority_capacity \in Nat
  PROVE  Blocks(r) \in Int
  <1>1. StateBytes \in Nat /\ NodeBytes \in Nat /\ PriorityBytes \in Nat
    BY ExecAssumption, HistoryAssumption
  <1>2. \A a, b \in Nat : a * b \in Nat
    OBVIOUS
  <1>3. /\ r.capacity * StateBytes \in Nat /\ r.history_capacity * NodeBytes \in Nat
        /\ r.priority_capacity * PriorityBytes \in Nat
    BY <1>1, <1>2
  <1> QED BY <1>3 DEF Blocks

(* A block of `old` units becomes one of `new`, and is paid for.           *)
Paid(r, g, l, old, new, unit) ==
  /\ SameArena(r, g) /\ Ok(g) /\ g.steps = r.steps /\ g.capacity = r.capacity
  /\ g.history_capacity = r.history_capacity
  /\ g.priority_capacity = r.priority_capacity
  /\ g.used = r.used - old * unit + new * unit /\ g.used <= l.max_workspace_bytes

LEMMA GrowPays ==
  ASSUME NEW r, NEW l, NEW base, Sound(r, l, base), Ok(r), NEW block, NEW old \in Nat,
         NEW new \in Nat, NEW unit \in Nat, NEW fails,
         NEW g, g = Grow(r, block, old, new, unit, fails)
  PROVE  (~Ok(g) /\ Sound(g, l, base)) \/ Paid(r, g, l, old, new, unit)
  <1>. DEFINE u == r.used - old * unit + new * unit
  <1>1. Balanced(r, l, base) /\ IsRun(r)
    BY DEF Sound, Balanced
  <1>2. \/ ~Ok(g) /\ Balanced(g, l, base)
        \/ g = [r EXCEPT !.used = u] /\ u <= l.max_workspace_bytes /\ g.error = r.error
    <2>1. (~Ok(g) /\ Balanced(g, l, base)) \/ Grown(r, g, l, old, new, unit)
      BY <1>1, GrowIs
    <2> QED BY <2>1 DEF Grown
  <1>3. SameArena(r, g)
    BY <1>1, GrowKeeps
  <1>. HIDE DEF u
  <1>4. CASE g = [r EXCEPT !.used = u] /\ u <= l.max_workspace_bytes /\ g.error = r.error
    <2>1. /\ g.steps = r.steps /\ g.capacity = r.capacity /\ g.used = u
          /\ g.history_capacity = r.history_capacity
          /\ g.priority_capacity = r.priority_capacity
      BY <1>1, <1>4 DEF IsRun
    <2> QED BY <1>3, <1>4, <2>1 DEF Paid, Ok, u
  <1>5. CASE ~Ok(g) /\ Balanced(g, l, base)
    BY <1>3, <1>5, StillSound DEF SameArena, Kept
  <1> QED BY <1>2, <1>4, <1>5

(* What is noted of a block that grew: one of three capacities             *)
Resized(r, g, l, old, new, unit, d) ==
  \/ /\ old = r.history_capacity /\ unit = NodeBytes /\ old <= new
     /\ d = [g EXCEPT !.history_capacity = new]
  \/ /\ old = r.priority_capacity /\ unit = PriorityBytes
     /\ d = [g EXCEPT !.priority_capacity = new]
  \/ /\ old = r.capacity /\ unit = StateBytes /\ old <= new
     /\ new <= l.max_frames - 1 /\ d = [g EXCEPT !.capacity = new]

LEMMA ResizedSound ==
  ASSUME NEW r, NEW l, NEW base, Sound(r, l, base), NEW old, NEW new \in Nat,
         NEW unit, NEW g, Paid(r, g, l, old, new, unit),
         NEW d, Resized(r, g, l, old, new, unit, d)
  PROVE  Sound(d, l, base) /\ SameArena(r, d) /\ d.error = "OK"
  <1>. DEFINE u == r.used - old * unit + new * unit
  <1>1. /\ Balanced(r, l, base) /\ IsRun(r)
        /\ r.capacity \in Nat /\ r.history_capacity \in Nat /\ r.priority_capacity \in Nat
        /\ r.used \in Int /\ r.capacity <= l.max_frames - 1
    BY DEF Sound, Balanced
  <1>2. /\ SameArena(r, g) /\ IsRun(g) /\ g.error = "OK" /\ g.steps = r.steps
        /\ g.capacity = r.capacity /\ g.history_capacity = r.history_capacity
        /\ g.priority_capacity = r.priority_capacity
        /\ g.used = u /\ u <= l.max_workspace_bytes
    BY DEF Paid, SameArena, Kept, Ok
  <1>. HIDE DEF u
  <1>3. \/ /\ d = [g EXCEPT !.history_capacity = new]
        \/ /\ d = [g EXCEPT !.priority_capacity = new]
        \/ /\ d = [g EXCEPT !.capacity = new]
    BY DEF Resized
  <1>4. /\ IsRun(d) /\ d.steps = r.steps /\ d.used = u /\ d.error = "OK"
        /\ d.stack = g.stack /\ d.limits = g.limits /\ d.units = g.units
        /\ d.offsets = g.offsets /\ d.history = g.history /\ d.free = g.free
        /\ d.history_order = g.history_order
    BY <1>2, <1>3 DEF IsRun
  <1>5. SameArena(r, d)
    BY <1>2, <1>4 DEF SameArena, Kept
  <1>6. \/ /\ old = r.history_capacity /\ unit = NodeBytes /\ old <= new
           /\ d.history_capacity = new /\ d.priority_capacity = r.priority_capacity
           /\ d.capacity = r.capacity
        \/ /\ old = r.priority_capacity /\ unit = PriorityBytes
           /\ d.history_capacity = r.history_capacity /\ d.priority_capacity = new
           /\ d.capacity = r.capacity
        \/ /\ old = r.capacity /\ unit = StateBytes /\ old <= new
           /\ new <= l.max_frames - 1
           /\ d.history_capacity = r.history_capacity
           /\ d.priority_capacity = r.priority_capacity /\ d.capacity = new
    BY <1>2 DEF IsRun, Resized
  <1>7. /\ d.capacity \in Nat /\ d.history_capacity \in Nat /\ d.priority_capacity \in Nat
        /\ r.capacity <= d.capacity /\ d.capacity <= l.max_frames - 1
        /\ r.history_capacity <= d.history_capacity
    BY <1>1, <1>6
  <1>8. Blocks(r) \in Int /\ Blocks(d) \in Int
    BY <1>1, <1>7, BlocksType
  <1>9. Blocks(d) = Blocks(r) - old * unit + new * unit
    BY <1>1, <1>4, <1>6, <1>7, GrownBlocks
  <1>10. old * unit \in Int /\ new * unit \in Int
    <2>1. StateBytes \in Nat /\ NodeBytes \in Nat /\ PriorityBytes \in Nat
      BY ExecAssumption, HistoryAssumption
    <2>2. old \in Nat /\ unit \in Nat
      BY <1>1, <1>6, <2>1
    <2> QED BY <2>2
  <1>11. d.used = r.used - Blocks(r) + Blocks(d)
    <2>. DEFINE a == old * unit
                b == new * unit
    <2>1. a \in Int /\ b \in Int /\ Blocks(d) = Blocks(r) - a + b /\ u = r.used - a + b
      BY <1>9, <1>10 DEF u
    <2>. HIDE DEF a, b
    <2> QED BY <1>1, <1>4, <1>8, <2>1
  <1>12. Balanced(d, l, base)
    BY <1>1, <1>2, <1>4, <1>5, <1>7, <1>8, <1>11, BiggerBalanced
  <1> QED BY <1>4, <1>5, <1>12, StillSound DEF SameArena, Kept

(* A slot for a record is free, or there is room for one more.             *)
LEMMA ReserveSound ==
  ASSUME NEW r, NEW l, NEW base, Sound(r, l, base), Ok(r), NEW fails,
         NEW v, v = Reserve(r, fails)
  PROVE  /\ Sound(v, l, base)
         /\ Ok(v) => v.free # <<>> \/ Len(v.history) + 1 <= v.history_capacity
  <1>. DEFINE old == r.history_capacity
              cap == IF old = 0 THEN InitialNodes ELSE 2 * old
              g == Grow(r, "history", old, cap, NodeBytes, fails)
              d == [g EXCEPT !.history_capacity = cap]
  <1>1. /\ IsRun(r) /\ old \in Nat /\ Len(r.history) \in Nat /\ Len(r.history) <= old
    BY DEF Sound, Balanced, IsSeq
  <1>2. cap \in Nat /\ old + 1 <= cap /\ NodeBytes \in Nat
    BY <1>1, HistoryAssumption
  <1>3. \/ v = r /\ (r.free # <<>> \/ Len(r.history) < old)
        \/ v = Failed(r, "LIMIT") \/ (v = g /\ ~Ok(g)) \/ (Ok(g) /\ v = d)
    BY DEF Reserve
  <1>. HIDE DEF cap, g
  <1>4. CASE v = r /\ (r.free # <<>> \/ Len(r.history) < old)
    BY <1>1, <1>4
  <1>5. CASE v = Failed(r, "LIMIT")
    BY <1>5, FailedSound DEF Ok
  <1>6. (~Ok(g) /\ Sound(g, l, base)) \/ Paid(r, g, l, old, cap, NodeBytes)
    BY <1>1, <1>2, GrowPays DEF g
  <1>7. CASE Ok(g) /\ v = d
    <2>1. Paid(r, g, l, old, cap, NodeBytes)
      BY <1>6, <1>7
    <2>0. Resized(r, g, l, old, cap, NodeBytes, d) /\ old <= cap
      BY <1>1, <1>2 DEF Resized
    <2>2. Sound(d, l, base) /\ SameArena(r, d)
      <3>. HIDE DEF d, old
      <3> QED BY <1>2, <2>0, <2>1, ResizedSound
    <2>3. d.history_capacity = cap
      BY <2>1 DEF Paid, SameArena, Kept, IsRun
    <2>4. d.history = r.history
      BY <2>2 DEF SameArena
    <2>. HIDE DEF d
    <2> QED BY <1>1, <1>2, <1>7, <2>2, <2>3, <2>4
  <1>8. CASE v = g /\ ~Ok(g)
    BY <1>6, <1>8 DEF Paid
  <1> QED BY <1>3, <1>4, <1>5, <1>7, <1>8

LEMMA PrependSound ==
  ASSUME NEW r, NEW l, NEW base, Sound(r, l, base), Ok(r),
         r.free # <<>> \/ Len(r.history) + 1 <= r.history_capacity,
         NEW s, IsState(s), NEW node, NEW t, t = Prepend(r, s, node)
  PROVE  Sound(t[1], l, base) /\ Alike(s, t[2])
  <1>. DEFINE n == Len(r.history)
              reuse == r.free # <<>>
              id == IF reuse THEN Head(r.free) ELSE n + 1
              f == IF reuse THEN Tail(r.free) ELSE r.free
              h == IF reuse THEN [r.history EXCEPT ![id] = node]
                   ELSE Append(r.history, node)
              o == node.order
              made == [r EXCEPT !.free = f, !.history = h, !.history_order = o]
              kept == Retain(made, s.history)
              d == Drop(kept, s.history)
              x == [s EXCEPT !.history = id]
  <1>1. t = <<d, x>>
    BY DEF Prepend
  <1>2. /\ Balanced(r, l, base) /\ IsRun(r) /\ IsSeq(r.history) /\ n \in Nat
        /\ n <= r.history_capacity /\ r.history_capacity \in Nat
    BY DEF Sound, Balanced, IsSeq
  <1>3. IsSeq(h) /\ Len(h) \in Nat /\ Len(h) <= r.history_capacity
    <2>1. CASE reuse
      <3>. DEFINE w == [r.history EXCEPT ![id] = node]
      <3>1. DOMAIN r.history = 1 .. n
        BY <1>2, AnySeq
      <3>2. w = [k \in 1 .. n |-> w[k]]
        BY <3>1
      <3>3. h = w
        BY <2>1
      <3>. HIDE DEF w, h, n
      <3> QED BY <1>2, <3>2, <3>3, Indexed
    <2>2. CASE ~reuse
      <3>1. h = Append(r.history, node) /\ n + 1 <= r.history_capacity
        BY <2>2
      <3>. HIDE DEF h
      <3>2. IsSeq(h) /\ Len(h) = n + 1
        BY <1>2, <3>1, Appended
      <3> QED BY <1>2, <3>1, <3>2
    <2> QED BY <2>1, <2>2
  <1>. HIDE DEF id, f, h, o
  <1>4. /\ IsRun(made) /\ made.stack = r.stack /\ made.units = r.units
        /\ made.limits = r.limits /\ made.used = r.used /\ made.steps = r.steps
        /\ made.capacity = r.capacity /\ made.history_capacity = r.history_capacity
        /\ made.priority_capacity = r.priority_capacity /\ made.history = h
    <2>. DEFINE m == [r EXCEPT !.free = f]
    <2>1. /\ IsRun(m) /\ m.stack = r.stack /\ m.units = r.units
          /\ m.limits = r.limits /\ m.used = r.used /\ m.steps = r.steps
          /\ m.capacity = r.capacity /\ m.history_capacity = r.history_capacity
          /\ m.priority_capacity = r.priority_capacity
      BY <1>2 DEF IsRun
    <2>2. made = [[m EXCEPT !.history = h] EXCEPT !.history_order = o]
      OBVIOUS
    <2>. HIDE DEF m, made
    <2>. DEFINE q == [m EXCEPT !.history = h]
    <2>3. /\ IsRun(q) /\ q.stack = r.stack /\ q.units = r.units
          /\ q.limits = r.limits /\ q.used = r.used /\ q.steps = r.steps
          /\ q.capacity = r.capacity /\ q.history_capacity = r.history_capacity
          /\ q.priority_capacity = r.priority_capacity /\ q.history = h
      BY <2>1 DEF IsRun
    <2>4. made = [q EXCEPT !.history_order = o]
      BY <2>2
    <2>. HIDE DEF q
    <2> QED BY <2>3, <2>4 DEF IsRun
  <1>. HIDE DEF made
  <1>5. Blocks(made) = Blocks(r)
    BY <1>4, SameBlocks
  <1>6. Balanced(made, l, base)
    BY <1>2, <1>3, <1>4, <1>5 DEF Balanced
  <1>7. Sound(made, l, base)
    BY <1>4, <1>6, StillSound
  <1>8. Sound(d, l, base)
    <2>1. Sound(kept, l, base)
      BY <1>7, DropSound
    <2>. HIDE DEF kept
    <2> QED BY <2>1, DropSound
  <1>9. Alike(s, x)
    BY AlikeParts
  <1>. HIDE DEF d, x
  <1>10. t[1] = d /\ t[2] = x
    BY <1>1
  <1> QED BY <1>8, <1>9, <1>10

LEMMA TagSound ==
  ASSUME NEW r, NEW l, NEW base, Sound(r, l, base), NEW s, IsState(s),
         NEW kind, NEW key, NEW open, NEW fails,
         NEW t, t = Tag(r, s, kind, key, open, fails)
  PROVE  Sound(t[1], l, base) /\ Alike(s, t[2])
  <1>. DEFINE d == Tick(r, 1)
              node == [prev |-> s.history, refs |-> 1, kind |-> kind, key |-> key,
                       pos |-> s.pos, open |-> open, order |-> r.history_order + 1]
              v == Reserve(d, fails)
              g == Failed(d, "LIMIT")
  <1>1. \/ ~Ok(d) /\ t = <<d, s>>
        \/ t = <<g, s>>
        \/ Ok(d) /\ t = Prepend(v, s, node)
    BY DEF Tag
  <1>2. Sound(d, l, base)
    BY TickSound
  <1>3. Alike(s, s)
    BY AlikeParts
  <1>. HIDE DEF d, node
  <1>4. Sound(g, l, base)
    BY <1>2, FailedSound
  <1>. HIDE DEF g
  <1>5. CASE ~Ok(d) /\ t = <<d, s>>
    <2>1. t[1] = d /\ t[2] = s
      BY <1>5
    <2> QED BY <1>2, <1>3, <2>1
  <1>6. CASE t = <<g, s>>
    <2>1. t[1] = g /\ t[2] = s
      BY <1>6
    <2> QED BY <1>3, <1>4, <2>1
  <1>7. CASE Ok(d) /\ t = Prepend(v, s, node)
    <2>1. /\ Sound(v, l, base)
          /\ Ok(v) => v.free # <<>> \/ Len(v.history) + 1 <= v.history_capacity
      BY <1>2, <1>7, ReserveSound
    <2>. HIDE DEF v
    <2>2. CASE Ok(v)
      BY <1>7, <2>1, <2>2, PrependSound
    <2>3. CASE ~Ok(v)
      <3>1. t = <<v, s>>
        BY <1>7, <2>3 DEF Prepend
      <3>2. t[1] = v /\ t[2] = s
        BY <3>1
      <3> QED BY <1>3, <2>1, <3>2
    <2> QED BY <2>2, <2>3
  <1> QED BY <1>1, <1>5, <1>6, <1>7

(* bre_push: one more state on the stack *)
LEMMA PushSound ==
  ASSUME NEW r, NEW base, Sound(r, limits, base), Ok(r), NEW s, SpanOK(s), NEW fails,
         NEW p, p = Push(r, s, fails)
  PROVE  Sound(p, limits, base)
  <1>. DEFINE most == limits.max_frames - 1
              old == r.capacity
              twice == IF old = 0 THEN InitialStates ELSE 2 * old
              cap == IF twice > most THEN most ELSE twice
              g == Grow(r, "stack", old, cap, StateBytes, fails)
              d == [g EXCEPT !.capacity = cap]
              room == IF Len(r.stack) < old THEN r ELSE IF Ok(g) THEN d ELSE g
              n == Len(r.stack)
  <1>1. /\ IsRun(r) /\ old \in Nat /\ n \in Nat /\ n <= old /\ old <= most
        /\ most \in Int /\ IsSeq(r.stack)
    BY DEF Sound, Balanced, IsSeq
  <1>2. \/ p = Failed(r, "LIMIT")
        \/ n < most /\ ~Ok(room) /\ p = room
        \/ n < most /\ Ok(room) /\ p = [room EXCEPT !.stack = Append(@, s)]
    <2>1. \/ p = Failed(r, "LIMIT")
          \/ ~(n >= most) /\ ~Ok(room) /\ p = room
          \/ ~(n >= most) /\ Ok(room) /\ p = [room EXCEPT !.stack = Append(@, s)]
      BY DEF Push
    <2>2. ~(n >= most) => n < most
      BY <1>1
    <2>. HIDE DEF room, n, most
    <2> QED BY <2>1, <2>2
  <1>3. n < most /\ ~(n < old) =>
          cap \in Nat /\ old + 1 <= cap /\ cap <= most /\ StateBytes \in Nat
    BY <1>1, ExecAssumption, SMTT(30)
  <1>. HIDE DEF cap, g
  <1>4. ASSUME n < most
        PROVE  Sound(room, limits, base)
               /\ (Ok(room) => n + 1 <= room.capacity /\ room.stack = r.stack)
    <2>1. CASE n < old
      BY <1>1, <2>1
    <2>2. CASE ~(n < old)
      <3>1. (~Ok(g) /\ Sound(g, limits, base)) \/ Paid(r, g, limits, old, cap, StateBytes)
        BY <1>1, <1>3, <1>4, <2>2, GrowPays DEF g
      <3>2. CASE Paid(r, g, limits, old, cap, StateBytes)
        <4>1. Resized(r, g, limits, old, cap, StateBytes, d)
          BY <1>1, <1>3, <1>4, <2>2 DEF Resized
        <4>2. d.capacity = cap
          BY <3>2 DEF Paid, SameArena, Kept, IsRun
        <4>. HIDE DEF d, old
        <4>3. Sound(d, limits, base) /\ SameArena(r, d)
          BY <1>3, <1>4, <2>2, <3>2, <4>1, ResizedSound
        <4>4. room = d
          BY <2>2, <3>2 DEF Paid
        <4>5. n + 1 <= cap
          BY <1>1, <1>3, <1>4, <2>2
        <4>. HIDE DEF room
        <4> QED BY <4>2, <4>3, <4>4, <4>5 DEF SameArena, Kept
      <3>3. CASE ~Ok(g) /\ Sound(g, limits, base)
        BY <2>2, <3>3
      <3> QED BY <3>1, <3>2, <3>3
    <2> QED BY <2>1, <2>2
  <1>. HIDE DEF room
  <1>5. CASE p = Failed(r, "LIMIT")
    BY <1>5, FailedSound
  <1>6. CASE n < most /\ ~Ok(room) /\ p = room
    BY <1>4, <1>6
  <1>7. CASE n < most /\ Ok(room) /\ p = [room EXCEPT !.stack = Append(@, s)]
    <2>. DEFINE h == Append(r.stack, s)
    <2>1. /\ Sound(room, limits, base) /\ n + 1 <= room.capacity
          /\ room.stack = r.stack /\ p = [room EXCEPT !.stack = h]
      BY <1>4, <1>7
    <2>2. /\ IsSeq(h) /\ Len(h) = n + 1 /\ h[n + 1] = s
          /\ \A k \in 1 .. n : h[k] = r.stack[k]
      BY <1>1, Appended
    <2>. HIDE DEF h
    <2>3. Balanced(room, limits, base) /\ IsRun(room)
      BY <2>1 DEF Sound, Balanced
    <2>4. /\ IsRun(p) /\ p.stack = h /\ p.units = room.units /\ p.history = room.history
          /\ p.limits = room.limits /\ p.used = room.used /\ p.steps = room.steps
          /\ p.capacity = room.capacity /\ p.history_capacity = room.history_capacity
          /\ p.priority_capacity = room.priority_capacity
      BY <2>1, <2>3 DEF IsRun
    <2>5. Blocks(p) = Blocks(room)
      BY <2>4, SameBlocks
    <2>6. Len(p.stack) <= p.capacity
      BY <1>1, <2>1, <2>2, <2>4
    <2>7. Balanced(p, limits, base)
      BY <2>2, <2>3, <2>4, <2>5, <2>6 DEF Balanced
    <2>8. ASSUME NEW k \in 1 .. Len(h) PROVE SpanOK(h[k])
      <3>1. CASE k = n + 1
        BY <2>2, <3>1
      <3>2. CASE k # n + 1
        <4>1. k \in 1 .. n /\ h[k] = r.stack[k]
          BY <1>1, <2>2, <3>2
        <4> QED BY <4>1 DEF Sound, Elements
      <3> QED BY <3>1, <3>2
    <2> QED BY <2>1, <2>4, <2>7, <2>8 DEF Sound, Elements
  <1> QED BY <1>2, <1>5, <1>6, <1>7

-----------------------------------------------------------------------------
(* What the ranking of two histories costs is a number.                    *)
LEMMA Doubled ==
  ASSUME NEW first1 \in Nat \ {0}, NEW n \in Nat,
         NEW cap, cap = CHOOSE f : f = [k \in Nat |-> IF k = 0 THEN first1 ELSE 2 * f[k - 1]],
         NEW m, m = cap[Min({k \in 0 .. n : cap[k] >= n})]
  PROVE  m \in Nat
  <1>. DEFINE twice == [p \in Nat \X (Nat \ {0}) |-> 2 * p[2]]
              Doubles(f) == f = [k \in Nat |-> IF k = 0 THEN first1 ELSE 2 * f[k - 1]]
  <1>1. twice \in [Nat \X (Nat \ {0}) -> Nat \ {0}]
    OBVIOUS
  <1>2. PICK f \in [Nat -> Nat \ {0}] : Recursion(f, Nat, first1, twice)
    <2>. HIDE DEF twice
    <2> QED BY <1>1, RecursionExists
  <1>3. ASSUME NEW h, Recursion(h, Nat, first1, twice), h \in [Nat -> Nat \ {0}]
        PROVE  Doubles(h)
    <2>1. ASSUME NEW k \in Nat
          PROVE h[k] = IF k = 0 THEN first1 ELSE 2 * h[k - 1]
      <3>1. h[k] = IF k = 0 THEN first1 ELSE twice[<<k, h[k - 1]>>]
        BY <1>3 DEF Recursion
      <3>2. CASE k # 0
        <4>1. k - 1 \in Nat /\ h[k - 1] \in Nat \ {0}
          BY <1>3, <3>2
        <4>2. twice[<<k, h[k - 1]>>] = 2 * h[k - 1]
          BY <4>1
        <4> QED BY <3>1, <3>2, <4>2
      <3> QED BY <3>1, <3>2
    <2>2. h = [k \in Nat |-> h[k]]
      BY <1>3
    <2> QED BY <2>1, <2>2
  <1>4. \E h : Doubles(h)
    BY <1>2, <1>3, Zenon
  <1>5. Doubles(cap)
    <2>1. cap = CHOOSE h : Doubles(h)
      BY Zenon
    <2>. HIDE DEF Doubles
    <2> QED BY <1>4, <2>1
  <1>6. /\ cap[0] = first1
        /\ \A k \in Nat \ {0} : cap[k] = 2 * cap[k - 1]
    <2>1. ASSUME NEW k \in Nat
          PROVE cap[k] = IF k = 0 THEN first1 ELSE 2 * cap[k - 1]
      BY <1>5
    <2> QED BY <2>1
  <1>. DEFINE T == {k \in Nat : ~(cap[k] \in Nat /\ cap[k] >= k + 1)}
  <1>7. T = {}
    <2>1. SUFFICES ASSUME T # {} PROVE FALSE
      OBVIOUS
    <2>2. PICK k \in T : \A j \in T : k <= j
      <3>1. T \subseteq Nat
        OBVIOUS
      <3> QED BY <2>1, <3>1, LeastNat
    <2>3. k # 0
      BY <1>6, <2>2
    <2>4. k \in Nat \ {0} /\ k - 1 \in Nat /\ cap[k - 1] \in Nat /\ cap[k - 1] >= k
      <3>1. k - 1 \in Nat /\ k - 1 \notin T
        BY <2>2, <2>3
      <3> QED BY <2>2, <2>3, <3>1
    <2>5. cap[k] = 2 * cap[k - 1]
      BY <1>6, <2>4
    <2> QED BY <2>2, <2>4, <2>5
  <1>8. \A k \in Nat : cap[k] \in Nat /\ cap[k] >= k + 1
    BY <1>7, Zenon
  <1>. DEFINE S == {k \in 0 .. n : cap[k] >= n}
  <1>9. S \subseteq Nat /\ n \in S
    BY <1>8
  <1>10. Min(S) \in S
    <2>. HIDE DEF S
    <2> QED BY <1>9, MinIs
  <1> QED BY <1>8, <1>9, <1>10

(* What the steps over chains and heaps make                               *)
Piled(x, m) ==
  /\ x = [q |-> x.q, ticks |-> x.ticks]
  /\ IsSeq(x.q) /\ Len(x.q) = m /\ x.ticks \in Int

Sinking(x, m) ==
  /\ x = [q |-> x.q, ticks |-> x.ticks, root |-> x.root]
  /\ IsSeq(x.q) /\ Len(x.q) = m /\ x.ticks \in Int

Stays(p, x) ==
  /\ p.of \in {"walk", "closings"} => IsSeq(x)
  /\ p.of = "sift" => Sinking(x, p.m)
  /\ p.of \in {"heap", "sort"} => Piled(x, p.m)

LEMMA StepsStay ==
  ASSUME NEW p, NEW d, Stays(p, d), NEW n \in Nat, NEW h, Leads(h, n, p, d),
         \A k \in 1 .. n : \A x : Stays(p, x) => Stays(p, StepOf(p, k, x))
  PROVE  Stays(p, h[n])
  <1>. DEFINE T == {k \in 0 .. n : ~Stays(p, h[k])}
  <1>1. h[0] = d /\ \A k \in 1 .. n : h[k] = StepOf(p, k, h[k - 1])
    BY LeadsAt
  <1>2. T = {}
    <2>1. SUFFICES ASSUME T # {} PROVE FALSE
      OBVIOUS
    <2>2. PICK k \in T : \A j \in T : k <= j
      <3>1. T \subseteq Nat
        OBVIOUS
      <3> QED BY <2>1, <3>1, LeastNat
    <2>3. k # 0
      BY <1>1, <2>2
    <2>4. k \in 1 .. n /\ k - 1 \in 0 .. n /\ Stays(p, h[k - 1])
      BY <2>2, <2>3
    <2>5. h[k] = StepOf(p, k, h[k - 1])
      BY <1>1, <2>4
    <2> QED BY <2>2, <2>4, <2>5
  <1>3. \A k \in 0 .. n : Stays(p, h[k])
    BY <1>2, Zenon
  <1>4. n \in 0 .. n
    OBVIOUS
  <1> QED BY <1>3, <1>4, Zenon

LEMMA SwappedIs ==
  ASSUME NEW q, IsSeq(q), NEW i, NEW j
  PROVE  IsSeq(Swapped(q, i, j)) /\ Len(Swapped(q, i, j)) = Len(q)
  <1>. DEFINE w == [q EXCEPT ![i] = q[j]]
              z == [w EXCEPT ![j] = q[i]]
              n == Len(q)
  <1>1. n \in Nat /\ DOMAIN q = 1 .. n
    BY AnySeq DEF IsSeq
  <1>2. z = [k \in 1 .. n |-> z[k]]
    BY <1>1
  <1>3. Swapped(q, i, j) = z
    BY DEF Swapped
  <1>. HIDE DEF z
  <1>4. IsSeq(z) /\ Len(z) = n
    BY <1>1, <1>2, Indexed
  <1> QED BY <1>3, <1>4

LEMMA SunkStays ==
  ASSUME NEW x, NEW m, Sinking(x, m), NEW n
  PROVE  Sinking(Sunk(x, n), m)
  <1>. DEFINE left == 2 * x.root + 1
              child == IF left + 1 < n /\ x.q[left + 1].order < x.q[left + 1 + 1].order
                       THEN left + 1 ELSE left
              t == x.ticks + 1
              w == Swapped(x.q, x.root + 1, child + 1)
              y == Sunk(x, n)
  <1>1. \/ y = x
        \/ y = [[x EXCEPT !.ticks = t] EXCEPT !.root = n]
        \/ y = [[x EXCEPT !.ticks = t] EXCEPT !.q = w, !.root = child]
    BY DEF Sunk, Sinking
  <1>2. IsSeq(w) /\ Len(w) = m
    <2>. HIDE DEF child
    <2> QED BY SwappedIs DEF Sinking
  <1>3. t \in Int
    BY DEF Sinking
  <1>. HIDE DEF child, t, w
  <1>4. \/ y = [q |-> x.q, ticks |-> t, root |-> n]
        \/ y = [q |-> w, ticks |-> t, root |-> child]
        \/ y = x
    BY <1>1 DEF Sinking
  <1>. HIDE DEF y
  <1>5. Sinking(y, m)
    BY <1>2, <1>3, <1>4 DEF Sinking
  <1> QED BY <1>5 DEF y

LEMMA SiftStays ==
  ASSUME NEW h, NEW m, IsSeq(h.q), Len(h.q) = m, h.ticks \in Int, NEW n \in Nat, NEW root
  PROVE  Piled(Sift(h, n, root), m)
  <1>. DEFINE d == [q |-> h.q, ticks |-> h.ticks, root |-> root]
              p == [of |-> "sift", n |-> n, m |-> m]
              Sinks(f) == f = [k \in 0 .. n |-> IF k = 0 THEN d ELSE Sunk(f[k - 1], n)]
              after == CHOOSE f : Sinks(f)
  <1>1. \A k, x : StepOf(p, k, x) = Sunk(x, n)
    BY DEF StepOf
  <1>2. p.of = "sift" /\ p.m = m
    OBVIOUS
  <1>3. Sift(h, n, root) = [q |-> after[n].q, ticks |-> after[n].ticks]
    BY DEF Sift
  <1>4. Sinking(d, m)
    BY DEF Sinking
  <1>. HIDE DEF d, p
  <1>5. \A f : Sinks(f) <=> Leads(f, n, p, d)
    BY <1>1 DEF Leads
  <1>6. Leads(after, n, p, d)
    <2>1. \E f : Sinks(f)
      BY <1>5, LeadsExist
    <2>. HIDE DEF Sinks
    <2> QED BY <1>5, <2>1
  <1>. HIDE DEF after
  <1>7. \A x : Stays(p, x) <=> Sinking(x, m)
    BY <1>2 DEF Stays
  <1>8. \A k \in 1 .. n : \A x : Stays(p, x) => Stays(p, StepOf(p, k, x))
    BY <1>1, <1>7, SunkStays
  <1>9. Sinking(after[n], m)
    BY <1>4, <1>6, <1>7, <1>8, StepsStay
  <1> QED BY <1>3, <1>9 DEF Sinking, Piled

LEMMA SortedStays ==
  ASSUME NEW q, IsSeq(q)
  PROVE  Piled(Sorted(q), Len(q))
  <1>. DEFINE n == Len(q)
              half == n \div 2
              d == [q |-> q, ticks |-> 0]
              Heaps(f) == f = [k \in 0 .. half |->
                                 IF k = 0 THEN d ELSE Sift(f[k - 1], n, half - k)]
              heaped == CHOOSE f : Heaps(f)
              e == heaped[half]
              Sorts(f) == f = [k \in 0 .. n |->
                                 IF k = 0 THEN e
                                 ELSE IF k = n THEN f[n - 1]
                                 ELSE Sift([f[k - 1] EXCEPT !.q = Swapped(@, 1, n - k + 1)],
                                           n - k, 0)]
              sorted == CHOOSE f : Sorts(f)
              p == [of |-> "heap", n |-> n, m |-> n, half |-> half]
              s == [of |-> "sort", n |-> n, m |-> n]
  <1>1. Sorted(q) = sorted[n]
    BY DEF Sorted
  <1>2. n \in Nat /\ half \in Nat
    BY DEF IsSeq
  <1>3. Piled(d, n)
    BY DEF Piled
  <1>4. /\ \A k, x : StepOf(p, k, x) = Sift(x, n, half - k)
        /\ \A x : Stays(p, x) <=> Piled(x, n)
    BY DEF StepOf, Stays
  <1>5. /\ \A k, x : StepOf(s, k, x) =
                       IF k = n THEN x
                       ELSE Sift([x EXCEPT !.q = Swapped(@, 1, n - k + 1)], n - k, 0)
        /\ \A x : Stays(s, x) <=> Piled(x, n)
    BY DEF StepOf, Stays
  <1>. HIDE DEF d, half, p
  <1>6. Leads(heaped, half, p, d)
    <2>1. \A f : Heaps(f) <=> Leads(f, half, p, d)
      BY <1>4 DEF Leads
    <2>2. \E f : Heaps(f)
      BY <1>2, <2>1, LeadsExist
    <2>. HIDE DEF Heaps
    <2> QED BY <2>1, <2>2
  <1>. HIDE DEF heaped
  <1>7. Piled(e, n)
    <2>1. \A x : Piled(x, n) => \A k : Piled(Sift(x, n, half - k), n)
      <3>. HIDE DEF n
      <3>1. \A x : Piled(x, n) => IsSeq(x.q) /\ Len(x.q) = n /\ x.ticks \in Int
        BY DEF Piled
      <3> QED BY <1>2, <3>1, SiftStays
    <2>. HIDE DEF n
    <2> QED BY <1>2, <1>3, <1>4, <1>6, <2>1, StepsStay
  <1>. HIDE DEF e, s
  <1>8. Leads(sorted, n, s, e)
    <2>1. \A f : Sorts(f) <=> Leads(f, n, s, e)
      <3>1. ASSUME NEW f, NEW k \in 0 .. n, k # 0
            PROVE  StepOf(s, k, f[k - 1])
                   = IF k = n THEN f[n - 1]
                     ELSE Sift([f[k - 1] EXCEPT !.q = Swapped(@, 1, n - k + 1)], n - k, 0)
        BY <1>5, <3>1
      <3>. HIDE DEF n
      <3> QED BY <3>1 DEF Leads
    <2>2. \E f : Sorts(f)
      BY <1>2, <2>1, LeadsExist
    <2>. HIDE DEF Sorts
    <2> QED BY <2>1, <2>2
  <1>. HIDE DEF sorted
  <1>9. ASSUME NEW k \in 1 .. n, NEW x, Piled(x, n), k # n
        PROVE  Piled(Sift([x EXCEPT !.q = Swapped(@, 1, n - k + 1)], n - k, 0), n)
    <2>. DEFINE w == Swapped(x.q, 1, n - k + 1)
                y == [x EXCEPT !.q = w]
    <2>1. IsSeq(w) /\ Len(w) = n
      <3>. HIDE DEF n
      <3> QED BY <1>9, SwappedIs DEF Piled
    <2>. HIDE DEF w
    <2>2. y.q = w /\ y.ticks = x.ticks /\ x.ticks \in Int
      BY <1>9 DEF Piled
    <2>3. n - k \in Nat
      BY <1>2, <1>9
    <2>. HIDE DEF y, n
    <2>4. Piled(Sift(y, n - k, 0), n)
      BY <2>1, <2>2, <2>3, SiftStays
    <2> QED BY <2>4 DEF y, w
  <1>10. ASSUME NEW k \in 1 .. n, NEW x, Stays(s, x)
         PROVE  Stays(s, StepOf(s, k, x))
    <2>1. Piled(x, n)
      BY <1>5, <1>10
    <2>2. Piled(StepOf(s, k, x), n)
      <3>1. CASE k = n
        <4>1. StepOf(s, k, x) = x
          BY <1>5, <3>1
        <4> QED BY <2>1, <4>1
      <3>2. CASE k # n
        <4>. DEFINE y == Sift([x EXCEPT !.q = Swapped(@, 1, n - k + 1)], n - k, 0)
        <4>1. StepOf(s, k, x) = y
          BY <1>5, <3>2
        <4>2. Piled(y, n)
          BY <1>9, <2>1, <3>2
        <4>. HIDE DEF y
        <4> QED BY <4>1, <4>2
      <3> QED BY <3>1, <3>2
    <2> QED BY <1>5, <2>2
  <1>11. Stays(s, sorted[n])
    <2>. HIDE DEF n
    <2> QED BY <1>2, <1>5, <1>7, <1>8, <1>10, StepsStay
  <1> QED BY <1>1, <1>5, <1>11

(* What a recursion over the natural numbers leads to                      *)
LEMMA RunsLead ==
  ASSUME NEW f, NEW p, NEW d, Runs(f, p, d), NEW n \in Nat
  PROVE  Leads([k \in 0 .. n |-> f[k]], n, p, d)
  <1>. DEFINE h == [k \in 0 .. n |-> f[k]]
  <1>1. ASSUME NEW k \in 0 .. n
        PROVE  h[k] = IF k = 0 THEN d ELSE StepOf(p, k, h[k - 1])
    <2>1. f[k] = IF k = 0 THEN d ELSE StepOf(p, k, f[k - 1])
      BY DEF Runs
    <2>2. CASE k # 0
      <3>1. k - 1 \in 0 .. n
        BY <2>2
      <3> QED BY <2>1, <2>2, <3>1
    <2> QED BY <2>1, <2>2
  <1> QED BY <1>1 DEF Leads

LEMMA ChainIsSeq ==
  ASSUME NEW r, Len(r.history) \in Nat, NEW id
  PROVE  IsSeq(Chain(r, id))
  <1>. DEFINE p == [of |-> "walk", r |-> r, id |-> id]
              n == Len(r.history)
              Walks(f) == f = [k \in Nat |-> IF k = 0 THEN <<>> ELSE Onward(r, id, f[k - 1])]
              walk == CHOOSE f : Walks(f)
              h == [k \in 0 .. n |-> walk[k]]
  <1>1. Chain(r, id) = walk[n]
    BY DEF Chain
  <1>2. /\ \A k, x : StepOf(p, k, x) = Onward(r, id, x)
        /\ \A x : Stays(p, x) <=> IsSeq(x)
    BY DEF StepOf, Stays
  <1>. HIDE DEF p
  <1>3. Runs(walk, p, <<>>)
    <2>1. \A f : Walks(f) <=> Runs(f, p, <<>>)
      BY <1>2 DEF Runs
    <2>2. \E f : Walks(f)
      BY <2>1, StepsExist
    <2>. HIDE DEF Walks
    <2> QED BY <2>1, <2>2
  <1>. HIDE DEF walk, n
  <1>4. Leads(h, n, p, <<>>) /\ h[n] = walk[n] /\ n \in Nat
    BY <1>3, RunsLead DEF n
  <1>. HIDE DEF h
  <1>5. ASSUME NEW k \in 1 .. n, NEW x, Stays(p, x)
        PROVE  Stays(p, StepOf(p, k, x))
    <2>1. IsSeq(x)
      BY <1>2, <1>5
    <2>2. IsSeq(Onward(r, id, x))
      BY <2>1, Appended DEF Onward
    <2> QED BY <1>2, <2>2
  <1>6. Stays(p, <<>>)
    BY <1>2, EmptySequence
  <1>7. Stays(p, h[n])
    BY <1>4, <1>5, <1>6, StepsStay
  <1> QED BY <1>1, <1>2, <1>4, <1>7

LEMMA ScopesIsSeq ==
  ASSUME NEW r, Len(r.history) \in Nat, NEW id
  PROVE  IsSeq(Scopes(r, id))
  <1>. DEFINE chain == Chain(r, id)
              p == [of |-> "closings", r |-> r, chain |-> chain]
              n == Len(chain)
              Fills(f) == f = [k \in 0 .. n |->
                                 IF k = 0 THEN <<>>
                                 ELSE IF Node(r, chain[k]).kind = 1
                                      THEN Append(f[k - 1], chain[k]) ELSE f[k - 1]]
              upto == CHOOSE f : Fills(f)
              z == upto[n]
              Scope(k) == LET m == Node(r, z[k])
                              o == Node(r, m.open)
                          IN [order |-> o.order, key |-> o.key, length |-> m.pos - o.pos]
              w == [k \in DOMAIN z |-> Scope(k)]
  <1>1. Scopes(r, id) = w
    BY DEF Scopes, Closings
  <1>2. /\ \A k, x : StepOf(p, k, x) =
                       IF Node(r, chain[k]).kind = 1 THEN Append(x, chain[k]) ELSE x
        /\ \A x : Stays(p, x) <=> IsSeq(x)
    BY DEF StepOf, Stays
  <1>3. n \in Nat
    BY ChainIsSeq DEF IsSeq
  <1>. HIDE DEF p, chain
  <1>4. Leads(upto, n, p, <<>>)
    <2>1. \A f : Fills(f) <=> Leads(f, n, p, <<>>)
      BY <1>2 DEF Leads
    <2>2. \E f : Fills(f)
      BY <1>3, <2>1, LeadsExist
    <2>. HIDE DEF Fills
    <2> QED BY <2>1, <2>2
  <1>. HIDE DEF upto, n
  <1>5. ASSUME NEW k \in 1 .. n, NEW x, Stays(p, x)
        PROVE  Stays(p, StepOf(p, k, x))
    <2>1. IsSeq(x)
      BY <1>2, <1>5
    <2>2. IsSeq(Append(x, chain[k]))
      BY <2>1, Appended
    <2>3. StepOf(p, k, x) \in {x, Append(x, chain[k])}
      BY <1>2
    <2>4. IsSeq(StepOf(p, k, x))
      BY <2>1, <2>2, <2>3
    <2> QED BY <1>2, <2>4
  <1>6. Stays(p, <<>>)
    BY <1>2, EmptySequence
  <1>7. IsSeq(z)
    BY <1>2, <1>3, <1>4, <1>5, <1>6, StepsStay
  <1>. HIDE DEF z, Scope
  <1>8. DOMAIN z = 1 .. Len(z) /\ Len(z) \in Nat
    BY <1>7, AnySeq DEF IsSeq
  <1>9. w = [k \in 1 .. Len(z) |-> w[k]]
    BY <1>8
  <1>. HIDE DEF w
  <1>10. IsSeq(w)
    BY <1>8, <1>9, Indexed
  <1> QED BY <1>1, <1>10

LEMMA ComparedIs ==
  ASSUME NEW p, IsSeq(p), NEW q, IsSeq(q)
  PROVE  Compared(p, q) \in Int
  <1>1. /\ Len(p) \in Nat /\ Len(q) \in Nat
        /\ DOMAIN p = 1 .. Len(p) /\ DOMAIN q = 1 .. Len(q)
    BY AnySeq DEF IsSeq
  <1>2. Differ(p, q) \subseteq Nat
    BY <1>1 DEF Differ
  <1>3. {Len(p), Len(q)} \subseteq Nat /\ {Len(p), Len(q)} # {}
    BY <1>1
  <1>4. Min({Len(p), Len(q)}) \in Nat
    BY <1>3, MinIs
  <1>5. Differ(p, q) # {} => Min(Differ(p, q)) \in Nat
    BY <1>2, MinIs
  <1> QED BY <1>4, <1>5 DEF Compared

LEMMA ReservePrioritiesSound ==
  ASSUME NEW r, NEW l, NEW base, Sound(r, l, base), Ok(r), NEW n \in Nat, NEW fails
  PROVE  Sound(ReservePriorities(r, n, fails), l, base)
  <1>. DEFINE old == r.priority_capacity
              first1 == IF old = 0 THEN InitialPriorities ELSE old
              cap == CHOOSE f : f = [k \in Nat |-> IF k = 0 THEN first1 ELSE 2 * f[k - 1]]
              most == cap[Min({k \in 0 .. n : cap[k] >= n})]
              g == Grow(r, "priorities", old, most, PriorityBytes, fails)
              d == [g EXCEPT !.priority_capacity = most]
              v == ReservePriorities(r, n, fails)
  <1>1. \/ v = r \/ v = Failed(r, "LIMIT") \/ (~Ok(g) /\ v = g) \/ (Ok(g) /\ v = d)
    BY DEF ReservePriorities
  <1>2. old \in Nat /\ first1 \in Nat \ {0} /\ PriorityBytes \in Nat
    BY HistoryAssumption DEF Sound, Balanced
  <1>3. most \in Nat
    <2>. HIDE DEF first1
    <2> QED BY <1>2, Doubled
  <1>. HIDE DEF most, v
  <1>4. (~Ok(g) /\ Sound(g, l, base)) \/ Paid(r, g, l, old, most, PriorityBytes)
    BY <1>2, <1>3, GrowPays
  <1>. HIDE DEF g
  <1>5. CASE Ok(g) /\ v = d
    <2>1. Paid(r, g, l, old, most, PriorityBytes)
      BY <1>4, <1>5
    <2>2. Resized(r, g, l, old, most, PriorityBytes, d)
      BY DEF Resized
    <2>. HIDE DEF d, old
    <2>3. Sound(d, l, base)
      BY <1>3, <2>1, <2>2, ResizedSound
    <2> QED BY <1>5, <2>3 DEF v
  <1>6. CASE ~Ok(g) /\ v = g
    BY <1>4, <1>6 DEF Paid, v
  <1>7. CASE v = r \/ v = Failed(r, "LIMIT")
    BY <1>7, FailedSound DEF v
  <1> QED BY <1>1, <1>5, <1>6, <1>7, SMTT(30)

LEMMA BetterSound ==
  ASSUME NEW r, NEW l, NEW base, Sound(r, l, base), NEW id, NEW other, NEW fails
  PROVE  Sound(Better(r, id, other, fails)[1], l, base)
  <1>. DEFINE walk == Len(Chain(r, id)) + Len(Chain(r, other))
              t == Tick(r, walk)
              left == Scopes(r, id)
              right == Scopes(r, other)
              most == Max({Len(left), Len(right)})
              v == ReservePriorities(t, most, fails)
              p == Sorted(left)
              q == Sorted(right)
              m == walk + p.ticks + q.ticks + Compared(p.q, q.q)
              u == Tick(v, m)
              x == Contest(t, left, right, walk, fails)
  <1>1. Better(r, id, other, fails) = x
    BY DEF Better
  <1>2. Len(r.history) \in Nat
    BY DEF Sound, Balanced, IsSeq
  <1>3. walk \in Int
    BY <1>2, ChainIsSeq DEF IsSeq
  <1>4. IsSeq(left) /\ IsSeq(right) /\ Len(left) \in Nat /\ Len(right) \in Nat
    BY <1>2, ScopesIsSeq DEF IsSeq
  <1>. HIDE DEF walk, left, right
  <1>5. Sound(t, l, base)
    BY <1>3, TickSound
  <1>6. most \in Nat
    <2>1. \A a, b \in Nat : Max({a, b}) \in Nat
      BY DEF Max
    <2> QED BY <1>4, <2>1
  <1>7. IsSeq(p.q) /\ IsSeq(q.q) /\ p.ticks \in Int /\ q.ticks \in Int
    BY <1>4, SortedStays DEF Piled
  <1>. HIDE DEF p, q, t, most
  <1>8. m \in Int
    <2>1. Compared(p.q, q.q) \in Int
      BY <1>7, ComparedIs
    <2> QED BY <1>3, <1>7, <2>1
  <1>9. \/ x = <<t, FALSE>>
        \/ Ok(t) /\ x = <<v, FALSE>>
        \/ Ok(t) /\ x = <<u, Ok(u) /\ Precedes(p.q, q.q)>>
    BY DEF Contest, Decided, p, q, most
  <1>. HIDE DEF m
  <1>10. Ok(t) => Sound(v, l, base)
    BY <1>5, <1>6, ReservePrioritiesSound
  <1>. HIDE DEF v
  <1>11. Ok(t) => Sound(u, l, base)
    BY <1>8, <1>10, TickSound
  <1>. HIDE DEF u, x
  <1>12. x[1] = t \/ (Ok(t) /\ x[1] = v) \/ (Ok(t) /\ x[1] = u)
    <2>. DEFINE won == Ok(u) /\ Precedes(p.q, q.q)
    <2>1. CASE x = <<t, FALSE>>
      BY <2>1
    <2>2. CASE Ok(t) /\ x = <<v, FALSE>>
      BY <2>2
    <2>3. CASE Ok(t) /\ x = <<u, won>>
      <3>. HIDE DEF won
      <3> QED BY <2>3
    <2> QED BY <1>9, <2>1, <2>2, <2>3
  <1> QED BY <1>1, <1>5, <1>10, <1>11, <1>12

(* The latest state to come back to is taken off the stack.                *)
LEMMA FrontSound ==
  ASSUME NEW r, NEW l, NEW base, Sound(r, l, base), r.stack # <<>>
  PROVE  Sound([r EXCEPT !.stack = Front(@)], l, base) /\ SpanOK(Last(r.stack))
  <1>. DEFINE h == Front(r.stack)
              n == Len(r.stack)
              d == [r EXCEPT !.stack = h]
  <1>1. /\ Balanced(r, l, base) /\ IsRun(r) /\ IsSeq(r.stack) /\ n \in Nat
        /\ n <= r.capacity /\ r.capacity \in Nat
    BY DEF Sound, Balanced, IsSeq
  <1>2. /\ IsSeq(h) /\ n >= 1 /\ Len(h) = n - 1
        /\ \A k \in 1 .. n - 1 : h[k] = r.stack[k]
        /\ Last(r.stack) = r.stack[n]
    BY <1>1, Fronted
  <1>3. SpanOK(Last(r.stack))
    BY <1>1, <1>2 DEF Sound, Elements
  <1>. HIDE DEF h
  <1>4. /\ IsRun(d) /\ d.stack = h /\ d.units = r.units /\ d.history = r.history
        /\ d.limits = r.limits /\ d.used = r.used /\ d.steps = r.steps
        /\ d.capacity = r.capacity /\ d.history_capacity = r.history_capacity
        /\ d.priority_capacity = r.priority_capacity
    BY <1>1 DEF IsRun
  <1>. HIDE DEF d
  <1>5. Blocks(d) = Blocks(r)
    BY <1>4, SameBlocks
  <1>6. Len(d.stack) <= d.capacity
    BY <1>1, <1>2, <1>4
  <1>7. Balanced(d, l, base)
    BY <1>1, <1>2, <1>4, <1>5, <1>6 DEF Balanced
  <1>8. \A s \in Elements(h) : SpanOK(s)
    <2>1. \A k \in 1 .. n - 1 : k \in 1 .. n
      BY <1>1
    <2>2. Elements(h) \subseteq Elements(r.stack)
      BY <1>2, <2>1 DEF Elements
    <2> QED BY <2>2 DEF Sound
  <1>9. Sound(d, l, base)
    BY <1>4, <1>7, <1>8 DEF Sound
  <1> QED BY <1>3, <1>9 DEF d, h

-----------------------------------------------------------------------------
LEMMA WidthIs ==
  ASSUME NEW input, Len(input) \in Nat,
         \A k \in 1 .. Len(input) : input[k].width \in Nat,
         NEW n \in 0 .. Len(input)
  PROVE  WidthUpTo(input, n) \in Nat
  <1>. DEFINE Sums(f) == f = [k \in 0 .. n |-> IF k = 0 THEN 0
                                               ELSE f[k - 1] + input[k].width]
              sum == CHOOSE f : Sums(f)
              g == [p \in Nat \X Nat |-> IF p[1] \in 1 .. n THEN p[2] + input[p[1]].width
                                         ELSE 0]
  <1>1. WidthUpTo(input, n) = sum[n]
    BY DEF WidthUpTo
  <1>2. g \in [Nat \X Nat -> Nat]
    OBVIOUS
  <1>3. PICK f \in [0 .. n -> Nat] : Recursion(f, 0 .. n, 0, g)
    <2>. HIDE DEF g
    <2>1. n \in Nat /\ 0 \in Nat
      OBVIOUS
    <2> QED BY <1>2, <2>1, RecursionUpTo
  <1>4. Sums(f)
    <2>1. ASSUME NEW k \in 0 .. n
          PROVE  f[k] = IF k = 0 THEN 0 ELSE f[k - 1] + input[k].width
      <3>1. f[k] = IF k = 0 THEN 0 ELSE g[<<k, f[k - 1]>>]
        BY <1>3 DEF Recursion
      <3>2. CASE k # 0
        <4>1. k \in 1 .. n /\ k \in Nat /\ f[k - 1] \in Nat
          BY <1>3, <3>2
        <4>2. g[<<k, f[k - 1]>>] = f[k - 1] + input[k].width
          BY <4>1
        <4> QED BY <3>1, <3>2, <4>2
      <3> QED BY <3>1, <3>2, SMTT(30)
    <2>2. f = [k \in 0 .. n |-> f[k]]
      BY <1>3
    <2> QED BY <2>1, <2>2
  <1>5. Sums(sum)
    <2>1. \E h : Sums(h)
      BY <1>4
    <2>. HIDE DEF Sums
    <2> QED BY <2>1
  <1>. HIDE DEF sum
  <1>6. \A k \in 0 .. n : sum[k] \in Nat
    <2>. DEFINE T == {k \in 0 .. n : sum[k] \notin Nat}
    <2>1. \A k \in 0 .. n : sum[k] = IF k = 0 THEN 0 ELSE sum[k - 1] + input[k].width
      BY <1>5
    <2>2. T = {}
      <3>1. SUFFICES ASSUME T # {} PROVE FALSE
        OBVIOUS
      <3>2. PICK k \in T : \A j \in T : k <= j
        <4>1. T \subseteq Nat
          OBVIOUS
        <4> QED BY <3>1, <4>1, LeastNat
      <3>3. k # 0
        BY <2>1, <3>2
      <3>4. k \in 1 .. n /\ k - 1 \in 0 .. n /\ sum[k - 1] \in Nat
        BY <3>2, <3>3
      <3>5. sum[k] = sum[k - 1] + input[k].width
        BY <2>1, <3>3, <3>4
      <3> QED BY <3>2, <3>4, <3>5, SMTT(30)
    <2> QED BY <2>2, Zenon
  <1>7. n \in 0 .. n
    OBVIOUS
  <1> QED BY <1>1, <1>6, <1>7

-----------------------------------------------------------------------------
(* The inductive invariant of the executor                                 *)
Base == BaseBytes + Decoded

CallOK ==
  /\ CodeOK(program.code) /\ limits \in [DOMAIN Ceilings -> Nat]
  /\ Len(call.input) \in Nat
  /\ \A k \in 1 .. Len(call.input) : call.input[k].width \in Nat

ExecInv ==
  /\ Places /\ candidate \in Nat
  /\ pc # "idle" => CallOK
  /\ pc = "enter" => run = FreshRun(limits)
  /\ pc \notin {"idle", "done"} => SpanOK(current) /\ SpanOK(best)
  /\ pc \notin {"idle", "enter", "done"} => Sound(run, limits, Base)

LEMMA SameCall ==
  ASSUME UNCHANGED call
  PROVE  limits' = limits /\ Base' = Base /\ CallOK' = CallOK
  BY DEF limits, Base, CallOK, program, Decoded, bytes, BytesUpTo

LEMMA GoesSound ==
  ASSUME ExecInv, pc # "idle", UNCHANGED call,
         pc' \in {"decode", "step", "ended", "cleanup", "release"}, candidate' \in Nat,
         SpanOK(current'), SpanOK(best'), Sound(run', limits, Base)
  PROVE  ExecInv'
  <1>1. limits' = limits /\ Base' = Base /\ CallOK'
    BY SameCall DEF ExecInv
  <1>2. Places'
    BY DEF Places
  <1>3. Sound(run, limits, Base)' = Sound(run', limits, Base)
    BY <1>1 DEF Sound, Balanced, Blocks
  <1>4. SpanOK(current)' = SpanOK(current') /\ SpanOK(best)' = SpanOK(best')
    BY DEF SpanOK
  <1> QED BY <1>1, <1>2, <1>3, <1>4 DEF ExecInv

(* What a step starts with                                                 *)
LEMMA Working ==
  ASSUME ExecInv, pc \in {"decode", "step", "ended", "cleanup", "release"}
  PROVE  /\ Sound(run, limits, Base) /\ SpanOK(current) /\ SpanOK(best)
         /\ CallOK /\ candidate \in Nat /\ IsState(current) /\ IsRun(run)
  BY DEF ExecInv, Sound, Balanced, SpanOK

LEMMA AbandonExec ==
  ASSUME ExecInv, pc \in {"decode", "step", "ended"},
         NEW r, Sound(r, limits, Base), Abandon(r)
  PROVE  ExecInv'
  BY Working, GoesSound DEF Abandon

LEMMA ContinueExec ==
  ASSUME ExecInv, pc = "step", NEW r, Sound(r, limits, Base), NEW s, SpanOK(s),
         Continue(r, s)
  PROVE  ExecInv'
  BY Working, GoesSound DEF Continue

LEMMA BacktrackExec ==
  ASSUME ExecInv, pc = "step", NEW r, Sound(r, limits, Base), Backtrack(r),
         SpanOK(best')
  PROVE  ExecInv'
  <1>. DEFINE d == Drop(r, current.history)
              b == [current EXCEPT !.history = NONE]
              f == [d EXCEPT !.stack = Front(@)]
  <1>1. Sound(d, limits, Base) /\ SpanOK(current) /\ IsState(current) /\ candidate \in Nat
    BY DropSound, Working
  <1>2. SpanOK(b)
    BY <1>1, AlikeParts, AlikeOK
  <1>3. /\ UNCHANGED <<call, candidate>>
        /\ \/ d.stack = <<>> /\ pc' = "ended" /\ run' = d /\ current' = b
           \/ d.stack # <<>> /\ pc' = "step" /\ run' = f /\ current' = Last(d.stack)
    BY DEF Backtrack
  <1>. HIDE DEF d, b
  <1>4. d.stack # <<>> => Sound(f, limits, Base) /\ SpanOK(Last(d.stack))
    BY <1>1, FrontSound
  <1>. HIDE DEF f
  <1> QED BY <1>1, <1>2, <1>3, <1>4, GoesSound

(* A question asks of a compiled source.                                   *)
LEMMA CallExec ==
  ASSUME ExecInv, NEW p, CodeOK(p.code), NEW s \in Sources, NEW q \in Questions(s),
         Call(Asked(p, q))
  PROVE  ExecInv'
  <1>1. /\ pc' = "enter" /\ call' = Asked(p, q) /\ candidate' = candidate
        /\ run' = FreshRun(call'.limits)
        /\ current' = FreshState(p, 0) /\ best' = FreshState(p, 0)
    BY DEF Call, Asked
  <1>2. SpanOK(FreshState(p, 0))
    BY FreshOK
  <1>3. /\ q.limits \in [DOMAIN Ceilings -> Nat] /\ Len(q.input) \in Nat
        /\ \A k \in 1 .. Len(q.input) : q.input[k].width \in Nat
    BY QuestionsAssumption
  <1>4. /\ call'.program = p /\ call'.limits = q.limits /\ call'.input = q.input
    BY <1>1 DEF Asked
  <1>5. CallOK'
    BY <1>3, <1>4 DEF CallOK, program, limits
  <1>6. limits' = call'.limits
    BY DEF limits
  <1>7. SpanOK(current)' = SpanOK(current') /\ SpanOK(best)' = SpanOK(best')
    BY DEF SpanOK
  <1> QED BY <1>1, <1>2, <1>5, <1>6, <1>7 DEF ExecInv, Places

LEMMA DecodedIs ==
  ASSUME CallOK
  PROVE  Decoded \in Nat /\ Base \in Nat
         /\ \A k \in 0 .. Len(call.input) : BytesUpTo(k) \in Nat
  <1>1. \A k \in 0 .. Len(call.input) : BytesUpTo(k) \in Nat
    BY WidthIs DEF CallOK, BytesUpTo
  <1>2. bytes + 1 \in Nat
    BY <1>1 DEF CallOK, bytes
  <1>3. UnitBytes \in Nat /\ BaseBytes \in Nat
    BY ExecAssumption
  <1>4. \A a, b \in Nat : a * b \in Nat
    OBVIOUS
  <1>5. Decoded \in Nat
    BY <1>2, <1>3, <1>4 DEF Decoded
  <1> QED BY <1>1, <1>3, <1>5 DEF Base

LEMMA FramesValid ==
  ASSUME NEW l \in [DOMAIN Ceilings -> Nat], Valid(l)
  PROVE  /\ l.max_frames \in Nat \ {0}
         /\ l.max_workspace_bytes \in Nat /\ l.max_steps \in Nat
  <1>1. /\ "max_frames" \in DOMAIN Ceilings /\ "max_workspace_bytes" \in DOMAIN Ceilings
        /\ "max_steps" \in DOMAIN Ceilings
    BY DEF Ceilings
  <1>2. l.max_frames \in Nat /\ l.max_workspace_bytes \in Nat /\ l.max_steps \in Nat
    BY <1>1
  <1>3. l.max_frames # 0
    BY <1>1 DEF Valid, LimitsStatus
  <1> QED BY <1>2, <1>3

LEMMA AllocExec ==
  ASSUME ExecInv, Allocate
  PROVE  ExecInv'
  <1>. DEFINE u == run.used + Decoded
              r == FreshRun(limits)
              d == [r EXCEPT !.used = u]
  <1>1. /\ pc = "enter" /\ CallOK /\ run = r /\ SpanOK(current) /\ SpanOK(best)
        /\ candidate \in Nat
    BY DEF ExecInv, Allocate, Accepted
  <1>2. /\ pc' = "decode" /\ run' = [run EXCEPT !.used = u]
        /\ UNCHANGED <<call, current, best, candidate>> /\ WithinSizes
        /\ Valid(limits)
    BY DEF Allocate, Accepted, Valid
  <1>3. Decoded \in Nat /\ Base \in Nat
    BY <1>1, DecodedIs
  <1>4. /\ limits.max_frames \in Nat \ {0} /\ limits.max_workspace_bytes \in Nat
        /\ limits.max_steps \in Nat
    <2>1. limits \in [DOMAIN Ceilings -> Nat] /\ Valid(limits)
      BY <1>1, <1>2 DEF CallOK
    <2> QED BY <2>1, FramesValid
  <1>5. Base <= limits.max_workspace_bytes
    BY <1>2 DEF WithinSizes, Base
  <1>6. /\ IsRun(r) /\ r.used = BaseBytes /\ r.limits = limits /\ r.steps = 0
        /\ r.stack = <<>> /\ r.history = <<>> /\ r.units = <<>>
        /\ r.capacity = 0 /\ r.history_capacity = 0 /\ r.priority_capacity = 0
    BY DEF FreshRun, IsRun
  <1>7. u = Base
    BY <1>1, <1>6 DEF Base
  <1>. HIDE DEF r, u
  <1>8. /\ IsRun(d) /\ d.used = Base /\ d.limits = limits /\ d.steps = 0
        /\ d.stack = <<>> /\ d.history = <<>> /\ d.units = <<>>
        /\ d.capacity = 0 /\ d.history_capacity = 0 /\ d.priority_capacity = 0
    BY <1>6, <1>7 DEF IsRun
  <1>9. run' = d
    BY <1>1, <1>2
  <1>. HIDE DEF d
  <1>10. Blocks(d) = 0
    <2>1. {StateBytes, NodeBytes, PriorityBytes} \subseteq Nat
      BY ExecAssumption, HistoryAssumption
    <2> QED BY <1>8, <2>1 DEF Blocks
  <1>11. IsSeq(<<>>) /\ Len(<<>>) = 0
    BY EmptySequence
  <1>12. Balanced(d, limits, Base)
    BY <1>3, <1>4, <1>5, <1>8, <1>10, <1>11 DEF Balanced
  <1>13. Sound(d, limits, Base)
    BY <1>8, <1>11, <1>12 DEF Sound, Elements
  <1> QED BY <1>1, <1>2, <1>9, <1>13, GoesSound

(* A call that returns                                                     *)
LEMMA ReturnExec ==
  ASSUME ExecInv, pc # "idle", NEW s, Return(s)
  PROVE  ExecInv'
  <1>1. CallOK' /\ pc' = "done" /\ candidate' = candidate
    BY SameCall DEF Return, ExecInv
  <1> QED BY <1>1 DEF ExecInv, Places

LEMMA EntersExec ==
  ASSUME ExecInv, Enters
  PROVE  ExecInv'
  BY AllocExec, ReturnExec
     DEF Enters, RejectLimits, RejectArguments, RejectSizes, UnitsNoMem, Accepted

(* The input goes on, and its offsets.                                     *)
LEMMA ReadSound ==
  ASSUME NEW r, NEW l, NEW base, Sound(r, l, base), NEW v, NEW o
  PROVE  /\ Sound([r EXCEPT !.offsets = o], l, base)
         /\ Sound([r EXCEPT !.units = Append(@, v), !.offsets = o], l, base)
  <1>. DEFINE u == Append(r.units, v)
              d == [r EXCEPT !.units = u]
              f == [r EXCEPT !.offsets = o]
              g == [d EXCEPT !.offsets = o]
  <1>1. Balanced(r, l, base) /\ IsRun(r) /\ IsSeq(r.units)
    BY DEF Sound, Balanced
  <1>2. IsSeq(u)
    BY <1>1, Appended
  <1>3. g = [r EXCEPT !.units = Append(@, v), !.offsets = o]
    BY <1>1 DEF IsRun
  <1>. HIDE DEF u
  <1>4. ASSUME NEW x \in {d, f}
        PROVE  /\ IsRun(x) /\ x.stack = r.stack /\ x.history = r.history
               /\ x.limits = r.limits /\ x.used = r.used /\ x.steps = r.steps
               /\ x.capacity = r.capacity /\ x.history_capacity = r.history_capacity
               /\ x.priority_capacity = r.priority_capacity
               /\ IsSeq(x.units)
    BY <1>1, <1>2 DEF IsRun
  <1>. HIDE DEF d, f
  <1>5. ASSUME NEW x \in {d, f} PROVE Sound(x, l, base)
    <2>1. Blocks(x) = Blocks(r)
      BY <1>4, SameBlocks
    <2>2. Balanced(x, l, base)
      BY <1>1, <1>4, <2>1 DEF Balanced
    <2> QED BY <1>4, <2>2 DEF Sound
  <1>6. /\ IsRun(g) /\ g.stack = d.stack /\ g.history = d.history
        /\ g.limits = d.limits /\ g.used = d.used /\ g.steps = d.steps
        /\ g.capacity = d.capacity /\ g.history_capacity = d.history_capacity
        /\ g.priority_capacity = d.priority_capacity /\ g.units = d.units
    <2>1. IsRun(d)
      BY <1>4
    <2> QED BY <2>1 DEF IsRun
  <1>. HIDE DEF g
  <1>7. Sound(g, l, base)
    <2>1. Blocks(g) = Blocks(d)
      BY <1>6, SameBlocks
    <2>2. Balanced(d, l, base) /\ Sound(d, l, base)
      BY <1>5 DEF Sound
    <2>3. Balanced(g, l, base)
      BY <1>6, <2>1, <2>2 DEF Balanced
    <2> QED BY <1>6, <2>2, <2>3, StillSound
  <1> QED BY <1>3, <1>5, <1>7 DEF f

LEMMA DecodesExec ==
  ASSUME ExecInv, Decodes
  PROVE  ExecInv'
  <1>1. pc = "decode"
    BY DEF Decodes, Decode, StartInsideScalar, FirstCandidate
  <1>2. /\ Sound(run, limits, Base) /\ SpanOK(current) /\ SpanOK(best) /\ CallOK
        /\ candidate \in Nat /\ length \in Nat
    BY <1>1, Working DEF Sound, IsSeq, length
  <1>3. \A x : Sound(Failed(run, x), limits, Base)
    BY <1>2, FailedSound
  <1>4. CASE Decode
    <2>. DEFINE t == Tick(run, Piece.width)
                o == Append(t.offsets, BytesUpTo(length))
                d == [t EXCEPT !.units = Append(@, Piece.value), !.offsets = o]
    <2>1. length + 1 \in 1 .. Len(call.input)
      BY <1>2, <1>4 DEF Decode, CallOK
    <2>2. Piece.width \in Int
      BY <1>2, <2>1 DEF CallOK, Piece
    <2>3. Sound(t, limits, Base)
      BY <1>2, <2>2, TickSound
    <2>4. \/ Abandon(Failed(run, Piece.status))
          \/ Abandon(t)
          \/ /\ run' = [t EXCEPT !.units = Append(@, Piece.value),
                                 !.offsets = Append(@, BytesUpTo(length))]
             /\ UNCHANGED <<call, pc, current, best, candidate>>
      BY <1>4 DEF Decode
    <2>. HIDE DEF t, o
    <2>5. Sound(d, limits, Base)
      BY <2>3, ReadSound
    <2>6. CASE run' = d /\ UNCHANGED <<call, pc, current, best, candidate>>
      BY <1>1, <1>2, <2>5, <2>6, GoesSound
    <2> QED BY <1>1, <1>3, <2>3, <2>4, <2>6, AbandonExec DEF o
  <1>5. CASE StartInsideScalar
    BY <1>1, <1>3, <1>5, AbandonExec DEF StartInsideScalar
  <1>6. CASE FirstCandidate
    <2>. DEFINE o == Append(run.offsets, bytes)
    <2>1. PICK k \in Start : Begin(k)
      BY <1>6 DEF FirstCandidate
    <2>2. run' = [run EXCEPT !.offsets = o]
      BY <1>6 DEF FirstCandidate
    <2>. HIDE DEF o
    <2>3. Sound(run', limits, Base)
      BY <1>2, <2>2, ReadSound
    <2>4. k \in Nat
      BY <1>2 DEF Start
    <2>5. SpanOK(FreshState(program, k))
      BY <2>4, FreshOK
    <2> QED BY <1>1, <1>2, <2>1, <2>3, <2>4, <2>5, GoesSound DEF Begin
  <1> QED BY <1>4, <1>5, <1>6 DEF Decodes

-----------------------------------------------------------------------------
(* An instruction that is carried out is one of the program's.             *)
LEMMA CodeIs ==
  ASSUME ExecInv, NEW ops, At(ops)
  PROVE  /\ pc = "step" /\ InstrOK(code) /\ code.op \in ops
         /\ Sound(run, limits, Base) /\ Sound(Ticked, limits, Base) /\ Ok(Ticked)
         /\ SpanOK(current) /\ SpanOK(best) /\ IsState(current)
  <1>1. /\ pc = "step" /\ current.pc \in 0 .. Len(program.code) - 1 /\ code.op \in ops
        /\ Ok(Ticked)
    BY DEF At, InCode, CodeCount
  <1>2. /\ Sound(run, limits, Base) /\ SpanOK(current) /\ SpanOK(best)
        /\ IsState(current) /\ CodeOK(program.code)
    BY <1>1, Working DEF CallOK
  <1>3. Sound(Ticked, limits, Base)
    BY <1>2, TickSound DEF Ticked
  <1>4. InstrOK(code)
    <2>1. current.pc + 1 \in 1 .. Len(program.code)
      BY <1>1, <1>2 DEF CodeOK, IsSeq
    <2> QED BY <1>2, <2>1 DEF CodeOK, code, Instr
  <1> QED BY <1>1, <1>2, <1>3, <1>4

LEMMA AbortExec ==
  ASSUME ExecInv, Abort
  PROVE  ExecInv'
  <1>1. pc = "step" /\ Sound(run, limits, Base)
    BY Working DEF Abort
  <1>2. Sound(Ticked, limits, Base)
    BY <1>1, TickSound DEF Ticked
  <1>3. Sound(Failed(Ticked, "ARGUMENT"), limits, Base)
    BY <1>2, FailedSound
  <1> QED BY <1>1, <1>2, <1>3, AbandonExec DEF Abort

LEMMA RankingSound ==
  ASSUME Sound(Ticked, limits, Base), NEW x \in Rankings
  PROVE  Sound(x[1], limits, Base)
  <1>1. PICK fails \in Outcomes : x = Ranking(fails)
    BY DEF Rankings
  <1>. DEFINE y == Better(Ticked, current.history, best.history, fails)
              b == ~found \/ current.pos > best.pos
  <1>2. x = y \/ x = <<Ticked, b>>
    BY <1>1 DEF Ranking
  <1>3. Sound(y[1], limits, Base)
    BY BetterSound
  <1>. HIDE DEF y, b
  <1>4. CASE x = <<Ticked, b>>
    <2>1. x[1] = Ticked
      BY <1>4
    <2> QED BY <2>1
  <1> QED BY <1>2, <1>3, <1>4

LEMMA AcceptExec ==
  ASSUME ExecInv, RankingFails \/ AcceptWorse \/ AcceptBetter
  PROVE  ExecInv'
  <1>1. /\ pc = "step" /\ Sound(Ticked, limits, Base) /\ SpanOK(current) /\ SpanOK(best)
        /\ IsState(current)
    BY CodeIs DEF RankingFails, AcceptWorse, AcceptBetter
  <1>2. CASE RankingFails
    BY <1>1, <1>2, RankingSound, AbandonExec DEF RankingFails
  <1>3. CASE AcceptWorse
    BY <1>1, <1>3, RankingSound, BacktrackExec DEF AcceptWorse
  <1>4. CASE AcceptBetter
    <2>1. PICK x \in Rankings :
            Backtrack(Retain(Drop(x[1], best.history), current.history))
      BY <1>4 DEF AcceptBetter
    <2>. DEFINE d == Drop(x[1], best.history)
                k == Retain(d, current.history)
    <2>2. Sound(x[1], limits, Base)
      BY <1>1, RankingSound
    <2>3. Sound(d, limits, Base)
      BY <2>2, DropSound
    <2>. HIDE DEF d
    <2>4. Sound(k, limits, Base)
      BY <2>3, DropSound
    <2>. HIDE DEF k
    <2>5. Backtrack(k)
      BY <2>1 DEF k, d
    <2>6. best' = [current EXCEPT !.end[0] = current.pos]
      BY <1>4 DEF AcceptBetter
    <2>7. SpanOK(best')
      BY <1>1, <2>6, AcceptedOK
    <2> QED BY <1>1, <2>4, <2>5, <2>7, BacktrackExec
  <1> QED BY <1>2, <1>3, <1>4

(* A back reference is never longer than nothing, or negative.             *)
LEMMA SizeIs ==
  ASSUME SpanOK(current), code.a \in 1 .. MaxCaptures, Fits
  PROVE  size \in Nat
  <1>1. code.a \in Slots
    BY DEF Slots, MaxCaptures
  <1>2. /\ current.begin[code.a] \in Int /\ current.end[code.a] \in Int
        /\ current.begin[code.a] <= current.end[code.a]
    BY <1>1 DEF SpanOK, Fits, Captured
  <1> QED BY <1>2 DEF size, first

LEMMA CompareSound ==
  ASSUME Sound(Ticked, limits, Base), size \in Nat
  PROVE  Sound(Compare, limits, Base)
  <1>. DEFINE n == IF Differing = {} THEN size ELSE Min(Differing)
  <1>1. n \in Int
    <2>1. ASSUME NEW D, D \subseteq Nat, D # {} PROVE Min(D) \in Int
      <3>. DEFINE m == Min(D)
      <3>1. m \in D
        BY <2>1, MinIs
      <3>. HIDE DEF m
      <3>2. m \in Nat
        BY <2>1, <3>1, Zenon
      <3>3. m \in Int
        BY <3>2
      <3> QED BY <3>3 DEF m
    <2>2. Differing \subseteq Nat
      BY DEF Differing
    <2>3. Differing # {} => Min(Differing) \in Int
      BY <2>1, <2>2
    <2> QED BY <2>3
  <1>. HIDE DEF n
  <1>2. Sound(Tick(Ticked, n), limits, Base)
    BY <1>1, TickSound
  <1> QED BY <1>2 DEF n, Compare

LEMMA ReadsExec ==
  ASSUME ExecInv, Consume \/ Mismatch \/ Reference \/ ReferenceFails
  PROVE  ExecInv'
  <1>1. CASE Consume \/ Mismatch
    <2>1. At(Consuming)
      BY <1>1 DEF Consume, Mismatch
    <2>2. /\ pc = "step" /\ code.b \in Int /\ Sound(Ticked, limits, Base)
          /\ SpanOK(current) /\ SpanOK(best)
      BY <2>1, CodeIs DEF InstrOK
    <2>3. Sound(Examined, limits, Base)
      BY <2>2, TickSound DEF Examined
    <2>4. SpanOK([Go(current, code.next) EXCEPT !.pos = @ + 1])
      BY <2>2, FurtherOK
    <2>5. CASE Consume
      BY <2>2, <2>3, <2>4, <2>5, ContinueExec DEF Consume
    <2>6. CASE Mismatch
      BY <2>2, <2>3, <2>6, BacktrackExec DEF Mismatch
    <2> QED BY <1>1, <2>5, <2>6
  <1>2. CASE Reference \/ ReferenceFails
    <2>1. At({"REF"})
      BY <1>2 DEF Reference, ReferenceFails
    <2>2. /\ pc = "step" /\ code.a \in 1 .. MaxCaptures /\ Sound(Ticked, limits, Base)
          /\ SpanOK(current) /\ SpanOK(best)
      BY <2>1, CodeIs DEF InstrOK
    <2>3. Fits => Sound(Compare, limits, Base) /\ size \in Nat
      BY <2>2, SizeIs, CompareSound
    <2>4. CASE Reference
      <3>1. SpanOK([Go(current, code.next) EXCEPT !.pos = @ + size])
        BY <2>2, <2>3, <2>4, FurtherOK DEF Reference
      <3> QED BY <2>2, <2>3, <2>4, <3>1, ContinueExec DEF Reference
    <2>5. CASE ReferenceFails
      BY <2>2, <2>3, <2>5, BacktrackExec DEF ReferenceFails
    <2> QED BY <1>2, <2>4, <2>5
  <1> QED BY <1>1, <1>2

LEMMA AnchorsExec ==
  ASSUME ExecInv, AnchorHolds \/ AnchorFails \/ IterationRefused
  PROVE  ExecInv'
  <1>1. /\ pc = "step" /\ Sound(Ticked, limits, Base) /\ SpanOK(current) /\ SpanOK(best)
        /\ IsState(current)
    BY CodeIs DEF AnchorHolds, AnchorFails, IterationRefused
  <1>2. SpanOK(Go(current, code.next))
    BY <1>1, AlikeParts, AlikeOK DEF Go
  <1> QED BY <1>1, <1>2, ContinueExec, BacktrackExec
          DEF AnchorHolds, AnchorFails, IterationRefused

LEMMA ScopesExec ==
  ASSUME ExecInv, Open \/ Close
  PROVE  ExecInv'
  <1>1. /\ pc = "step" /\ Sound(Ticked, limits, Base) /\ SpanOK(current) /\ SpanOK(best)
        /\ IsState(current)
    BY CodeIs DEF Open, Close
  <1>2. ASSUME NEW kind, NEW key, NEW open, NEW t \in Tags(kind, key, open)
        PROVE  Sound(t[1], limits, Base) /\ SpanOK(t[2])
    <2>1. PICK fails \in Outcomes : t = Tag(Ticked, current, kind, key, open, fails)
      BY <1>2 DEF Tags
    <2>2. Sound(t[1], limits, Base) /\ Alike(current, t[2])
      BY <1>1, <2>1, TagSound
    <2> QED BY <1>1, <2>2, AlikeOK
  <1>3. CASE Open
    <2>1. PICK t \in Tags(0, code.max, NONE) :
            Continue(t[1], IF Ok(t[1]) THEN Opened(t[2]) ELSE current)
      BY <1>3 DEF Open
    <2>2. code.a \in 1 .. MaxCaptures /\ code.b \in code.a .. MaxCaptures
      BY <1>3, CodeIs DEF Open, InstrOK
    <2>3. SpanOK(Opened(t[2])) /\ Sound(t[1], limits, Base)
      BY <1>2, <2>2, OpenedOK
    <2> QED BY <1>1, <2>1, <2>3, ContinueExec
  <1>4. CASE Close
    <2>1. PICK t \in Tags(1, 0, current.group_history[code.a]) :
            Continue(t[1], IF Ok(t[1]) THEN Closed(t[2]) ELSE current)
      BY <1>4 DEF Close
    <2>2. SpanOK(Closed(t[2])) /\ Sound(t[1], limits, Base)
      BY <1>2, ClosedOK
    <2> QED BY <1>1, <2>1, <2>2, ContinueExec
  <1> QED BY <1>3, <1>4

-----------------------------------------------------------------------------
(* Loops have no captures.                                                 *)
LEMMA LoopingSound ==
  ASSUME Sound(Ticked, limits, Base), IsState(current), NEW fails,
         NEW l, l = Looping(fails)
  PROVE  Sound(l[1], limits, Base) /\ Alike(current, l[2])
  <1>1. Alike(current, current)
    BY AlikeParts
  <1>2. CASE l = <<Ticked, current>>
    <2>1. l[1] = Ticked /\ l[2] = current
      BY <1>2
    <2> QED BY <1>1, <2>1
  <1>3. CASE l = <<Failed(Ticked, "LIMIT"), current>>
    <2>1. l[1] = Failed(Ticked, "LIMIT") /\ l[2] = current
      BY <1>3
    <2> QED BY <1>1, <2>1, FailedSound
  <1>. DEFINE s == Entered(current)
              t == Tag(Ticked, s, 0, code.b, NONE, fails)
  <1>4. CASE l = Opening(t)
    <2>1. Alike(current, s) /\ IsState(s)
      <3>. DEFINE k == Append(current.loops,
                              [pc |-> current.pc, count |-> 0, start |-> current.pos,
                               zero |-> FALSE, history_open |-> NONE])
      <3>1. s = [current EXCEPT !.loops = k]
        BY DEF Entered
      <3>. HIDE DEF k, s
      <3> QED BY <3>1, AlikeParts DEF Alike
    <2>. HIDE DEF s
    <2>2. Sound(t[1], limits, Base) /\ Alike(s, t[2])
      BY <2>1, TagSound
    <2>3. Alike(current, t[2]) /\ IsState(t[2])
      BY <2>1, <2>2, AlikeTwice DEF Alike
    <2>. HIDE DEF t
    <2>4. CASE ~Ok(t[1])
      <3>1. l[1] = t[1] /\ l[2] = current
        BY <1>4, <2>4 DEF Opening
      <3> QED BY <1>1, <2>2, <3>1
    <2>5. CASE Ok(t[1])
      <3>. DEFINE x == t[2]
                  v == [x.loops EXCEPT ![Len(x.loops)].history_open = x.history]
                  y == [x EXCEPT !.loops = v]
      <3>1. l[1] = t[1] /\ l[2] = [x EXCEPT !.loops[Len(x.loops)].history_open = x.history]
        BY <1>4, <2>5 DEF Opening
      <3>2. IsState(x) /\ Alike(current, x)
        BY <2>3
      <3>. HIDE DEF x
      <3>3. l[2] = y
        BY <3>1, <3>2 DEF IsState
      <3>. HIDE DEF v
      <3>4. Alike(x, y)
        BY <3>2, AlikeParts
      <3>. HIDE DEF y
      <3>5. Alike(current, y)
        BY <3>2, <3>4, AlikeTwice
      <3> QED BY <2>2, <3>1, <3>3, <3>5
    <2> QED BY <2>4, <2>5
  <1>5. \/ l = <<Ticked, current>> \/ l = <<Failed(Ticked, "LIMIT"), current>>
        \/ l = Opening(t)
    BY DEF Looping
  <1> QED BY <1>2, <1>3, <1>4, <1>5

LEMMA GoAlike ==
  ASSUME NEW s, IsState(s), NEW i
  PROVE  Alike(s, Go(s, i)) /\ IsState(Go(s, i))
  BY AlikeParts DEF Go, Alike

LEMMA LoopsAlike ==
  ASSUME NEW s, IsState(s), NEW i, NEW n, NEW v, NEW w
  PROVE  /\ Alike(s, Counts(Go(s, i), n, v, w)) /\ Alike(s, Starts(Go(s, i), n, v))
         /\ Alike(s, [Go(s, i) EXCEPT !.loops = w])
  <1>. DEFINE g == Go(s, i)
              t1 == [g EXCEPT !.loops[n].zero = v]
              t == Counts(g, n, v, w)
              u == Starts(g, n, v)
              l == [g.loops EXCEPT ![n].start = v]
              l1 == [g.loops EXCEPT ![n].zero = v]
              l2 == [t1.loops EXCEPT ![n].count = w]
  <1>1. Alike(s, g) /\ IsState(g)
    BY GoAlike
  <1>. HIDE DEF g
  <1>2. Alike(g, [g EXCEPT !.loops = w])
    BY <1>1, AlikeParts
  <1>3. Alike(g, u)
    <2>1. u = [g EXCEPT !.loops = l]
      BY <1>1 DEF IsState, Starts
    <2>. HIDE DEF u, l
    <2> QED BY <1>1, <2>1, AlikeParts
  <1>4. Alike(g, t1) /\ IsState(t1)
    <2>1. t1 = [g EXCEPT !.loops = l1]
      BY <1>1 DEF IsState
    <2>. HIDE DEF t1, l1
    <2> QED BY <1>1, <2>1, AlikeParts DEF Alike
  <1>5. Alike(t1, t)
    <2>1. t = [t1 EXCEPT !.loops[n].count = w]
      BY <1>1 DEF IsState, Counts
    <2>. HIDE DEF t1, t
    <2>2. t = [t1 EXCEPT !.loops = l2]
      BY <1>4, <2>1 DEF IsState
    <2>. HIDE DEF l2
    <2> QED BY <1>4, <2>2, AlikeParts
  <1>. HIDE DEF t, t1, u
  <1>6. Alike(g, t)
    BY <1>4, <1>5, AlikeTwice
  <1>7. \A x : Alike(g, x) => Alike(s, x)
    BY <1>1, AlikeTwice
  <1>8. Alike(s, t) /\ Alike(s, u) /\ Alike(s, [g EXCEPT !.loops = w])
    BY <1>2, <1>3, <1>6, <1>7
  <1> QED BY <1>8 DEF t, u, g

(* An exit that is left for later                                          *)
LEMMA DeferredSound ==
  ASSUME NEW base, NEW x, Sound(x[1], limits, base), SpanOK(x[2]), NEW fails
  PROVE  Sound(Deferred(x, fails), limits, base)
  <1>. DEFINE p == Push(x[1], x[2], fails)
              r == IF Ok(x[1]) THEN p ELSE x[1]
  <1>1. Sound(r, limits, base)
    <2>1. CASE Ok(x[1])
      <3>1. Sound(p, limits, base)
        BY <2>1, PushSound
      <3> QED BY <2>1, <3>1
    <2>2. CASE ~Ok(x[1])
      BY <2>2
    <2> QED BY <2>1, <2>2
  <1>. HIDE DEF p, r
  <1>2. Sound(Drop(r, x[2].history), limits, base)
    BY <1>1, DropSound
  <1>3. Deferred(x, fails) = IF Ok(r) THEN r ELSE Drop(r, x[2].history)
    BY DEF Deferred, Shared, r, p
  <1> QED BY <1>1, <1>2, <1>3

LEMMA LoopsExec ==
  ASSUME ExecInv, LoopFails \/ Fork \/ MustIterate \/ MustExit \/ IterationDone
  PROVE  ExecInv'
  <1>1. /\ pc = "step" /\ Sound(Ticked, limits, Base) /\ SpanOK(current) /\ SpanOK(best)
        /\ IsState(current)
    BY CodeIs DEF LoopFails, Fork, MustIterate, MustExit, IterationDone
  <1>2. ASSUME NEW l \in Loopings
        PROVE  Sound(l[1], limits, Base) /\ SpanOK(l[2]) /\ IsState(l[2])
    <2>1. PICK fails \in Outcomes : l = Looping(fails)
      BY <1>2 DEF Loopings
    <2>2. Sound(l[1], limits, Base) /\ Alike(current, l[2])
      BY <1>1, <2>1, LoopingSound
    <2> QED BY <1>1, <2>2, AlikeOK DEF Alike
  <1>3. ASSUME NEW s, SpanOK(s) PROVE SpanOK(Iterate(s))
    <2>1. Iterate(s) = Starts(Go(s, code.a), Len(s.loops), s.pos)
      BY DEF Iterate, Starts
    <2>2. IsState(s)
      BY <1>3, SpanFields
    <2>3. \A i, n, v : Alike(s, Starts(Go(s, i), n, v))
      BY <2>2, LoopsAlike
    <2> QED BY <1>3, <2>1, <2>3, AlikeOK
  (* Where an exit goes on                                                 *)
  <1>4. ASSUME NEW r, NEW s, Sound(r, limits, Base), SpanOK(s), NEW x \in Exits(r, s)
        PROVE  Sound(x[1], limits, Base) /\ SpanOK(x[2])
    <2>. DEFINE g == Go(s, code.next)
                f == Front(g.loops)
                y == [g EXCEPT !.loops = f]
                h == Last(s.loops).history_open
    <2>1. PICK fails : x = Tag(r, [g EXCEPT !.loops = Front(@)], 1, 0, h, fails)
      BY <1>4 DEF Exits
    <2>2. IsState(s)
      BY <1>4, SpanFields
    <2>3. Alike(s, y) /\ IsState(y)
      <3>. HIDE DEF f
      <3> QED BY <2>2, LoopsAlike DEF Alike
    <2>4. x = Tag(r, y, 1, 0, h, fails)
      BY <2>1
    <2>. HIDE DEF y, h
    <2>5. Sound(x[1], limits, Base) /\ Alike(y, x[2])
      BY <1>4, <2>3, <2>4, TagSound
    <2>6. Alike(s, x[2])
      BY <2>3, <2>5, AlikeTwice
    <2> QED BY <1>4, <2>5, <2>6, AlikeOK
  <1>5. CASE LoopFails
    BY <1>1, <1>2, <1>5, AbandonExec DEF LoopFails
  <1>6. CASE MustIterate
    <2>1. PICK l \in Loopings : Continue(l[1], Iterate(l[2]))
      BY <1>6 DEF MustIterate
    <2> QED BY <1>1, <1>2, <1>3, <2>1, ContinueExec
  <1>7. CASE MustExit
    <2>0. PICK l \in Loopings :
            \E x \in Exits(l[1], l[2]) : Continue(x[1], IF Ok(x[1]) THEN x[2] ELSE l[2])
      BY <1>7 DEF MustExit
    <2>1. PICK x \in Exits(l[1], l[2]) : Continue(x[1], IF Ok(x[1]) THEN x[2] ELSE l[2])
      BY <2>0
    <2>2. Sound(l[1], limits, Base) /\ SpanOK(l[2])
      BY <1>2
    <2>3. Sound(x[1], limits, Base) /\ SpanOK(x[2])
      BY <1>4, <2>2
    <2> QED BY <1>1, <2>1, <2>2, <2>3, ContinueExec
  <1>8. CASE Fork
    <2>. DEFINE Forks(m, x, f) ==
                  LET q == Deferred(x, f)
                  IN Continue(q, IF Ok(q) THEN Iterate(m[2]) ELSE m[2])
    <2>0. PICK l \in Loopings :
            \E x \in Exits(Retain(l[1], l[2].history), l[2]) :
            \E f \in Outcomes : Forks(l, x, f)
      BY <1>8 DEF Fork
    <2>1. PICK x \in Exits(Retain(l[1], l[2].history), l[2]), fails \in Outcomes :
            Forks(l, x, fails)
      BY <2>0
    <2>. DEFINE d == Deferred(x, fails)
                k == Retain(l[1], l[2].history)
    <2>2. Sound(l[1], limits, Base) /\ SpanOK(l[2])
      BY <1>2
    <2>3. Sound(k, limits, Base)
      BY <2>2, DropSound
    <2>4. x \in Exits(k, l[2])
      OBVIOUS
    <2>. HIDE DEF k
    <2>5. Sound(x[1], limits, Base) /\ SpanOK(x[2])
      BY <1>4, <2>2, <2>3, <2>4
    <2>6. Sound(d, limits, Base)
      BY <2>5, DeferredSound
    <2>7. Continue(d, IF Ok(d) THEN Iterate(l[2]) ELSE l[2])
      BY <2>1
    <2>. HIDE DEF d
    <2>8. SpanOK(IF Ok(d) THEN Iterate(l[2]) ELSE l[2])
      BY <1>3, <2>2
    <2> QED BY <1>1, <2>6, <2>7, <2>8, ContinueExec
  <1>9. CASE IterationDone
    <2>. DEFINE g == Go(current, loop.pc)
                n == Len(current.loops)
                w == g.loops[n].count + 1
                z == Empty
                s == Counts(g, n, z, w)
    <2>1. Continue(Ticked, s)
      BY <1>9 DEF IterationDone, Counts
    <2>2. Alike(current, s)
      <3>. HIDE DEF n, w, z
      <3> QED BY <1>1, LoopsAlike
    <2>. HIDE DEF s
    <2>3. SpanOK(s)
      BY <1>1, <2>2, AlikeOK
    <2> QED BY <1>1, <2>1, <2>3, ContinueExec
  <1> QED BY <1>5, <1>6, <1>7, <1>8, <1>9

LEMMA EndsExec ==
  ASSUME ExecInv, Ends
  PROVE  ExecInv'
  <1>1. pc # "idle"
    BY DEF Ends, NextCandidate, NoMatch, Report, Cleanup, ReleaseState, Finish
  <1>2. CASE NextCandidate
    <2>1. /\ pc = "ended" /\ pc' = "step" /\ run' = run /\ best' = best /\ call' = call
          /\ candidate' = candidate + 1 /\ current' = FreshState(program, candidate + 1)
      BY <1>2 DEF NextCandidate, Begin
    <2>2. Sound(run, limits, Base) /\ SpanOK(best) /\ candidate + 1 \in Nat
      BY <2>1, Working
    <2>3. SpanOK(current')
      BY <2>1, <2>2, FreshOK
    <2> QED BY <1>1, <2>1, <2>2, <2>3, GoesSound
  <1>3. CASE NoMatch
    <2>1. pc = "ended" /\ Sound(Failed(run, "NOMATCH"), limits, Base)
      BY <1>3, Working, FailedSound DEF NoMatch
    <2> QED BY <1>3, <2>1, AbandonExec DEF NoMatch
  <1>4. CASE Report
    BY <1>4, Working, GoesSound DEF Report
  <1>5. CASE Cleanup
    <2>. DEFINE d == Drop(run, current.history)
                k == Drop(d, best.history)
    <2>1. /\ pc = "cleanup" /\ pc' = "release" /\ run' = k
          /\ UNCHANGED <<call, current, best, candidate>>
      BY <1>5 DEF Cleanup
    <2>2. Sound(d, limits, Base)
      BY <2>1, Working, DropSound
    <2>. HIDE DEF d
    <2>3. Sound(k, limits, Base)
      BY <2>2, DropSound
    <2>. HIDE DEF k
    <2> QED BY <1>1, <2>1, <2>3, Working, GoesSound
  <1>6. CASE ReleaseState
    <2>. DEFINE d == Drop(run, Last(run.stack).history)
    <2>1. /\ pc = "release" /\ pc' = pc /\ run' = [d EXCEPT !.stack = Front(@)]
          /\ UNCHANGED <<call, current, best, candidate>> /\ run.stack # <<>>
      BY <1>6 DEF ReleaseState
    <2>2. Sound(d, limits, Base) /\ d.stack = run.stack
      BY <2>1, Working, DropSound
    <2>. HIDE DEF d
    <2>3. Sound(run', limits, Base)
      BY <2>1, <2>2, FrontSound
    <2> QED BY <1>1, <2>1, <2>3, Working, GoesSound
  <1>7. CASE Finish
    BY <1>1, <1>7, ReturnExec DEF Finish
  <1> QED BY <1>2, <1>3, <1>4, <1>5, <1>6, <1>7 DEF Ends

-----------------------------------------------------------------------------
(* Every step of a session keeps both invariants.                          *)
SessionInv == CompileOK /\ ExecInv

LEMMA StartSound ==
  ASSUME SessionInit
  PROVE  SessionInv
  BY DEF SessionInit, Init, Compiler!Init, SessionInv, CompileOK, ExecInv, Places

LEMMA SessionSound ==
  ASSUME SessionInv, [SessionNext]_<<vars, compiling>>
  PROVE  SessionInv'
  <1>1. ASSUME UNCHANGED vars PROVE ExecInv'
    <2>1. UNCHANGED <<call, pc, run, current, best, candidate>>
      BY <1>1 DEF vars
    <2>2. limits' = limits /\ Base' = Base /\ CallOK' = CallOK
      BY <2>1, SameCall
    <2>3. Sound(run, limits, Base)' = Sound(run, limits, Base)
      BY <2>1, <2>2 DEF Sound, Balanced, Blocks
    <2>4. SpanOK(current)' = SpanOK(current) /\ SpanOK(best)' = SpanOK(best)
      BY <2>1 DEF SpanOK
    <2> QED BY <2>1, <2>2, <2>3, <2>4 DEF SessionInv, ExecInv, Places
  <1>2. ASSUME UNCHANGED compiling PROVE CompileOK'
    BY <1>2 DEF SessionInv, CompileOK, compiling
  <1>3. CASE Compile
    BY <1>1, <1>3, CompileStepOK DEF Compile, SessionInv
  <1>4. CASE Ask
    <2>1. PICK q \in Questions(source) : Call(Asked(compiled, q))
      BY <1>4 DEF Ask
    <2>2. source \in Sources /\ CodeOK(compiled.code)
      BY <1>4 DEF Ask, SessionInv, CompileOK
    <2>3. ExecInv'
      BY <2>1, <2>2, CallExec DEF SessionInv
    <2> QED BY <1>2, <1>4, <2>3 DEF Ask, SessionInv
  <1>5. CASE Match
    <2>1. SUFFICES ASSUME ExecInv PROVE ExecInv'
      BY <1>2, <1>5 DEF Match, SessionInv
    <2>2. CASE Enters
      BY <2>1, <2>2, EntersExec
    <2>3. CASE Decodes
      BY <2>1, <2>3, DecodesExec
    <2>4. CASE Steps
      BY <2>1, <2>4, AbortExec, AcceptExec, ReadsExec, AnchorsExec, ScopesExec, LoopsExec
         DEF Steps
    <2>5. CASE Ends
      BY <2>1, <2>5, EndsExec
    <2> QED BY <1>5, <2>2, <2>3, <2>4, <2>5 DEF Match, Next
  <1>6. CASE UNCHANGED vars /\ UNCHANGED compiling
    BY <1>1, <1>2, <1>6 DEF SessionInv
  <1> QED BY <1>3, <1>4, <1>5, <1>6 DEF SessionNext, Rest

LEMMA SpansHeld ==
  ASSUME ExecInv
  PROVE  SpansOrdered
  <1>1. SUFFICES ASSUME Searching, NEW s \in ToSet(Holders) PROVE SpanOK(s)
    BY DEF SpansOrdered, SpanOK
  <1>2. /\ Sound(run, limits, Base) /\ SpanOK(current) /\ SpanOK(best)
        /\ IsSeq(run.stack) /\ \A x \in Elements(run.stack) : SpanOK(x)
    BY <1>1, Working DEF Searching, Sound, Balanced
  <1>3. ASSUME NEW q, IsSeq(q), NEW y
        PROVE  /\ IsSeq(Append(q, y))
               /\ \A x \in ToSet(Append(q, y)) : x \in ToSet(q) \/ x = y
    <2>1. /\ IsSeq(Append(q, y)) /\ Len(Append(q, y)) = Len(q) + 1
          /\ \A i \in 1 .. Len(q) : Append(q, y)[i] = q[i]
          /\ Append(q, y)[Len(q) + 1] = y /\ Len(q) \in Nat
      BY <1>3, Appended DEF IsSeq
    <2>2. DOMAIN q = 1 .. Len(q) /\ DOMAIN Append(q, y) = 1 .. Len(q) + 1
      BY <1>3, <2>1, AnySeq
    <2>3. ASSUME NEW i \in 1 .. Len(q) + 1
          PROVE  Append(q, y)[i] \in ToSet(q) \/ Append(q, y)[i] = y
      <3>1. i \in 1 .. Len(q) \/ i = Len(q) + 1
        BY <2>1
      <3> QED BY <2>1, <2>2, <3>1 DEF ToSet
    <2> QED BY <2>1, <2>2, <2>3 DEF ToSet
  <1>4. \A x \in ToSet(run.stack) : SpanOK(x)
    <2>1. DOMAIN run.stack = 1 .. Len(run.stack)
      BY <1>2, AnySeq
    <2> QED BY <1>2, <2>1 DEF ToSet, Elements
  <1>5. CASE pc = "release"
    BY <1>4, <1>5 DEF Holders
  <1>6. CASE pc # "release"
    <2>. DEFINE q == Append(run.stack, best)
    <2>1. Holders = Append(q, current)
      BY <1>1, <1>6 DEF Holders, Searching
    <2>2. IsSeq(q) /\ \A x \in ToSet(q) : SpanOK(x)
      BY <1>2, <1>3, <1>4
    <2>. HIDE DEF q
    <2>3. s \in ToSet(q) \/ s = current
      BY <1>3, <2>1, <2>2
    <2> QED BY <1>2, <2>2, <2>3
  <1> QED BY <1>5, <1>6

LEMMA AccountsHeld ==
  ASSUME ExecInv
  PROVE  AccountsExact
  <1>1. SUFFICES ASSUME Searching PROVE AccountsExact
    BY DEF AccountsExact
  <1>2. Balanced(run, limits, Base) /\ CallOK
    BY <1>1, Working DEF Searching, Sound
  <1>. DEFINE x == run.capacity * StateBytes
              y == run.history_capacity * NodeBytes
              z == run.priority_capacity * PriorityBytes
  <1>3. x \in Int /\ y \in Int /\ z \in Int
    <2>1. {StateBytes, NodeBytes, PriorityBytes} \subseteq Nat
      BY ExecAssumption, HistoryAssumption
    <2>2. \A i, j \in Nat : i * j \in Int
      OBVIOUS
    <2> QED BY <1>2, <2>1, <2>2 DEF Balanced
  <1>4. BaseBytes \in Int /\ Decoded \in Int
    BY <1>2, DecodedIs, ExecAssumption
  <1>5. run.used = BaseBytes + Decoded + (x + y + z)
    BY <1>2 DEF Balanced, Blocks, Base
  <1>. HIDE DEF x, y, z
  <1>6. run.used = BaseBytes + Decoded + x + y + z
    BY <1>3, <1>4, <1>5
  <1> QED BY <1>2, <1>6 DEF AccountsExact, Balanced, x, y, z

(* In every session, for all patterns, inputs and limits and whatever      *)
(* allocation fails, what a call accounts for is what it has allocated and *)
(* within its budgets, and its stack and arena stay within their blocks.   *)
(* (bre_grow, bre_tick, bre_push, bre_history_tag, bre_priority_reserve)   *)
THEOREM AccountsAreExact == Session => []AccountsExact
  <1>1. SessionInit => SessionInv
    BY StartSound
  <1>2. SessionInv /\ [SessionNext]_<<vars, compiling>> => SessionInv'
    BY SessionSound
  <1>3. SessionInv => AccountsExact
    BY AccountsHeld DEF SessionInv
  <1> QED BY <1>1, <1>2, <1>3, PTL DEF Session

(* In every session, the captures of each state that the executor has are  *)
(* intervals of what it matched: the length of a back reference is never   *)
(* negative, nor that of a capture reported.                               *)
(* (BRE_OPEN, BRE_CLOSE, BRE_REF and bre_push in maia_bre_exec_utf8)       *)
THEOREM SpansAreOrdered == Session => []SpansOrdered
  <1>1. SessionInit => SessionInv
    BY StartSound
  <1>2. SessionInv /\ [SessionNext]_<<vars, compiling>> => SessionInv'
    BY SessionSound
  <1>3. SessionInv => SpansOrdered
    BY SpansHeld DEF SessionInv
  <1> QED BY <1>1, <1>2, <1>3, PTL DEF Session
==============================================================================
