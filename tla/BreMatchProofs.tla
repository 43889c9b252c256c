--------------------------- MODULE BreMatchProofs ---------------------------
(***************************************************************************)
(* That the executor answers what the paths of the program say (BrePaths), *)
(* for all patterns, inputs, limits and sizes and whatever allocation      *)
(* fails: its answer is a longest match from the leftmost start that has   *)
(* one, and it finds no match only where there is none.                    *)
(*                                                                         *)
(* The argument: the states to come back to and the current one are the    *)
(* frontier of a search.  There is always a set of places, the outset      *)
(* among them, of which each is on the frontier or is settled: every place *)
(* that can follow is in the set, and a complete path that ends there is   *)
(* no longer than the best one found.  When the frontier is empty the set  *)
(* is closed under the moves, so that every path is in it.                 *)
(***************************************************************************)
EXTENDS BreExecProofs, BrePaths

(* What a call q asks: its scalars, where it may start, and what it tries  *)
(* from a start on                                                         *)
Scalars(q) == [k \in 1 .. Len(q.input) |-> q.input[k].value]

StartsOf(q) == {k \in 0 .. Len(q.input) : WidthUpTo(q.input, k) = q.start_byte}

TriedFrom(q, s) == IF q.mode = "ANCHORED" THEN {s} ELSE s .. Len(q.input)

MatchedAt(q, k) == Matches(q.program, Scalars(q), k)

(* How a span from scalar b to scalar e is reported, and none              *)
Spanning(q, b, e) ==
  [matched |-> 1, start_scalar |-> b, end_scalar |-> e,
   start_byte |-> WidthUpTo(q.input, b), end_byte |-> WidthUpTo(q.input, e)]

Unmatched ==
  [matched |-> 0, start_scalar |-> 0, end_scalar |-> 0, start_byte |-> 0, end_byte |-> 0]

(* Slot g of the answer for a path that starts at k and ends in x          *)
Reported(q, k, x, g) ==
  IF g = 0 THEN Spanning(q, k, x.pos)
  ELSE IF g <= q.program.groups /\ x.begin[g] # NONE /\ x.end[g] # NONE
       THEN Spanning(q, x.begin[g], x.end[g])
       ELSE Unmatched

NothingMatches(q) ==
  \E s \in StartsOf(q) : \A k \in TriedFrom(q, s) : ~MatchedAt(q, k)

Answers(q, answer1) ==
  \E s \in StartsOf(q) : \E k \in TriedFrom(q, s) :
    /\ \A j \in TriedFrom(q, s) : j < k => ~MatchedAt(q, j)
    /\ \E x : /\ Longest(q.program, Scalars(q), k, x)
              /\ answer1 = [n \in 1 .. q.capacity |-> Reported(q, k, x, n - 1)]

(* NOMATCH is returned only when no path from a start that was to be tried *)
(* can end; OK only with a longest path from the leftmost start that has   *)
(* one, and the spans of its groups.                                       *)
LeftmostLongest ==
  pc = "done" =>
    /\ status = "NOMATCH" => NothingMatches(call)
    /\ status = "OK" => Answers(call, output)
-----------------------------------------------------------------------------
(* Paths                                                                   *)
LEMMA ReachesOutset ==
  ASSUME NEW p, NEW u, NEW k
  PROVE  Reaches(p, u, k, Outset(p, k))
  <1>. DEFINE w == [i \in {0} |-> Outset(p, k)]
  <1>1. w[0] = Outset(p, k) /\ 1 .. 0 = {}
    OBVIOUS
  <1>. HIDE DEF w
  <1>2. IsPath(p, u, k, w, 0)
    BY <1>1 DEF IsPath
  <1> QED BY <1>1, <1>2 DEF Reaches

LEMMA ReachesNext ==
  ASSUME NEW p, NEW u, NEW k, NEW x, Reaches(p, u, k, x), NEW y, Moves(p, u, x, y)
  PROVE  Reaches(p, u, k, y)
  <1>0. PICK n \in Nat : \E w : IsPath(p, u, k, w, n) /\ w[n] = x
    BY DEF Reaches
  <1>1. PICK w : IsPath(p, u, k, w, n) /\ w[n] = x
    BY <1>0
  <1>. DEFINE v == [i \in 0 .. n + 1 |-> IF i <= n THEN w[i] ELSE y]
  <1>2. /\ v[0] = w[0] /\ v[n + 1] = y /\ n + 1 \in Nat
        /\ \A i \in 1 .. n : v[i - 1] = w[i - 1] /\ v[i] = w[i]
        /\ v[n] = x
    BY <1>0, <1>1
  <1>. HIDE DEF v
  <1>3. ASSUME NEW i \in 1 .. n + 1 PROVE Moves(p, u, v[i - 1], v[i])
    <2>1. CASE i \in 1 .. n
      BY <1>0, <1>1, <1>2, <2>1 DEF IsPath
    <2>2. CASE i = n + 1
      <3>1. v[i - 1] = x /\ v[i] = y
        BY <1>2, <2>2
      <3> QED BY <3>1
    <2> QED BY <2>1, <2>2
  <1>4. IsPath(p, u, k, v, n + 1)
    BY <1>0, <1>1, <1>2, <1>3 DEF IsPath
  <1> QED BY <1>2, <1>4 DEF Reaches

(* What starts in a set that no move leaves stays in it.                   *)
LEMMA ReachesWithin ==
  ASSUME NEW p, NEW u, NEW k, NEW S, Outset(p, k) \in S,
         \A x \in S : \A y : Moves(p, u, x, y) => y \in S,
         NEW z, Reaches(p, u, k, z)
  PROVE  z \in S
  <1>0. PICK n \in Nat : \E w : IsPath(p, u, k, w, n) /\ w[n] = z
    BY DEF Reaches
  <1>1. PICK w : IsPath(p, u, k, w, n) /\ w[n] = z
    BY <1>0
  <1>. DEFINE T == {i \in 0 .. n : w[i] \notin S}
  <1>2. T = {}
    <2>1. SUFFICES ASSUME T # {} PROVE FALSE
      OBVIOUS
    <2>2. PICK i \in T : \A j \in T : i <= j
      <3>1. T \subseteq Nat
        OBVIOUS
      <3> QED BY <2>1, <3>1, LeastNat
    <2>3. i # 0
      BY <1>0, <1>1, <2>2 DEF IsPath
    <2>4. i \in 1 .. n /\ i - 1 \in 0 .. n /\ w[i - 1] \in S
      BY <2>2, <2>3
    <2>5. Moves(p, u, w[i - 1], w[i])
      BY <1>0, <1>1, <2>4 DEF IsPath
    <2> QED BY <2>2, <2>4, <2>5
  <1> QED BY <1>0, <1>1, <1>2
-----------------------------------------------------------------------------
(* The search from k in the call q, with the places W to go on from and,   *)
(* if f, with a best path of length b                                      *)
Settled(q, S, f, b, x) ==
  /\ \A y : Moves(q.program, Scalars(q), x, y) => y \in S
  /\ Accepts(q.program, x) => f /\ x.pos \in Int /\ x.pos <= b

Explored(q, k, S, W, f, b) ==
  /\ Outset(q.program, k) \in S
  /\ \A x \in S : x \in W \/ Settled(q, S, f, b, x)

Frontier(q, k, W, f, b) ==
  /\ \A x \in W : Reaches(q.program, Scalars(q), k, x)
  /\ \E S : Explored(q, k, S, W, f, b)

LEMMA FrontierStarts ==
  ASSUME NEW q, NEW k, NEW f, NEW b
  PROVE  Frontier(q, k, {Outset(q.program, k)}, f, b)
  <1>1. Explored(q, k, {Outset(q.program, k)}, {Outset(q.program, k)}, f, b)
    BY DEF Explored
  <1> QED BY <1>1, ReachesOutset DEF Frontier

(* The places V are W without x and with all that can follow it.           *)
Follows(q, x, W, V) ==
  /\ \A y \in W : y = x \/ y \in V
  /\ \A y \in V : y \in W \/ Moves(q.program, Scalars(q), x, y)
  /\ \A y : Moves(q.program, Scalars(q), x, y) => y \in V

(* If g, the length e is as good as that of a path that ends in x, and, if *)
(* f, as b.                                                                *)
Accounts(q, x, g, e) == Accepts(q.program, x) => g /\ x.pos \in Int /\ x.pos <= e
Improves(f, b, g, e) == \A n \in Int : f /\ n <= b => g /\ n <= e

(* A place of the frontier makes way for those that follow it.             *)
LEMMA FrontierMoves ==
  ASSUME NEW q, NEW k, NEW W, NEW f, NEW b, Frontier(q, k, W, f, b),
         NEW V, NEW g, NEW e, NEW x \in W,
         Follows(q, x, W, V), Improves(f, b, g, e), Accounts(q, x, g, e)
  PROVE  Frontier(q, k, V, g, e)
  <1>1. ASSUME NEW y \in V PROVE Reaches(q.program, Scalars(q), k, y)
    BY <1>1, ReachesNext DEF Frontier, Follows
  <1>2. PICK S : Explored(q, k, S, W, f, b)
    BY DEF Frontier
  <1>3. Explored(q, k, S \cup V, V, g, e)
    <2>1. ASSUME NEW y \in S, y \notin V PROVE Settled(q, S \cup V, g, e, y)
      <3>1. CASE y = x
        BY <3>1 DEF Settled, Follows, Accounts
      <3>2. CASE y # x
        <4>1. Settled(q, S, f, b, y)
          BY <1>2, <2>1, <3>2 DEF Explored, Follows
        <4> QED BY <4>1 DEF Settled, Improves
      <3> QED BY <3>1, <3>2
    <2> QED BY <1>2, <2>1 DEF Explored
  <1> QED BY <1>1, <1>3 DEF Frontier

(* When nothing is left to go on from, every path is known.                *)
LEMMA FrontierEmpty ==
  ASSUME NEW q, NEW k, NEW f, NEW b, Frontier(q, k, {}, f, b),
         NEW x, Completes(q.program, Scalars(q), k, x)
  PROVE  f /\ x.pos <= b
  <1>1. PICK S : Explored(q, k, S, {}, f, b)
    BY DEF Frontier
  <1>2. x \in S
    BY <1>1, ReachesWithin DEF Explored, Settled, Completes
  <1> QED BY <1>1, <1>2 DEF Explored, Settled, Completes
-----------------------------------------------------------------------------
(* An operation fails for a budget or for memory, and for nothing else.    *)
Errs(r, d) == IsRun(d) /\ d.error \in {r.error, "LIMIT", "NOMEM"}

LEMMA ErrsTwice ==
  ASSUME NEW r, NEW d, Errs(r, d), NEW f, Errs(d, f)
  PROVE  Errs(r, f)
  BY DEF Errs

LEMMA FailedErrs ==
  ASSUME NEW r, IsRun(r)
  PROVE  Errs(r, r) /\ Errs(r, Failed(r, "LIMIT")) /\ Errs(r, Failed(r, "NOMEM"))
  BY DEF Errs, Failed, IsRun

LEMMA TickErrs ==
  ASSUME NEW r, IsRun(r), NEW n
  PROVE  Errs(r, Tick(r, n))
  <1>. DEFINE m == r.steps + n
  <1>1. Tick(r, n) = Failed(r, "LIMIT") \/ Tick(r, n) = [r EXCEPT !.steps = m]
    BY DEF Tick
  <1>. HIDE DEF m
  <1>2. Errs(r, [r EXCEPT !.steps = m])
    BY DEF Errs, IsRun
  <1> QED BY <1>1, <1>2, FailedErrs

LEMMA GrowErrs ==
  ASSUME NEW r, IsRun(r), NEW block, NEW old, NEW new, NEW unit, NEW fails
  PROVE  Errs(r, Grow(r, block, old, new, unit, fails))
  <1>. DEFINE g == Grow(r, block, old, new, unit, fails)
              u == r.used - old * unit + new * unit
  <1>1. \/ g = Failed(r, "LIMIT")
        \/ g = Failed(r, "NOMEM")
        \/ g = [r EXCEPT !.used = u]
    BY DEF Grow
  <1>. HIDE DEF g, u
  <1>2. Errs(r, [r EXCEPT !.used = u])
    BY DEF Errs, IsRun
  <1>3. Errs(r, g)
    BY <1>1, <1>2, FailedErrs
  <1> QED BY <1>3 DEF g

LEMMA ReserveErrs ==
  ASSUME NEW r, IsRun(r), NEW fails
  PROVE  Errs(r, Reserve(r, fails))
  <1>. DEFINE cap == IF r.history_capacity = 0 THEN InitialNodes
                     ELSE 2 * r.history_capacity
              g == Grow(r, "history", r.history_capacity, cap, NodeBytes, fails)
              d == Reserve(r, fails)
  <1>1. \/ d = r \/ d = Failed(r, "LIMIT") \/ d = g
        \/ d = [g EXCEPT !.history_capacity = cap]
    BY DEF Reserve
  <1>2. Errs(r, g)
    BY GrowErrs
  <1>. HIDE DEF g, d, cap
  <1>3. Errs(r, [g EXCEPT !.history_capacity = cap])
    BY <1>2 DEF Errs, IsRun
  <1>4. Errs(r, d)
    BY <1>1, <1>2, <1>3, FailedErrs
  <1> QED BY <1>4 DEF d

LEMMA ReservePrioritiesErrs ==
  ASSUME NEW r, IsRun(r), NEW n, NEW fails
  PROVE  Errs(r, ReservePriorities(r, n, fails))
  <1>. DEFINE first1 == IF r.priority_capacity = 0 THEN InitialPriorities
                        ELSE r.priority_capacity
              cap == CHOOSE f : f = [k \in Nat |-> IF k = 0 THEN first1 ELSE 2 * f[k - 1]]
              most == cap[Min({k \in 0 .. n : cap[k] >= n})]
              g == Grow(r, "priorities", r.priority_capacity, most, PriorityBytes, fails)
              d == ReservePriorities(r, n, fails)
  <1>1. \/ d = r \/ d = Failed(r, "LIMIT") \/ d = g
        \/ d = [g EXCEPT !.priority_capacity = most]
    BY DEF ReservePriorities
  <1>2. Errs(r, g)
    <2>. HIDE DEF most
    <2> QED BY GrowErrs
  <1>. HIDE DEF g, d, most
  <1>3. Errs(r, [g EXCEPT !.priority_capacity = most])
    BY <1>2 DEF Errs, IsRun
  <1>4. Errs(r, d)
    BY <1>1, <1>2, <1>3, FailedErrs
  <1> QED BY <1>4 DEF d

(* Counting references never fails.                                        *)
LEMMA DropErrs ==
  ASSUME NEW r, IsRun(r), NEW id
  PROVE  /\ IsRun(Drop(r, id)) /\ Drop(r, id).error = r.error
         /\ IsRun(Retain(r, id)) /\ Retain(r, id).error = r.error
         /\ Errs(r, Drop(r, id)) /\ Errs(r, Retain(r, id))
  <1>1. ASSUME NEW ids, NEW n
        PROVE  IsRun(Counting(r, ids, n)) /\ Counting(r, ids, n).error = r.error
    <2>. DEFINE h == [k \in DOMAIN r.history |->
                       IF k \in ids THEN [Node(r, k) EXCEPT !.refs = @ + n] ELSE Node(r, k)]
    <2>1. Counting(r, ids, n) = [r EXCEPT !.history = h]
      BY DEF Counting
    <2>. HIDE DEF h
    <2> QED BY <2>1 DEF IsRun
  <1>2. IsRun(Drop(r, id)) /\ Drop(r, id).error = r.error
    <2>. DEFINE chain == Chain(r, id)
                shared == {k \in DOMAIN chain : Node(r, chain[k]).refs > 1}
                freed == Min({k - 1 : k \in shared} \cup {Len(chain)})
                losers == {chain[k] : k \in DOMAIN chain \cap 1 .. freed + 1}
                e == Counting(r, losers, -1)
                f == [k \in 1 .. freed |-> chain[freed + 1 - k]] \o e.free
    <2>1. Drop(r, id) = [e EXCEPT !.free = f]
      BY DEF Drop, Released
    <2>2. IsRun(e) /\ e.error = r.error
      <3>. HIDE DEF losers
      <3> QED BY <1>1
    <2>. HIDE DEF e, f
    <2> QED BY <2>1, <2>2 DEF IsRun
  <1>3. IsRun(Retain(r, id)) /\ Retain(r, id).error = r.error
    BY <1>1 DEF Retain
  <1> QED BY <1>2, <1>3 DEF Errs

(* Nor does it change anything but the arena and the free list.            *)
LEMMA DropStays ==
  ASSUME NEW r, IsRun(r), NEW id
  PROVE  /\ Drop(r, id).stack = r.stack /\ Drop(r, id).units = r.units
         /\ Drop(r, id).offsets = r.offsets
         /\ Retain(r, id).stack = r.stack /\ Retain(r, id).units = r.units
         /\ Retain(r, id).offsets = r.offsets
         /\ Drop(r, id).limits = r.limits /\ Retain(r, id).limits = r.limits
         /\ Kept(r, Drop(r, id)) /\ Kept(r, Retain(r, id))
  <1>1. ASSUME NEW ids, NEW n
        PROVE  Kept(r, Counting(r, ids, n))
    <2>. DEFINE h == [k \in DOMAIN r.history |->
                       IF k \in ids THEN [Node(r, k) EXCEPT !.refs = @ + n] ELSE Node(r, k)]
    <2>1. Counting(r, ids, n) = [r EXCEPT !.history = h]
      BY DEF Counting
    <2>. HIDE DEF h
    <2> QED BY <2>1 DEF IsRun, Kept
  <1>2. Kept(r, Drop(r, id))
    <2>. DEFINE chain == Chain(r, id)
                shared == {k \in DOMAIN chain : Node(r, chain[k]).refs > 1}
                freed == Min({k - 1 : k \in shared} \cup {Len(chain)})
                losers == {chain[k] : k \in DOMAIN chain \cap 1 .. freed + 1}
                e == Counting(r, losers, -1)
                f == [k \in 1 .. freed |-> chain[freed + 1 - k]] \o e.free
    <2>1. Drop(r, id) = [e EXCEPT !.free = f]
      BY DEF Drop, Released
    <2>2. Kept(r, e)
      <3>. HIDE DEF losers
      <3> QED BY <1>1
    <2>. HIDE DEF e, f
    <2> QED BY <2>1, <2>2 DEF IsRun, Kept
  <1>3. Kept(r, Retain(r, id))
    BY <1>1 DEF Retain
  <1> QED BY <1>2, <1>3 DEF Kept

LEMMA TagErrs ==
  ASSUME NEW r, IsRun(r), NEW s, NEW kind, NEW key, NEW open, NEW fails
  PROVE  Errs(r, Tag(r, s, kind, key, open, fails)[1])
  <1>. DEFINE ticked == Tick(r, 1)
              v == Reserve(ticked, fails)
              node == [prev |-> s.history, refs |-> 1, kind |-> kind, key |-> key,
                       pos |-> s.pos, open |-> open, order |-> r.history_order + 1]
              t == Tag(r, s, kind, key, open, fails)
  <1>1. Errs(r, ticked) /\ IsRun(ticked)
    BY TickErrs DEF Errs
  <1>2. Errs(r, Failed(ticked, "LIMIT"))
    BY <1>1, FailedErrs, ErrsTwice
  <1>3. Errs(r, v) /\ IsRun(v)
    <2>. HIDE DEF ticked
    <2> QED BY <1>1, ReserveErrs, ErrsTwice DEF Errs
  <1>4. Errs(r, Prepend(v, s, node)[1])
    <2>. HIDE DEF v, node
    <2>. DEFINE reuse == v.free # <<>>
                id == IF reuse THEN Head(v.free) ELSE Len(v.history) + 1
                f == IF reuse THEN Tail(v.free) ELSE v.free
                h == IF reuse THEN [v.history EXCEPT ![id] = node]
                     ELSE Append(v.history, node)
                made == [v EXCEPT !.free = f, !.history = h, !.history_order = node.order]
                k == Retain(made, s.history)
                d == Drop(k, s.history)
    <2>1. \/ Prepend(v, s, node) = <<d, [s EXCEPT !.history = id]>>
          \/ Prepend(v, s, node) = <<v, s>>
      <3>1. made = [v EXCEPT !.free = IF reuse THEN Tail(@) ELSE @,
                             !.history = IF reuse THEN [@ EXCEPT ![id] = node]
                                         ELSE Append(@, node),
                             !.history_order = node.order]
        BY <1>3 DEF IsRun
      <3> QED BY <3>1 DEF Prepend
    <2>2. Errs(v, made) /\ IsRun(made)
      <3>. DEFINE o == node.order
                  v1 == [v EXCEPT !.free = f]
                  v2 == [v1 EXCEPT !.history = h]
      <3>1. made = [v2 EXCEPT !.history_order = o]
        BY <1>3 DEF IsRun
      <3>. HIDE DEF f, h, o, made
      <3>2. Errs(v, v1) /\ IsRun(v1)
        BY <1>3 DEF Errs, IsRun
      <3>. HIDE DEF v1
      <3>3. Errs(v, v2) /\ IsRun(v2)
        BY <3>2 DEF Errs, IsRun
      <3>. HIDE DEF v2
      <3> QED BY <3>1, <3>3 DEF Errs, IsRun
    <2>. HIDE DEF made, id
    <2>3. Errs(v, k) /\ IsRun(k)
      BY <2>2, DropErrs, ErrsTwice
    <2>. HIDE DEF k
    <2>4. Errs(v, d)
      BY <2>3, DropErrs, ErrsTwice
    <2>. HIDE DEF d
    <2>5. Errs(r, d)
      BY <1>3, <2>4, ErrsTwice
    <2>6. CASE Prepend(v, s, node) = <<d, [s EXCEPT !.history = id]>>
      <3>1. Prepend(v, s, node)[1] = d
        BY <2>6
      <3> QED BY <2>5, <3>1
    <2>7. CASE Prepend(v, s, node) = <<v, s>>
      <3>1. Prepend(v, s, node)[1] = v
        BY <2>7
      <3> QED BY <1>3, <3>1
    <2> QED BY <2>1, <2>6, <2>7
  <1>5. \/ t = <<ticked, s>> \/ t = <<Failed(ticked, "LIMIT"), s>>
        \/ t = Prepend(v, s, node)
    BY DEF Tag
  <1>. HIDE DEF ticked, v, node, t
  <1>6. CASE t = <<ticked, s>>
    <2>1. t[1] = ticked
      BY <1>6
    <2> QED BY <1>1, <2>1 DEF t
  <1>7. CASE t = <<Failed(ticked, "LIMIT"), s>>
    <2>1. t[1] = Failed(ticked, "LIMIT")
      BY <1>7
    <2> QED BY <1>2, <2>1 DEF t
  <1>8. CASE t = Prepend(v, s, node)
    BY <1>4, <1>8 DEF t
  <1> QED BY <1>5, <1>6, <1>7, <1>8

LEMMA BetterErrs ==
  ASSUME NEW r, IsRun(r), NEW id, NEW best1, NEW fails
  PROVE  Errs(r, Better(r, id, best1, fails)[1])
  <1>. DEFINE walk == Len(Chain(r, id)) + Len(Chain(r, best1))
              t == Tick(r, walk)
              left == Scopes(r, id)
              right == Scopes(r, best1)
              p == ReservePriorities(t, Max({Len(left), Len(right)}), fails)
  <1>1. Errs(r, t) /\ IsRun(t)
    <2>. HIDE DEF walk
    <2> QED BY TickErrs DEF Errs
  <1>. HIDE DEF left, right, walk, t
  <1>2. Errs(t, p) /\ IsRun(p)
    BY <1>1, ReservePrioritiesErrs DEF Errs
  <1>. HIDE DEF p
  <1>3. Errs(t, Decided(p, Sorted(left), Sorted(right), walk)[1])
    <2>. DEFINE l == Sorted(left)
                q == Sorted(right)
                m == walk + l.ticks + q.ticks + Compared(l.q, q.q)
    <2>1. Decided(p, l, q, walk)[1] \in {p, Tick(p, m)}
      BY DEF Decided
    <2>. HIDE DEF l, q, m
    <2>2. Errs(p, Tick(p, m)) /\ Errs(p, p)
      BY <1>2, TickErrs, FailedErrs
    <2>3. Errs(t, Decided(p, l, q, walk)[1])
      BY <1>2, <2>1, <2>2, ErrsTwice
    <2> QED BY <2>3 DEF l, q
  <1>4. Errs(t, Contest(t, left, right, walk, fails)[1])
    <2>. DEFINE w == Decided(p, Sorted(left), Sorted(right), walk)
                x == Contest(t, left, right, walk, fails)
    <2>1. x = <<t, FALSE>> \/ x = w
      BY DEF Contest, p
    <2>2. Errs(t, t)
      BY <1>1, FailedErrs
    <2>3. Errs(t, w[1])
      BY <1>3
    <2>. HIDE DEF w, x
    <2>4. Errs(t, x[1])
      <3>1. CASE x = <<t, FALSE>>
        <4>1. x[1] = t
          BY <3>1
        <4> QED BY <2>2, <4>1
      <3>2. CASE x = w
        BY <2>3, <3>2
      <3> QED BY <2>1, <3>1, <3>2
    <2> QED BY <2>4 DEF x
  <1>5. Better(r, id, best1, fails) = Contest(t, left, right, walk, fails)
    BY DEF Better, t, left, right, walk
  <1> QED BY <1>1, <1>4, <1>5, ErrsTwice

LEMMA PushErrs ==
  ASSUME NEW r, IsRun(r), NEW s, NEW fails
  PROVE  Errs(r, Push(r, s, fails))
  <1>. DEFINE most == limits.max_frames - 1
              twice == IF r.capacity = 0 THEN InitialStates ELSE 2 * r.capacity
              cap == IF twice > most THEN most ELSE twice
              grown == Grow(r, "stack", r.capacity, cap, StateBytes, fails)
              room == IF Len(r.stack) < r.capacity THEN r
                      ELSE IF Ok(grown) THEN [grown EXCEPT !.capacity = cap] ELSE grown
              p == Push(r, s, fails)
              h == Append(room.stack, s)
  <1>1. p = Failed(r, "LIMIT") \/ p = room \/ p = [room EXCEPT !.stack = h]
    BY DEF Push
  <1>2. Errs(r, grown)
    <2>. HIDE DEF cap
    <2> QED BY GrowErrs
  <1>3. Errs(r, room)
    <2>. HIDE DEF grown, cap
    <2>1. Errs(r, [grown EXCEPT !.capacity = cap])
      BY <1>2 DEF Errs, IsRun
    <2> QED BY <1>2, <2>1, FailedErrs
  <1>. HIDE DEF room, p, h
  <1>4. Errs(r, [room EXCEPT !.stack = h])
    BY <1>3 DEF Errs, IsRun
  <1>5. Errs(r, p)
    BY <1>1, <1>3, <1>4, FailedErrs
  <1> QED BY <1>5 DEF p
-----------------------------------------------------------------------------
(* The place on a path that a state of the executor stands for: it has no  *)
(* history and its loops do not know their openings.                       *)
BareLoop(l) == Running(l.pc, l.count, l.start, l.zero)
Bares(ls)   == [i \in 1 .. Len(ls) |-> BareLoop(ls[i])]
Bare(s)     == Place(s.pc, s.pos, Bares(s.loops), s.begin, s.end)

IsLoop(l) ==
  l = [pc |-> l.pc, count |-> l.count, start |-> l.start, zero |-> l.zero,
       history_open |-> l.history_open]

LoopsOK(ls) == IsSeq(ls) /\ \A i \in 1 .. Len(ls) : IsLoop(ls[i])

(* A state in the search from k, in an input of n scalars                  *)
Tracked(s, n, k) ==
  IsState(s) /\ LoopsOK(s.loops) /\ s.pos \in 0 .. n /\ s.begin[0] = k

LEMMA SameSeq ==
  ASSUME NEW s, IsSeq(s), NEW t, IsSeq(t), Len(s) = Len(t),
         \A i \in 1 .. Len(s) : s[i] = t[i]
  PROVE  s = t
  <1>1. s = [i \in 1 .. Len(s) |-> s[i]] /\ t = [i \in 1 .. Len(t) |-> t[i]]
    BY DEF IsSeq
  <1> QED BY <1>1

LEMMA BaresIs ==
  ASSUME NEW ls, LoopsOK(ls)
  PROVE  /\ IsSeq(Bares(ls)) /\ Len(Bares(ls)) = Len(ls)
         /\ \A i \in 1 .. Len(ls) : Bares(ls)[i] = BareLoop(ls[i])
  <1>1. Len(ls) \in Nat
    BY DEF LoopsOK, IsSeq
  <1>2. \A i \in 1 .. Len(ls) : Bares(ls)[i] = BareLoop(ls[i])
    BY DEF Bares
  <1>3. Bares(ls) = [i \in 1 .. Len(ls) |-> Bares(ls)[i]]
    BY DEF Bares
  <1>4. IsSeq(Bares(ls)) /\ Len(Bares(ls)) = Len(ls)
    BY <1>1, <1>3, Indexed
  <1> QED BY <1>2, <1>4

LEMMA BaresEmpty ==
  ASSUME NEW ls, LoopsOK(ls)
  PROVE  ls = <<>> <=> Bares(ls) = <<>>
  <1>1. IsSeq(ls) /\ IsSeq(Bares(ls)) /\ Len(Bares(ls)) = Len(ls)
    BY BaresIs DEF LoopsOK
  <1>2. \A s : IsSeq(s) => (s = <<>> <=> Len(s) = 0)
    BY SameSeq, EmptySequence
  <1> QED BY <1>1, <1>2

LEMMA BaresAppend ==
  ASSUME NEW ls, LoopsOK(ls), NEW l, IsLoop(l)
  PROVE  /\ LoopsOK(Append(ls, l))
         /\ Bares(Append(ls, l)) = Append(Bares(ls), BareLoop(l))
         /\ Append(ls, l) # <<>>
         /\ Last(Append(ls, l)) = l
  <1>. DEFINE a == Append(ls, l)
  <1>1. /\ IsSeq(a) /\ Len(a) = Len(ls) + 1 /\ Len(ls) \in Nat
        /\ \A i \in 1 .. Len(ls) : a[i] = ls[i]
        /\ a[Len(ls) + 1] = l
    BY Appended DEF LoopsOK, IsSeq
  <1>. HIDE DEF a
  <1>2. LoopsOK(a)
    <2>1. ASSUME NEW i \in 1 .. Len(a) PROVE IsLoop(a[i])
      <3>1. i \in 1 .. Len(ls) \/ i = Len(ls) + 1
        BY <1>1
      <3> QED BY <1>1, <3>1 DEF LoopsOK
    <2> QED BY <1>1, <2>1 DEF LoopsOK
  <1>3. /\ IsSeq(Bares(ls)) /\ Len(Bares(ls)) = Len(ls)
        /\ IsSeq(Bares(a)) /\ Len(Bares(a)) = Len(a)
        /\ \A i \in 1 .. Len(ls) : Bares(ls)[i] = BareLoop(ls[i])
        /\ \A i \in 1 .. Len(a) : Bares(a)[i] = BareLoop(a[i])
    BY <1>2, BaresIs
  <1>. DEFINE b == Append(Bares(ls), BareLoop(l))
  <1>4. /\ IsSeq(b) /\ Len(b) = Len(ls) + 1
        /\ \A i \in 1 .. Len(ls) : b[i] = BareLoop(ls[i])
        /\ b[Len(ls) + 1] = BareLoop(l)
    BY <1>3, Appended
  <1>. HIDE DEF b
  <1>5. ASSUME NEW i \in 1 .. Len(a) PROVE Bares(a)[i] = b[i]
    <2>1. i \in 1 .. Len(ls) \/ i = Len(ls) + 1
      BY <1>1
    <2>2. Bares(a)[i] = BareLoop(a[i])
      BY <1>3
    <2> QED BY <1>1, <1>4, <2>1, <2>2
  <1>6. Bares(a) = b
    BY <1>1, <1>3, <1>4, <1>5, SameSeq
  <1>7. a # <<>> /\ Last(a) = l
    <2>1. a # <<>>
      BY <1>1, EmptySequence
    <2>2. Last(a) = a[Len(a)]
      BY DEF Last
    <2> QED BY <1>1, <2>1, <2>2
  <1> QED BY <1>2, <1>6, <1>7 DEF a, b

LEMMA BaresFront ==
  ASSUME NEW ls, LoopsOK(ls), ls # <<>>
  PROVE  /\ LoopsOK(Front(ls)) /\ Bares(Front(ls)) = Front(Bares(ls))
         /\ Bares(ls) # <<>> /\ Last(Bares(ls)) = BareLoop(Last(ls))
         /\ IsLoop(Last(ls)) /\ Len(ls) \in Nat /\ Len(ls) >= 1
         /\ Last(ls) = ls[Len(ls)]
  <1>1. /\ IsSeq(Front(ls)) /\ Len(ls) >= 1 /\ Len(Front(ls)) = Len(ls) - 1
        /\ \A i \in 1 .. Len(ls) - 1 : Front(ls)[i] = ls[i]
        /\ Last(ls) = ls[Len(ls)] /\ Len(ls) \in Nat
    BY Fronted DEF LoopsOK, IsSeq
  <1>2. LoopsOK(Front(ls))
    BY <1>1 DEF LoopsOK
  <1>3. /\ IsSeq(Bares(ls)) /\ Len(Bares(ls)) = Len(ls)
        /\ \A i \in 1 .. Len(ls) : Bares(ls)[i] = BareLoop(ls[i])
    BY BaresIs
  <1>4. /\ IsSeq(Bares(Front(ls))) /\ Len(Bares(Front(ls))) = Len(ls) - 1
        /\ \A i \in 1 .. Len(ls) - 1 : Bares(Front(ls))[i] = BareLoop(ls[i])
    BY <1>1, <1>2, BaresIs
  <1>5. Bares(ls) # <<>>
    BY BaresEmpty
  <1>6. /\ IsSeq(Front(Bares(ls))) /\ Len(Front(Bares(ls))) = Len(ls) - 1
        /\ \A i \in 1 .. Len(ls) - 1 : Front(Bares(ls))[i] = BareLoop(ls[i])
        /\ Last(Bares(ls)) = Bares(ls)[Len(ls)]
    BY <1>1, <1>3, <1>5, Fronted
  <1>7. Bares(Front(ls)) = Front(Bares(ls))
    BY <1>4, <1>6, SameSeq
  <1>8. Last(Bares(ls)) = BareLoop(Last(ls)) /\ IsLoop(Last(ls))
    BY <1>1, <1>3, <1>6 DEF LoopsOK
  <1> QED BY <1>1, <1>2, <1>5, <1>7, <1>8

Replaced(s, m, x) == [s EXCEPT ![m] = x]

LEMMA ReplacedIs ==
  ASSUME NEW s, IsSeq(s), NEW m, m \in 1 .. Len(s), NEW x
  PROVE  /\ IsSeq(Replaced(s, m, x)) /\ Len(Replaced(s, m, x)) = Len(s)
         /\ Replaced(s, m, x)[m] = x
         /\ \A i \in 1 .. Len(s) : i # m => Replaced(s, m, x)[i] = s[i]
  <1>. DEFINE t == Replaced(s, m, x)
  <1>1. Len(s) \in Nat /\ DOMAIN s = 1 .. Len(s)
    BY AnySeq DEF IsSeq
  <1>2. t = [i \in DOMAIN s |-> IF i = m THEN x ELSE s[i]]
    BY DEF Replaced
  <1>3. t = [i \in 1 .. Len(s) |-> IF i = m THEN x ELSE s[i]]
    BY <1>1, <1>2
  <1>4. \A i \in 1 .. Len(s) : t[i] = IF i = m THEN x ELSE s[i]
    BY <1>3
  <1>5. t = [i \in 1 .. Len(s) |-> t[i]]
    BY <1>3
  <1>. HIDE DEF t
  <1> QED BY <1>1, <1>4, <1>5, Indexed DEF t

(* Another loop in place of the innermost one                              *)
LEMMA BaresChange ==
  ASSUME NEW ls, LoopsOK(ls), ls # <<>>, NEW l, IsLoop(l)
  PROVE  LET ms == [ls EXCEPT ![Len(ls)] = l]
         IN /\ LoopsOK(ms) /\ ms # <<>> /\ Last(ms) = l /\ Len(ms) = Len(ls)
            /\ Bares(ms) = [Bares(ls) EXCEPT ![Len(Bares(ls))] = BareLoop(l)]
  <1>. DEFINE ms == Replaced(ls, Len(ls), l)
              bs == Replaced(Bares(ls), Len(Bares(ls)), BareLoop(l))
  <1>1. Len(ls) \in Nat /\ Len(ls) >= 1 /\ IsSeq(ls)
    BY BaresFront DEF LoopsOK
  <1>2. /\ IsSeq(ms) /\ Len(ms) = Len(ls) /\ ms[Len(ls)] = l
        /\ \A i \in 1 .. Len(ls) - 1 : ms[i] = ls[i]
    <2>1. Len(ls) \in 1 .. Len(ls)
      BY <1>1
    <2>2. /\ IsSeq(ms) /\ Len(ms) = Len(ls) /\ ms[Len(ls)] = l
          /\ \A i \in 1 .. Len(ls) : i # Len(ls) => ms[i] = ls[i]
      BY <1>1, <2>1, ReplacedIs
    <2> QED BY <1>1, <2>2
  <1>3. IsSeq(ms) /\ Len(ms) = Len(ls)
    BY <1>2
  <1>4. /\ IsSeq(Bares(ls)) /\ Len(Bares(ls)) = Len(ls)
        /\ \A i \in 1 .. Len(ls) : Bares(ls)[i] = BareLoop(ls[i])
    BY BaresIs
  <1>5. /\ IsSeq(bs) /\ Len(bs) = Len(ls) /\ bs[Len(ls)] = BareLoop(l)
        /\ \A i \in 1 .. Len(ls) - 1 : bs[i] = Bares(ls)[i]
    <2>1. Len(Bares(ls)) \in 1 .. Len(Bares(ls))
      BY <1>1, <1>4
    <2>2. /\ IsSeq(bs) /\ Len(bs) = Len(Bares(ls)) /\ bs[Len(Bares(ls))] = BareLoop(l)
          /\ \A i \in 1 .. Len(Bares(ls)) : i # Len(Bares(ls)) => bs[i] = Bares(ls)[i]
      BY <1>4, <2>1, ReplacedIs
    <2> QED BY <1>1, <1>4, <2>2
  <1>6. IsSeq(bs) /\ Len(bs) = Len(ls)
    BY <1>5
  <1>. HIDE DEF ms, bs
  <1>7. LoopsOK(ms)
    <2>1. ASSUME NEW i \in 1 .. Len(ms) PROVE IsLoop(ms[i])
      <3>1. i \in 1 .. Len(ls) - 1 \/ i = Len(ls)
        BY <1>1, <1>3
      <3> QED BY <1>1, <1>2, <3>1 DEF LoopsOK
    <2> QED BY <1>3, <2>1 DEF LoopsOK
  <1>8. /\ IsSeq(Bares(ms)) /\ Len(Bares(ms)) = Len(ls)
        /\ \A i \in 1 .. Len(ls) : Bares(ms)[i] = BareLoop(ms[i])
    BY <1>3, <1>7, BaresIs
  <1>9. ASSUME NEW i \in 1 .. Len(ls) PROVE Bares(ms)[i] = bs[i]
    <2>1. i \in 1 .. Len(ls) - 1 \/ i = Len(ls)
      BY <1>1
    <2>2. Bares(ms)[i] = BareLoop(ms[i]) /\ Bares(ls)[i] = BareLoop(ls[i])
      BY <1>4, <1>8
    <2> QED BY <1>1, <1>2, <1>5, <2>1, <2>2
  <1>10. Bares(ms) = bs
    BY <1>6, <1>8, <1>9, SameSeq
  <1>11. ms # <<>> /\ Last(ms) = l
    <2>1. ms # <<>>
      BY <1>1, <1>3, EmptySequence
    <2>2. Last(ms) = ms[Len(ms)]
      BY DEF Last
    <2> QED BY <1>2, <1>3, <2>1, <2>2
  <1> QED BY <1>3, <1>7, <1>10, <1>11 DEF ms, bs, Replaced
-----------------------------------------------------------------------------
(* Each instruction has its own way on.                                    *)
LEMMA MovesBy ==
  ASSUME NEW p, NEW u, NEW x, NEW y, x.pc \in 0 .. CodeCount(p) - 1,
         NEW i, i = Instr(p, x.pc)
  PROVE  /\ i.op \in Consuming => (Moves(p, u, x, y) <=> Reads(p, u, i, x, y))
         /\ i.op \in {"BEGIN", "END"} => (Moves(p, u, x, y) <=> Anchors(u, i, x, y))
         /\ i.op = "OPEN" => (Moves(p, u, x, y) <=> Opens(i, x, y))
         /\ i.op = "CLOSE" => (Moves(p, u, x, y) <=> Closes(i, x, y))
         /\ i.op = "REF" => (Moves(p, u, x, y) <=> Rereads(u, i, x, y))
         /\ i.op = "REPEAT" =>
              (Moves(p, u, x, y) <=> Leaves(i, x, y) \/ Iterates(i, x, y))
         /\ i.op = "REPEAT_END" => (Moves(p, u, x, y) <=> Returns(p, i, x, y))
         /\ i.op = "ACCEPT" => ~Moves(p, u, x, y)
         /\ Accepts(p, x) <=> i.op = "ACCEPT"
  <1>1. Moves(p, u, x, y) <=>
          \/ Reads(p, u, i, x, y) \/ Anchors(u, i, x, y)
          \/ Opens(i, x, y) \/ Closes(i, x, y) \/ Rereads(u, i, x, y)
          \/ Leaves(i, x, y) \/ Iterates(i, x, y) \/ Returns(p, i, x, y)
    BY DEF Moves
  <1>2. /\ Reads(p, u, i, x, y) => i.op \in Consuming
        /\ Anchors(u, i, x, y) => i.op \in {"BEGIN", "END"}
        /\ Opens(i, x, y) => i.op = "OPEN"
        /\ Closes(i, x, y) => i.op = "CLOSE"
        /\ Rereads(u, i, x, y) => i.op = "REF"
        /\ Leaves(i, x, y) => i.op = "REPEAT"
        /\ Iterates(i, x, y) => i.op = "REPEAT"
        /\ Returns(p, i, x, y) => i.op = "REPEAT_END"
    BY DEF Reads, Anchors, Opens, Closes, Rereads, Leaves, Iterates, Returns
  <1>3. Accepts(p, x) <=> i.op = "ACCEPT"
    BY DEF Accepts
  <1> QED BY <1>1, <1>2, <1>3 DEF Consuming
-----------------------------------------------------------------------------
(* What a call that searches was asked, what it has read, and from where   *)
(* it searches                                                             *)
WellAsked(q) == q.mode \in {"SEARCH", "ANCHORED"} /\ q.capacity <= MaxCaptures + 1

Reading(q, r) ==
  /\ Ok(r) /\ Len(r.stack) = 0
  /\ IsSeq(r.units) /\ IsSeq(r.offsets)
  /\ Len(r.offsets) = Len(r.units) /\ Len(r.units) <= Len(q.input)
  /\ \A i \in 1 .. Len(r.units) :
       r.units[i] = q.input[i].value /\ r.offsets[i] = WidthUpTo(q.input, i - 1)

HasRead(q, r) ==
  /\ Ok(r) /\ r.units = Scalars(q)
  /\ \A i \in 0 .. Len(q.input) : r.offsets[i + 1] = WidthUpTo(q.input, i)

Steered(q, k) ==
  \E s \in StartsOf(q) :
    k \in TriedFrom(q, s) /\ \A j \in TriedFrom(q, s) : j < k => ~MatchedAt(q, j)

(* The best state b records the end x of a complete path from k.           *)
Recorded(q, k, x, b) ==
  /\ Completes(q.program, Scalars(q), k, x)
  /\ x.begin[0] = k /\ x.pos \in 0 .. Len(q.input)
  /\ b.pos = x.pos /\ b.begin = x.begin
  /\ b.end[0] = x.pos /\ \A g \in Slots \ {0} : b.end[g] = x.end[g]

Best(q, k, f, b) == f => \E x : Recorded(q, k, x, b)

(* The search from k with the states T to go on from and, if f, with the   *)
(* best state b                                                            *)
Seeking(q, r, T, k, f, b) ==
  /\ WellAsked(q) /\ HasRead(q, r) /\ Steered(q, k)
  /\ \A s \in T : Tracked(s, Len(q.input), k)
  /\ Frontier(q, k, {Bare(s) : s \in T}, f, b.pos)
  /\ Best(q, k, f, b)

(* The states V are T without s and with all that can follow it.           *)
Succeeds(q, k, s, T, V) ==
  /\ \A x \in T : x = s \/ x \in V
  /\ \A x \in V : \/ x \in T
                   \/ /\ Tracked(x, Len(q.input), k)
                      /\ Moves(q.program, Scalars(q), Bare(s), Bare(x))
  /\ \A y : Moves(q.program, Scalars(q), Bare(s), y) => \E x \in V : y = Bare(x)

(* A state makes way for those that follow it.                             *)
LEMMA SeekingGoes ==
  ASSUME NEW q, NEW r, NEW T, NEW k, NEW f, NEW b, Seeking(q, r, T, k, f, b),
         NEW s \in T, NEW d, d.units = r.units, d.offsets = r.offsets, Ok(d),
         NEW V, Succeeds(q, k, s, T, V),
         NEW g, NEW e, Improves(f, b.pos, g, e.pos), Accounts(q, Bare(s), g, e.pos),
         Best(q, k, g, e)
  PROVE  Seeking(q, d, V, k, g, e)
  <1>1. HasRead(q, d)
    BY DEF Seeking, HasRead
  <1>2. \A x \in V : Tracked(x, Len(q.input), k)
    BY DEF Seeking, Succeeds
  <1>. DEFINE W == {Bare(x) : x \in T}
              Z == {Bare(x) : x \in V}
              w == Bare(s)
              bp == b.pos
              ep == e.pos
  <1>3. Frontier(q, k, Z, g, ep)
    <2>1. Frontier(q, k, W, f, bp) /\ w \in W
      BY DEF Seeking
    <2>2. Follows(q, w, W, Z)
      BY DEF Follows, Succeeds
    <2>3. Improves(f, bp, g, ep) /\ Accounts(q, w, g, ep)
      OBVIOUS
    <2>. HIDE DEF W, Z, w, bp, ep
    <2> QED BY <2>1, <2>2, <2>3, FrontierMoves
  <1> QED BY <1>1, <1>2, <1>3 DEF Seeking
-----------------------------------------------------------------------------
Claims(q, e, out) ==
  /\ e = "NOMATCH" => NothingMatches(q)
  /\ e = "OK" => Answers(q, out)

CallTyped(q) ==
  /\ Len(q.input) \in Nat
  /\ \A i \in 1 .. Len(q.input) : q.input[i].status \in {"OK", "ENCODING", "ARGUMENT"}
  /\ {q.program.groups, q.capacity} \subseteq Nat

(* The inductive invariant                                                 *)
MatchInv ==
  /\ pc # "idle" => CallTyped(call)
  /\ pc \in {"idle", "enter", "decode"} => ~found
  /\ pc = "decode" => WellAsked(call) /\ Reading(call, run)
  /\ pc = "step" =>
       Seeking(call, run, Elements(run.stack) \cup {current}, candidate, found, best)
  /\ pc = "ended" =>
       Len(run.stack) = 0 /\ Seeking(call, run, {}, candidate, found, best)
  /\ pc \in {"cleanup", "release"} => Claims(call, run.error, output)
  /\ pc = "done" => Claims(call, status, output)

(* A call that gives up, or returns without a search                       *)
LEMMA AbandonMatch ==
  ASSUME MatchInv, pc # "idle", NEW r, Claims(call, r.error, output), Abandon(r)
  PROVE  MatchInv'
  <1>1. pc' = "cleanup" /\ run' = r /\ call' = call /\ output' = output
    BY DEF Abandon
  <1> QED BY <1>1 DEF MatchInv

LEMMA ErrsClaim ==
  ASSUME NEW r, Ok(r), NEW d, Errs(r, d), ~Ok(d), NEW q, NEW out
  PROVE  Claims(q, d.error, out)
  BY DEF Errs, Ok, Claims

(* One state follows the current one.                                      *)
LEMMA ContinueMatch ==
  ASSUME MatchInv, pc = "step", IsSeq(run.stack),
         NEW r, Kept(run, r), Errs(run, r), NEW s, Continue(r, s),
         Ok(r) =>
           /\ Tracked(s, Len(call.input), candidate)
           /\ Moves(call.program, Scalars(call), Bare(current), Bare(s))
           /\ \A y : Moves(call.program, Scalars(call), Bare(current), y) => y = Bare(s)
           /\ ~Accepts(call.program, Bare(current))
  PROVE  MatchInv'
  <1>1. /\ pc' = (IF Ok(r) THEN "step" ELSE "cleanup") /\ run' = r /\ current' = s
        /\ call' = call /\ output' = output /\ candidate' = candidate
        /\ found' = found /\ best' = best
    BY DEF Continue
  <1>2. Seeking(call, run, Elements(run.stack) \cup {current}, candidate, found, best)
    BY DEF MatchInv
  <1>3. CASE ~Ok(r)
    <2>1. Claims(call, r.error, output)
      BY <1>2, <1>3, ErrsClaim DEF Seeking, HasRead
    <2> QED BY <1>1, <1>3, <2>1 DEF MatchInv
  <1>4. CASE Ok(r)
    <2>. DEFINE T == Elements(run.stack) \cup {current}
                V == Elements(r.stack) \cup {s}
    <2>1. r.units = run.units /\ r.offsets = run.offsets /\ r.stack = run.stack
      BY DEF Kept
    <2>2. Succeeds(call, candidate, current, T, V)
      <3>1. \A x \in T : x = current \/ x \in V
        BY <2>1
      <3>2. \A x \in V :
              \/ x \in T
              \/ /\ Tracked(x, Len(call.input), candidate)
                 /\ Moves(call.program, Scalars(call), Bare(current), Bare(x))
        BY <1>4, <2>1
      <3>3. \A y : Moves(call.program, Scalars(call), Bare(current), y) =>
                     \E x \in V : y = Bare(x)
        BY <1>4
      <3> QED BY <3>1, <3>2, <3>3 DEF Succeeds
    <2>3. current \in T
      OBVIOUS
    <2>4. Best(call, candidate, found, best)
      BY <1>2 DEF Seeking
    <2>5. Improves(found, best.pos, found, best.pos)
      BY DEF Improves
    <2>6. Accounts(call, Bare(current), found, best.pos)
      BY <1>4 DEF Accounts
    <2>. HIDE DEF T, V
    <2>7. Seeking(call, run, T, candidate, found, best)
      BY <1>2 DEF T
    <2>8. Seeking(call, r, V, candidate, found, best)
      BY <1>4, <2>1, <2>2, <2>3, <2>4, <2>5, <2>6, <2>7, SeekingGoes
    <2> QED BY <1>1, <1>4, <2>8 DEF MatchInv, V
  <1> QED BY <1>3, <1>4

(* Nothing follows the current state.                                      *)
LEMMA BacktrackMatch ==
  ASSUME MatchInv, pc = "step", IsSeq(run.stack),
         NEW r, Kept(run, r), Ok(r), Backtrack(r),
         \A y : ~Moves(call.program, Scalars(call), Bare(current), y),
         Improves(found, best.pos, found', best'.pos),
         Accounts(call, Bare(current), found', best'.pos),
         Best(call, candidate, found', best')
  PROVE  MatchInv'
  <1>. DEFINE d == Drop(r, current.history)
              T == Elements(run.stack) \cup {current}
              V == Elements(run.stack)
  <1>1. /\ IsRun(r) /\ r.units = run.units /\ r.offsets = run.offsets
        /\ r.stack = run.stack
    BY DEF Kept
  <1>2. IsRun(d) /\ Ok(d) /\ d.stack = r.stack /\ d.units = r.units /\ d.offsets = r.offsets
    <2>1. IsRun(d) /\ d.error = r.error
      BY <1>1, DropErrs
    <2>2. d.stack = r.stack /\ d.units = r.units /\ d.offsets = r.offsets
      BY <1>1, DropStays
    <2> QED BY <2>1, <2>2 DEF Ok
  <1>3. call' = call /\ candidate' = candidate /\ output' = output /\ status' = status
    BY DEF Backtrack
  <1>4. Seeking(call, run, T, candidate, found, best)
    BY DEF MatchInv
  <1>5. ASSUME NEW e, e.units = run.units, e.offsets = run.offsets, Ok(e)
        PROVE  Seeking(call, e, V, candidate, found', best')
    <2>1. Succeeds(call, candidate, current, T, V)
      BY DEF Succeeds
    <2>2. current \in T
      OBVIOUS
    <2>. HIDE DEF T, V
    <2> QED BY <1>4, <1>5, <2>1, <2>2, SeekingGoes
  <1>6. CASE d.stack = <<>>
    <2>1. pc' = "ended" /\ run' = d
      BY <1>6 DEF Backtrack
    <2>2. Len(d.stack) = 0
      BY <1>6, EmptySequence
    <2>3. V = {}
      BY <1>1, <1>2, <2>2 DEF Elements
    <2>. HIDE DEF d
    <2>4. Seeking(call, d, {}, candidate, found', best')
      BY <1>1, <1>2, <1>5, <2>3
    <2> QED BY <1>3, <2>1, <2>2, <2>4 DEF MatchInv
  <1>7. CASE d.stack # <<>>
    <2>. DEFINE h == Front(d.stack)
                e == [d EXCEPT !.stack = h]
    <2>1. pc' = "step" /\ run' = e /\ current' = Last(d.stack)
      BY <1>7 DEF Backtrack
    <2>. HIDE DEF d
    <2>2. e.units = run.units /\ e.offsets = run.offsets /\ Ok(e) /\ e.stack = h
      <3>. HIDE DEF h
      <3> QED BY <1>1, <1>2 DEF IsRun, Ok
    <2>3. Elements(h) \cup {Last(d.stack)} = V
      <3>. HIDE DEF e
      <3>1. /\ Len(h) = Len(d.stack) - 1 /\ Len(d.stack) >= 1 /\ Len(d.stack) \in Nat
            /\ \A i \in 1 .. Len(d.stack) - 1 : h[i] = d.stack[i]
            /\ Last(d.stack) = d.stack[Len(d.stack)]
        BY <1>1, <1>2, <1>7, Fronted DEF IsSeq
      <3>. HIDE DEF h
      <3>2. V = {d.stack[i] : i \in 1 .. Len(d.stack)}
        BY <1>1, <1>2 DEF Elements
      <3>3. Elements(h) = {d.stack[i] : i \in 1 .. Len(d.stack) - 1}
        BY <3>1 DEF Elements
      <3>. HIDE DEF V
      <3>4. \A i \in 1 .. Len(d.stack) : i \in 1 .. Len(d.stack) - 1 \/ i = Len(d.stack)
        BY <3>1
      <3> QED BY <3>1, <3>2, <3>3, <3>4
    <2>. HIDE DEF e, h
    <2>4. Seeking(call, e, V, candidate, found', best')
      BY <1>5, <2>2
    <2>5. Elements(e.stack) \cup {current'} = V
      BY <2>1, <2>2, <2>3
    <2> QED BY <1>3, <2>1, <2>4, <2>5 DEF MatchInv
  <1> QED BY <1>6, <1>7
-----------------------------------------------------------------------------
(* The call                                                                *)
LEMMA EntersMatch ==
  ASSUME MatchInv, ExecInv, Enters
  PROVE  MatchInv'
  <1>1. pc = "enter" /\ call' = call /\ found' = found /\ output' = output
    BY DEF Enters, RejectLimits, RejectArguments, RejectSizes, UnitsNoMem, Allocate,
           Accepted, Return
  <1>2. CASE RejectLimits \/ RejectArguments \/ RejectSizes \/ UnitsNoMem
    <2>1. pc' = "done" /\ status' \notin {"OK", "NOMATCH"}
      BY <1>2 DEF RejectLimits, RejectArguments, RejectSizes, UnitsNoMem, Return,
                  LimitsStatus
    <2>2. Claims(call, status', output)
      BY <2>1 DEF Claims
    <2> QED BY <1>1, <2>1, <2>2 DEF MatchInv
  <1>3. CASE Allocate
    <2>. DEFINE n == run.used + Decoded
    <2>1. pc' = "decode" /\ run' = [run EXCEPT !.used = n] /\ ArgumentsValid
      BY <1>3 DEF Allocate
    <2>2. run = FreshRun(limits)
      BY <1>1 DEF ExecInv
    <2>. HIDE DEF n
    <2>3. run' = [FreshRun(limits) EXCEPT !.used = n]
      BY <2>1, <2>2
    <2>4. /\ run'.stack = <<>> /\ run'.units = <<>> /\ run'.offsets = <<>>
          /\ run'.error = "OK"
      BY <2>3 DEF FreshRun
    <2>5. WellAsked(call)
      BY <2>1 DEF WellAsked, ArgumentsValid
    <2>6. Len(call.input) \in Nat
      BY <1>1 DEF MatchInv, CallTyped
    <2>7. Reading(call, run')
      BY <2>4, <2>6, EmptySequence DEF Reading, Ok
    <2> QED BY <1>1, <2>1, <2>5, <2>7 DEF MatchInv
  <1> QED BY <1>2, <1>3 DEF Enters

(* One more piece is read.                                                 *)
LEMMA DecodeMatch ==
  ASSUME MatchInv, ExecInv, Decode
  PROVE  MatchInv'
  <1>1. pc = "decode" /\ length < Len(call.input) /\ IsRun(run) /\ Len(call.input) \in Nat
    BY Working DEF Decode, MatchInv, CallTyped
  <1>2. Reading(call, run) /\ WellAsked(call) /\ ~found
    BY <1>1 DEF MatchInv
  <1>3. length \in Nat /\ length + 1 \in 1 .. Len(call.input)
    BY <1>1, <1>2 DEF Reading, IsSeq, length
  <1>. DEFINE t == Tick(run, Piece.width)
              u == Append(t.units, Piece.value)
              o == Append(t.offsets, BytesUpTo(length))
              e == [t EXCEPT !.units = u, !.offsets = o]
  <1>4. Errs(run, t) /\ Kept(run, t)
    <2>. DEFINE w == Piece.width
    <2>. HIDE DEF w
    <2> QED BY <1>1, TickErrs, TickKeeps DEF SameArena
  <1>5. CASE Piece.status # "OK" /\ Abandon(Failed(run, Piece.status))
    <2>1. Piece.status \in {"ENCODING", "ARGUMENT"}
      BY <1>1, <1>3, <1>5 DEF Piece, MatchInv, CallTyped
    <2>2. PICK x : x = Piece.status
      OBVIOUS
    <2>3. Failed(run, x).error = x
      BY <1>1, FailedKeeps
    <2>4. Claims(call, Failed(run, x).error, output)
      BY <2>1, <2>2, <2>3 DEF Claims
    <2> QED BY <1>1, <1>5, <2>2, <2>4, AbandonMatch
  <1>6. CASE ~Ok(t) /\ Abandon(t)
    <2>1. Claims(call, t.error, output)
      <3>. HIDE DEF t
      <3> QED BY <1>2, <1>4, <1>6, ErrsClaim DEF Reading
    <2>. HIDE DEF t
    <2> QED BY <1>1, <1>6, <2>1, AbandonMatch
  <1>7. CASE Ok(t) /\ run' = e /\ UNCHANGED <<call, pc, found>>
    <2>. HIDE DEF t
    <2>1. IsRun(t) /\ t.units = run.units /\ t.offsets = run.offsets /\ t.stack = run.stack
      BY <1>4 DEF Kept
    <2>2. /\ e.units = u /\ e.offsets = o /\ e.error = t.error /\ e.stack = t.stack
      <3>. HIDE DEF u, o
      <3> QED BY <2>1 DEF IsRun
    <2>3. PICK n \in Nat : n = length
      BY <1>3
    <2>4. /\ IsSeq(u) /\ Len(u) = n + 1 /\ u[n + 1] = call.input[n + 1].value
          /\ \A i \in 1 .. n : u[i] = run.units[i]
      <3>1. Len(run.units) = n /\ IsSeq(run.units)
        BY <1>2, <2>3 DEF Reading, length
      <3>2. Piece.value = call.input[n + 1].value
        BY <2>3 DEF Piece
      <3> QED BY <2>1, <3>1, <3>2, Appended
    <2>5. /\ IsSeq(o) /\ Len(o) = n + 1 /\ o[n + 1] = WidthUpTo(call.input, n)
          /\ \A i \in 1 .. n : o[i] = run.offsets[i]
      <3>1. Len(run.offsets) = n /\ IsSeq(run.offsets)
        BY <1>2, <2>3 DEF Reading, length
      <3>2. BytesUpTo(length) = WidthUpTo(call.input, n)
        BY <2>3 DEF BytesUpTo
      <3> QED BY <2>1, <3>1, <3>2, Appended
    <2>6. /\ n + 1 <= Len(call.input) /\ Len(run.units) = n
          /\ \A i \in 1 .. n : /\ run.units[i] = call.input[i].value
                               /\ run.offsets[i] = WidthUpTo(call.input, i - 1)
      BY <1>2, <1>3, <2>3 DEF Reading, length
    <2>. HIDE DEF u, o
    <2>7. ASSUME NEW i \in 1 .. n + 1
          PROVE  u[i] = call.input[i].value /\ o[i] = WidthUpTo(call.input, i - 1)
      <3>1. CASE i \in 1 .. n
        BY <2>4, <2>5, <2>6, <3>1
      <3>2. CASE i = n + 1
        <4>1. i - 1 = n
          BY <3>2
        <4> QED BY <2>4, <2>5, <3>2, <4>1
      <3> QED BY <3>1, <3>2
    <2>8. Reading(call, e)
      <3>1. Ok(e) /\ Len(e.stack) = 0
        BY <1>2, <1>7, <2>1, <2>2 DEF Reading, Ok
      <3>. HIDE DEF e
      <3> QED BY <2>2, <2>4, <2>5, <2>6, <2>7, <3>1 DEF Reading
    <2>. HIDE DEF e
    <2> QED BY <1>1, <1>2, <1>7, <2>8 DEF MatchInv
  <1>8. Decode =>
          \/ Piece.status # "OK" /\ Abandon(Failed(run, Piece.status))
          \/ ~Ok(t) /\ Abandon(t)
          \/ Ok(t) /\ run' = e /\ UNCHANGED <<call, pc, found>>
    BY DEF Decode
  <1> QED BY <1>5, <1>6, <1>7, <1>8

(* A search begins, at the first candidate or at the next one.             *)
LEMMA BeginMatch ==
  ASSUME MatchInv, pc \in {"decode", "ended"}, ~found, NEW k, Begin(k),
         HasRead(call, run'), Len(run'.stack) = 0, WellAsked(call), Steered(call, k),
         k \in 0 .. Len(call.input)
  PROVE  MatchInv'
  <1>. DEFINE s == FreshState(call.program, k)
  <1>1. /\ candidate' = k /\ current' = s /\ pc' = "step" /\ call' = call
        /\ best' = best /\ found' = found /\ output' = output
    BY DEF Begin, program
  <1>2. Bare(s) = Outset(call.program, k)
    <2>1. Bares(<<>>) = <<>>
      BY EmptySequence DEF Bares
    <2> QED BY <2>1 DEF FreshState, Outset, Bare, Place
  <1>3. Tracked(s, Len(call.input), k)
    <2>1. IsState(s) /\ s.pos = k /\ s.loops = <<>> /\ s.begin[0] = k
      BY DEF FreshState, IsState, Slots, MaxCaptures
    <2>2. LoopsOK(<<>>)
      BY EmptySequence DEF LoopsOK
    <2>. HIDE DEF s
    <2> QED BY <2>1, <2>2 DEF Tracked
  <1>4. Elements(run'.stack) = {}
    BY DEF Elements
  <1>. DEFINE T == Elements(run'.stack) \cup {s}
              W == {Bare(x) : x \in T}
              bp == best.pos
  <1>5. Frontier(call, k, W, found, bp)
    <2>1. W = {Outset(call.program, k)}
      BY <1>2, <1>4
    <2>. HIDE DEF W, bp
    <2> QED BY <2>1, FrontierStarts
  <1>. HIDE DEF s
  <1>6. Seeking(call, run', T, k, found, best)
    BY <1>3, <1>4, <1>5 DEF Seeking, Best
  <1> QED BY <1>1, <1>6 DEF MatchInv

LEMMA DecodesMatch ==
  ASSUME MatchInv, ExecInv, Decodes
  PROVE  MatchInv'
  <1>1. pc = "decode" /\ IsRun(run) /\ Len(call.input) \in Nat
    BY Working DEF Decodes, Decode, StartInsideScalar, FirstCandidate, MatchInv, CallTyped
  <1>2. Reading(call, run) /\ WellAsked(call) /\ ~found
    BY <1>1 DEF MatchInv
  <1>3. CASE StartInsideScalar
    <2>1. Abandon(Failed(run, "ARGUMENT"))
      BY <1>3 DEF StartInsideScalar
    <2>2. Failed(run, "ARGUMENT").error = "ARGUMENT"
      BY <1>1, FailedKeeps
    <2>3. Claims(call, Failed(run, "ARGUMENT").error, output)
      BY <2>2 DEF Claims
    <2> QED BY <1>1, <2>1, <2>3, AbandonMatch
  <1>4. CASE FirstCandidate
    <2>1. PICK k \in Start : Begin(k)
      BY <1>4 DEF FirstCandidate
    <2>. DEFINE o == Append(run.offsets, bytes)
                n == Len(call.input)
    <2>2. length = n /\ run' = [run EXCEPT !.offsets = o]
      BY <1>4 DEF FirstCandidate
    <2>3. /\ run'.offsets = o /\ run'.units = run.units /\ run'.stack = run.stack
          /\ run'.error = run.error
      <3>. HIDE DEF o
      <3> QED BY <1>1, <2>2 DEF IsRun
    <2>4. /\ o[n + 1] = WidthUpTo(call.input, n)
          /\ \A i \in 1 .. n : o[i] = run.offsets[i]
      <3>1. IsSeq(run.offsets) /\ Len(run.offsets) = n
        BY <1>2, <2>2 DEF Reading, length
      <3>2. bytes = WidthUpTo(call.input, n)
        BY DEF bytes, BytesUpTo
      <3> QED BY <3>1, <3>2, Appended
    <2>. HIDE DEF o
    <2>5. HasRead(call, run')
      <3>1. run'.units = Scalars(call)
        <4>1. IsSeq(run.units) /\ Len(run.units) = n
          BY <1>2, <2>2 DEF Reading, length
        <4>2. run.units = [i \in 1 .. n |-> run.units[i]]
          BY <4>1 DEF IsSeq
        <4>3. \A i \in 1 .. n : run.units[i] = call.input[i].value
          BY <1>2, <4>1 DEF Reading
        <4> QED BY <2>3, <4>2, <4>3 DEF Scalars
      <3>2. ASSUME NEW i \in 0 .. n PROVE o[i + 1] = WidthUpTo(call.input, i)
        <4>1. CASE i = n
          BY <2>4, <4>1
        <4>2. CASE i < n
          <5>1. i + 1 \in 1 .. n /\ (i + 1) - 1 = i
            BY <1>1, <4>2
          <5>2. Len(run.units) = n
            BY <2>2 DEF length
          <5>3. run.offsets[i + 1] = WidthUpTo(call.input, (i + 1) - 1)
            BY <1>2, <5>1, <5>2 DEF Reading
          <5> QED BY <2>4, <5>1, <5>3
        <4> QED BY <1>1, <4>1, <4>2
      <3> QED BY <1>2, <2>3, <3>1, <3>2 DEF HasRead, Reading, Ok
    <2>6. k \in StartsOf(call) /\ k \in 0 .. n
      BY <2>1, <2>2 DEF Start, StartsOf, BytesUpTo
    <2>7. Steered(call, k)
      <3>1. k \in TriedFrom(call, k) /\ \A j \in TriedFrom(call, k) : ~(j < k)
        BY <1>1, <2>6 DEF TriedFrom
      <3> QED BY <2>6, <3>1 DEF Steered
    <2>8. Len(run'.stack) = 0
      BY <1>2, <2>3 DEF Reading
    <2> QED BY <1>1, <1>2, <2>1, <2>5, <2>6, <2>7, <2>8, BeginMatch
  <1> QED BY <1>3, <1>4, DecodeMatch DEF Decodes
-----------------------------------------------------------------------------
(* The ends of a search and of the call                                    *)

(* Nothing is left to go on from.                                          *)
LEMMA EndedKnows ==
  ASSUME NEW q, NEW r, NEW k, NEW f, NEW b, Seeking(q, r, {}, k, f, b), Len(q.input) \in Nat
  PROVE  /\ ~f => ~MatchedAt(q, k)
         /\ f => \E x : Recorded(q, k, x, b) /\ Longest(q.program, Scalars(q), k, x)
  <1>1. {Bare(s) : s \in {}} = {}
    OBVIOUS
  <1>2. PICK n : n = b.pos
    OBVIOUS
  <1>3. Frontier(q, k, {}, f, n)
    BY <1>1, <1>2 DEF Seeking
  <1>4. ASSUME NEW x, Completes(q.program, Scalars(q), k, x) PROVE f /\ x.pos <= n
    BY <1>3, <1>4, FrontierEmpty
  <1>5. ~f => ~MatchedAt(q, k)
    BY <1>4 DEF MatchedAt, Matches
  <1>6. ASSUME f PROVE \E x : Recorded(q, k, x, b) /\ Longest(q.program, Scalars(q), k, x)
    <2>1. PICK x : Recorded(q, k, x, b)
      BY <1>6 DEF Seeking, Best
    <2>2. Completes(q.program, Scalars(q), k, x) /\ x.pos = n
      BY <1>2, <2>1 DEF Recorded
    <2>3. Longest(q.program, Scalars(q), k, x)
      BY <1>4, <2>2 DEF Longest
    <2> QED BY <2>1, <2>3
  <1> QED BY <1>5, <1>6

LEMMA NextCandidateMatch ==
  ASSUME MatchInv, ExecInv, NextCandidate
  PROVE  MatchInv'
  <1>1. /\ pc = "ended" /\ ~found /\ call.mode = "SEARCH" /\ candidate < length
        /\ Begin(candidate + 1) /\ run' = run
    BY DEF NextCandidate
  <1>2. PICK k : k = candidate + 1
    OBVIOUS
  <1>3. /\ Len(run.stack) = 0 /\ Seeking(call, run, {}, candidate, found, best)
        /\ Len(call.input) \in Nat /\ candidate \in Nat
    BY <1>1, Working DEF MatchInv, CallTyped
  <1>4. WellAsked(call) /\ HasRead(call, run) /\ Steered(call, candidate)
    BY <1>3 DEF Seeking
  <1>5. length = Len(call.input)
    <2>1. Scalars(call) = [i \in 1 .. Len(call.input) |-> Scalars(call)[i]]
      BY DEF Scalars
    <2>2. Len(Scalars(call)) = Len(call.input)
      BY <1>3, <2>1, Indexed
    <2> QED BY <1>4, <2>2 DEF HasRead, length
  <1>6. Steered(call, k)
    <2>1. ~MatchedAt(call, candidate)
      BY <1>1, <1>3, EndedKnows
    <2>2. PICK s \in StartsOf(call) :
            /\ candidate \in TriedFrom(call, s)
            /\ \A j \in TriedFrom(call, s) : j < candidate => ~MatchedAt(call, j)
      BY <1>4 DEF Steered
    <2>3. TriedFrom(call, s) = s .. Len(call.input) /\ s \in Nat
      BY <1>1 DEF TriedFrom, StartsOf
    <2>4. k \in TriedFrom(call, s)
      BY <1>1, <1>2, <1>3, <1>5, <2>2, <2>3
    <2>5. \A j \in TriedFrom(call, s) : j < k => j < candidate \/ j = candidate
      BY <1>2, <1>3, <2>3
    <2> QED BY <2>1, <2>2, <2>4, <2>5 DEF Steered
  <1>7. k \in 0 .. Len(call.input)
    BY <1>1, <1>2, <1>3, <1>5
  <1>8. Begin(k) /\ HasRead(call, run') /\ Len(run'.stack) = 0
    BY <1>1, <1>2, <1>3, <1>4
  <1> QED BY <1>1, <1>4, <1>6, <1>7, <1>8, BeginMatch

LEMMA NoMatchMatch ==
  ASSUME MatchInv, ExecInv, NoMatch
  PROVE  MatchInv'
  <1>1. /\ pc = "ended" /\ ~found /\ Abandon(Failed(run, "NOMATCH"))
        /\ call.mode = "ANCHORED" \/ candidate = length
    BY DEF NoMatch
  <1>2. /\ Seeking(call, run, {}, candidate, found, best) /\ IsRun(run)
        /\ Len(call.input) \in Nat /\ candidate \in Nat
    BY <1>1, Working DEF MatchInv, CallTyped
  <1>3. HasRead(call, run) /\ Steered(call, candidate)
    BY <1>2 DEF Seeking
  <1>4. length = Len(call.input)
    <2>1. Scalars(call) = [i \in 1 .. Len(call.input) |-> Scalars(call)[i]]
      BY DEF Scalars
    <2>2. Len(Scalars(call)) = Len(call.input)
      BY <1>2, <2>1, Indexed
    <2> QED BY <1>3, <2>2 DEF HasRead, length
  <1>5. NothingMatches(call)
    <2>1. ~MatchedAt(call, candidate)
      BY <1>1, <1>2, EndedKnows
    <2>2. PICK s \in StartsOf(call) :
            /\ candidate \in TriedFrom(call, s)
            /\ \A j \in TriedFrom(call, s) : j < candidate => ~MatchedAt(call, j)
      BY <1>3 DEF Steered
    <2>3. s \in Nat
      BY DEF StartsOf
    <2>4. ASSUME NEW j \in TriedFrom(call, s) PROVE j < candidate \/ j = candidate
      BY <1>1, <1>2, <1>4, <2>2, <2>3 DEF TriedFrom
    <2>5. \A j \in TriedFrom(call, s) : ~MatchedAt(call, j)
      BY <2>1, <2>2, <2>4
    <2> QED BY <2>5 DEF NothingMatches
  <1>6. Failed(run, "NOMATCH").error = "NOMATCH"
    BY <1>2, FailedKeeps
  <1>7. Claims(call, Failed(run, "NOMATCH").error, output)
    BY <1>5, <1>6 DEF Claims
  <1> QED BY <1>1, <1>7, AbandonMatch

(* The captures are reported.                                              *)
LEMMA ReportMatch ==
  ASSUME MatchInv, ExecInv, Report
  PROVE  MatchInv'
  <1>1. /\ pc = "ended" /\ found /\ pc' = "cleanup" /\ run' = run /\ call' = call
        /\ output' = [k \in 1 .. call.capacity |-> Capture(k - 1)]
    BY DEF Report
  <1>2. /\ Seeking(call, run, {}, candidate, found, best) /\ SpanOK(best)
        /\ Len(call.input) \in Nat /\ candidate \in Nat
        /\ {call.program.groups, call.capacity} \subseteq Nat
    BY <1>1, Working DEF MatchInv, CallTyped
  <1>3. WellAsked(call) /\ HasRead(call, run) /\ Steered(call, candidate)
    BY <1>2 DEF Seeking
  <1>4. PICK x : /\ Recorded(call, candidate, x, best)
                 /\ Longest(call.program, Scalars(call), candidate, x)
    BY <1>1, <1>2, EndedKnows
  <1>5. ASSUME NEW b \in 0 .. Len(call.input), NEW e \in 0 .. Len(call.input)
        PROVE  [matched |-> 1, start_scalar |-> b, end_scalar |-> e,
                start_byte |-> run.offsets[b + 1], end_byte |-> run.offsets[e + 1]]
               = Spanning(call, b, e)
    BY <1>3 DEF Spanning, HasRead
  <1>6. ASSUME NEW g \in Slots
        PROVE  Capture(g) = Reported(call, candidate, x, g)
    <2>. DEFINE b == best.begin[g]
                e == best.end[g]
    <2>1. /\ b \in Int /\ e \in Int /\ best.pos \in 0 .. Len(call.input)
          /\ b # NONE => 0 <= b /\ b <= best.pos
          /\ b # NONE /\ e # NONE => b <= e /\ e <= best.pos
      <3>1. best.pos \in 0 .. Len(call.input)
        BY <1>4 DEF Recorded
      <3>2. best.begin[0] \in 0 .. best.pos /\ b \in Int /\ e \in Int
        BY <1>2 DEF SpanOK
      <3>3. /\ b # NONE => best.begin[0] <= b /\ b <= best.pos
            /\ b # NONE /\ e # NONE => b <= e /\ e <= best.pos
        BY <1>2 DEF SpanOK
      <3>. HIDE DEF b, e
      <3> QED BY <3>1, <3>2, <3>3
    <2>2. Capture(g) =
            IF g <= call.program.groups /\ b # NONE /\ e # NONE
            THEN [matched |-> 1, start_scalar |-> b, end_scalar |-> e,
                  start_byte |-> run.offsets[b + 1], end_byte |-> run.offsets[e + 1]]
            ELSE Unmatched
      BY DEF Capture, program, Unmatched
    <2>3. /\ b = x.begin[g]
          /\ g = 0 => b = candidate /\ e = x.pos
          /\ g # 0 => e = x.end[g]
      BY <1>4 DEF Recorded
    <2>. HIDE DEF b, e
    <2>4. b # NONE /\ e # NONE => b \in 0 .. Len(call.input) /\ e \in 0 .. Len(call.input)
      BY <1>2, <2>1
    <2>5. CASE b # NONE /\ e # NONE
      <3>1. PICK b1 \in 0 .. Len(call.input), e1 \in 0 .. Len(call.input) : b1 = b /\ e1 = e
        BY <2>4, <2>5
      <3>2. [matched |-> 1, start_scalar |-> b, end_scalar |-> e,
                start_byte |-> run.offsets[b + 1], end_byte |-> run.offsets[e + 1]]
               = Spanning(call, b, e)
        BY <1>5, <3>1
      <3>3. CASE g = 0
        <4>1. g <= call.program.groups
          BY <1>2, <3>3
        <4>2. Capture(g) = Spanning(call, b, e)
          BY <2>2, <2>5, <3>2, <4>1
        <4> QED BY <2>3, <3>3, <4>2 DEF Reported
      <3>4. CASE g # 0
        BY <2>2, <2>3, <2>5, <3>2, <3>4 DEF Reported
      <3> QED BY <3>3, <3>4
    <2>6. CASE ~(b # NONE /\ e # NONE)
      <3>1. g # 0
        <4>1. candidate # NONE /\ x.pos # NONE
          BY <1>2, <1>4 DEF Recorded, NONE
        <4> QED BY <2>3, <2>6, <4>1
      <3> QED BY <2>2, <2>3, <2>6, <3>1 DEF Reported
    <2> QED BY <2>5, <2>6
  <1>7. output' = [n \in 1 .. call.capacity |-> Reported(call, candidate, x, n - 1)]
    <2>1. ASSUME NEW n \in 1 .. call.capacity PROVE n - 1 \in Slots
      BY <1>2, <1>3 DEF WellAsked, Slots, MaxCaptures
    <2>2. ASSUME NEW n \in 1 .. call.capacity
          PROVE  Capture(n - 1) = Reported(call, candidate, x, n - 1)
      <3>1. PICK g \in Slots : g = n - 1
        BY <2>1
      <3>2. Capture(g) = Reported(call, candidate, x, g)
        BY <1>6
      <3> QED BY <3>1, <3>2
    <2> QED BY <1>1, <2>2
  <1>8. Answers(call, output')
    BY <1>3, <1>4, <1>7 DEF Steered, Answers
  <1>9. run.error = "OK"
    BY <1>3 DEF HasRead, Ok
  <1>10. Claims(call, run'.error, output')
    BY <1>1, <1>8, <1>9 DEF Claims
  <1> QED BY <1>1, <1>10 DEF MatchInv

LEMMA EndsMatch ==
  ASSUME MatchInv, ExecInv, Ends
  PROVE  MatchInv'
  <1>1. CASE Cleanup
    <2>. DEFINE d == Drop(run, current.history)
                e == Drop(d, best.history)
    <2>1. /\ pc = "cleanup" /\ pc' = "release" /\ run' = e
          /\ call' = call /\ output' = output
      BY <1>1 DEF Cleanup
    <2>2. IsRun(run)
      BY <2>1, Working
    <2>3. IsRun(d) /\ d.error = run.error
      BY <2>2, DropErrs
    <2>. HIDE DEF d
    <2>4. e.error = d.error
      BY <2>3, DropErrs
    <2>. HIDE DEF e
    <2> QED BY <2>1, <2>3, <2>4 DEF MatchInv
  <1>2. CASE ReleaseState
    <2>. DEFINE s == Last(run.stack)
                d == Drop(run, s.history)
                h == Front(d.stack)
    <2>1. /\ pc = "release" /\ pc' = pc /\ run' = [d EXCEPT !.stack = h]
          /\ call' = call /\ output' = output
      BY <1>2 DEF ReleaseState
    <2>2. IsRun(run)
      BY <2>1, Working
    <2>3. IsRun(d) /\ d.error = run.error
      <3>. HIDE DEF s
      <3> QED BY <2>2, DropErrs
    <2>. HIDE DEF d, h
    <2>4. run'.error = d.error
      BY <2>1, <2>3 DEF IsRun
    <2> QED BY <2>1, <2>3, <2>4 DEF MatchInv
  <1>3. CASE Finish
    BY <1>3 DEF Finish, Return, MatchInv
  <1> QED BY <1>1, <1>2, <1>3, NextCandidateMatch, NoMatchMatch, ReportMatch DEF Ends
-----------------------------------------------------------------------------
(* An instruction that is carried out, the place it is at and what it has  *)
(* cost                                                                    *)
LEMMA HereIs ==
  ASSUME MatchInv, ExecInv, pc = "step"
  PROVE  /\ Seeking(call, run, Elements(run.stack) \cup {current}, candidate, found, best)
         /\ Tracked(current, Len(call.input), candidate)
         /\ Len(call.input) \in Nat /\ candidate \in Nat
         /\ Ok(run) /\ run.units = Scalars(call) /\ length = Len(call.input)
         /\ Len(Scalars(call)) = Len(call.input)
         /\ IsRun(run) /\ IsSeq(run.stack)
         /\ SpanOK(current) /\ SpanOK(best) /\ IsState(current)
         /\ Kept(run, Ticked) /\ Errs(run, Ticked) /\ IsRun(Ticked)
  <1>1. /\ Sound(run, limits, Base) /\ SpanOK(current) /\ SpanOK(best) /\ candidate \in Nat
        /\ IsRun(run) /\ IsState(current) /\ Len(call.input) \in Nat
    BY Working DEF MatchInv, CallTyped
  <1>2. Seeking(call, run, Elements(run.stack) \cup {current}, candidate, found, best)
    BY DEF MatchInv
  <1>3. Tracked(current, Len(call.input), candidate) /\ HasRead(call, run)
    BY <1>2 DEF Seeking
  <1>4. Len(Scalars(call)) = Len(call.input)
    <2>1. Scalars(call) = [i \in 1 .. Len(call.input) |-> Scalars(call)[i]]
      BY DEF Scalars
    <2> QED BY <1>1, <2>1, Indexed
  <1>5. Kept(run, Ticked) /\ Errs(run, Ticked) /\ IsRun(Ticked)
    BY <1>1, TickKeeps, TickErrs DEF Ticked, SameArena, Errs
  <1>6. IsSeq(run.stack)
    BY <1>1 DEF Sound, Balanced
  <1> QED BY <1>1, <1>2, <1>3, <1>4, <1>5, <1>6 DEF HasRead, length

LEMMA InstrHere ==
  ASSUME NEW ops, At(ops)
  PROVE  /\ pc = "step" /\ Ok(Ticked) /\ code.op \in ops /\ ~Misplaced
         /\ Bare(current).pc = current.pc
         /\ Bare(current).pc \in 0 .. CodeCount(call.program) - 1
         /\ code = Instr(call.program, Bare(current).pc)
  BY DEF At, InCode, code, program, Bare, Place

LEMMA AbortMatch ==
  ASSUME MatchInv, ExecInv, Abort
  PROVE  MatchInv'
  <1>1. pc = "step" /\ Ok(run) /\ Errs(run, Ticked) /\ IsRun(Ticked)
    BY HereIs DEF Abort
  <1>2. CASE Ok(Ticked)
    <2>1. Failed(Ticked, "ARGUMENT").error = "ARGUMENT"
      BY <1>1, FailedKeeps
    <2>2. Claims(call, Failed(Ticked, "ARGUMENT").error, output)
      BY <2>1 DEF Claims
    <2> QED BY <1>1, <1>2, <2>2, AbandonMatch DEF Abort
  <1>3. CASE ~Ok(Ticked)
    <2>1. Claims(call, Ticked.error, output)
      BY <1>1, <1>3, ErrsClaim
    <2> QED BY <1>1, <1>3, <2>1, AbandonMatch DEF Abort
  <1> QED BY <1>2, <1>3

(* What a ranking costs and what it tells                                  *)
LEMMA RankingIs ==
  ASSUME MatchInv, ExecInv, pc = "step", NEW x \in Rankings
  PROVE  /\ Kept(run, x[1]) /\ Errs(run, x[1])
         /\ x[2] => (found => best.pos <= current.pos)
         /\ ~x[2] => found /\ current.pos <= best.pos
  <1>1. PICK fails \in Outcomes : x = Ranking(fails)
    BY DEF Rankings
  <1>2. /\ IsRun(Ticked) /\ Kept(run, Ticked) /\ Errs(run, Ticked)
        /\ current.pos \in Int /\ best.pos \in Int
    BY HereIs DEF SpanOK
  <1>. DEFINE b == Better(Ticked, current.history, best.history, fails)
              w == ~found \/ current.pos > best.pos
  <1>3. CASE found /\ current.pos = best.pos
    <2>1. x = b
      BY <1>1, <1>3 DEF Ranking
    <2>2. SameArena(Ticked, b[1]) /\ Errs(Ticked, b[1])
      BY <1>2, BetterKeeps, BetterErrs
    <2>. HIDE DEF b
    <2>3. Errs(run, b[1])
      BY <1>2, <2>2, ErrsTwice
    <2>4. Kept(run, b[1])
      BY <1>2, <2>2 DEF Kept, SameArena
    <2> QED BY <1>2, <1>3, <2>1, <2>3, <2>4
  <1>4. CASE ~(found /\ current.pos = best.pos)
    <2>1. x = <<Ticked, w>>
      BY <1>1, <1>4 DEF Ranking
    <2>2. x[1] = Ticked /\ x[2] = w
      BY <2>1
    <2>3. /\ current.pos > best.pos => best.pos <= current.pos
          /\ ~(current.pos > best.pos) => current.pos <= best.pos
      BY <1>2
    <2>4. /\ x[2] => ~found \/ current.pos > best.pos
          /\ ~x[2] => found /\ ~(current.pos > best.pos)
      <3>1. x[2] <=> w
        BY <2>2
      <3> QED BY <3>1
    <2>. HIDE DEF w
    <2> QED BY <1>2, <2>2, <2>3, <2>4, Zenon
  <1> QED BY <1>3, <1>4

LEMMA AcceptMatch ==
  ASSUME MatchInv, ExecInv, RankingFails \/ AcceptWorse \/ AcceptBetter
  PROVE  MatchInv'
  <1>1. At({"ACCEPT"})
    BY DEF RankingFails, AcceptWorse, AcceptBetter
  <1>2. /\ pc = "step" /\ Ok(run) /\ IsSeq(run.stack)
        /\ Seeking(call, run, Elements(run.stack) \cup {current}, candidate, found, best)
        /\ Tracked(current, Len(call.input), candidate)
        /\ Len(call.input) \in Nat /\ SpanOK(current) /\ SpanOK(best)
    BY <1>1, InstrHere, HereIs
  <1>3. /\ \A y : ~Moves(call.program, Scalars(call), Bare(current), y)
        /\ Accepts(call.program, Bare(current))
    <2>1. /\ code.op = "ACCEPT" /\ code = Instr(call.program, Bare(current).pc)
          /\ Bare(current).pc \in 0 .. CodeCount(call.program) - 1
      BY <1>1, InstrHere
    <2> QED BY <2>1, MovesBy
  <1>4. CASE RankingFails
    <2>1. PICK x \in Rankings : ~Ok(x[1]) /\ Abandon(x[1])
      BY <1>4 DEF RankingFails
    <2>2. Errs(run, x[1])
      BY <1>2, RankingIs
    <2>3. Claims(call, x[1].error, output)
      BY <1>2, <2>1, <2>2, ErrsClaim
    <2> QED BY <1>2, <2>1, <2>3, AbandonMatch
  <1>5. CASE AcceptWorse
    <2>1. PICK x \in Rankings : Ok(x[1]) /\ ~x[2] /\ Backtrack(x[1])
      BY <1>5 DEF AcceptWorse
    <2>2. Kept(run, x[1]) /\ found /\ current.pos <= best.pos
      BY <1>2, <2>1, RankingIs
    <2>3. best' = best /\ found' = found
      BY <1>5 DEF AcceptWorse
    <2>4. Improves(found, best.pos, found', best'.pos)
      BY <2>3 DEF Improves
    <2>5. Accounts(call, Bare(current), found', best'.pos)
      <3>1. current.pos \in Int
        BY <1>2 DEF SpanOK
      <3> QED BY <2>2, <2>3, <3>1 DEF Accounts, Bare, Place
    <2>6. Best(call, candidate, found', best')
      BY <1>2, <2>3 DEF Seeking
    <2> QED BY <1>2, <1>3, <2>1, <2>2, <2>4, <2>5, <2>6, BacktrackMatch
  <1>6. CASE AcceptBetter
    <2>1. PICK x \in Rankings :
            /\ Ok(x[1]) /\ x[2]
            /\ Backtrack(Retain(Drop(x[1], best.history), current.history))
      BY <1>6 DEF AcceptBetter
    <2>2. /\ best' = [current EXCEPT !.end[0] = current.pos] /\ found' = TRUE
      BY <1>6 DEF AcceptBetter
    <2>3. Kept(run, x[1]) /\ (found => best.pos <= current.pos)
      BY <1>2, <2>1, RankingIs
    <2>. DEFINE d == Drop(x[1], best.history)
                r == Retain(d, current.history)
    <2>4. Kept(run, r) /\ Ok(r)
      <3>1. IsRun(x[1])
        BY <2>3 DEF Kept
      <3>2. Kept(x[1], d) /\ d.error = x[1].error /\ IsRun(d)
        BY <3>1, DropErrs, DropStays
      <3>. HIDE DEF d
      <3>3. Kept(d, r) /\ r.error = d.error
        BY <3>2, DropErrs, DropStays
      <3>. HIDE DEF r
      <3> QED BY <2>1, <2>3, <3>2, <3>3 DEF Kept, Ok
    <2>. DEFINE e == [current.end EXCEPT ![0] = current.pos]
    <2>5. /\ best'.pos = current.pos /\ best'.begin = current.begin /\ best'.end = e
      <3>1. best' = [current EXCEPT !.end = e]
        BY <1>2, <2>2 DEF Tracked, IsState
      <3>. HIDE DEF e
      <3> QED BY <1>2, <3>1 DEF Tracked, IsState
    <2>6. e[0] = current.pos /\ \A g \in Slots \ {0} : e[g] = current.end[g]
      <3>1. current.end \in [Slots -> Int]
        BY <1>2 DEF SpanOK
      <3>2. 0 \in Slots
        BY DEF Slots, MaxCaptures
      <3> QED BY <3>1, <3>2
    <2>7. Best(call, candidate, found', best')
      <3>1. Completes(call.program, Scalars(call), candidate, Bare(current))
        BY <1>2, <1>3 DEF Seeking, Frontier, Completes
      <3>2. /\ Bare(current).begin = current.begin /\ Bare(current).end = current.end
            /\ Bare(current).pos = current.pos
        BY DEF Bare, Place
      <3>3. current.begin[0] = candidate /\ current.pos \in 0 .. Len(call.input)
        BY <1>2 DEF Tracked
      <3>. HIDE DEF e
      <3>4. Recorded(call, candidate, Bare(current), best')
        BY <2>5, <2>6, <3>1, <3>2, <3>3 DEF Recorded
      <3> QED BY <3>4 DEF Best
    <2>8. Improves(found, best.pos, found', best'.pos)
      <3>1. best.pos \in Int /\ current.pos \in Int
        BY <1>2 DEF SpanOK
      <3> QED BY <2>2, <2>3, <2>5, <3>1 DEF Improves
    <2>9. Accounts(call, Bare(current), found', best'.pos)
      <3>1. current.pos \in Int
        BY <1>2 DEF SpanOK
      <3> QED BY <2>2, <2>5, <3>1 DEF Accounts, Bare, Place
    <2>. HIDE DEF r
    <2>10. Backtrack(r)
      BY <2>1 DEF r
    <2> QED BY <1>2, <1>3, <2>4, <2>7, <2>8, <2>9, <2>10, BacktrackMatch
  <1> QED BY <1>4, <1>5, <1>6
-----------------------------------------------------------------------------
(* A path that does not go on, and that is not complete                    *)
LEMMA StuckMatch ==
  ASSUME MatchInv, ExecInv, pc = "step", NEW r, Kept(run, r), Ok(r), Backtrack(r),
         best' = best, found' = found,
         \A y : ~Moves(call.program, Scalars(call), Bare(current), y),
         ~Accepts(call.program, Bare(current))
  PROVE  MatchInv'
  <1>1. /\ IsSeq(run.stack)
        /\ Seeking(call, run, Elements(run.stack) \cup {current}, candidate, found, best)
    BY HereIs
  <1>2. /\ Improves(found, best.pos, found', best'.pos)
        /\ Accounts(call, Bare(current), found', best'.pos)
        /\ Best(call, candidate, found', best')
    BY <1>1 DEF Improves, Accounts, Seeking
  <1> QED BY <1>1, <1>2, BacktrackMatch

-----------------------------------------------------------------------------
(* Instructions that read, and anchors                                     *)
Further(s, i, n, t) == t = [Go(s, i) EXCEPT !.pos = n]

LEMMA FurtherIs ==
  ASSUME NEW s, IsState(s), NEW i, NEW n, NEW t, Further(s, i, n, t)
  PROVE  /\ IsState(t) /\ t.pc = i /\ t.pos = n /\ t.loops = s.loops
         /\ t.begin = s.begin /\ t.end = s.end
         /\ Bare(t) = Place(i, n, Bares(s.loops), s.begin, s.end)
  <1>1. IsState(t) /\ t.pc = i /\ t.pos = n /\ t.loops = s.loops
         /\ t.begin = s.begin /\ t.end = s.end
    BY DEF Go, IsState, Further
  <1> QED BY <1>1 DEF Bare

LEMMA BareIs ==
  ASSUME NEW s
  PROVE  /\ Bare(s).pc = s.pc /\ Bare(s).pos = s.pos /\ Bare(s).loops = Bares(s.loops)
         /\ Bare(s).begin = s.begin /\ Bare(s).end = s.end
  BY DEF Bare, Place

LEMMA ConsumeMatch ==
  ASSUME MatchInv, ExecInv, Consume \/ Mismatch
  PROVE  MatchInv'
  <1>. DEFINE x == Bare(current)
              u == Scalars(call)
              n == current.pos + 1
              s == [Go(current, code.next) EXCEPT !.pos = n]
  <1>1. At(Consuming)
    BY DEF Consume, Mismatch
  <1>2. /\ pc = "step" /\ Ok(Ticked) /\ code.op \in Consuming
        /\ code = Instr(call.program, x.pc) /\ x.pc \in 0 .. CodeCount(call.program) - 1
        /\ IsSeq(run.stack) /\ Kept(run, Ticked) /\ Errs(run, Ticked) /\ IsRun(Ticked)
        /\ run.units = u /\ length = Len(call.input) /\ Len(u) = length
        /\ length \in Nat
        /\ Tracked(current, length, candidate)
    BY <1>1, InstrHere, HereIs
  <1>3. /\ \A y : Moves(call.program, u, x, y) <=> Reads(call.program, u, code, x, y)
        /\ ~Accepts(call.program, x)
    <2>. HIDE DEF x, u
    <2>1. code.op # "ACCEPT"
      BY <1>2 DEF Consuming
    <2> QED BY <1>2, <2>1, MovesBy
  <1>4. x.pos = current.pos /\ x.loops = Bares(current.loops)
        /\ x.begin = current.begin /\ x.end = current.end
    BY BareIs
  <1>5. /\ Kept(run, Examined) /\ Errs(run, Examined)
    <2>. DEFINE b == code.b
    <2>. HIDE DEF b
    <2>1. SameArena(Ticked, Tick(Ticked, b)) /\ Errs(Ticked, Tick(Ticked, b))
      BY <1>2, TickKeeps, TickErrs
    <2>2. Errs(run, Tick(Ticked, b))
      BY <1>2, <2>1, ErrsTwice
    <2>3. Kept(run, Tick(Ticked, b))
      BY <1>2, <2>1 DEF Kept, SameArena
    <2> QED BY <2>2, <2>3 DEF Examined, b
  <1>6. \A y : Reads(call.program, u, code, x, y) <=>
                 /\ current.pos < length /\ Consumes(call.program, code, Unit)
                 /\ y = Place(code.next, n, Bares(current.loops), current.begin, current.end)
    <2>1. Unit = u[x.pos + 1]
      BY <1>2, <1>4 DEF Unit
    <2>. HIDE DEF x, u
    <2> QED BY <1>2, <1>4, <2>1 DEF Reads
  <1>. HIDE DEF x, u
  <1>7. CASE Consume
    <2>1. /\ Ok(Examined) => Consumes(call.program, code, Unit)
          /\ current.pos < length
          /\ Continue(Examined, s)
      BY <1>7, <1>2 DEF Consume, program, Go, Tracked, IsState
    <2>2. /\ IsState(s) /\ s.pos = n /\ s.loops = current.loops
          /\ s.begin = current.begin
          /\ Bare(s) = Place(code.next, n, Bares(current.loops), current.begin, current.end)
      <3>1. IsState(current)
        BY <1>2 DEF Tracked
      <3>2. Further(current, code.next, n, s)
        BY DEF Further
      <3>. HIDE DEF n, s
      <3> QED BY <3>1, <3>2, FurtherIs
    <2>. HIDE DEF s
    <2>3. Tracked(s, length, candidate)
      <3>1. current.pos + 1 \in 0 .. length
        BY <1>2, <2>1 DEF Tracked
      <3> QED BY <1>2, <2>2, <3>1 DEF Tracked
    <2>. HIDE DEF n
    <2>4. Ok(Examined) =>
            /\ Moves(call.program, u, x, Bare(s))
            /\ \A y : Moves(call.program, u, x, y) => y = Bare(s)
      BY <1>3, <1>6, <2>1, <2>2
    <2> QED BY <1>2, <1>3, <1>5, <2>1, <2>3, <2>4, ContinueMatch DEF x, u
  <1>8. CASE Mismatch
    <2>1. /\ best' = best /\ found' = found
          /\ \/ current.pos = length /\ Backtrack(Ticked)
             \/ /\ Ok(Examined) /\ ~Consumes(call.program, code, Unit)
                /\ Backtrack(Examined)
      BY <1>8 DEF Mismatch, program
    <2>2. \A y : ~Moves(call.program, u, x, y)
      <3>1. ~(length < length)
        BY <1>2
      <3>. HIDE DEF n
      <3> QED BY <1>3, <1>6, <2>1, <3>1
    <2> QED BY <1>2, <1>3, <1>5, <2>1, <2>2, StuckMatch DEF x, u
  <1> QED BY <1>7, <1>8

LEMMA AnchorMatch ==
  ASSUME MatchInv, ExecInv, AnchorHolds \/ AnchorFails
  PROVE  MatchInv'
  <1>. DEFINE x == Bare(current)
              u == Scalars(call)
              s == Go(current, code.next)
  <1>1. At({"BEGIN", "END"})
    BY DEF AnchorHolds, AnchorFails
  <1>2. /\ pc = "step" /\ Ok(Ticked) /\ code.op \in {"BEGIN", "END"}
        /\ code = Instr(call.program, x.pc) /\ x.pc \in 0 .. CodeCount(call.program) - 1
        /\ IsSeq(run.stack) /\ Kept(run, Ticked) /\ Errs(run, Ticked)
        /\ length = Len(call.input) /\ Len(u) = length
        /\ Tracked(current, length, candidate)
    BY <1>1, InstrHere, HereIs
  <1>3. /\ \A y : Moves(call.program, u, x, y) <=> Anchors(u, code, x, y)
        /\ ~Accepts(call.program, x)
    <2>. HIDE DEF x, u
    <2>1. code.op # "ACCEPT"
      BY <1>2
    <2> QED BY <1>2, <2>1, MovesBy
  <1>4. x.pos = current.pos /\ x.loops = Bares(current.loops)
        /\ x.begin = current.begin /\ x.end = current.end
    BY BareIs
  <1>5. \A y : Anchors(u, code, x, y) <=>
                 /\ AtAnchor
                 /\ y = Place(code.next, current.pos, Bares(current.loops), current.begin,
                              current.end)
    <2>. HIDE DEF x, u
    <2> QED BY <1>2, <1>4 DEF Anchors, AtAnchor
  <1>. HIDE DEF x, u
  <1>6. CASE AnchorHolds
    <2>1. AtAnchor /\ Continue(Ticked, s)
      BY <1>6 DEF AnchorHolds
    <2>2. Bare(s) = Place(code.next, current.pos, Bares(current.loops), current.begin,
                          current.end)
          /\ Tracked(s, length, candidate)
      <3>1. IsState(current)
        BY <1>2 DEF Tracked
      <3>2. /\ IsState(s) /\ s.pc = code.next /\ s.pos = current.pos
            /\ s.loops = current.loops /\ s.begin = current.begin /\ s.end = current.end
        BY <3>1 DEF Go, IsState
      <3>. HIDE DEF s
      <3> QED BY <1>2, <3>2 DEF Tracked, Bare
    <2>. HIDE DEF s
    <2>3. /\ Moves(call.program, u, x, Bare(s))
          /\ \A y : Moves(call.program, u, x, y) => y = Bare(s)
      BY <1>3, <1>5, <2>1, <2>2
    <2> QED BY <1>2, <1>3, <2>1, <2>2, <2>3, ContinueMatch DEF x, u
  <1>7. CASE AnchorFails
    <2>1. best' = best /\ found' = found /\ ~AtAnchor /\ Backtrack(Ticked)
      BY <1>7 DEF AnchorFails
    <2>2. \A y : ~Moves(call.program, u, x, y)
      BY <1>3, <1>5, <2>1
    <2> QED BY <1>2, <1>3, <2>1, <2>2, StuckMatch DEF x, u
  <1> QED BY <1>6, <1>7

(* A back reference                                                        *)
LEMMA ReferenceMatch ==
  ASSUME MatchInv, ExecInv, Reference \/ ReferenceFails
  PROVE  MatchInv'
  <1>. DEFINE x == Bare(current)
              u == Scalars(call)
              n == current.pos + size
              s == [Go(current, code.next) EXCEPT !.pos = n]
  <1>1. At({"REF"})
    BY DEF Reference, ReferenceFails
  <1>2. /\ pc = "step" /\ Ok(Ticked) /\ code.op = "REF"
        /\ code = Instr(call.program, x.pc) /\ x.pc \in 0 .. CodeCount(call.program) - 1
        /\ IsSeq(run.stack) /\ Kept(run, Ticked) /\ Errs(run, Ticked) /\ IsRun(Ticked)
        /\ run.units = u /\ length = Len(call.input) /\ Len(u) = length
        /\ length \in Nat
        /\ Tracked(current, length, candidate) /\ SpanOK(current)
    BY <1>1, InstrHere, HereIs
  <1>3. /\ \A y : Moves(call.program, u, x, y) <=> Rereads(u, code, x, y)
        /\ ~Accepts(call.program, x)
    <2>. HIDE DEF x, u
    <2>1. code.op # "ACCEPT"
      BY <1>2
    <2> QED BY <1>2, <2>1, MovesBy
  <1>4. x.pos = current.pos /\ x.loops = Bares(current.loops)
        /\ x.begin = current.begin /\ x.end = current.end
    BY BareIs
  <1>5. Kept(run, Compare) /\ Errs(run, Compare)
    <2>. DEFINE b == IF Differing = {} THEN size ELSE Min(Differing)
    <2>. HIDE DEF b
    <2>1. SameArena(Ticked, Tick(Ticked, b)) /\ Errs(Ticked, Tick(Ticked, b))
      BY <1>2, TickKeeps, TickErrs
    <2>2. Errs(run, Tick(Ticked, b))
      BY <1>2, <2>1, ErrsTwice
    <2>3. Kept(run, Tick(Ticked, b))
      BY <1>2, <2>1 DEF Kept, SameArena
    <2> QED BY <2>2, <2>3 DEF Compare, b
  <1>6. \A y : Rereads(u, code, x, y) <=>
                 /\ Fits /\ Differing = {}
                 /\ y = Place(code.next, n, Bares(current.loops), current.begin, current.end)
    <2>1. /\ first = x.begin[code.a] /\ size = x.end[code.a] - first
          /\ Captured <=> x.begin[code.a] # NONE /\ x.end[code.a] # NONE
      BY <1>4 DEF first, size, Captured
    <2>2. Fits <=> Captured /\ size <= Len(u) - x.pos
      BY <1>2, <1>4 DEF Fits
    <2>3. Differing = {} <=> \A j \in 1 .. size : u[first + j] = u[x.pos + j]
      BY <1>2, <1>4 DEF Differing
    <2>4. n = x.pos + size
      BY <1>4
    <2>. HIDE DEF x, u, n
    <2> QED BY <1>2, <1>4, <2>1, <2>2, <2>3, <2>4 DEF Rereads
  <1>. HIDE DEF x, u
  <1>7. CASE Reference
    <2>1. Fits /\ (Ok(Compare) => Differing = {}) /\ Continue(Compare, s)
      BY <1>7, <1>2 DEF Reference, Go, Tracked, IsState
    <2>2. /\ IsState(s) /\ s.pos = n /\ s.loops = current.loops
          /\ s.begin = current.begin
          /\ Bare(s) = Place(code.next, n, Bares(current.loops), current.begin, current.end)
      <3>1. IsState(current)
        BY <1>2 DEF Tracked
      <3>2. Further(current, code.next, n, s)
        BY DEF Further
      <3>. HIDE DEF n, s
      <3> QED BY <3>1, <3>2, FurtherIs
    <2>. HIDE DEF s
    <2>3. Tracked(s, length, candidate)
      <3>1. InstrOK(code)
        BY <1>1, CodeIs
      <3>2. size \in Nat
        BY <1>2, <2>1, <3>1, SizeIs DEF InstrOK
      <3>3. n \in 0 .. length
        BY <1>2, <2>1, <3>2 DEF Tracked, Fits
      <3>. HIDE DEF n
      <3> QED BY <1>2, <2>2, <3>3 DEF Tracked
    <2>. HIDE DEF n
    <2>4. Ok(Compare) =>
            /\ Moves(call.program, u, x, Bare(s))
            /\ \A y : Moves(call.program, u, x, y) => y = Bare(s)
      BY <1>3, <1>6, <2>1, <2>2
    <2> QED BY <1>2, <1>3, <1>5, <2>1, <2>3, <2>4, ContinueMatch DEF x, u
  <1>8. CASE ReferenceFails
    <2>1. /\ best' = best /\ found' = found
          /\ \/ ~Fits /\ Backtrack(Ticked)
             \/ Ok(Compare) /\ Differing # {} /\ Backtrack(Compare)
      BY <1>8 DEF ReferenceFails
    <2>2. \A y : ~Moves(call.program, u, x, y)
      <3>. HIDE DEF n
      <3> QED BY <1>3, <1>6, <2>1
    <2> QED BY <1>2, <1>3, <1>5, <2>1, <2>2, StuckMatch DEF x, u
  <1> QED BY <1>7, <1>8
-----------------------------------------------------------------------------
(* States that stand for the same place                                    *)
Twins(s, x) ==
  /\ IsState(x) /\ x.pc = s.pc /\ x.pos = s.pos /\ x.loops = s.loops
  /\ x.begin = s.begin /\ x.end = s.end

LEMMA TwinsBare ==
  ASSUME NEW s, NEW x, Twins(s, x)
  PROVE  /\ Bare(x) = Bare(s)
         /\ \A n, k : Tracked(s, n, k) => Tracked(x, n, k)
  BY DEF Twins, Bare, Tracked

(* A record is pushed on the history of the state y.                       *)
LEMMA TagOf ==
  ASSUME NEW r, IsRun(r), NEW e \in [Ids -> Nat], NEW y, Referring(y),
         HistoryOK(r, More(e, y.history)), NEW kind, NEW key, NEW open, NEW fails,
         NEW t, t = Tag(r, y, kind, key, open, fails)
  PROVE  Kept(r, t[1]) /\ Errs(r, t[1]) /\ Twins(y, t[2])
  <1>1. Tagged(r, y, e, t[1], t[2])
    BY TagOK
  <1>2. Errs(r, t[1])
    BY TagErrs
  <1>3. t[2] = [y EXCEPT !.history = t[2].history] /\ Kept(r, t[1])
    BY <1>1 DEF Tagged
  <1>4. PICK h : h = t[2].history
    OBVIOUS
  <1>5. t[2] = [y EXCEPT !.history = h] /\ IsState(y)
    BY <1>3, <1>4 DEF Referring
  <1>6. Twins(y, t[2])
    BY <1>5 DEF Twins, IsState
  <1> QED BY <1>2, <1>3, <1>6

LEMMA TagIs ==
  ASSUME NEW r, NEW b, NEW x, Shares(r, b, x), NEW y, Referring(y), y.history = x.history,
         NEW kind, NEW key, NEW open, NEW fails,
         NEW t, t = Tag(r, y, kind, key, open, fails)
  PROVE  Kept(r, t[1]) /\ Errs(r, t[1]) /\ Twins(y, t[2])
  <1>. DEFINE e == More(Refs(r.stack), b.history)
  <1>1. e \in [Ids -> Nat] /\ IsRun(r) /\ HistoryOK(r, More(e, y.history))
    BY SharesTypes DEF Shares
  <1>. HIDE DEF e
  <1> QED BY <1>1, TagOf

LEMMA ResetStays ==
  ASSUME NEW g, IsState(g), NEW h, NEW b, NEW e, NEW x, Reset(g, h, b, e, x)
  PROVE  /\ IsState(x) /\ x.pc = g.pc /\ x.pos = g.pos /\ x.loops = g.loops
         /\ x.begin = b /\ x.end = e
  <1>. DEFINE y == [g EXCEPT !.group_history = h]
              z == [y EXCEPT !.begin = b]
  <1>1. IsState(y) /\ y.pc = g.pc /\ y.pos = g.pos /\ y.loops = g.loops
    BY DEF IsState
  <1>2. x = [z EXCEPT !.end = e]
    BY DEF Reset
  <1>. HIDE DEF y
  <1>3. IsState(z) /\ z.pc = g.pc /\ z.pos = g.pos /\ z.loops = g.loops /\ z.begin = b
    BY <1>1 DEF IsState
  <1>. HIDE DEF z
  <1> QED BY <1>2, <1>3 DEF IsState

LEMMA GoIs ==
  ASSUME NEW s, IsState(s), NEW i
  PROVE  LET g == Go(s, i)
         IN /\ IsState(g) /\ g.pc = i /\ g.pos = s.pos /\ g.loops = s.loops
            /\ g.begin = s.begin /\ g.end = s.end /\ g.history = s.history
            /\ g.group_history = s.group_history
  BY DEF Go, IsState

LEMMA OpenedIs ==
  ASSUME NEW s, IsState(s)
  PROVE  LET inside == code.a .. code.b
             x == Opened(s)
         IN /\ IsState(x) /\ x.pc = code.next /\ x.pos = s.pos /\ x.loops = s.loops
            /\ x.begin = [g \in Slots |-> IF g = code.a THEN s.pos
                                          ELSE IF g \in inside THEN NONE ELSE s.begin[g]]
            /\ x.end = [g \in Slots |-> IF g \in inside THEN NONE ELSE s.end[g]]
  <1>. DEFINE g == Go(s, code.next)
              inside == code.a .. code.b
              h == [g.group_history EXCEPT ![code.a] = s.history]
              b == [i \in Slots |-> IF i = code.a THEN s.pos
                                    ELSE IF i \in inside THEN NONE ELSE g.begin[i]]
              e == [i \in Slots |-> IF i \in inside THEN NONE ELSE g.end[i]]
              x == [g EXCEPT !.group_history = h, !.begin = b, !.end = e]
  <1>1. /\ IsState(g) /\ g.pc = code.next /\ g.pos = s.pos /\ g.loops = s.loops
        /\ g.begin = s.begin /\ g.end = s.end
    BY GoIs
  <1>2. Opened(s) = x
    <2>1. g = [pc |-> g.pc, pos |-> g.pos, loops |-> g.loops, begin |-> g.begin,
               end |-> g.end, history |-> g.history, group_history |-> g.group_history]
      BY <1>1 DEF IsState
    <2>2. Opened(s) = [g EXCEPT !.group_history[code.a] = s.history, !.begin = b, !.end = e]
      BY DEF Opened
    <2>. HIDE DEF g, b, e
    <2> QED BY <2>1, <2>2 DEF h
  <1>3. /\ b = [i \in Slots |-> IF i = code.a THEN s.pos
                                ELSE IF i \in inside THEN NONE ELSE s.begin[i]]
        /\ e = [i \in Slots |-> IF i \in inside THEN NONE ELSE s.end[i]]
    BY <1>1
  <1>. HIDE DEF g, h, b, e
  <1>4. Reset(g, h, b, e, x)
    BY DEF Reset
  <1>. HIDE DEF x
  <1>5. /\ IsState(x) /\ x.pc = g.pc /\ x.pos = g.pos /\ x.loops = g.loops
        /\ x.begin = b /\ x.end = e
    BY <1>1, <1>4, ResetStays
  <1> QED BY <1>1, <1>2, <1>3, <1>5

LEMMA ClosedIs ==
  ASSUME NEW s, IsState(s)
  PROVE  LET x == Closed(s)
         IN /\ IsState(x) /\ x.pc = code.next /\ x.pos = s.pos /\ x.loops = s.loops
            /\ x.begin = s.begin /\ x.end = [s.end EXCEPT ![code.a] = s.pos]
  <1>. DEFINE g == Go(s, code.next)
              e == [g.end EXCEPT ![code.a] = s.pos]
              x == [g EXCEPT !.end = e]
  <1>1. /\ IsState(g) /\ g.pc = code.next /\ g.pos = s.pos /\ g.loops = s.loops
        /\ g.begin = s.begin /\ g.end = s.end
    BY GoIs
  <1>2. Closed(s) = x
    <2>1. g = [pc |-> g.pc, pos |-> g.pos, loops |-> g.loops, begin |-> g.begin,
               end |-> g.end, history |-> g.history, group_history |-> g.group_history]
      BY <1>1 DEF IsState
    <2>2. Closed(s) = [g EXCEPT !.end[code.a] = s.pos]
      BY DEF Closed
    <2>. HIDE DEF g
    <2> QED BY <2>1, <2>2 DEF e
  <1>3. e = [s.end EXCEPT ![code.a] = s.pos]
    BY <1>1
  <1>. HIDE DEF g, e
  <1>4. /\ IsState(x) /\ x.pc = g.pc /\ x.pos = g.pos /\ x.loops = g.loops
        /\ x.begin = g.begin /\ x.end = e
    BY <1>1 DEF IsState
  <1> QED BY <1>1, <1>2, <1>3, <1>4
-----------------------------------------------------------------------------
(* Groups open and close.                                                  *)
LEMMA ScopeMatch ==
  ASSUME SharesInv, MatchInv, ExecInv, Open \/ Close
  PROVE  MatchInv'
  <1>. DEFINE x == Bare(current)
              u == Scalars(call)
  <1>1. /\ pc = "step" /\ Ok(Ticked) /\ code.op \in {"OPEN", "CLOSE"}
        /\ Shares(run, best, current)
    BY DEF Open, Close, At, SharesInv, Sharing
  <1>2. /\ IsSeq(run.stack) /\ Kept(run, Ticked) /\ Errs(run, Ticked) /\ IsRun(Ticked)
        /\ length = Len(call.input) /\ Len(u) = length
        /\ Tracked(current, length, candidate)
    BY <1>1, HereIs
  <1>3. Shares(Ticked, best, current) /\ Referring(current)
    BY <1>1, TickedKeeps DEF Shares
  <1>4. ASSUME NEW kind, NEW key, NEW open, NEW t \in Tags(kind, key, open)
        PROVE  Kept(run, t[1]) /\ Errs(run, t[1]) /\ Twins(current, t[2])
    <2>1. PICK fails \in Outcomes : t = Tag(Ticked, current, kind, key, open, fails)
      BY <1>4 DEF Tags
    <2>2. Kept(Ticked, t[1]) /\ Errs(Ticked, t[1]) /\ Twins(current, t[2])
      BY <1>3, <2>1, TagIs
    <2>3. Kept(run, t[1])
      BY <1>2, <2>2 DEF Kept
    <2>4. Errs(run, t[1])
      BY <1>2, <2>2, ErrsTwice
    <2> QED BY <2>2, <2>3, <2>4
  <1>5. x.pos = current.pos /\ x.loops = Bares(current.loops)
        /\ x.begin = current.begin /\ x.end = current.end
    BY BareIs
  <1>6. CASE Open
    <2>1. PICK t \in Tags(0, code.max, NONE) :
            Continue(t[1], IF Ok(t[1]) THEN Opened(t[2]) ELSE current)
      BY <1>6 DEF Open
    <2>. DEFINE s == Opened(t[2])
                inside == code.a .. code.b
                b == [g \in Slots |-> IF g = code.a THEN current.pos
                                      ELSE IF g \in inside THEN NONE ELSE current.begin[g]]
                e == [g \in Slots |-> IF g \in inside THEN NONE ELSE current.end[g]]
    <2>2. Kept(run, t[1]) /\ Errs(run, t[1]) /\ Twins(current, t[2])
      BY <1>4
    <2>3. /\ IsState(s) /\ s.pc = code.next /\ s.pos = current.pos
          /\ s.loops = current.loops /\ s.begin = b /\ s.end = e
      BY <2>2, OpenedIs DEF Twins
    <2>4. At({"OPEN"}) /\ InstrOK(code)
      BY <1>6, CodeIs DEF Open
    <2>5. /\ code = Instr(call.program, x.pc) /\ x.pc \in 0 .. CodeCount(call.program) - 1
          /\ code.op = "OPEN"
      BY <2>4, InstrHere
    <2>6. /\ \A y : Moves(call.program, u, x, y) <=> Opens(code, x, y)
          /\ ~Accepts(call.program, x)
      <3>. HIDE DEF x, u
      <3> QED BY <2>5, MovesBy
    <2>. HIDE DEF s
    <2>7. Tracked(s, length, candidate)
      <3>1. 0 \in Slots /\ code.a # 0 /\ 0 \notin inside
        BY <2>4, <2>5 DEF Slots, MaxCaptures, InstrOK
      <3>2. b[0] = current.begin[0]
        BY <3>1
      <3> QED BY <1>2, <2>3, <3>2 DEF Tracked
    <2>8. Bare(s) = Place(code.next, current.pos, Bares(current.loops), b, e)
      BY <2>3 DEF Bare
    <2>9. \A y : Opens(code, x, y) <=> y = Bare(s)
      <3>. HIDE DEF x, u
      <3> QED BY <1>5, <2>5, <2>8 DEF Opens
    <2>10. /\ Moves(call.program, u, x, Bare(s))
           /\ \A y : Moves(call.program, u, x, y) => y = Bare(s)
      BY <2>6, <2>9
    <2>. DEFINE z == IF Ok(t[1]) THEN s ELSE current
    <2>11. Ok(t[1]) =>
             /\ Tracked(z, Len(call.input), candidate)
             /\ Moves(call.program, u, x, Bare(z))
             /\ \A y : Moves(call.program, u, x, y) => y = Bare(z)
             /\ ~Accepts(call.program, x)
      BY <1>2, <2>6, <2>7, <2>10
    <2>12. Continue(t[1], z)
      BY <2>1 DEF s
    <2>. HIDE DEF z
    <2> QED BY <1>1, <1>2, <2>2, <2>11, <2>12, ContinueMatch
  <1>7. CASE Close
    <2>1. PICK t \in Tags(1, 0, current.group_history[code.a]) :
            Continue(t[1], IF Ok(t[1]) THEN Closed(t[2]) ELSE current)
      BY <1>7 DEF Close
    <2>. DEFINE s == Closed(t[2])
                e == [current.end EXCEPT ![code.a] = current.pos]
    <2>2. Kept(run, t[1]) /\ Errs(run, t[1]) /\ Twins(current, t[2])
      BY <1>4
    <2>3. /\ IsState(s) /\ s.pc = code.next /\ s.pos = current.pos
          /\ s.loops = current.loops /\ s.begin = current.begin /\ s.end = e
      BY <2>2, ClosedIs DEF Twins
    <2>4. At({"CLOSE"})
      BY <1>7 DEF Close
    <2>5. /\ code = Instr(call.program, x.pc) /\ x.pc \in 0 .. CodeCount(call.program) - 1
          /\ code.op = "CLOSE"
      BY <2>4, InstrHere
    <2>6. /\ \A y : Moves(call.program, u, x, y) <=> Closes(code, x, y)
          /\ ~Accepts(call.program, x)
      <3>. HIDE DEF x, u
      <3> QED BY <2>5, MovesBy
    <2>. HIDE DEF s
    <2>7. Tracked(s, length, candidate)
      BY <1>2, <2>3 DEF Tracked
    <2>8. Bare(s) = Place(code.next, current.pos, Bares(current.loops), current.begin, e)
      BY <2>3 DEF Bare
    <2>9. \A y : Closes(code, x, y) <=> y = Bare(s)
      <3>. HIDE DEF x, u
      <3> QED BY <1>5, <2>5, <2>8 DEF Closes
    <2>10. /\ Moves(call.program, u, x, Bare(s))
           /\ \A y : Moves(call.program, u, x, y) => y = Bare(s)
      BY <2>6, <2>9
    <2>. DEFINE z == IF Ok(t[1]) THEN s ELSE current
    <2>11. Ok(t[1]) =>
             /\ Tracked(z, Len(call.input), candidate)
             /\ Moves(call.program, u, x, Bare(z))
             /\ \A y : Moves(call.program, u, x, y) => y = Bare(z)
             /\ ~Accepts(call.program, x)
      BY <1>2, <2>6, <2>7, <2>10
    <2>12. Continue(t[1], z)
      BY <2>1 DEF s
    <2>. HIDE DEF z
    <2> QED BY <1>1, <1>2, <2>2, <2>11, <2>12, ContinueMatch
  <1> QED BY <1>6, <1>7
-----------------------------------------------------------------------------
(* The state that an iteration comes back in                               *)
Turned(l, v, w) == [l EXCEPT !.zero = v, !.count = w]
Started(l, v)    == [l EXCEPT !.start = v]

LEMMA CountsIs ==
  ASSUME NEW s, IsState(s), LoopsOK(s.loops), s.loops # <<>>, NEW v, NEW w,
         NEW x, x = Counts(s, Len(s.loops), v, w)
  PROVE  /\ IsState(x) /\ x.pc = s.pc /\ x.pos = s.pos /\ x.begin = s.begin
         /\ x.end = s.end
         /\ x.loops = Replaced(s.loops, Len(s.loops), Turned(Last(s.loops), v, w))
  <1>. DEFINE n == Len(s.loops)
              t1 == [s EXCEPT !.loops[n].zero = v]
              t == Counts(s, n, v, w)
              l1 == [s.loops EXCEPT ![n].zero = v]
              l2 == [t1.loops EXCEPT ![n].count = w]
              ms == [s.loops EXCEPT ![n] = [Last(s.loops) EXCEPT !.zero = v, !.count = w]]
  <1>1. IsState(t1) /\ t1.pc = s.pc /\ t1.pos = s.pos /\ t1.begin = s.begin
        /\ t1.end = s.end /\ t1.loops = l1
    <2>1. t1 = [s EXCEPT !.loops = l1]
      BY DEF IsState
    <2>. HIDE DEF t1, l1
    <2> QED BY <2>1 DEF IsState
  <1>2. IsState(t) /\ t.pc = s.pc /\ t.pos = s.pos /\ t.begin = s.begin
        /\ t.end = s.end /\ t.loops = l2
    <2>1. t = [t1 EXCEPT !.loops[n].count = w]
      BY DEF IsState, Counts
    <2>. HIDE DEF t1, t
    <2>2. t = [t1 EXCEPT !.loops = l2]
      BY <1>1, <2>1 DEF IsState
    <2>. HIDE DEF l2
    <2> QED BY <1>1, <2>2 DEF IsState
  <1>3. l2 = ms
    <2>1. s.loops = [i \in 1 .. n |-> s.loops[i]] /\ n \in 1 .. n
      BY BaresFront DEF LoopsOK, IsSeq
    <2>2. Last(s.loops) = s.loops[n]
      BY BaresFront
    <2>3. l2 = [l1 EXCEPT ![n].count = w]
      BY <1>1
    <2>. HIDE DEF t1, l2
    <2> QED BY <2>1, <2>2, <2>3
  <1> QED BY <1>2, <1>3 DEF Replaced, Turned

LEMMA StartsIs ==
  ASSUME NEW s, IsState(s), LoopsOK(s.loops), s.loops # <<>>, NEW v,
         NEW x, x = Starts(s, Len(s.loops), v)
  PROVE  /\ IsState(x) /\ x.pc = s.pc /\ x.pos = s.pos /\ x.begin = s.begin
         /\ x.end = s.end
         /\ x.loops = Replaced(s.loops, Len(s.loops), Started(Last(s.loops), v))
  <1>. DEFINE n == Len(s.loops)
              t == Starts(s, n, v)
              l1 == [s.loops EXCEPT ![n].start = v]
              ms == [s.loops EXCEPT ![n] = [Last(s.loops) EXCEPT !.start = v]]
  <1>1. IsState(t) /\ t.pc = s.pc /\ t.pos = s.pos /\ t.begin = s.begin
        /\ t.end = s.end /\ t.loops = l1
    <2>1. t = [s EXCEPT !.loops = l1]
      BY DEF IsState, Starts
    <2>. HIDE DEF t, l1
    <2> QED BY <2>1 DEF IsState
  <1>2. l1 = ms
    <2>1. s.loops = [i \in 1 .. n |-> s.loops[i]] /\ n \in 1 .. n
      BY BaresFront DEF LoopsOK, IsSeq
    <2>2. Last(s.loops) = s.loops[n]
      BY BaresFront
    <2> QED BY <2>1, <2>2
  <1> QED BY <1>1, <1>2 DEF Replaced, Started
-----------------------------------------------------------------------------
(* An iteration ends.                                                      *)
LEMMA IterationMatch ==
  ASSUME MatchInv, ExecInv, IterationDone \/ IterationRefused
  PROVE  MatchInv'
  <1>. DEFINE x == Bare(current)
              u == Scalars(call)
              g == Go(current, loop.pc)
              n == Len(current.loops)
              w == g.loops[n].count + 1
              s == Counts(g, n, Empty, w)
              k == [loop EXCEPT !.zero = Empty, !.count = w]
  <1>1. At({"REPEAT_END"})
    BY DEF IterationDone, IterationRefused
  <1>2. /\ pc = "step" /\ Ok(Ticked) /\ code.op = "REPEAT_END" /\ ~Misplaced
        /\ code = Instr(call.program, x.pc) /\ x.pc \in 0 .. CodeCount(call.program) - 1
        /\ IsSeq(run.stack) /\ Kept(run, Ticked) /\ Errs(run, Ticked)
        /\ length = Len(call.input) /\ Len(u) = length
        /\ Tracked(current, length, candidate)
    BY <1>1, InstrHere, HereIs
  <1>3. /\ \A y : Moves(call.program, u, x, y) <=> Returns(call.program, code, x, y)
        /\ ~Accepts(call.program, x)
    <2>. HIDE DEF x, u
    <2>1. code.op # "ACCEPT"
      BY <1>2
    <2> QED BY <1>2, <2>1, MovesBy
  <1>4. x.pos = current.pos /\ x.loops = Bares(current.loops)
        /\ x.begin = current.begin /\ x.end = current.end
    BY BareIs
  <1>5. LoopsOK(current.loops) /\ current.loops # <<>> /\ loop.pc = code.a
        /\ IsState(current)
    BY <1>2 DEF Misplaced, Tracked, loop
  <1>6. /\ x.loops # <<>> /\ Last(x.loops) = BareLoop(loop) /\ Len(x.loops) = n
        /\ loop = current.loops[n] /\ IsLoop(loop)
    BY <1>4, <1>5, BaresFront, BaresIs DEF loop
  <1>7. /\ Last(x.loops).pc = loop.pc /\ Last(x.loops).count = loop.count
        /\ Last(x.loops).start = loop.start
    BY <1>6 DEF BareLoop, Running
  <1>8. w = loop.count + 1 /\ g.loops = current.loops /\ IsState(g) /\ g.pc = loop.pc
        /\ g.pos = current.pos /\ g.begin = current.begin /\ g.end = current.end
    BY <1>5, <1>6, GoIs
  <1>. DEFINE ms == [current.loops EXCEPT ![n] = k]
  <1>9. /\ IsState(s) /\ s.pc = loop.pc /\ s.pos = current.pos /\ s.begin = current.begin
        /\ s.end = current.end /\ s.loops = ms
    <2>. DEFINE v == Empty
    <2>. HIDE DEF g, w, v
    <2>0. LoopsOK(g.loops) /\ g.loops # <<>> /\ IsState(g)
      BY <1>5, <1>8
    <2>1. s = Counts(g, Len(g.loops), v, w)
      BY <1>8 DEF v
    <2>2. /\ IsState(s) /\ s.pc = g.pc /\ s.pos = g.pos /\ s.begin = g.begin
          /\ s.end = g.end
          /\ s.loops = Replaced(g.loops, Len(g.loops), Turned(Last(g.loops), v, w))
      <3>. HIDE DEF s
      <3> QED BY <2>0, <2>1, CountsIs
    <2>3. k = Turned(loop, v, w) /\ ms = Replaced(current.loops, n, k) /\ loop = Last(current.loops)
      BY DEF Turned, v, Replaced, loop
    <2>. HIDE DEF s, k, ms
    <2> QED BY <1>8, <2>2, <2>3
  <1>10. /\ IsLoop(k) /\ BareLoop(k) = Running(loop.pc, w, loop.start, Empty)
    <2>. DEFINE v == Empty
    <2>. HIDE DEF w, v
    <2>. DEFINE k1 == [loop EXCEPT !.zero = v]
    <2>1. IsLoop(k1) /\ k1.pc = loop.pc /\ k1.start = loop.start /\ k1.zero = v
      BY <1>6 DEF IsLoop
    <2>2. k = [k1 EXCEPT !.count = w]
      BY DEF v
    <2>. HIDE DEF k, k1
    <2>3. IsLoop(k) /\ k.pc = loop.pc /\ k.start = loop.start /\ k.zero = v /\ k.count = w
      BY <2>1, <2>2 DEF IsLoop
    <2> QED BY <2>3 DEF v, BareLoop
  <1>. HIDE DEF k
  <1>11. LoopsOK(ms) /\ Bares(ms) = [x.loops EXCEPT ![Len(x.loops)] = BareLoop(k)]
    BY <1>4, <1>5, <1>10, BaresChange
  <1>. HIDE DEF ms, s, g
  <1>12. Tracked(s, length, candidate)
    BY <1>2, <1>9, <1>11 DEF Tracked
  <1>13. Bare(s) = Place(loop.pc, x.pos,
                         [x.loops EXCEPT ![Len(x.loops)] =
                            Running(loop.pc, loop.count + 1, loop.start, Empty)],
                         x.begin, x.end)
    BY <1>4, <1>8, <1>9, <1>10, <1>11 DEF Bare
  <1>14. EmptyIteration <=>
           Empty /\ loop.count > 0 /\ loop.count >= Instr(call.program, loop.pc).min
    BY DEF EmptyIteration, program
  <1>15. \A y : Returns(call.program, code, x, y) <=> ~EmptyIteration /\ y = Bare(s)
    <2>1. Empty <=> x.pos = loop.start
      BY <1>4 DEF Empty
    <2>. DEFINE l == Last(x.loops)
                empty == x.pos = l.start
                z == Place(l.pc, x.pos,
                           [x.loops EXCEPT ![Len(x.loops)] =
                              Running(l.pc, l.count + 1, l.start, empty)],
                           x.begin, x.end)
                late == l.count > 0 /\ l.count >= Instr(call.program, l.pc).min
    <2>2. (empty <=> Empty) /\ empty = Empty
      BY <1>7, <2>1 DEF Empty
    <2>3. z = Bare(s)
      BY <1>7, <1>13, <2>2
    <2>4. EmptyIteration <=> empty /\ late
      BY <1>7, <1>14, <2>2
    <2>5. \A y : Returns(call.program, code, x, y) <=> ~(empty /\ late) /\ y = z
      <3>1. \A y : Returns(call.program, code, x, y) <=>
                     /\ code.op = "REPEAT_END" /\ x.loops # <<>> /\ l.pc = code.a
                     /\ ~(empty /\ l.count > 0 /\ l.count >= Instr(call.program, l.pc).min)
                     /\ y = z
        BY DEF Returns
      <3> QED BY <1>2, <1>5, <1>6, <1>7, <3>1
    <2>. HIDE DEF empty, late, z
    <2> QED BY <2>3, <2>4, <2>5
  <1>. HIDE DEF x, u
  <1>16. CASE IterationDone
    <2>1. ~EmptyIteration /\ Continue(Ticked, s)
      BY <1>16 DEF IterationDone, Counts, s, g
    <2>2. /\ Moves(call.program, u, x, Bare(s))
          /\ \A y : Moves(call.program, u, x, y) => y = Bare(s)
      BY <1>3, <1>15, <2>1
    <2> QED BY <1>2, <1>3, <1>12, <2>1, <2>2, ContinueMatch DEF x, u
  <1>17. CASE IterationRefused
    <2>1. best' = best /\ found' = found /\ EmptyIteration /\ Backtrack(Ticked)
      BY <1>17 DEF IterationRefused
    <2>2. \A y : ~Moves(call.program, u, x, y)
      BY <1>3, <1>15, <2>1
    <2> QED BY <1>2, <1>3, <2>1, <2>2, StuckMatch DEF x, u
  <1> QED BY <1>16, <1>17
-----------------------------------------------------------------------------
(* The opening of a loop's scope is known to the innermost loop.           *)
Notes(s, v, x) == x = [s EXCEPT !.loops[Len(s.loops)].history_open = v]

LEMMA OpeningIs ==
  ASSUME NEW s, IsState(s), LoopsOK(s.loops), s.loops # <<>>, NEW v,
         NEW x, Notes(s, v, x)
  PROVE  /\ IsState(x) /\ x.pc = s.pc /\ x.pos = s.pos /\ x.begin = s.begin
         /\ x.end = s.end /\ LoopsOK(x.loops) /\ x.loops # <<>>
         /\ Bares(x.loops) = Bares(s.loops) /\ x.history = s.history
  <1>. DEFINE n == Len(s.loops)
              l == Last(s.loops)
              k == [l EXCEPT !.history_open = v]
              l1 == [s.loops EXCEPT ![n].history_open = v]
              ms == [s.loops EXCEPT ![n] = k]
  <1>1. IsState(x) /\ x.pc = s.pc /\ x.pos = s.pos /\ x.begin = s.begin
        /\ x.end = s.end /\ x.loops = l1 /\ x.history = s.history
    <2>1. x = [s EXCEPT !.loops = l1]
      BY DEF IsState, Notes
    <2>. HIDE DEF l1
    <2> QED BY <2>1 DEF IsState
  <1>2. l1 = ms
    <2>1. s.loops = [i \in 1 .. n |-> s.loops[i]] /\ n \in 1 .. n
      BY BaresFront DEF LoopsOK, IsSeq
    <2>2. l = s.loops[n]
      BY BaresFront
    <2> QED BY <2>1, <2>2
  <1>3. IsLoop(l)
    BY BaresFront
  <1>4. IsLoop(k) /\ BareLoop(k) = BareLoop(l)
    <2>. HIDE DEF l
    <2>1. IsLoop(k)
      BY <1>3 DEF IsLoop
    <2>2. k.pc = l.pc /\ k.count = l.count /\ k.start = l.start /\ k.zero = l.zero
      BY <1>3 DEF IsLoop
    <2> QED BY <2>1, <2>2 DEF BareLoop
  <1>. HIDE DEF k
  <1>5. /\ LoopsOK(ms) /\ ms # <<>>
        /\ Bares(ms) = [Bares(s.loops) EXCEPT ![Len(Bares(s.loops))] = BareLoop(k)]
    BY <1>4, BaresChange
  <1>6. Bares(ms) = Bares(s.loops)
    <2>1. /\ IsSeq(Bares(s.loops)) /\ Len(Bares(s.loops)) = n
          /\ Bares(s.loops)[n] = BareLoop(l)
      <3>1. n \in 1 .. n /\ l = s.loops[n]
        BY BaresFront
      <3> QED BY <3>1, BaresIs
    <2>. DEFINE b == Bares(s.loops)
    <2>. HIDE DEF b, l, n, ms
    <2>2. b = [i \in 1 .. n |-> b[i]]
      BY <2>1 DEF IsSeq, b
    <2> QED BY <1>4, <1>5, <2>1, <2>2 DEF b
  <1> QED BY <1>1, <1>2, <1>5, <1>6

(* The loops of a state at a REPEAT                                        *)
LEMMA LoopingIs ==
  ASSUME SharesInv, MatchInv, ExecInv, pc = "step", NEW l \in Loopings
  PROVE  /\ Kept(run, l[1]) /\ Errs(run, l[1]) /\ Shares(l[1], best, l[2])
         /\ Ok(l[1]) =>
              /\ IsState(l[2]) /\ l[2].pc = current.pc /\ l[2].pos = current.pos
              /\ l[2].begin = current.begin /\ l[2].end = current.end
              /\ LoopsOK(l[2].loops) /\ l[2].loops # <<>>
              /\ Bares(l[2].loops) = Inside(Bare(current))
  <1>. DEFINE x == Bare(current)
  <1>1. PICK fails \in Outcomes : l = Looping(fails)
    BY DEF Loopings
  <1>2. Shares(run, best, current)
    BY DEF SharesInv, Sharing
  <1>3. Shares(l[1], best, l[2])
    BY <1>1, <1>2, LoopingShares
  <1>4. /\ Kept(run, Ticked) /\ Errs(run, Ticked) /\ IsRun(Ticked)
        /\ LoopsOK(current.loops) /\ IsState(current)
    BY HereIs DEF Tracked
  <1>5. Shares(Ticked, best, current) /\ Referring(current)
    BY <1>2, TickedKeeps DEF Shares
  <1>6. x.pc = current.pc /\ x.pos = current.pos /\ x.loops = Bares(current.loops)
    BY BareIs
  <1>7. NewLoop(current) <=> ~(x.loops # <<>> /\ Last(x.loops).pc = x.pc)
    <2>1. current.loops # <<>> <=> x.loops # <<>>
      BY <1>4, <1>6, BaresEmpty
    <2>2. current.loops # <<>> => Last(x.loops).pc = Last(current.loops).pc
      BY <1>4, <1>6, BaresFront DEF BareLoop, Running
    <2>. HIDE DEF x
    <2> QED BY <1>6, <2>1, <2>2 DEF NewLoop
  <1>8. CASE ~NewLoop(current) /\ l = <<Ticked, current>>
    <2>1. l[1] = Ticked /\ l[2] = current
      BY <1>8
    <2>2. Inside(x) = x.loops /\ x.loops # <<>>
      BY <1>7, <1>8 DEF Inside
    <2>3. current.loops # <<>>
      BY <1>8 DEF NewLoop
    <2> QED BY <1>3, <1>4, <1>6, <2>1, <2>2, <2>3
  <1>9. CASE l = <<Failed(Ticked, "LIMIT"), current>>
    <2>1. l[1] = Failed(Ticked, "LIMIT")
      BY <1>9
    <2>2. SameArena(Ticked, Failed(Ticked, "LIMIT")) /\ Failed(Ticked, "LIMIT").error = "LIMIT"
      BY <1>4, FailedKeeps
    <2>3. Kept(run, l[1])
      BY <1>4, <2>1, <2>2 DEF Kept, SameArena
    <2>4. Errs(run, l[1])
      BY <1>4, <2>1, FailedErrs, ErrsTwice
    <2>5. ~Ok(l[1])
      BY <2>1, <2>2 DEF Ok
    <2> QED BY <1>3, <2>3, <2>4, <2>5
  <1>. DEFINE e == Entered(current)
              k == [pc |-> current.pc, count |-> 0, start |-> current.pos,
                    zero |-> FALSE, history_open |-> NONE]
              m == Append(current.loops, k)
              t == Tag(Ticked, e, 0, code.b, NONE, fails)
  <1>10. CASE NewLoop(current) /\ l = Opening(t)
    <2>1. /\ Referring(e) /\ e.history = current.history /\ e.loops = m
          /\ e.pc = current.pc /\ e.pos = current.pos /\ e.begin = current.begin
          /\ e.end = current.end
      <3>1. e = [current EXCEPT !.loops = m]
        BY DEF Entered
      <3>. HIDE DEF m, e
      <3> QED BY <1>5, <3>1 DEF Referring, IsState
    <2>2. Kept(Ticked, t[1]) /\ Errs(Ticked, t[1]) /\ Twins(e, t[2])
      <3>. HIDE DEF e
      <3> QED BY <1>5, <2>1, TagIs
    <2>3. LoopsOK(m) /\ m # <<>> /\ Bares(m) = Append(x.loops, Running(x.pc, 0, x.pos, FALSE))
      <3>1. IsLoop(k) /\ BareLoop(k) = Running(x.pc, 0, x.pos, FALSE)
        BY <1>6 DEF IsLoop, BareLoop
      <3>. HIDE DEF k
      <3>2. /\ LoopsOK(Append(current.loops, k)) /\ Append(current.loops, k) # <<>>
            /\ Bares(Append(current.loops, k)) = Append(Bares(current.loops), BareLoop(k))
        BY <1>4, <3>1, BaresAppend
      <3> QED BY <1>6, <3>1, <3>2
    <2>4. Inside(x) = Append(x.loops, Running(x.pc, 0, x.pos, FALSE))
      BY <1>7, <1>10 DEF Inside
    <2>. HIDE DEF t, e, m, x
    <2>5. Kept(run, t[1]) /\ Errs(run, t[1])
      <3>1. Kept(run, t[1])
        BY <1>4, <2>2 DEF Kept
      <3> QED BY <1>4, <2>2, <3>1, ErrsTwice
    <2>6. l[1] = t[1]
      <3>1. l = IF Ok(t[1])
                THEN <<t[1], [t[2] EXCEPT !.loops[Len(t[2].loops)].history_open = t[2].history]>>
                ELSE <<t[1], current>>
        BY <1>10 DEF Opening
      <3> QED BY <3>1
    <2>7. ASSUME Ok(l[1])
          PROVE  /\ IsState(l[2]) /\ l[2].pc = current.pc /\ l[2].pos = current.pos
                 /\ l[2].begin = current.begin /\ l[2].end = current.end
                 /\ LoopsOK(l[2].loops) /\ l[2].loops # <<>>
                 /\ Bares(l[2].loops) = Bares(m)
      <3>1. l[2] = [t[2] EXCEPT !.loops[Len(t[2].loops)].history_open = t[2].history]
        BY <1>10, <2>6, <2>7 DEF Opening
      <3>2. IsState(t[2]) /\ LoopsOK(t[2].loops) /\ t[2].loops # <<>>
            /\ t[2].loops = m
        BY <2>1, <2>2, <2>3 DEF Twins
      <3>3. PICK s : s = t[2]
        OBVIOUS
      <3>4. PICK y : y = l[2]
        OBVIOUS
      <3>9. PICK v : v = s.history
        OBVIOUS
      <3>5. Notes(s, v, y)
        BY <3>1, <3>3, <3>4, <3>9 DEF Notes
      <3>6. IsState(s) /\ LoopsOK(s.loops) /\ s.loops # <<>> /\ s.loops = m
        BY <3>2, <3>3
      <3>7. /\ IsState(y) /\ y.pc = s.pc /\ y.pos = s.pos /\ y.begin = s.begin
            /\ y.end = s.end /\ LoopsOK(y.loops) /\ y.loops # <<>>
            /\ Bares(y.loops) = Bares(s.loops)
        BY <3>5, <3>6, OpeningIs
      <3> QED BY <2>1, <2>2, <3>3, <3>4, <3>6, <3>7 DEF Twins
    <2> QED BY <1>3, <2>3, <2>4, <2>5, <2>6, <2>7 DEF x
  <1>11. \/ ~NewLoop(current) /\ l = <<Ticked, current>>
         \/ l = <<Failed(Ticked, "LIMIT"), current>>
         \/ NewLoop(current) /\ l = Opening(t)
    BY <1>1 DEF Looping
  <1> QED BY <1>8, <1>9, <1>10, <1>11
-----------------------------------------------------------------------------
(* Where an exit goes on                                                   *)
Exited(s) == [Go(s, code.next) EXCEPT !.loops = Front(@)]

LEMMA ExitedIs ==
  ASSUME NEW s, IsState(s)
  PROVE  /\ IsState(Exited(s)) /\ Exited(s).pc = code.next /\ Exited(s).pos = s.pos
         /\ Exited(s).loops = Front(s.loops) /\ Exited(s).begin = s.begin
         /\ Exited(s).end = s.end /\ Exited(s).history = s.history
  <1>. DEFINE g == Go(s, code.next)
              f == Front(g.loops)
              x == Exited(s)
  <1>1. /\ IsState(g) /\ g.pc = code.next /\ g.pos = s.pos /\ g.loops = s.loops
        /\ g.begin = s.begin /\ g.end = s.end /\ g.history = s.history
    BY GoIs
  <1>2. x = [g EXCEPT !.loops = f] /\ f = Front(s.loops)
    BY <1>1 DEF Exited
  <1>. HIDE DEF g, f, x
  <1>3. /\ IsState(x) /\ x.pc = code.next /\ x.pos = s.pos /\ x.loops = f
        /\ x.begin = s.begin /\ x.end = s.end /\ x.history = s.history
    BY <1>1, <1>2 DEF IsState
  <1> QED BY <1>2, <1>3 DEF x

LEMMA IterateIs ==
  ASSUME NEW s, IsState(s), LoopsOK(s.loops), s.loops # <<>>
  PROVE  /\ IsState(Iterate(s)) /\ Iterate(s).pc = code.a /\ Iterate(s).pos = s.pos
         /\ Iterate(s).begin = s.begin /\ Iterate(s).end = s.end
         /\ Iterate(s).loops = Replaced(s.loops, Len(s.loops), Started(Last(s.loops), s.pos))
  <1>. DEFINE g == Go(s, code.a)
              x == Iterate(s)
              v == s.pos
  <1>1. /\ IsState(g) /\ g.pc = code.a /\ g.pos = s.pos /\ g.loops = s.loops
        /\ g.begin = s.begin /\ g.end = s.end
    BY GoIs
  <1>2. x = Starts(g, Len(g.loops), v)
    BY <1>1 DEF Iterate, Starts
  <1>3. LoopsOK(g.loops) /\ g.loops # <<>>
    BY <1>1
  <1>. HIDE DEF g, x, v
  <1>4. /\ IsState(x) /\ x.pc = g.pc /\ x.pos = g.pos /\ x.begin = g.begin
        /\ x.end = g.end
        /\ x.loops = Replaced(g.loops, Len(g.loops), Started(Last(g.loops), v))
    BY <1>1, <1>2, <1>3, StartsIs
  <1> QED BY <1>1, <1>4 DEF x, v

(* A REPEAT, carried out in the state s, does what it says of the place x  *)
(* that it is at.                                                          *)
LEMMA RepeatIs ==
  ASSUME code.op = "REPEAT", NEW n, NEW k,
         NEW s, IsState(s), LoopsOK(s.loops), s.loops # <<>>, s.pos \in 0 .. n,
         s.begin[0] = k,
         NEW x, x.pos = s.pos, x.begin = s.begin, x.end = s.end,
         Inside(x) = Bares(s.loops)
  PROVE  /\ Tracked(Iterate(s), n, k) /\ Tracked(Exited(s), n, k)
         /\ \A y : Iterates(code, x, y) <=> CanEnter(s) /\ y = Bare(Iterate(s))
         /\ \A y : Leaves(code, x, y) <=> CanExit(s) /\ y = Bare(Exited(s))
  <1>. DEFINE ls == s.loops
              l == Last(ls)
              b == Bares(ls)
              m == Replaced(ls, Len(ls), Started(l, s.pos))
              f == Front(ls)
  <1>1. /\ LoopsOK(f) /\ Bares(f) = Front(b) /\ Last(b) = BareLoop(l) /\ IsLoop(l)
    BY BaresFront
  <1>2. /\ BareLoop(l).pc = l.pc /\ BareLoop(l).count = l.count /\ BareLoop(l).zero = l.zero
    BY DEF BareLoop, Running
  <1>3. /\ IsLoop(Started(l, s.pos))
        /\ BareLoop(Started(l, s.pos)) = Running(l.pc, l.count, s.pos, l.zero)
    <2>. DEFINE v == s.pos
    <2>. HIDE DEF l, v
    <2>1. IsLoop(Started(l, v))
      BY <1>1 DEF IsLoop, Started
    <2>2. /\ Started(l, v).pc = l.pc /\ Started(l, v).count = l.count
          /\ Started(l, v).start = v /\ Started(l, v).zero = l.zero
      BY <1>1 DEF IsLoop, Started
    <2> QED BY <2>1, <2>2 DEF BareLoop, v
  <1>4. LoopsOK(m) /\ Bares(m) = Replaced(b, Len(b), Running(l.pc, l.count, s.pos, l.zero))
    <2>1. PICK k1 : k1 = Started(l, s.pos)
      OBVIOUS
    <2>2. /\ LoopsOK([ls EXCEPT ![Len(ls)] = k1])
          /\ Bares([ls EXCEPT ![Len(ls)] = k1]) = [b EXCEPT ![Len(b)] = BareLoop(k1)]
      BY <1>3, <2>1, BaresChange
    <2> QED BY <1>3, <2>1, <2>2 DEF Replaced
  <1>5. /\ IsState(Iterate(s)) /\ Iterate(s).pc = code.a /\ Iterate(s).pos = s.pos
        /\ Iterate(s).begin = s.begin /\ Iterate(s).end = s.end /\ Iterate(s).loops = m
    BY IterateIs
  <1>6. /\ IsState(Exited(s)) /\ Exited(s).pc = code.next /\ Exited(s).pos = s.pos
        /\ Exited(s).loops = f /\ Exited(s).begin = s.begin /\ Exited(s).end = s.end
    BY ExitedIs
  <1>7. Tracked(Iterate(s), n, k) /\ Tracked(Exited(s), n, k)
    BY <1>1, <1>4, <1>5, <1>6 DEF Tracked
  <1>8. Bare(Iterate(s)) =
          Place(code.a, x.pos, Replaced(b, Len(b), Running(l.pc, l.count, x.pos, l.zero)),
                x.begin, x.end)
    BY <1>4, <1>5 DEF Bare
  <1>9. Bare(Exited(s)) = Place(code.next, x.pos, Front(b), x.begin, x.end)
    BY <1>1, <1>6 DEF Bare
  <1>10. ASSUME NEW y
         PROVE  Iterates(code, x, y) <=> CanEnter(s) /\ y = Bare(Iterate(s))
    <2>1. CanEnter(s) <=> l.count < code.max /\ (l.zero => l.count < code.min)
      BY DEF CanEnter
    <2>. HIDE DEF l, b
    <2>2. Iterates(code, x, y) <=>
            /\ Last(b).count < code.max /\ (Last(b).zero => Last(b).count < code.min)
            /\ y = Place(code.a, x.pos,
                         Replaced(b, Len(b), Running(Last(b).pc, Last(b).count, x.pos,
                                                     Last(b).zero)),
                         x.begin, x.end)
      BY DEF Iterates, Replaced, b
    <2> QED BY <1>1, <1>2, <1>8, <2>1, <2>2
  <1>11. ASSUME NEW y
         PROVE  Leaves(code, x, y) <=> CanExit(s) /\ y = Bare(Exited(s))
    <2>1. CanExit(s) <=> l.count >= code.min
      BY DEF CanExit
    <2>. HIDE DEF l, b
    <2>2. Leaves(code, x, y) <=>
            /\ Last(b).count >= code.min
            /\ y = Place(code.next, x.pos, Front(b), x.begin, x.end)
      BY DEF Leaves, b
    <2> QED BY <1>1, <1>2, <1>9, <2>1, <2>2
  <1> QED BY <1>7, <1>10, <1>11
-----------------------------------------------------------------------------
(* The push of a state leaves the input as it is.                          *)
LEMMA PushReads ==
  ASSUME NEW r, IsRun(r), NEW s, NEW fails
  PROVE  /\ Push(r, s, fails).units = r.units /\ Push(r, s, fails).offsets = r.offsets
         /\ Ok(Push(r, s, fails)) => Push(r, s, fails).stack = Append(r.stack, s)
  <1>. DEFINE most == limits.max_frames - 1
              twice == IF r.capacity = 0 THEN InitialStates ELSE 2 * r.capacity
              cap == IF twice > most THEN most ELSE twice
              grown == Grow(r, "stack", r.capacity, cap, StateBytes, fails)
              room == IF Len(r.stack) < r.capacity THEN r
                      ELSE IF Ok(grown) THEN [grown EXCEPT !.capacity = cap] ELSE grown
              p == Push(r, s, fails)
              h == Append(room.stack, s)
  <1>1. \/ p = Failed(r, "LIMIT")
        \/ ~Ok(room) /\ p = room
        \/ p = [room EXCEPT !.stack = h]
    BY DEF Push
  <1>2. SameArena(r, grown)
    <2>. HIDE DEF cap
    <2> QED BY GrowKeeps
  <1>3. SameArena(r, room)
    <2>. HIDE DEF grown, cap
    <2>1. SameArena(r, r)
      BY DEF SameArena, Kept
    <2>2. SameArena(r, [grown EXCEPT !.capacity = cap])
      BY <1>2 DEF SameArena, Kept, IsRun
    <2> QED BY <1>2, <2>1, <2>2
  <1>. HIDE DEF room, p
  <1>4. IsRun(room) /\ room.units = r.units /\ room.offsets = r.offsets
        /\ room.stack = r.stack
    BY <1>3 DEF SameArena, Kept
  <1>5. CASE p = Failed(r, "LIMIT")
    <2>1. SameArena(r, p) /\ p.error = "LIMIT"
      BY <1>5, FailedKeeps
    <2> QED BY <2>1 DEF SameArena, Kept, Ok, p
  <1>6. CASE ~Ok(room) /\ p = room
    BY <1>4, <1>6 DEF p
  <1>7. CASE p = [room EXCEPT !.stack = h]
    <2>1. h = Append(r.stack, s)
      BY <1>4
    <2>. HIDE DEF h
    <2>2. p.units = room.units /\ p.offsets = room.offsets /\ p.stack = h
      BY <1>4, <1>7 DEF IsRun
    <2> QED BY <1>4, <2>1, <2>2 DEF p
  <1> QED BY <1>1, <1>5, <1>6, <1>7

(* An exit that is left for later is on the stack.                         *)
Awaits(r, y, x, d) ==
  /\ Errs(r, d) /\ Twins(y, x)
  /\ Ok(d) => d.stack = Append(r.stack, x) /\ d.units = r.units /\ d.offsets = r.offsets

LEMMA DeferredIs ==
  ASSUME NEW r, NEW b, NEW x, Shares(r, b, x), NEW y, Referring(y), y.history = x.history,
         NEW kind, NEW key, NEW open, NEW fails, NEW more,
         NEW t, t = Tag(Retain(r, x.history), y, kind, key, open, fails),
         NEW d, d = Deferred(t, more)
  PROVE  Awaits(r, y, t[2], d)
  <1>. DEFINE e == More(More(Refs(r.stack), b.history), x.history)
              k == Retain(r, x.history)
              p == Push(t[1], t[2], more)
              z == t[2].history
  <1>1. HistoryOK(r, e) /\ e \in [Ids -> Nat] /\ IsRun(r) /\ x.history \in {NONE} \cup Ids
    BY SharesTypes, MoreType DEF Shares
  <1>2. HistoryOK(k, More(e, x.history))
    <2>. HIDE DEF e
    <2>1. Held(r, x.history)
      <3>. DEFINE e1 == More(Refs(r.stack), b.history)
                  id == x.history
      <3>1. HistoryOK(r, More(e1, id)) /\ e1 \in [Ids -> Nat] /\ id \in {NONE} \cup Ids
        BY <1>1, SharesTypes DEF e
      <3>. HIDE DEF e1, id
      <3>2. Held(r, id)
        BY <3>1, HeldByCount
      <3> QED BY <3>2 DEF id
    <2>2. \A id : Held(r, id) => HistoryOK(Retain(r, id), More(e, id))
      BY <1>1, RetainOK
    <2> QED BY <2>1, <2>2
  <1>3. Kept(r, k) /\ IsRun(k) /\ Errs(r, k)
    <2>. DEFINE id == x.history
    <2>. HIDE DEF id
    <2>1. Kept(r, Retain(r, id)) /\ IsRun(Retain(r, id)) /\ Errs(r, Retain(r, id))
      BY <1>1, DropErrs, DropStays
    <2> QED BY <2>1 DEF id
  <1>. HIDE DEF e, k
  <1>4. Kept(k, t[1]) /\ Errs(k, t[1]) /\ Twins(y, t[2])
    <2>1. HistoryOK(k, More(e, y.history)) /\ t = Tag(k, y, kind, key, open, fails)
      BY <1>2 DEF k
    <2> QED BY <1>1, <1>3, <2>1, TagOf
  <1>5. Kept(r, t[1]) /\ Errs(r, t[1]) /\ IsRun(t[1])
    <2>1. Kept(r, t[1]) /\ IsRun(t[1])
      BY <1>3, <1>4 DEF Kept
    <2>2. Errs(r, t[1])
      BY <1>3, <1>4, ErrsTwice
    <2> QED BY <2>1, <2>2
  <1>. HIDE DEF z
  <1>6. /\ Errs(t[1], p) /\ p.units = t[1].units /\ p.offsets = t[1].offsets
        /\ Ok(p) => p.stack = Append(t[1].stack, t[2])
    <2>1. PICK t1, t2 : t1 = t[1] /\ t2 = t[2]
      OBVIOUS
    <2>2. IsRun(t1)
      BY <1>5, <2>1
    <2>3. Errs(t1, Push(t1, t2, more))
      BY <2>2, PushErrs
    <2>4. /\ Push(t1, t2, more).units = t1.units /\ Push(t1, t2, more).offsets = t1.offsets
          /\ Ok(Push(t1, t2, more)) => Push(t1, t2, more).stack = Append(t1.stack, t2)
      BY <2>2, PushReads
    <2> QED BY <2>1, <2>3, <2>4
  <1>. HIDE DEF p
  <1>7. d = IF Ok(t[1]) THEN (IF Ok(p) THEN p ELSE Drop(p, z)) ELSE Drop(t[1], z)
    BY DEF Deferred, Shared, p, z
  <1>8. Errs(r, p) /\ IsRun(p)
    BY <1>5, <1>6, ErrsTwice DEF Errs
  <1>9. ASSUME NEW q, Errs(r, q), ~Ok(q)
        PROVE  Errs(r, Drop(q, z)) /\ ~Ok(Drop(q, z))
    <2>1. IsRun(q)
      BY <1>9 DEF Errs
    <2>2. Errs(q, Drop(q, z)) /\ Drop(q, z).error = q.error
      BY <2>1, DropErrs
    <2>3. Errs(r, Drop(q, z))
      BY <1>9, <2>2, ErrsTwice
    <2> QED BY <1>9, <2>2, <2>3 DEF Ok
  <1>10. CASE ~Ok(t[1])
    <2>1. PICK q : q = t[1]
      OBVIOUS
    <2>2. Errs(r, Drop(q, z)) /\ ~Ok(Drop(q, z))
      BY <1>5, <1>9, <1>10, <2>1
    <2>3. d = Drop(q, z)
      BY <1>7, <1>10, <2>1
    <2> QED BY <1>4, <2>2, <2>3 DEF Awaits
  <1>11. CASE Ok(t[1]) /\ ~Ok(p)
    <2>1. Errs(r, Drop(p, z)) /\ ~Ok(Drop(p, z))
      BY <1>8, <1>9, <1>11
    <2>2. d = Drop(p, z)
      BY <1>7, <1>11
    <2> QED BY <1>4, <2>1, <2>2 DEF Awaits
  <1>12. CASE Ok(t[1]) /\ Ok(p)
    <2>1. d = p
      BY <1>7, <1>12
    <2>2. t[1].stack = r.stack /\ t[1].units = r.units /\ t[1].offsets = r.offsets
      BY <1>5 DEF Kept
    <2> QED BY <1>4, <1>6, <1>8, <1>12, <2>1, <2>2 DEF Awaits
  <1> QED BY <1>10, <1>11, <1>12
-----------------------------------------------------------------------------
(* Loops                                                                   *)
LEMMA ElementsAppend ==
  ASSUME NEW s, IsSeq(s), NEW x
  PROVE  Elements(Append(s, x)) = Elements(s) \cup {x}
  <1>. DEFINE a == Append(s, x)
  <1>1. /\ Len(a) = Len(s) + 1 /\ Len(s) \in Nat
        /\ \A i \in 1 .. Len(s) : a[i] = s[i]
        /\ a[Len(s) + 1] = x
    BY Appended DEF IsSeq
  <1>. HIDE DEF a
  <1>2. \A i : i \in 1 .. Len(a) <=> i \in 1 .. Len(s) \/ i = Len(s) + 1
    BY <1>1
  <1>3. Elements(a) = Elements(s) \cup {x}
    BY <1>1, <1>2 DEF Elements
  <1> QED BY <1>3 DEF a

LEMMA ForkMatch ==
  ASSUME SharesInv, MatchInv, ExecInv, Fork
  PROVE  MatchInv'
  <1>. DEFINE x == Bare(current)
              u == Scalars(call)
              T == Elements(run.stack) \cup {current}
              Forks(m, y, f) ==
                LET q == Deferred(y, f)
                IN Continue(q, IF Ok(q) THEN Iterate(m[2]) ELSE m[2])
  <1>1. At({"REPEAT"})
    BY DEF Fork
  <1>2. /\ pc = "step" /\ code.op = "REPEAT"
        /\ code = Instr(call.program, x.pc) /\ x.pc \in 0 .. CodeCount(call.program) - 1
        /\ IsSeq(run.stack) /\ Len(call.input) \in Nat /\ Ok(run)
        /\ Tracked(current, Len(call.input), candidate)
        /\ Seeking(call, run, T, candidate, found, best)
    BY <1>1, InstrHere, HereIs
  <1>3. PICK l \in Loopings :
          /\ Ok(l[1]) /\ CanExit(l[2]) /\ CanEnter(l[2])
          /\ \E y \in Exits(Retain(l[1], l[2].history), l[2]) :
             \E f \in Outcomes : Forks(l, y, f)
    BY DEF Fork
  <1>4. PICK y \in Exits(Retain(l[1], l[2].history), l[2]) :
          \E f \in Outcomes : Forks(l, y, f)
    BY <1>3
  <1>5. PICK f \in Outcomes : Forks(l, y, f)
    BY <1>4
  <1>. DEFINE s == l[2]
              d == Deferred(y, f)
              z == IF Ok(d) THEN Iterate(s) ELSE s
  <1>6. Continue(d, z)
    BY <1>5
  <1>7. /\ Kept(run, l[1]) /\ Errs(run, l[1]) /\ Shares(l[1], best, s)
        /\ IsState(s) /\ s.pc = current.pc /\ s.pos = current.pos
        /\ s.begin = current.begin /\ s.end = current.end
        /\ LoopsOK(s.loops) /\ s.loops # <<>>
        /\ Bares(s.loops) = Inside(x)
    BY <1>2, <1>3, LoopingIs
  <1>8. x.pos = current.pos /\ x.begin = current.begin /\ x.end = current.end
    BY BareIs
  <1>9. PICK g \in Outcomes : y = Tag(Retain(l[1], s.history), Exited(s), 1, 0,
                                      Last(s.loops).history_open, g)
    BY <1>4 DEF Exits, Exited
  <1>. HIDE DEF s, x, u, d, z
  <1>10. /\ Tracked(Iterate(s), Len(call.input), candidate)
         /\ Tracked(Exited(s), Len(call.input), candidate)
         /\ \A v : Iterates(code, x, v) <=> CanEnter(s) /\ v = Bare(Iterate(s))
         /\ \A v : Leaves(code, x, v) <=> CanExit(s) /\ v = Bare(Exited(s))
    <2>1. s.pos \in 0 .. Len(call.input) /\ s.begin[0] = candidate
      BY <1>2, <1>7 DEF Tracked
    <2> QED BY <1>2, <1>7, <1>8, <2>1, RepeatIs
  <1>11. /\ \A v : Moves(call.program, u, x, v) <=>
                     v = Bare(Iterate(s)) \/ v = Bare(Exited(s))
         /\ ~Accepts(call.program, x)
    <2>1. /\ \A v : Moves(call.program, u, x, v) <=> Leaves(code, x, v) \/ Iterates(code, x, v)
          /\ ~Accepts(call.program, x)
      <3>1. code.op # "ACCEPT"
        BY <1>2
      <3> QED BY <1>2, <3>1, MovesBy
    <2> QED BY <1>3, <1>10, <2>1 DEF s
  <1>12. /\ Errs(l[1], d) /\ Twins(Exited(s), y[2])
         /\ Ok(d) => /\ d.stack = Append(l[1].stack, y[2])
                     /\ d.units = l[1].units /\ d.offsets = l[1].offsets
    <2>. DEFINE r == l[1]
                w == Exited(s)
                h == Last(s.loops).history_open
    <2>1. Shares(r, best, s) /\ Referring(w) /\ w.history = s.history
      BY <1>7, ExitedIs DEF Referring, Shares
    <2>. HIDE DEF r, w, h
    <2>2. y = Tag(Retain(r, s.history), w, 1, 0, h, g)
      BY <1>9 DEF r, w, h
    <2>3. d = Deferred(y, f)
      BY DEF d
    <2>4. Awaits(r, w, y[2], d)
      BY <2>1, <2>2, <2>3, DeferredIs
    <2> QED BY <2>4 DEF r, w, Awaits
  <1>13. /\ pc' = (IF Ok(d) THEN "step" ELSE "cleanup") /\ run' = d /\ current' = z
         /\ call' = call /\ output' = output /\ candidate' = candidate
         /\ found' = found /\ best' = best
    BY <1>2, <1>6 DEF Continue
  <1>14. CASE ~Ok(d)
    <2>1. Errs(run, d)
      BY <1>7, <1>12, ErrsTwice
    <2>2. Claims(call, d.error, output)
      BY <1>2, <1>14, <2>1, ErrsClaim
    <2>3. pc = "step"
      BY <1>2
    <2> QED BY <1>13, <1>14, <2>2, <2>3 DEF MatchInv
  <1>15. CASE Ok(d)
    <2>. DEFINE V == Elements(d.stack) \cup {Iterate(s)}
                o == y[2]
    <2>1. d.stack = Append(run.stack, o) /\ d.units = run.units /\ d.offsets = run.offsets
      BY <1>7, <1>12, <1>15 DEF Kept
    <2>2. Elements(d.stack) = Elements(run.stack) \cup {o}
      <3>. HIDE DEF o
      <3> QED BY <1>2, <2>1, ElementsAppend
    <2>3. Bare(o) = Bare(Exited(s)) /\ Tracked(o, Len(call.input), candidate)
      BY <1>10, <1>12, TwinsBare
    <2>. HIDE DEF o, T
    <2>4. Succeeds(call, candidate, current, T, V)
      <3>1. \A w \in T : w = current \/ w \in V
        BY <2>2 DEF T
      <3>2. \A w \in V :
              \/ w \in T
              \/ /\ Tracked(w, Len(call.input), candidate)
                 /\ Moves(call.program, u, x, Bare(w))
        BY <1>10, <1>11, <2>2, <2>3 DEF T
      <3>3. \A v : Moves(call.program, u, x, v) => \E w \in V : v = Bare(w)
        BY <1>11, <2>2, <2>3
      <3> QED BY <3>1, <3>2, <3>3 DEF Succeeds, u, x
    <2>5. current \in T
      BY DEF T
    <2>6. Best(call, candidate, found, best)
      BY <1>2 DEF Seeking
    <2>7. Improves(found, best.pos, found, best.pos)
      BY DEF Improves
    <2>8. Accounts(call, Bare(current), found, best.pos)
      BY <1>11 DEF Accounts, x
    <2>. HIDE DEF V
    <2>9. Seeking(call, d, V, candidate, found, best)
      BY <1>2, <1>15, <2>1, <2>4, <2>5, <2>6, <2>7, <2>8, SeekingGoes
    <2>10. Elements(run'.stack) \cup {current'} = V
      BY <1>13, <1>15 DEF V, z
    <2>11. pc = "step"
      BY <1>2
    <2> QED BY <1>13, <1>15, <2>9, <2>10, <2>11 DEF MatchInv
  <1> QED BY <1>14, <1>15

LEMMA LoopMatch ==
  ASSUME SharesInv, MatchInv, ExecInv, LoopFails \/ MustIterate \/ MustExit
  PROVE  MatchInv'
  <1>. DEFINE x == Bare(current)
              u == Scalars(call)
  <1>1. At({"REPEAT"})
    BY DEF LoopFails, MustIterate, MustExit
  <1>2. /\ pc = "step" /\ code.op = "REPEAT"
        /\ code = Instr(call.program, x.pc) /\ x.pc \in 0 .. CodeCount(call.program) - 1
        /\ IsSeq(run.stack) /\ Len(call.input) \in Nat /\ Ok(run)
        /\ Tracked(current, Len(call.input), candidate)
    BY <1>1, InstrHere, HereIs
  <1>3. x.pos = current.pos /\ x.begin = current.begin /\ x.end = current.end
    BY BareIs
  <1>. HIDE DEF x, u
  <1>4. /\ \A v : Moves(call.program, u, x, v) <=> Leaves(code, x, v) \/ Iterates(code, x, v)
        /\ ~Accepts(call.program, x)
    <2>1. code.op # "ACCEPT"
      BY <1>2
    <2> QED BY <1>2, <2>1, MovesBy
  <1>5. ASSUME NEW s, IsState(s), s.pos = current.pos, s.begin = current.begin,
               s.end = current.end, LoopsOK(s.loops), s.loops # <<>>,
               Bares(s.loops) = Inside(x)
        PROVE  /\ Tracked(Iterate(s), Len(call.input), candidate)
               /\ Tracked(Exited(s), Len(call.input), candidate)
               /\ \A v : Iterates(code, x, v) <=> CanEnter(s) /\ v = Bare(Iterate(s))
               /\ \A v : Leaves(code, x, v) <=> CanExit(s) /\ v = Bare(Exited(s))
    <2>1. s.pos \in 0 .. Len(call.input) /\ s.begin[0] = candidate
      BY <1>2, <1>5 DEF Tracked
    <2> QED BY <1>2, <1>3, <1>5, <2>1, RepeatIs
  <1>6. CASE LoopFails
    <2>1. PICK l \in Loopings : ~Ok(l[1]) /\ Abandon(l[1])
      BY <1>6 DEF LoopFails
    <2>2. Errs(run, l[1])
      BY <1>2, LoopingIs
    <2>3. Claims(call, l[1].error, output)
      BY <1>2, <2>1, <2>2, ErrsClaim
    <2> QED BY <1>2, <2>1, <2>3, AbandonMatch
  <1>7. CASE MustIterate
    <2>1. PICK l \in Loopings :
            /\ Ok(l[1]) /\ ~CanExit(l[2]) /\ CanEnter(l[2])
            /\ Continue(l[1], Iterate(l[2]))
      BY <1>7 DEF MustIterate
    <2>. DEFINE s == l[2]
                r == l[1]
    <2>2. /\ Kept(run, r) /\ Errs(run, r)
          /\ IsState(s) /\ s.pos = current.pos /\ s.begin = current.begin
          /\ s.end = current.end /\ LoopsOK(s.loops) /\ s.loops # <<>>
          /\ Bares(s.loops) = Inside(x)
      BY <1>2, <2>1, LoopingIs DEF x
    <2>3. ~CanExit(s) /\ CanEnter(s) /\ Continue(r, Iterate(s))
      BY <2>1
    <2>. HIDE DEF s, r
    <2>4. /\ Tracked(Iterate(s), Len(call.input), candidate)
          /\ \A v : Moves(call.program, u, x, v) <=> v = Bare(Iterate(s))
      BY <1>4, <1>5, <2>2, <2>3
    <2>. DEFINE z == Iterate(s)
    <2>. HIDE DEF z
    <2>5. /\ Tracked(z, Len(call.input), candidate)
          /\ Moves(call.program, Scalars(call), Bare(current), Bare(z))
          /\ \A y : Moves(call.program, Scalars(call), Bare(current), y) => y = Bare(z)
          /\ ~Accepts(call.program, Bare(current)) /\ Continue(r, z)
      BY <1>4, <2>3, <2>4 DEF u, x, z
    <2> QED BY <1>2, <2>2, <2>5, ContinueMatch
  <1>8. CASE MustExit
    <2>1. PICK l \in Loopings :
            /\ Ok(l[1]) /\ CanExit(l[2]) /\ ~CanEnter(l[2])
            /\ \E y \in Exits(l[1], l[2]) : Continue(y[1], IF Ok(y[1]) THEN y[2] ELSE l[2])
      BY <1>8 DEF MustExit
    <2>2. PICK y \in Exits(l[1], l[2]) : Continue(y[1], IF Ok(y[1]) THEN y[2] ELSE l[2])
      BY <2>1
    <2>. DEFINE s == l[2]
                r == l[1]
                h == Last(s.loops).history_open
    <2>3. /\ Kept(run, r) /\ Errs(run, r) /\ Shares(r, best, s)
          /\ IsState(s) /\ s.pos = current.pos /\ s.begin = current.begin
          /\ s.end = current.end /\ LoopsOK(s.loops) /\ s.loops # <<>>
          /\ Bares(s.loops) = Inside(x)
      BY <1>2, <2>1, LoopingIs DEF x
    <2>4. CanExit(s) /\ ~CanEnter(s)
      BY <2>1
    <2>5. PICK g \in Outcomes : y = Tag(r, Exited(s), 1, 0, h, g)
      BY <2>2 DEF Exits, Exited
    <2>. DEFINE z == IF Ok(y[1]) THEN y[2] ELSE s
                d == y[1]
    <2>6. Continue(d, z)
      BY <2>2
    <2>. HIDE DEF s, r, h
    <2>7. /\ Tracked(Exited(s), Len(call.input), candidate)
          /\ \A v : Moves(call.program, u, x, v) <=> v = Bare(Exited(s))
      BY <1>4, <1>5, <2>3, <2>4
    <2>8. Kept(r, y[1]) /\ Errs(r, y[1]) /\ Twins(Exited(s), y[2])
      <3>. DEFINE w == Exited(s)
      <3>1. Referring(w) /\ w.history = s.history
        BY <2>3, ExitedIs DEF Referring, Shares
      <3>. HIDE DEF w
      <3>2. y = Tag(r, w, 1, 0, h, g)
        BY <2>5 DEF w
      <3>3. Kept(r, y[1]) /\ Errs(r, y[1]) /\ Twins(w, y[2])
        BY <2>3, <3>1, <3>2, TagIs
      <3> QED BY <3>3 DEF w
    <2>9. Bare(y[2]) = Bare(Exited(s)) /\ Tracked(y[2], Len(call.input), candidate)
      BY <2>7, <2>8, TwinsBare
    <2>10. Kept(run, d) /\ Errs(run, d)
      <3>1. Kept(run, d)
        BY <2>3, <2>8 DEF Kept
      <3> QED BY <2>3, <2>8, <3>1, ErrsTwice
    <2>11. Ok(d) =>
             /\ Tracked(z, Len(call.input), candidate)
             /\ Moves(call.program, Scalars(call), Bare(current), Bare(z))
             /\ \A v : Moves(call.program, Scalars(call), Bare(current), v) => v = Bare(z)
             /\ ~Accepts(call.program, Bare(current))
      BY <1>4, <2>7, <2>9 DEF u, x
    <2>. HIDE DEF z, d
    <2> QED BY <1>2, <2>6, <2>10, <2>11, ContinueMatch
  <1> QED BY <1>6, <1>7, <1>8
-----------------------------------------------------------------------------
(* Every step of a session keeps the invariant.                            *)
LEMMA StepsMatch ==
  ASSUME SharesInv, MatchInv, ExecInv, Steps
  PROVE  MatchInv'
  <1>1. CASE Abort
    BY <1>1, AbortMatch
  <1>2. CASE RankingFails \/ AcceptWorse \/ AcceptBetter
    BY <1>2, AcceptMatch
  <1>3. CASE Consume \/ Mismatch
    BY <1>3, ConsumeMatch
  <1>4. CASE AnchorHolds \/ AnchorFails
    BY <1>4, AnchorMatch
  <1>5. CASE Open \/ Close
    BY <1>5, ScopeMatch
  <1>6. CASE Reference \/ ReferenceFails
    BY <1>6, ReferenceMatch
  <1>7. CASE Fork
    BY <1>7, ForkMatch
  <1>8. CASE LoopFails \/ MustIterate \/ MustExit
    BY <1>8, LoopMatch
  <1>9. CASE IterationDone \/ IterationRefused
    BY <1>9, IterationMatch
  <1> QED BY <1>1, <1>2, <1>3, <1>4, <1>5, <1>6, <1>7, <1>8, <1>9 DEF Steps

(* A program counts its groups.                                            *)
GroupsCounted == answer = "OK" => compiled.groups \in Nat

LEMMA CompileCounts ==
  ASSUME CompileOK, GroupsCounted, Compiler!Next
  PROVE  GroupsCounted'
  <1>1. CASE Compiler!Publish
    <2>1. /\ stage = "accept" /\ compiled' = Compiler!Compiled(c)
      BY <1>1 DEF Compiler!Publish
    <2>2. Len(c.groups) \in Nat
      BY <2>1 DEF CompileOK, IsSeq
    <2> QED BY <2>1, <2>2 DEF GroupsCounted, Compiler!Compiled
  <1>2. CASE \/ Compiler!Refuse \/ Compiler!AllocateNoMem \/ Compiler!SyntaxFails
             \/ Compiler!CodeNoMem \/ Compiler!Refused
    <2>1. \E s : s # "OK" /\ Compiler!Fail(s)
      BY <1>2 DEF Compiler!Refuse, Compiler!AllocateNoMem, Compiler!SyntaxFails,
                  Compiler!CodeNoMem, Compiler!Refused, Compiler!Lowers
    <2> QED BY <2>1 DEF Compiler!Fail, Compiler!Return, GroupsCounted
  <1>3. ASSUME UNCHANGED <<compiled, answer>> PROVE GroupsCounted'
    BY <1>3 DEF GroupsCounted
  <1>4. CASE Compiler!Allocate \/ Compiler!StartLowering \/ Compiler!NumberNode
             \/ Compiler!StartEmitting \/ Compiler!EmitAccept
    <2>1. UNCHANGED compiled /\ UNCHANGED answer
      BY <1>4 DEF Compiler!Allocate, Compiler!StartLowering, Compiler!NumberNode,
           Compiler!StartEmitting, Compiler!EmitAccept, Compiler!Advance, Compiler!Lower
    <2> QED BY <1>3, <2>1
  <1>5. CASE Compiler!SkipTerminal \/ Compiler!EmitSimple \/ Compiler!EmitClass
             \/ Compiler!EmitReference \/ Compiler!EmitGroup \/ Compiler!EmitLoop
    BY <1>3, <1>5 DEF Compiler!SkipTerminal, Compiler!EmitSimple, Compiler!EmitClass,
         Compiler!EmitReference, Compiler!EmitGroup, Compiler!EmitLoop, Compiler!Emitting,
         Compiler!Lower
  <1> QED BY <1>1, <1>2, <1>4, <1>5 DEF Compiler!Next

LEMMA CallMatch ==
  ASSUME MatchInv, NEW p, p.groups \in Nat, NEW s \in Sources, NEW q \in Questions(s),
         Call(Asked(p, q))
  PROVE  MatchInv'
  <1>1. pc' = "enter" /\ call' = Asked(p, q) /\ found' = found /\ pc = "idle"
    BY DEF Call
  <1>2. /\ q.capacity \in Nat /\ Len(q.input) \in Nat /\ DOMAIN q.input = 1 .. Len(q.input)
        /\ \A k \in DOMAIN q.input : q.input[k].status \in {"OK", "ENCODING", "ARGUMENT"}
    BY QuestionsAssumption
  <1>3. CallTyped(call')
    BY <1>1, <1>2 DEF CallTyped, Asked
  <1> QED BY <1>1, <1>3 DEF MatchInv

SearchInv == SharesInv /\ SessionInv /\ MatchInv /\ GroupsCounted

LEMMA SearchStarts ==
  ASSUME SessionInit
  PROVE  SearchInv
  <1>1. SharesInv
    BY DEF SessionInit, Init, SharesInv, Places, Sharing, Giving, Gave, Unshared
  <1>2. SessionInv
    BY StartSound
  <1>3. MatchInv
    BY DEF SessionInit, Init, MatchInv
  <1>4. GroupsCounted
    BY DEF SessionInit, Compiler!Init, GroupsCounted
  <1> QED BY <1>1, <1>2, <1>3, <1>4 DEF SearchInv

LEMMA SearchGoes ==
  ASSUME SearchInv, [SessionNext]_<<vars, compiling>>
  PROVE  SearchInv'
  <1>1. SharesInv' /\ SessionInv'
    BY SessionShares, SessionSound DEF SearchInv
  <1>2. ExecInv /\ CompileOK /\ MatchInv /\ SharesInv /\ GroupsCounted
    BY DEF SearchInv, SessionInv
  <1>3. ASSUME UNCHANGED vars PROVE MatchInv'
    BY <1>2, <1>3 DEF vars, MatchInv
  <1>4. ASSUME UNCHANGED compiling PROVE GroupsCounted'
    BY <1>2, <1>4 DEF compiling, GroupsCounted
  <1>5. CASE Compile
    BY <1>1, <1>2, <1>3, <1>5, CompileCounts DEF Compile, SearchInv
  <1>6. CASE Ask
    <2>1. PICK q \in Questions(source) : Call(Asked(compiled, q))
      BY <1>6 DEF Ask
    <2>2. source \in Sources /\ compiled.groups \in Nat
      BY <1>2, <1>6 DEF Ask, CompileOK, GroupsCounted
    <2>3. MatchInv'
      BY <1>2, <2>1, <2>2, CallMatch
    <2> QED BY <1>1, <1>4, <1>6, <2>3 DEF Ask, SearchInv
  <1>7. CASE Match
    <2>1. SUFFICES MatchInv'
      BY <1>1, <1>4, <1>7 DEF Match, SearchInv
    <2>2. CASE Enters
      BY <1>2, <2>2, EntersMatch
    <2>3. CASE Decodes
      BY <1>2, <2>3, DecodesMatch
    <2>4. CASE Steps
      BY <1>2, <2>4, StepsMatch
    <2>5. CASE Ends
      BY <1>2, <2>5, EndsMatch
    <2> QED BY <1>7, <2>2, <2>3, <2>4, <2>5 DEF Match, Next
  <1>8. CASE UNCHANGED vars /\ UNCHANGED compiling
    BY <1>1, <1>3, <1>4, <1>8 DEF SearchInv
  <1> QED BY <1>5, <1>6, <1>7, <1>8 DEF SessionNext, Rest

(* In every session, for all patterns, inputs, modes and limits and        *)
(* whatever allocation fails: the executor answers OK only with a longest  *)
(* path of the program from the leftmost start that it was to try and that *)
(* has a complete one, and with the spans of the groups on that path; and  *)
(* NOMATCH only if no path from any of those starts is complete.           *)
(* (maia_bre_exec_utf8: the loop over candidates, the backtracking loop    *)
(* and its instructions, and the report of the captures)                   *)
THEOREM ExecutorFindsLeftmostLongest == Session => []LeftmostLongest
  <1>1. SessionInit => SearchInv
    BY SearchStarts
  <1>2. SearchInv /\ [SessionNext]_<<vars, compiling>> => SearchInv'
    BY SearchGoes
  <1>3. SearchInv => LeftmostLongest
    BY DEF SearchInv, MatchInv, Claims, LeftmostLongest
  <1> QED BY <1>1, <1>2, <1>3, PTL DEF Session
=============================================================================
