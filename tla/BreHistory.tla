----------------------------- MODULE BreHistory -----------------------------
(***************************************************************************)
(* The scope histories of the BRE executor (maia_bre_history.h): linked    *)
(* records in an arena, shared by reference counts, their slots reused     *)
(* through a free list; and the ranking of two histories.  Operators on    *)
(* the record `r` that stands for BreRun; an operator that fails sets      *)
(* r.error and changes nothing else that is used afterwards.               *)
(*                                                                         *)
(* r.history is the arena, a sequence indexed from 1: id k is record k.    *)
(* r.free is the free list, its head first.  `fails` names the block whose *)
(* allocation, if it is tried, fails.                                      *)
(***************************************************************************)
EXTENDS BreProgram, SequencesExt

CONSTANTS
  NodeBytes,         \* sizeof(BreHistory)
  PriorityBytes,     \* 2 * sizeof(BrePriority)
  InitialNodes,      \* 32 in the code
  InitialPriorities  \* 16 in the code

ASSUME HistoryAssumption ==
  {NodeBytes, PriorityBytes, InitialNodes, InitialPriorities} \subseteq Nat \ {0}

Ok(r)        == r.error = "OK"
Failed(r, e) == [r EXCEPT !.error = e]

(* bre_tick *)
Tick(r, n) ==
  IF n > r.limits.max_steps - r.steps THEN Failed(r, "LIMIT")
  ELSE [r EXCEPT !.steps = @ + n]

(* Operators named for a slip are forms of the next definition that the    *)
(* runs are known to refute; nothing else refers to them.                  *)
GrowKeepingOld(r, block, old, new, unit, fails) ==
  IF unit > SizeMax \div new \/ new * unit > r.limits.max_workspace_bytes - r.used
  THEN Failed(r, "LIMIT")
  ELSE IF block \in fails THEN Failed(r, "NOMEM")
  ELSE [r EXCEPT !.used = @ + new * unit]

(* Replace a block of `old` units by one of `new`; both count at the peak. *)
Grow(r, block, old, new, unit, fails) ==
  IF unit > SizeMax \div new \/ new * unit > r.limits.max_workspace_bytes - r.used
  THEN Failed(r, "LIMIT")
  ELSE IF block \in fails THEN Failed(r, "NOMEM")
  ELSE [r EXCEPT !.used = @ - old * unit + new * unit]
-----------------------------------------------------------------------------
Node(r, id) == r.history[id]

(* One record further back: from a part of the chain of `id`, more of it   *)
Onward(r, id, part) ==
  LET next == IF part = <<>> THEN id ELSE Node(r, Last(part)).prev
  IN IF next = NONE THEN part ELSE Append(part, next)

(* id and its predecessors, latest first                                   *)
Chain(r, id) ==
  LET walk[k \in Nat] == IF k = 0 THEN <<>> ELSE Onward(r, id, walk[k - 1])
  IN walk[Len(r.history)]

(* The records `ids` gain `d` references.                                  *)
Counting(r, ids, d) ==
  [r EXCEPT !.history = [n \in DOMAIN @ |-> IF n \in ids
                                            THEN [Node(r, n) EXCEPT !.refs = @ + d]
                                            ELSE Node(r, n)]]

Retain(r, id) == Counting(r, {id}, 1)

(* Release one reference to the first record of a chain.  The records of   *)
(* it that nobody else refers to go to the free list, one after the other, *)
(* and the next one loses a reference.                                     *)
Released(r, chain) ==
  LET shared == {k \in DOMAIN chain : Node(r, chain[k]).refs > 1}
      freed  == Min({k - 1 : k \in shared} \cup {Len(chain)})
      losers == {chain[k] : k \in DOMAIN chain \cap 1 .. freed + 1}
  IN [Counting(r, losers, -1) EXCEPT !.free = [k \in 1 .. freed |-> chain[freed + 1 - k]] \o @]

(* bre_history_drop *)
Drop(r, id) == Released(r, Chain(r, id))

(* A slot for a new record: a reused one, or the next of a block that      *)
(* grows when it is full.                                                  *)
Reserve(r, fails) ==
  IF r.free # <<>> \/ Len(r.history) < r.history_capacity THEN r
  ELSE LET cap == IF r.history_capacity = 0 THEN InitialNodes
                  ELSE 2 * r.history_capacity
           g == Grow(r, "history", r.history_capacity, cap, NodeBytes, fails)
       IN IF cap > UIntMax \div 4 THEN Failed(r, "LIMIT")
          ELSE IF Ok(g) THEN [g EXCEPT !.history_capacity = cap] ELSE g

(* Put a record in front of the history of state s, which gives its        *)
(* reference to the predecessor to the record.                             *)
Prepend(r, s, node) ==
  LET reuse == r.free # <<>>
      id    == IF reuse THEN Head(r.free) ELSE Len(r.history) + 1
      made  == [r EXCEPT !.free = IF reuse THEN Tail(@) ELSE @,
                         !.history = IF reuse THEN [@ EXCEPT ![id] = node]
                                     ELSE Append(@, node),
                         !.history_order = node.order]
  IN IF Ok(r) THEN <<Drop(Retain(made, s.history), s.history), [s EXCEPT !.history = id]>>
     ELSE <<r, s>>

(* bre_history_tag: push an opening or closing record on the history of    *)
(* state s.  Returns the pair of run and state.                            *)
Tag(r, s, kind, key, open, fails) ==
  LET ticked == Tick(r, 1)
      node   == [prev |-> s.history, refs |-> 1, kind |-> kind, key |-> key,
                 pos |-> s.pos, open |-> open, order |-> r.history_order + 1]
  IN IF ~Ok(ticked) THEN <<ticked, s>>
     ELSE IF r.history_order = SizeMax THEN <<Failed(ticked, "LIMIT"), s>>
     ELSE Prepend(Reserve(ticked, fails), s, node)
-----------------------------------------------------------------------------
(* The closing records of a chain, in its order                            *)
Closings(r, chain) ==
  LET upto[k \in 0 .. Len(chain)] ==
        IF k = 0 THEN <<>>
        ELSE IF Node(r, chain[k]).kind = 1 THEN Append(upto[k - 1], chain[k])
        ELSE upto[k - 1]
  IN upto[Len(chain)]

(* The closed scopes of a history: when opened, which, how long.           *)
Scopes(r, id) ==
  LET closings == Closings(r, Chain(r, id))
  IN [k \in DOMAIN closings |->
        LET n == Node(r, closings[k])
            o == Node(r, n.open)
        IN [order |-> o.order, key |-> o.key, length |-> n.pos - o.pos]]

Swapped(q, i, j) == [q EXCEPT ![i] = q[j], ![j] = q[i]]

(* One turn of bre_priority_sift on the heap of the first n records: the   *)
(* record at x.root (from 0) changes places with its later child.  x.q are *)
(* the records, x.ticks the steps charged.                                 *)
Sunk(x, n) ==
  LET order(k) == x.q[k + 1].order
      left  == 2 * x.root + 1
      child == IF left + 1 < n /\ order(left) < order(left + 1) THEN left + 1 ELSE left
      paid  == [x EXCEPT !.ticks = @ + 1]
  IN IF x.root >= n \div 2 THEN x
     ELSE IF order(x.root) >= order(child) THEN [paid EXCEPT !.root = n]
     ELSE [paid EXCEPT !.q = Swapped(@, x.root + 1, child + 1), !.root = child]

(* bre_priority_sift *)
Sift(h, n, root) ==
  LET after[k \in 0 .. n] ==
        IF k = 0 THEN [q |-> h.q, ticks |-> h.ticks, root |-> root]
        ELSE Sunk(after[k - 1], n)
  IN [q |-> after[n].q, ticks |-> after[n].ticks]

(* bre_priority_sort *)
Sorted(q) ==
  LET n == Len(q)
      half == n \div 2
      heaped[k \in 0 .. half] ==
        IF k = 0 THEN [q |-> q, ticks |-> 0] ELSE Sift(heaped[k - 1], n, half - k)
      sorted[k \in 0 .. n] ==
        IF k = 0 THEN heaped[half]
        ELSE IF k = n THEN sorted[n - 1]
        ELSE Sift([sorted[k - 1] EXCEPT !.q = Swapped(@, 1, n - k + 1)], n - k, 0)
  IN sorted[n]

(* bre_priority_reserve: two buffers of at least n records                 *)
ReservePriorities(r, n, fails) ==
  IF n <= r.priority_capacity THEN r
  ELSE LET first == IF r.priority_capacity = 0 THEN InitialPriorities
                    ELSE r.priority_capacity
           cap[k \in Nat] == IF k = 0 THEN first ELSE 2 * cap[k - 1]
           doublings == Min({k \in 0 .. n : cap[k] >= n})
           g == Grow(r, "priorities", r.priority_capacity, cap[doublings],
                     PriorityBytes, fails)
       IN IF \E k \in 0 .. doublings - 1 : cap[k] > UIntMax \div 4
          THEN Failed(r, "LIMIT")
          ELSE IF Ok(g) THEN [g EXCEPT !.priority_capacity = cap[doublings]] ELSE g

(* The first scope in which two preorder sequences differ decides, by its  *)
(* identity and then by its length; else the longer sequence wins.         *)
Differ(p, q) ==
  {k \in DOMAIN p \cap DOMAIN q : <<p[k].key, p[k].length>> # <<q[k].key, q[k].length>>}

Precedes(p, q) ==
  IF Differ(p, q) = {} THEN Len(p) > Len(q)
  ELSE LET k == Min(Differ(p, q))
       IN p[k].key < q[k].key \/ (p[k].key = q[k].key /\ p[k].length > q[k].length)

Compared(p, q) ==
  IF Differ(p, q) = {} THEN Min({Len(p), Len(q)}) ELSE Min(Differ(p, q))

(* bre_history_better: does the history `id` win over `best`?  Returns the *)
(* pair of run and answer; a run that failed has no answer.  `walk` is the *)
(* number of records of both, which are walked through twice.              *)
Decided(r, left, right, walk) ==
  LET ranked == Tick(r, walk + left.ticks + right.ticks + Compared(left.q, right.q))
  IN IF Ok(r) THEN <<ranked, Ok(ranked) /\ Precedes(left.q, right.q)>> ELSE <<r, FALSE>>

Contest(r, left, right, walk, fails) ==
  IF ~Ok(r) \/ (left = <<>> /\ right = <<>>) THEN <<r, FALSE>>
  ELSE Decided(ReservePriorities(r, Max({Len(left), Len(right)}), fails),
               Sorted(left), Sorted(right), walk)

Better(r, id, best, fails) ==
  LET walk == Len(Chain(r, id)) + Len(Chain(r, best))
  IN Contest(Tick(r, walk), Scopes(r, id), Scopes(r, best), walk, fails)
=============================================================================
