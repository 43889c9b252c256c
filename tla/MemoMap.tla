------------------------------- MODULE MemoMap -------------------------------
(***************************************************************************)
(* What the sparse memo promises the search: a map from cells to values    *)
(* that starts UNVISITED everywhere.  The search asks for the slot of a    *)
(* cell and is given a pointer to it (`held`), that of the slot the cell   *)
(* has or that of a new one, which doubles the table when half of it is    *)
(* occupied.  Values are read and written through the pointer only, so no  *)
(* cell but the one asked for can change.  The pointer is used before the  *)
(* next request, since a growth frees the slots it points among.  Slots    *)
(* are never given back and no write is lost.  The table (MemoTable) and   *)
(* the search that uses it (OrderedExec) both implement this module.       *)
(***************************************************************************)
EXTENDS Integers, FiniteSets

CONSTANTS Cells, InitialSlots

VARIABLES keys, slots, memo, held

Nowhere == -1    \* no pointer is held; cells are numbers from 0 on

Init ==
  /\ keys = {} /\ slots = InitialSlots
  /\ memo = [c \in Cells |-> 0]
  /\ held = Nowhere

Find(c) ==
  /\ held = Nowhere /\ c \in keys
  /\ held' = c
  /\ UNCHANGED <<keys, slots, memo>>

Insert(c) ==
  /\ held = Nowhere /\ c \notin keys
  /\ keys' = keys \cup {c}
  /\ slots' = IF Cardinality(keys) >= slots \div 2 THEN 2 * slots ELSE slots
  /\ held' = c
  /\ UNCHANGED memo

(* The value is replaced, or only read.                                    *)
Use(c) ==
  /\ held = c /\ c \in keys
  /\ memo' = [memo EXCEPT ![c] = memo'[c]]
  /\ held' = Nowhere
  /\ UNCHANGED <<keys, slots>>

Next == \E c \in Cells : Find(c) \/ Insert(c) \/ Use(c)

Spec == Init /\ [][Next]_<<keys, slots, memo, held>>
=============================================================================
