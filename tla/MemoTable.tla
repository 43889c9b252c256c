------------------------------ MODULE MemoTable ------------------------------
(***************************************************************************)
(* The open-addressing table behind the sparse memo: maia_regex_memo_slot  *)
(* of maia_regex.c and the search that writes through the pointer it       *)
(* returns.  Keys are cells plus one, key 0 marks an empty slot.           *)
(*                                                                         *)
(* A slot is sought by linear probing from the hash of the key.  The       *)
(* capacity is a power of two, so the masks of the code are % capacity     *)
(* here.  What maia_regex_memo_hash mixes out of a key before the mask is  *)
(* an arbitrary number mix[key]: nothing here depends on which.            *)
(* The growth loop is one step per old slot.                               *)
(***************************************************************************)
EXTENDS Integers, FiniteSets

CONSTANTS
  CellCount,      \* cells of the grid
  Values,         \* what the search stores
  Mixes,          \* the mixing functions considered
  InitialSlots,   \* 16 in the code
  SizeMax,        \* (size_t)-1
  EntryBytes      \* sizeof(MaiaRegexMemoEntry)

Cells == 0 .. CellCount - 1
Keys  == 1 .. CellCount

ASSUME TableAssumption ==
  /\ CellCount \in Nat \ {0}
  /\ Values \subseteq Int
  /\ Mixes \subseteq [Keys -> Nat]
  /\ InitialSlots \in Nat /\ InitialSlots >= 2
  /\ SizeMax \in Nat
  /\ EntryBytes \in Nat \ {0} /\ InitialSlots * EntryBytes <= SizeMax

VARIABLES
  mix,
  entries, capacity, used,   \* the table
  grown, index,              \* its successor while it is being filled
  key,                       \* the key asked for
  at,                        \* slot the search holds a pointer to
  pc

vars == <<mix, entries, capacity, used, grown, index, key, at, pc>>

Empty(n) == [s \in 0 .. n - 1 |-> [key |-> 0, value |-> 0]]

(* Slot of the o-th probe for key k in a table of n slots, and the first   *)
(* probe that meets one of the keys ks there.                              *)
Place(n, k, o) == (mix[k] + o) % n

Stops(t, n, k, ks) == {o \in 0 .. n - 1 : t[Place(n, k, o)].key \in ks}

FirstStop(t, n, k, ks) ==
  LET S == Stops(t, n, k, ks)
  IN Place(n, k, CHOOSE o \in S : \A u \in S : o <= u)

Probe == FirstStop(entries, capacity, key, {0, key})
-----------------------------------------------------------------------------
Init ==
  /\ mix \in Mixes
  /\ entries = Empty(InitialSlots) /\ capacity = InitialSlots /\ used = 0
  /\ grown = Empty(0) /\ index = 0
  /\ key = 1 /\ at = 0 /\ pc = "idle"

(* Operators named for a slip are forms of the next definition that the    *)
(* runs are known to refute; nothing else refers to them.                  *)
(* The search reaches a frame on cell c.                                   *)
Ask(c) ==
  /\ pc = "idle" /\ pc' = "find" /\ key' = c + 1
  /\ UNCHANGED <<mix, entries, capacity, used, grown, index, at>>

Exhausted == Stops(entries, capacity, key, {0, key}) = {}
Absent    == ~Exhausted /\ entries[Probe].key = 0
HalfFullIfFull == used >= capacity
HalfFull  == used >= capacity \div 2
CanDouble == capacity <= (SizeMax \div EntryBytes) \div 2

Hit ==
  /\ pc = "find" /\ ~Exhausted /\ entries[Probe].key = key
  /\ at' = Probe /\ pc' = "held"
  /\ UNCHANGED <<mix, entries, capacity, used, grown, index, key>>

(* Copying: the first hole on the way of key k in the new table.           *)
HasHole(k) == Stops(grown, 2 * capacity, k, {0}) # {}
Hole(k)    == FirstStop(grown, 2 * capacity, k, {0})

(* One of the three probe loops went all round its table.                  *)
NoPlace ==
  \/ pc = "find" /\ Exhausted
  \/ pc = "move" /\ index < capacity /\ entries[index].key # 0
     /\ ~HasHole(entries[index].key)
  \/ pc = "move" /\ index = capacity /\ ~HasHole(key)

(* No slot is returned: the search ends and frees the table.               *)
Refuse ==
  /\ pc' = "refused"
  /\ UNCHANGED <<mix, entries, capacity, used, grown, index, key, at>>

MustGrow == pc = "find" /\ Absent /\ HalfFull

Limit == (NoPlace \/ (MustGrow /\ ~CanDouble)) /\ Refuse

NoMem == MustGrow /\ CanDouble /\ Refuse

NewEntry == [key |-> key, value |-> 0]

Insert ==
  /\ pc = "find" /\ Absent /\ ~HalfFull
  /\ at' = Probe /\ pc' = "held"
  /\ entries' = [entries EXCEPT ![Probe] = NewEntry]
  /\ used' = used + 1
  /\ UNCHANGED <<mix, capacity, grown, index, key>>

Grow ==
  /\ MustGrow /\ CanDouble
  /\ grown' = Empty(2 * capacity) /\ index' = 0 /\ pc' = "move"
  /\ UNCHANGED <<mix, entries, capacity, used, key, at>>

MoveDropsValue ==
  /\ pc = "move" /\ index < capacity /\ ~NoPlace
  /\ LET e == [entries[index] EXCEPT !.value = 0]
     IN grown' = IF e.key = 0 THEN grown ELSE [grown EXCEPT ![Hole(e.key)] = e]
  /\ index' = index + 1
  /\ UNCHANGED <<mix, entries, capacity, used, key, at, pc>>

(* Copy the next old slot, if it is occupied.                              *)
Move ==
  /\ pc = "move" /\ index < capacity /\ ~NoPlace
  /\ LET e == entries[index]
     IN grown' = IF e.key = 0 THEN grown ELSE [grown EXCEPT ![Hole(e.key)] = e]
  /\ index' = index + 1
  /\ UNCHANGED <<mix, entries, capacity, used, key, at, pc>>

(* The pointer is to the place found in the old table.                     *)
SwapAtOldPlace ==
  /\ pc = "move" /\ index = capacity /\ ~NoPlace
  /\ at' = Probe /\ pc' = "held"
  /\ entries' = [grown EXCEPT ![Hole(key)] = NewEntry]
  /\ capacity' = 2 * capacity /\ used' = used + 1
  /\ grown' = Empty(0) /\ index' = 0
  /\ UNCHANGED <<mix, key>>

(* All is moved: swap the tables and insert the new key.                   *)
Swap ==
  /\ pc = "move" /\ index = capacity /\ ~NoPlace
  /\ at' = Hole(key) /\ pc' = "held"
  /\ entries' = [grown EXCEPT ![Hole(key)] = NewEntry]
  /\ capacity' = 2 * capacity /\ used' = used + 1
  /\ grown' = Empty(0) /\ index' = 0
  /\ UNCHANGED <<mix, key>>

(* The search uses its pointer once in a turn, to store or only to read.   *)
Store(v) ==
  /\ pc = "held" /\ pc' = "idle"
  /\ entries' = [entries EXCEPT ![at].value = v]
  /\ UNCHANGED <<mix, capacity, used, grown, index, key, at>>

Read ==
  /\ pc = "held" /\ pc' = "idle"
  /\ UNCHANGED <<mix, entries, capacity, used, grown, index, key, at>>

Search == (\E c \in Cells : Ask(c)) \/ (\E v \in Values : Store(v)) \/ Read

Slot == Hit \/ Limit \/ NoMem \/ Insert \/ Grow \/ Move \/ Swap

Next == Search \/ Slot

Spec == Init /\ [][Next]_vars
-----------------------------------------------------------------------------
Entry == [key: {0} \cup Keys, value: Int]

TypeOK ==
  /\ mix \in [Keys -> Nat]
  /\ capacity \in Nat /\ capacity >= 2
  /\ entries \in [0 .. capacity - 1 -> Entry]
  /\ used \in Nat
  /\ grown \in [0 .. 2 * capacity - 1 -> Entry] \/ (pc # "move" /\ grown = Empty(0))
  /\ index \in 0 .. capacity
  /\ key \in Keys
  /\ at \in 0 .. capacity - 1
  /\ pc \in {"idle", "find", "move", "held", "refused"}

Occupied(t) == {s \in DOMAIN t : t[s].key # 0}

(* Every key of table t of n slots is found by probing: no hole lies       *)
(* between its hash and its slot, and no key is in two slots.              *)
WellProbed(t, n) ==
  /\ \A s, u \in Occupied(t) : t[s].key = t[u].key => s = u
  /\ \A s \in Occupied(t) :
       \E o \in 0 .. n - 1 :
         /\ Place(n, t[s].key, o) = s
         /\ \A i \in 0 .. o - 1 : t[Place(n, t[s].key, i)].key # 0

(* Also half way through a growth both tables can be probed: the copied    *)
(* keys are those of the old slots below index, with their values.         *)
TablesProbed ==
  /\ WellProbed(entries, capacity)
  /\ pc = "move" =>
       /\ WellProbed(grown, 2 * capacity)
       /\ {grown[s] : s \in Occupied(grown)} =
            {entries[s] : s \in {u \in Occupied(entries) : u < index}}

(* The table is at most half occupied and `used` counts its keys, so no    *)
(* probe loop runs round its table, and no table size wraps in size_t.     *)
NeverExhausted ==
  /\ used = Cardinality(Occupied(entries)) /\ 2 * used <= capacity
  /\ pc = "move" => Cardinality(Occupied(grown)) <= used
  /\ ~NoPlace
  /\ capacity * EntryBytes <= SizeMax

-----------------------------------------------------------------------------
(* The map that the table stands for.                                      *)
keys  == {entries[s].key - 1 : s \in Occupied(entries)}
ValueOf(c) ==
  IF c \in keys
  THEN entries[CHOOSE s \in DOMAIN entries : entries[s].key = c + 1].value
  ELSE 0

(* The cell whose slot the search holds a pointer to: the one it asked     *)
(* for, or else (-2) none that it may use.                                 *)
Given ==
  IF pc # "held" THEN -1 ELSE IF entries[at].key = key THEN key - 1 ELSE -2

M == INSTANCE MemoMap
       WITH slots <- capacity, memo <- [c \in Cells |-> ValueOf(c)], held <- Given

(* Growth, collisions and resets never lose or invent a value; the pointer *)
(* is to the slot of the key asked for, also when that was inserted in a   *)
(* table that has just been exchanged; and what the search writes through  *)
(* it is the value of the cell it asked for and of no other.               *)
ImplementsMap == M!Spec
=============================================================================
