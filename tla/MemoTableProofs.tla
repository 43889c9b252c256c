--------------------------- MODULE MemoTableProofs ---------------------------
(***************************************************************************)
(* That the hash table of maia_regex_memo_slot is a map, for every number  *)
(* of cells, every mixing function, every stored value and every size: a   *)
(* key is found where it was put, growth included, no probe goes round its *)
(* table, and no size wraps.                                               *)
(*                                                                         *)
(* The argument: on the way from a key's hash to its slot there is never a *)
(* hole, and no key is in two slots.  So the first hole or own slot on the *)
(* way is the slot, if there is one, and else a place where the key can be *)
(* put without breaking a way.  A hole is met since the slots of a table   *)
(* are all on the way of every key and at most half of them are occupied.  *)
(* Half way through a growth the new table holds the entries below index.  *)
(***************************************************************************)
EXTENDS MemoTable, FiniteSetTheorems, Numbers

-----------------------------------------------------------------------------
(* A table of n slots                                                      *)
IsTable(t, n) == n \in Nat \ {0} /\ t \in [0 .. n - 1 -> Entry]

Mixing == mix \in [Keys -> Nat]

(* The places on the way of a key are slots.                               *)
LEMMA PlaceIsSlot ==
  ASSUME Mixing, NEW n \in Nat \ {0}, NEW k \in Keys
  PROVE  \A o \in 0 .. n - 1 : Place(n, k, o) \in 0 .. n - 1
  <1>1. mix[k] \in Nat
    BY DEF Mixing
  <1> QED BY <1>1 DEF Place

(* So are those before a place.                                            *)
LEMMA EarlierPlaces ==
  ASSUME Mixing, NEW n \in Nat \ {0}, NEW k \in Keys, NEW o \in 0 .. n - 1
  PROVE  \A i \in 0 .. o - 1 : Place(n, k, i) \in 0 .. n - 1
  <1>1. \A i \in 0 .. o - 1 : i \in 0 .. n - 1
    OBVIOUS
  <1> QED BY <1>1, PlaceIsSlot, Zenon

(* Where the way of a key stops, it stops at the first place of the kind   *)
(* asked for.                                                              *)
LEMMA FirstStopFacts ==
  ASSUME Mixing, NEW n \in Nat \ {0}, NEW t, NEW k \in Keys, NEW ks,
         Stops(t, n, k, ks) # {}
  PROVE  \E o \in 0 .. n - 1 :
           /\ FirstStop(t, n, k, ks) = Place(n, k, o)
           /\ t[Place(n, k, o)].key \in ks
           /\ \A i \in 0 .. o - 1 : t[Place(n, k, i)].key \notin ks
  <1>. DEFINE S == Stops(t, n, k, ks)
              o == CHOOSE x \in S : \A u \in S : x <= u
  <1>1. S \subseteq Nat /\ S # {}
    BY DEF Stops
  <1>2. o \in S /\ \A u \in S : o <= u
    BY <1>1, LeastNat
  <1>3. FirstStop(t, n, k, ks) = Place(n, k, o)
    BY DEF FirstStop
  <1>. HIDE DEF o
  <1>4. o \in 0 .. n - 1 /\ t[Place(n, k, o)].key \in ks
    BY <1>2 DEF Stops
  <1>5. ASSUME NEW i \in 0 .. o - 1 PROVE t[Place(n, k, i)].key \notin ks
    <2>1. i \notin S /\ i \in 0 .. n - 1
      BY <1>2, <1>4
    <2> QED BY <2>1 DEF Stops
  <1> QED BY <1>3, <1>4, <1>5

(* A table with a hole stops every way.                                    *)
LEMMA HoleStops ==
  ASSUME Mixing, NEW n, NEW t, IsTable(t, n), NEW k \in Keys, NEW ks, 0 \in ks,
         NEW s \in 0 .. n - 1, t[s].key = 0
  PROVE  Stops(t, n, k, ks) # {}
  <1>1. mix[k] \in Nat /\ n \in Nat \ {0}
    BY DEF Mixing, IsTable
  <1>. DEFINE m == mix[k]
  <1>. HIDE DEF m
  <1>2. Reached(n, m, s)
    <2>1. m \in Nat /\ n \in Nat \ {0}
      BY <1>1 DEF m
    <2> QED BY <2>1, EverySlotProbed
  <1>3. PICK o \in 0 .. n - 1 : (m + o) % n = s
    BY <1>2, Zenon DEF Reached
  <1>4. o \in Stops(t, n, k, ks)
    BY <1>3 DEF Stops, Place, m
  <1> QED BY <1>4
-----------------------------------------------------------------------------
(* What a table holds, and the two halves of WellProbed.                   *)
Content(t) == {t[s] : s \in Occupied(t)}
KeysOf(t)  == {t[s].key - 1 : s \in Occupied(t)}

Distinct(t) == \A s, u \in Occupied(t) : t[s].key = t[u].key => s = u

OnItsWay(t, n, s) ==
  \E o \in 0 .. n - 1 :
    /\ Place(n, t[s].key, o) = s
    /\ \A i \in 0 .. o - 1 : t[Place(n, t[s].key, i)].key # 0

(* WellProbed says both of every slot.                                     *)
LEMMA WellProbedParts ==
  ASSUME NEW t, NEW n
  PROVE  WellProbed(t, n) <=> Distinct(t) /\ \A s \in Occupied(t) : OnItsWay(t, n, s)
  BY DEF WellProbed, Distinct, OnItsWay

(* A probe for a key that is there ends at its slot.                       *)
LEMMA FoundWhereItIs ==
  ASSUME Mixing, NEW n, NEW t, IsTable(t, n), WellProbed(t, n), NEW k \in Keys,
         NEW s \in 0 .. n - 1, t[s].key = k
  PROVE  Stops(t, n, k, {0, k}) # {} /\ FirstStop(t, n, k, {0, k}) = s
  <1>1. n \in Nat \ {0} /\ DOMAIN t = 0 .. n - 1 /\ k # 0
    BY DEF IsTable, Keys
  <1>2. s \in Occupied(t)
    BY <1>1 DEF Occupied
  <1>3. PICK o \in 0 .. n - 1 :
          /\ Place(n, k, o) = s
          /\ \A i \in 0 .. o - 1 : t[Place(n, k, i)].key # 0
    BY <1>2 DEF WellProbed
  <1>4. o \in Stops(t, n, k, {0, k})
    BY <1>3 DEF Stops
  <1>5. PICK f \in 0 .. n - 1 :
          /\ FirstStop(t, n, k, {0, k}) = Place(n, k, f)
          /\ t[Place(n, k, f)].key \in {0, k}
          /\ \A i \in 0 .. f - 1 : t[Place(n, k, i)].key \notin {0, k}
    BY <1>1, <1>4, FirstStopFacts
  <1>6. ~(o < f)
    <2>1. o < f => o \in 0 .. f - 1
      OBVIOUS
    <2> QED BY <1>3, <1>5, <2>1
  <1>7. CASE f = o
    BY <1>3, <1>4, <1>5, <1>7
  <1>8. CASE f < o
    <2>1. f \in 0 .. o - 1
      BY <1>8
    <2>2. t[Place(n, k, f)].key = k
      BY <1>3, <1>5, <2>1
    <2>3. Place(n, k, f) \in Occupied(t)
      BY <1>1, <2>2, PlaceIsSlot DEF Occupied
    <2>4. Place(n, k, f) = s
      BY <1>2, <2>2, <2>3 DEF WellProbed
    <2> QED BY <1>4, <1>5, <2>4
  <1>9. f = o \/ f < o
    BY <1>1, <1>6
  <1> QED BY <1>7, <1>8, <1>9

(* Table u of n slots is t with entry e put where the probe of its key,    *)
(* which t has not, first meets one of ks.                                 *)
Puts(t, n, e, ks, h, u) ==
  /\ IsTable(t, n) /\ WellProbed(t, n)
  /\ e \in Entry /\ e.key # 0 /\ \A s \in Occupied(t) : t[s].key # e.key
  /\ ks \in {{0}, {0, e.key}} /\ Stops(t, n, e.key, ks) # {}
  /\ h = FirstStop(t, n, e.key, ks) /\ u = [t EXCEPT ![h] = e]

(* That place is a hole, and no other way is broken by filling it.         *)
LEMMA PutKeeps ==
  ASSUME Mixing, NEW t, NEW n, NEW e, NEW ks, NEW h, NEW u, Puts(t, n, e, ks, h, u)
  PROVE  /\ h \in 0 .. n - 1 /\ u[h] = e /\ IsTable(u, n) /\ WellProbed(u, n)
         /\ h \notin Occupied(t) /\ Occupied(u) = Occupied(t) \cup {h}
         /\ \A s \in Occupied(t) : u[s] = t[s]
  <1>. DEFINE k == e.key
  <1>. USE DEF Puts
  <1>1. n \in Nat \ {0} /\ t \in [0 .. n - 1 -> Entry] /\ DOMAIN t = 0 .. n - 1
    BY DEF IsTable
  <1>2. k \in Keys /\ k # 0
    BY DEF Entry
  <1>3. PICK o \in 0 .. n - 1 :
          /\ h = Place(n, k, o)
          /\ t[Place(n, k, o)].key \in ks
          /\ \A i \in 0 .. o - 1 : t[Place(n, k, i)].key \notin ks
    BY <1>1, <1>2, FirstStopFacts
  <1>4. h \in 0 .. n - 1
    BY <1>1, <1>2, <1>3, PlaceIsSlot
  <1>5. t[h].key = 0
    <2>1. t[h].key # 0 => h \in Occupied(t)
      BY <1>1, <1>4 DEF Occupied
    <2> QED BY <1>3, <2>1
  <1>6. u \in [0 .. n - 1 -> Entry] /\ u[h] = e
        /\ \A s \in 0 .. n - 1 : s # h => u[s] = t[s]
    BY <1>1, <1>4
  <1>7. IsTable(u, n) /\ h \notin Occupied(t) /\ Occupied(u) = Occupied(t) \cup {h}
    BY <1>1, <1>2, <1>4, <1>5, <1>6 DEF IsTable, Occupied
  <1>8. \A s \in Occupied(t) : u[s] = t[s] /\ s \in 0 .. n - 1
    BY <1>1, <1>6, <1>7 DEF Occupied
  <1>9. Distinct(u)
    <2>. SUFFICES ASSUME NEW a \in Occupied(u), NEW b \in Occupied(u), u[a].key = u[b].key
                  PROVE  a = b
      BY DEF Distinct
    <2>1. a \in Occupied(t) /\ b \in Occupied(t) => a = b
      BY <1>8 DEF WellProbed
    <2>2. a \in Occupied(t) => b # h
      BY <1>6, <1>8
    <2>3. b \in Occupied(t) => a # h
      BY <1>6, <1>8
    <2> QED BY <1>7, <2>1, <2>2, <2>3
  <1>10. \A s \in 0 .. n - 1 : t[s].key # 0 => u[s].key # 0
    BY <1>2, <1>5, <1>6
  <1>11. ASSUME NEW s \in Occupied(u) PROVE OnItsWay(u, n, s)
    <2>1. CASE s = h
      <3>1. \A i \in 0 .. o - 1 : t[Place(n, k, i)].key # 0
        BY <1>3
      <3>2. \A i \in 0 .. o - 1 : Place(n, k, i) \in 0 .. n - 1
        BY <1>1, <1>2, EarlierPlaces
      <3>3. \A i \in 0 .. o - 1 : u[Place(n, k, i)].key # 0
        BY <1>10, <3>1, <3>2
      <3> QED BY <1>3, <1>6, <2>1, <3>3 DEF OnItsWay
    <2>2. CASE s # h
      <3>1. s \in Occupied(t) /\ u[s] = t[s] /\ t[s].key \in Keys
        BY <1>1, <1>7, <1>8, <2>2 DEF Occupied, Entry
      <3>. DEFINE j == t[s].key
      <3>2. PICK w \in 0 .. n - 1 :
              /\ Place(n, j, w) = s
              /\ \A i \in 0 .. w - 1 : t[Place(n, j, i)].key # 0
        BY <3>1 DEF WellProbed
      <3>3. \A i \in 0 .. w - 1 : Place(n, j, i) \in 0 .. n - 1
        BY <1>1, <3>1, EarlierPlaces
      <3>4. \A i \in 0 .. w - 1 : u[Place(n, j, i)].key # 0
        BY <1>10, <3>2, <3>3
      <3> QED BY <3>1, <3>2, <3>4 DEF OnItsWay
    <2> QED BY <2>1, <2>2
  <1>12. WellProbed(u, n)
    BY <1>9, <1>11, WellProbedParts
  <1> QED BY <1>4, <1>6, <1>7, <1>8, <1>12

(* Table u of n slots is t with value v stored in occupied slot a.         *)
Stores(t, n, a, v, u) ==
  /\ IsTable(t, n) /\ WellProbed(t, n)
  /\ a \in Occupied(t) /\ v \in Int /\ u = [t EXCEPT ![a].value = v]

(* Storing changes nothing else.                                           *)
LEMMA StoreKeeps ==
  ASSUME Mixing, NEW t, NEW n, NEW a, NEW v, NEW u, Stores(t, n, a, v, u)
  PROVE  /\ IsTable(u, n) /\ WellProbed(u, n) /\ Occupied(u) = Occupied(t)
         /\ \A s \in Occupied(t) : u[s].key = t[s].key /\ (s # a => u[s] = t[s])
         /\ u[a].value = v
  <1>. USE DEF Stores
  <1>1. n \in Nat \ {0} /\ t \in [0 .. n - 1 -> Entry] /\ DOMAIN t = 0 .. n - 1
        /\ a \in 0 .. n - 1
    BY DEF IsTable, Occupied
  <1>2. t[a] \in Entry
    BY <1>1
  <1>3. [t[a] EXCEPT !.value = v] \in Entry
    BY <1>2 DEF Entry
  <1>4. u = [t EXCEPT ![a] = [t[a] EXCEPT !.value = v]]
    OBVIOUS
  <1>5. u \in [0 .. n - 1 -> Entry]
    BY <1>1, <1>3, <1>4
  <1>6. /\ \A s \in 0 .. n - 1 : s # a => u[s] = t[s]
        /\ u[a] = [t[a] EXCEPT !.value = v]
    BY <1>1, <1>4
  <1>7. u[a].value = v /\ u[a].key = t[a].key
    BY <1>2, <1>6 DEF Entry
  <1>8. \A s \in 0 .. n - 1 : u[s].key = t[s].key
    BY <1>6, <1>7
  <1>9. Occupied(u) = Occupied(t)
    BY <1>1, <1>5, <1>8 DEF Occupied
  <1>10. \A s \in Occupied(t) : s \in 0 .. n - 1 /\ t[s].key \in Keys
    BY <1>1 DEF Occupied, Entry
  <1>11. Distinct(u)
    BY <1>8, <1>9, <1>10 DEF Distinct, WellProbed
  <1>12. ASSUME NEW s \in Occupied(u) PROVE OnItsWay(u, n, s)
    <2>. DEFINE j == t[s].key
    <2>1. s \in Occupied(t) /\ j \in Keys /\ u[s].key = j
      BY <1>8, <1>9, <1>10
    <2>2. PICK w \in 0 .. n - 1 :
            /\ Place(n, j, w) = s
            /\ \A i \in 0 .. w - 1 : t[Place(n, j, i)].key # 0
      BY <2>1 DEF WellProbed
    <2>3. \A i \in 0 .. w - 1 : Place(n, j, i) \in 0 .. n - 1
      BY <1>1, <2>1, EarlierPlaces
    <2>4. \A i \in 0 .. w - 1 : u[Place(n, j, i)].key # 0
      BY <1>8, <2>2, <2>3
    <2> QED BY <2>1, <2>2, <2>4 DEF OnItsWay
  <1> QED BY <1>1, <1>5, <1>6, <1>7, <1>8, <1>9, <1>10, <1>11, <1>12, WellProbedParts
    DEF IsTable
-----------------------------------------------------------------------------
(* A table has as many occupied slots as keys.                             *)
LEMMA CountKeys ==
  ASSUME NEW n, NEW t, IsTable(t, n), Distinct(t)
  PROVE  /\ IsFiniteSet(Occupied(t)) /\ Cardinality(Occupied(t)) \in Nat
         /\ IsFiniteSet(KeysOf(t)) /\ Cardinality(KeysOf(t)) = Cardinality(Occupied(t))
  <1>1. n \in Nat \ {0} /\ t \in [0 .. n - 1 -> Entry] /\ DOMAIN t = 0 .. n - 1
    BY DEF IsTable
  <1>2. IsFiniteSet(0 .. n - 1)
    BY <1>1, FS_Interval
  <1>3. IsFiniteSet(Occupied(t)) /\ Cardinality(Occupied(t)) \in Nat
    BY <1>1, <1>2, FS_Subset, FS_CardinalityType DEF Occupied
  <1>. DEFINE f == [s \in Occupied(t) |-> t[s].key - 1]
  <1>4. \A s \in Occupied(t) : t[s].key \in Int
    BY <1>1, TableAssumption DEF Occupied, Entry, Keys
  <1>5. f \in [Occupied(t) -> KeysOf(t)]
    BY DEF KeysOf
  <1>6. \A a, b \in Occupied(t) : f[a] = f[b] => a = b
    BY <1>4 DEF Distinct
  <1>7. \A c \in KeysOf(t) : \E s \in Occupied(t) : f[s] = c
    BY DEF KeysOf
  <1>. HIDE DEF f
  <1>8. f \in Bijection(Occupied(t), KeysOf(t))
    BY <1>5, <1>6, <1>7 DEF Bijection, Injection, Surjection, IsInjective
  <1>9. ExistsBijection(Occupied(t), KeysOf(t))
    BY <1>8 DEF ExistsBijection
  <1> QED BY <1>3, <1>9, FS_Bijection

(* Where fewer slots are occupied than there are, one is not.              *)
LEMMA RoomLeft ==
  ASSUME NEW n, NEW t, IsTable(t, n), Cardinality(Occupied(t)) < n
  PROVE  \E s \in 0 .. n - 1 : t[s].key = 0
  <1>1. n \in Nat \ {0} /\ DOMAIN t = 0 .. n - 1
    BY DEF IsTable
  <1>2. SUFFICES ASSUME \A s \in 0 .. n - 1 : t[s].key # 0 PROVE FALSE
    OBVIOUS
  <1>3. Occupied(t) = 0 .. n - 1
    BY <1>1, <1>2 DEF Occupied
  <1>4. Cardinality(0 .. n - 1) = n
    BY <1>1, FS_Interval
  <1> QED BY <1>1, <1>3, <1>4

(* What a table says of a cell                                             *)
ValueIn(t, c) ==
  IF c \in KeysOf(t) THEN t[CHOOSE s \in DOMAIN t : t[s].key = c + 1].value ELSE 0

(* is the value in the slot of its key.                                    *)
LEMMA ValueInSlot ==
  ASSUME NEW n, NEW t, IsTable(t, n), Distinct(t), NEW s \in Occupied(t)
  PROVE  /\ t[s].key - 1 \in Cells
         /\ ValueIn(t, t[s].key - 1) = t[s].value
  <1>1. t \in [0 .. n - 1 -> Entry] /\ DOMAIN t = 0 .. n - 1 /\ t[s].key # 0
        /\ s \in DOMAIN t
    BY DEF IsTable, Occupied
  <1>2. t[s].key \in Keys /\ CellCount \in Nat
    BY <1>1, TableAssumption DEF Entry
  <1>. DEFINE c == t[s].key - 1
  <1>3. c + 1 = t[s].key /\ c \in Cells
    BY <1>2 DEF Keys, Cells
  <1>4. c \in KeysOf(t)
    BY DEF KeysOf
  <1>. DEFINE u == CHOOSE x \in DOMAIN t : t[x].key = c + 1
  <1>5. u \in DOMAIN t /\ t[u].key = t[s].key
    BY <1>1, <1>3
  <1>6. u = s
    BY <1>1, <1>5 DEF Distinct, Occupied
  <1> QED BY <1>3, <1>4, <1>6 DEF ValueIn
-----------------------------------------------------------------------------
(* The invariant.  Tabled: the table is typed, probed, counted, at most    *)
(* half full, and its size fits.                                           *)
Tabled ==
  /\ Mixing /\ capacity \in Nat /\ capacity >= 2
  /\ IsTable(entries, capacity) /\ WellProbed(entries, capacity)
  /\ used = Cardinality(Occupied(entries)) /\ 2 * used <= capacity
  /\ capacity * EntryBytes <= SizeMax
  /\ key \in Keys

(* While it grows, the new table holds the entries below index, and there  *)
(* was reason to grow: half of the slots are taken, the key is not there.  *)
Growing ==
  pc = "move" =>
    /\ IsTable(grown, 2 * capacity) /\ WellProbed(grown, 2 * capacity)
    /\ index \in 0 .. capacity
    /\ Content(grown) = {entries[s] : s \in {u \in Occupied(entries) : u < index}}
    /\ used >= capacity \div 2 /\ key - 1 \notin keys
    /\ 2 * capacity * EntryBytes <= SizeMax

(* The pointer that the search holds is to the slot of the key asked for.  *)
Holding == pc = "held" => at \in Occupied(entries) /\ entries[at].key = key

TInv == Tabled /\ Growing /\ Holding

(* The empty table is well probed.                                         *)
LEMMA EmptyTable ==
  ASSUME NEW n \in Nat \ {0}
  PROVE  /\ IsTable(Empty(n), n) /\ Occupied(Empty(n)) = {} /\ WellProbed(Empty(n), n)
         /\ Content(Empty(n)) = {} /\ KeysOf(Empty(n)) = {}
  <1>1. IsTable(Empty(n), n)
    BY DEF IsTable, Empty, Entry
  <1>2. Occupied(Empty(n)) = {}
    BY DEF Occupied, Empty
  <1> QED BY <1>1, <1>2 DEF WellProbed, Content, KeysOf

(* The invariant holds of the table that the search begins with.           *)
LEMMA InitTabled == Init => TInv
  <1>. SUFFICES ASSUME Init PROVE TInv
    OBVIOUS
  <1>1. InitialSlots \in Nat \ {0} /\ InitialSlots >= 2 /\ CellCount \in Nat \ {0}
        /\ InitialSlots * EntryBytes <= SizeMax
    BY TableAssumption
  <1>2. Mixing /\ key \in Keys
    BY <1>1, TableAssumption DEF Init, Mixing, Keys
  <1>3. /\ IsTable(entries, capacity) /\ WellProbed(entries, capacity)
        /\ Occupied(entries) = {}
    BY <1>1, EmptyTable DEF Init
  <1>4. Cardinality(Occupied(entries)) = 0
    BY <1>3, FS_EmptySet
  <1>5. Tabled
    BY <1>1, <1>2, <1>3, <1>4 DEF Init, Tabled
  <1> QED BY <1>5 DEF TInv, Init, Growing, Holding

(* The keys of the table are those of the map.                             *)
LEMMA KeysAreKeys == keys = KeysOf(entries)
  BY DEF keys, KeysOf

(* What the table's counter means, and that there is a hole.               *)
LEMMA TableFacts ==
  ASSUME TInv
  PROVE  /\ Mixing /\ capacity \in Nat \ {0} /\ capacity >= 2 /\ key \in Keys
         /\ IsTable(entries, capacity) /\ WellProbed(entries, capacity)
         /\ Distinct(entries) /\ DOMAIN entries = 0 .. capacity - 1
         /\ IsFiniteSet(Occupied(entries)) /\ used = Cardinality(Occupied(entries))
         /\ IsFiniteSet(keys) /\ used = Cardinality(keys) /\ used \in Nat
         /\ 2 * used <= capacity
         /\ \A k \in Keys : \A ks : 0 \in ks => Stops(entries, capacity, k, ks) # {}
  <1>1. /\ Mixing /\ capacity \in Nat \ {0} /\ capacity >= 2 /\ key \in Keys
        /\ IsTable(entries, capacity) /\ WellProbed(entries, capacity)
        /\ used = Cardinality(Occupied(entries)) /\ 2 * used <= capacity
    BY DEF TInv, Tabled
  <1>2. Distinct(entries) /\ DOMAIN entries = 0 .. capacity - 1
    BY <1>1, WellProbedParts DEF IsTable
  <1>3. /\ IsFiniteSet(Occupied(entries)) /\ used \in Nat
        /\ IsFiniteSet(keys) /\ used = Cardinality(keys)
    BY <1>1, <1>2, CountKeys, KeysAreKeys
  <1>4. PICK s \in 0 .. capacity - 1 : entries[s].key = 0
    <2>1. Cardinality(Occupied(entries)) < capacity
      BY <1>1, <1>3
    <2> QED BY <1>1, <2>1, RoomLeft
  <1>5. \A k \in Keys : \A ks : 0 \in ks => Stops(entries, capacity, k, ks) # {}
    BY <1>1, <1>4, HoleStops
  <1> QED BY <1>1, <1>2, <1>3, <1>5
-----------------------------------------------------------------------------
(* The new table while it is filled: it has a hole for every key.          *)
LEMMA GrownFacts ==
  ASSUME TInv, pc = "move"
  PROVE  /\ 2 * capacity \in Nat \ {0} /\ IsTable(grown, 2 * capacity)
         /\ WellProbed(grown, 2 * capacity) /\ Distinct(grown)
         /\ IsFiniteSet(Occupied(grown)) /\ Cardinality(Occupied(grown)) \in Nat
         /\ Cardinality(Occupied(grown)) <= used
         /\ KeysOf(grown) \subseteq keys
         /\ \A k \in Keys : Stops(grown, 2 * capacity, k, {0}) # {}
  <1>1. /\ IsTable(grown, 2 * capacity) /\ WellProbed(grown, 2 * capacity)
        /\ Content(grown) = {entries[s] : s \in {u \in Occupied(entries) : u < index}}
    BY DEF TInv, Growing
  <1>2. Distinct(grown)
    BY <1>1, WellProbedParts
  <1>3. 2 * capacity \in Nat \ {0} /\ capacity < 2 * capacity
    BY TableFacts
  <1>4. ASSUME NEW s \in Occupied(grown) PROVE grown[s].key - 1 \in keys
    <2>1. grown[s] \in Content(grown)
      BY DEF Content
    <2>2. PICK u \in Occupied(entries) : grown[s] = entries[u]
      BY <1>1, <2>1
    <2> QED BY <2>2 DEF keys
  <1>5. KeysOf(grown) \subseteq keys
    BY <1>4 DEF KeysOf
  <1>6. /\ IsFiniteSet(Occupied(grown)) /\ Cardinality(Occupied(grown)) \in Nat
        /\ Cardinality(KeysOf(grown)) = Cardinality(Occupied(grown))
    BY <1>1, <1>2, CountKeys
  <1>7. IsFiniteSet(keys) /\ used = Cardinality(keys) /\ used \in Nat /\ 2 * used <= capacity
        /\ capacity \in Nat /\ Mixing
    BY TableFacts
  <1>8. Cardinality(Occupied(grown)) <= used
    BY <1>5, <1>6, <1>7, FS_Subset
  <1>9. Cardinality(Occupied(grown)) < 2 * capacity
    BY <1>3, <1>6, <1>7, <1>8
  <1>10. PICK s \in 0 .. 2 * capacity - 1 : grown[s].key = 0
    BY <1>1, <1>9, RoomLeft
  <1>11. \A k \in Keys : Stops(grown, 2 * capacity, k, {0}) # {}
    BY <1>1, <1>7, <1>10, HoleStops
  <1> QED BY <1>1, <1>2, <1>3, <1>5, <1>6, <1>8, <1>11

(* No probe loop goes round its table.                                     *)
LEMMA AlwaysPlace ==
  ASSUME TInv
  PROVE  ~Exhausted /\ ~NoPlace
  <1>1. ~Exhausted
    BY TableFacts DEF Exhausted
  <1>2. ASSUME pc = "move", index < capacity, entries[index].key # 0
        PROVE  HasHole(entries[index].key)
    <2>1. index \in 0 .. capacity - 1 /\ entries \in [0 .. capacity - 1 -> Entry]
      BY <1>2, TableFacts DEF TInv, Growing, IsTable
    <2>2. entries[index].key \in Keys
      BY <1>2, <2>1 DEF Entry
    <2> QED BY <1>2, <2>2, GrownFacts DEF HasHole
  <1>3. pc = "move" => HasHole(key)
    BY GrownFacts, TableFacts DEF HasHole
  <1> QED BY <1>1, <1>2, <1>3 DEF NoPlace

(* Where the probe for the key asked for ends.                             *)
LEMMA ProbeFacts ==
  ASSUME TInv
  PROVE  /\ Probe \in 0 .. capacity - 1 /\ entries[Probe].key \in {0, key}
         /\ entries[Probe].key = 0 <=> key - 1 \notin keys
  <1>1. Stops(entries, capacity, key, {0, key}) # {}
    BY TableFacts
  <1>2. Probe \in 0 .. capacity - 1 /\ entries[Probe].key \in {0, key}
    <2>1. PICK o \in 0 .. capacity - 1 :
            /\ Probe = Place(capacity, key, o)
            /\ entries[Place(capacity, key, o)].key \in {0, key}
      BY <1>1, TableFacts, FirstStopFacts DEF Probe
    <2> QED BY <2>1, TableFacts, PlaceIsSlot
  <1>3. key \in Int /\ key # 0
    BY TableFacts, TableAssumption DEF Keys
  <1>4. ASSUME entries[Probe].key # 0 PROVE key - 1 \in keys
    <2>1. Probe \in Occupied(entries) /\ entries[Probe].key = key
      BY <1>2, <1>4, TableFacts DEF Occupied
    <2> QED BY <2>1 DEF keys
  <1>5. ASSUME key - 1 \in keys PROVE entries[Probe].key # 0
    <2>1. PICK s \in Occupied(entries) : entries[s].key - 1 = key - 1
      BY <1>5 DEF keys
    <2>2. s \in 0 .. capacity - 1 /\ entries[s].key \in Keys
      BY TableFacts DEF IsTable, Occupied, Entry
    <2>3. entries[s].key = key
      <3>1. entries[s].key \in Int
        BY <2>2, TableAssumption DEF Keys
      <3> QED BY <1>3, <2>1, <3>1
    <2>4. Probe = s
      BY <2>2, <2>3, TableFacts, FoundWhereItIs DEF Probe
    <2> QED BY <1>3, <2>3, <2>4
  <1> QED BY <1>2, <1>4, <1>5
-----------------------------------------------------------------------------
(* The map that the table stands for, and its steps.                       *)
Told == [c \in Cells |-> ValueOf(c)]

MapStep == [M!Next]_<<keys, capacity, Told, Given>>

(* The map counts as the table does.                                       *)
LEMMA SameCount == \A S : M!Cardinality(S) = Cardinality(S)
  BY DEF Cardinality, M!Cardinality

(* A cell's value is what the table says of it.                            *)
LEMMA ValueOfIsValueIn == \A c : ValueOf(c) = ValueIn(entries, c)
  BY KeysAreKeys DEF ValueOf, ValueIn

(* The steps that leave the table alone leave the map alone, but for the   *)
(* pointer.                                                                *)
LEMMA SameTable ==
  ASSUME TInv, UNCHANGED <<mix, entries, capacity, used>>, key' \in Keys
  PROVE  /\ Tabled' /\ keys' = keys /\ Told' = Told
         /\ Given' = Given => MapStep
  <1>1. Tabled'
    BY DEF TInv, Tabled, Mixing, IsTable, Entry, WellProbed, Place, Occupied
  <1>2. keys' = keys
    BY DEF keys, Occupied
  <1>3. Told' = Told
    BY <1>2 DEF Told, ValueOf
  <1> QED BY <1>1, <1>2, <1>3 DEF MapStep

(* Where a pointer is held, it is one the map has given.                   *)
LEMMA HeldIsGiven ==
  ASSUME TInv, pc = "held"
  PROVE  Given = key - 1 /\ key - 1 \in keys /\ key - 1 \in Cells
  <1>1. at \in Occupied(entries) /\ entries[at].key = key
    BY DEF TInv, Holding
  <1>2. key - 1 \in Cells
    BY TableFacts, TableAssumption DEF Keys, Cells
  <1> QED BY <1>1, <1>2 DEF Given, keys

(* Asking and giving up.                                                   *)
LEMMA IdleSteps ==
  ASSUME TInv, (\E c \in Cells : Ask(c)) \/ Limit \/ NoMem
  PROVE  TInv' /\ MapStep
  <1>1. /\ UNCHANGED <<mix, entries, capacity, used>> /\ key' \in Keys
        /\ pc \in {"idle", "find", "move"} /\ pc' \in {"find", "refused"}
    BY TableFacts, TableAssumption
       DEF Ask, Limit, NoPlace, MustGrow, NoMem, Refuse, Cells, Keys
  <1>2. Growing' /\ Holding'
    BY <1>1 DEF Growing, Holding
  <1>3. Given' = Given
    BY <1>1 DEF Given
  <1> QED BY <1>1, <1>2, <1>3, SameTable DEF TInv

(* Reading through the pointer                                             *)
LEMMA ReadStep ==
  ASSUME TInv, Read
  PROVE  TInv' /\ MapStep
  <1>1. /\ UNCHANGED <<mix, entries, capacity, used, key>> /\ key' \in Keys
        /\ pc = "held" /\ pc' = "idle"
    BY TableFacts DEF Read
  <1>2. Tabled' /\ keys' = keys /\ Told' = Told
    BY <1>1, SameTable
  <1>3. Growing' /\ Holding' /\ Given' = -1
    BY <1>1 DEF Growing, Holding, Given
  <1>4. Given = key - 1 /\ key - 1 \in keys /\ key - 1 \in Cells
    BY <1>1, HeldIsGiven
  <1>5. M!Use(key - 1)
    <2>1. Told' = [Told EXCEPT ![key - 1] = Told'[key - 1]]
      BY <1>2 DEF Told
    <2>2. UNCHANGED <<keys, capacity>>
      BY <1>1, <1>2
    <2> QED BY <1>3, <1>4, <2>1, <2>2, Zenon DEF M!Use, M!Nowhere, Told, Given
  <1> QED BY <1>2, <1>3, <1>4, <1>5 DEF TInv, MapStep, M!Next

(* Finding the key where it is                                             *)
LEMMA HitStep ==
  ASSUME TInv, Hit
  PROVE  TInv' /\ MapStep
  <1>1. /\ UNCHANGED <<mix, entries, capacity, used, key>> /\ pc' = "held"
        /\ at' = Probe /\ entries[Probe].key = key
    BY DEF Hit
  <1>2. at' \in Occupied(entries) /\ key \in Keys
    BY <1>1, ProbeFacts, TableFacts DEF Occupied, Keys
  <1>3. Holding'
    BY <1>1, <1>2 DEF Holding, Occupied
  <1>4. Growing'
    BY <1>1 DEF Growing
  <1>5. Tabled' /\ keys' = keys /\ Told' = Told
    BY <1>1, <1>2, SameTable
  <1>6. Given = -1 /\ Given' = key - 1
    BY <1>1 DEF Hit, Given
  <1>7. key - 1 \in keys /\ key - 1 \in Cells
    BY <1>1, <1>2, TableAssumption DEF keys, Keys, Cells
  <1>8. M!Find(key - 1)
    <2>1. UNCHANGED <<keys, capacity, Told>>
      BY <1>1, <1>5
    <2> QED BY <1>6, <1>7, <2>1, Zenon DEF M!Find, M!Nowhere, Told, Given
  <1> QED BY <1>3, <1>4, <1>5, <1>7, <1>8 DEF TInv, MapStep, M!Next

(* Beginning to grow                                                       *)
LEMMA GrowStep ==
  ASSUME TInv, Grow
  PROVE  TInv' /\ MapStep
  <1>1. /\ UNCHANGED <<mix, entries, capacity, used, key>> /\ pc' = "move"
        /\ grown' = Empty(2 * capacity) /\ index' = 0
        /\ Absent /\ HalfFull /\ CanDouble
    BY DEF Grow, MustGrow
  <1>2. Tabled' /\ keys' = keys /\ MapStep
    <2>1. Given' = Given
      BY <1>1 DEF Grow, MustGrow, Given
    <2> QED BY <1>1, <2>1, TableFacts, SameTable
  <1>3. 2 * capacity \in Nat \ {0} /\ capacity \in Nat
    BY TableFacts
  <1>4. /\ IsTable(grown', 2 * capacity) /\ Occupied(grown') = {} /\ Content(grown') = {}
    BY <1>1, <1>3, EmptyTable
  <1>5. WellProbed(grown, 2 * capacity)'
    BY <1>1, <1>4 DEF WellProbed, Occupied
  <1>6. {entries[s] : s \in {u \in Occupied(entries) : u < 0}} = {}
    BY <1>3, TableFacts DEF Occupied
  <1>7. key - 1 \notin keys
    BY <1>1, ProbeFacts DEF Absent
  <1>8. 2 * capacity * EntryBytes <= SizeMax
    <2>. DEFINE q == SizeMax \div EntryBytes
    <2>1. SizeMax \in Nat /\ EntryBytes \in Nat \ {0} /\ q \in Nat
      BY TableAssumption
    <2>2. capacity <= q \div 2
      BY <1>1 DEF CanDouble
    <2>. HIDE DEF q
    <2>3. 2 * capacity <= q
      BY <1>3, <2>1, <2>2
    <2>. USE DEF q
    <2> QED BY <1>3, <2>1, <2>3, QuotientFits
  <1>9. Growing'
    <2>1. IsTable(grown, 2 * capacity)'
      BY <1>1, <1>4 DEF IsTable, Entry
    <2>2. Content(grown)' = {entries[s] : s \in {u \in Occupied(entries) : u < index}}'
      BY <1>1, <1>4, <1>6 DEF Content, Occupied
    <2>3. (index \in 0 .. capacity /\ used >= capacity \div 2)'
      BY <1>1, <1>3 DEF HalfFull
    <2> QED BY <1>1, <1>2, <1>5, <1>7, <1>8, <2>1, <2>2, <2>3 DEF Growing
  <1>10. Holding'
    BY <1>1 DEF Holding
  <1> QED BY <1>2, <1>9, <1>10 DEF TInv

(* Copying an old slot                                                     *)
LEMMA MoveStep ==
  ASSUME TInv, Move
  PROVE  TInv' /\ MapStep
  <1>. DEFINE e == entries[index]
              Below(i) == {entries[s] : s \in {u \in Occupied(entries) : u < i}}
  <1>1. /\ UNCHANGED <<mix, entries, capacity, used, key, at, pc>>
        /\ pc = "move" /\ index < capacity /\ index' = index + 1
        /\ e.key = 0 => grown' = grown
        /\ e.key # 0 => grown' = [grown EXCEPT ![Hole(e.key)] = e]
    BY DEF Move
  <1>2. Tabled' /\ keys' = keys /\ MapStep
    <2>1. Given' = Given
      BY <1>1 DEF Given
    <2> QED BY <1>1, <2>1, TableFacts, SameTable
  <1>3. /\ IsTable(grown, 2 * capacity) /\ WellProbed(grown, 2 * capacity)
        /\ Content(grown) = Below(index) /\ index \in 0 .. capacity
        /\ used >= capacity \div 2 /\ key - 1 \notin keys
        /\ 2 * capacity * EntryBytes <= SizeMax
    BY <1>1 DEF TInv, Growing
  <1>4. capacity \in Nat /\ index \in 0 .. capacity - 1 /\ index + 1 \in 0 .. capacity
        /\ DOMAIN entries = 0 .. capacity - 1 /\ e \in Entry
    <2>1. capacity \in Nat /\ DOMAIN entries = 0 .. capacity - 1
          /\ entries \in [0 .. capacity - 1 -> Entry]
      BY TableFacts DEF IsTable
    <2>2. index \in 0 .. capacity - 1 /\ index + 1 \in 0 .. capacity
      BY <1>1, <1>3, <2>1
    <2> QED BY <2>1, <2>2
  <1>5. /\ IsTable(grown', 2 * capacity) /\ WellProbed(grown', 2 * capacity)
        /\ Content(grown') = Below(index + 1)
    <2>1. \A u \in Occupied(entries) : u < index + 1 <=> u < index \/ u = index
      BY <1>4 DEF Occupied
    <2>2. CASE e.key = 0
      <3>1. index \notin Occupied(entries)
        BY <2>2 DEF Occupied
      <3>2. Below(index + 1) = Below(index)
        BY <2>1, <3>1
      <3> QED BY <1>1, <1>3, <2>2, <3>2
    <2>3. CASE e.key # 0
      <3>1. index \in Occupied(entries)
        BY <1>4, <2>3 DEF Occupied
      <3>2. Below(index + 1) = Below(index) \cup {e}
        BY <2>1, <3>1
      <3>3. e.key \in Keys
        BY <1>4, <2>3 DEF Entry
      <3>4. ASSUME NEW s \in Occupied(grown) PROVE grown[s].key # e.key
        <4>1. grown[s] \in Below(index)
          BY <1>3 DEF Content
        <4>2. PICK u \in Occupied(entries) : u < index /\ grown[s] = entries[u]
          BY <4>1
        <4>3. u # index
          BY <1>4, <4>2
        <4> QED BY <3>1, <4>2, <4>3, TableFacts DEF Distinct
      <3>5. Stops(grown, 2 * capacity, e.key, {0}) # {}
        BY <1>1, <3>3, GrownFacts
      <3>6. grown' = [grown EXCEPT ![Hole(e.key)] = e]
            /\ Hole(e.key) = FirstStop(grown, 2 * capacity, e.key, {0})
        BY <1>1, <2>3 DEF Hole
      <3>. DEFINE h == Hole(e.key)
                  n == 2 * capacity
                  u == grown'
                  k == e
      <3>7. Puts(grown, n, k, {0}, h, u)
        BY <1>3, <1>4, <2>3, <3>4, <3>5, <3>6 DEF Puts
      <3>. HIDE DEF h, n, u, k
      <3>8. /\ u[h] = k /\ IsTable(u, n) /\ WellProbed(u, n)
            /\ h \notin Occupied(grown) /\ Occupied(u) = Occupied(grown) \cup {h}
            /\ \A s \in Occupied(grown) : u[s] = grown[s]
        BY <3>7, TableFacts, PutKeeps
      <3>9. Content(u) = Content(grown) \cup {k}
        BY <3>8 DEF Content
      <3> QED BY <1>3, <3>2, <3>8, <3>9 DEF n, u, k
    <2> QED BY <2>2, <2>3
  <1>6. Growing'
    <2>1. IsTable(grown, 2 * capacity)'
      BY <1>1, <1>5 DEF IsTable, Entry
    <2>2. WellProbed(grown, 2 * capacity)'
      BY <1>1, <1>5 DEF WellProbed, Occupied, Place
    <2>3. (Content(grown) = Below(index))'
      BY <1>1, <1>5 DEF Content, Occupied
    <2> QED BY <1>1, <1>2, <1>3, <1>4, <2>1, <2>2, <2>3 DEF Growing
  <1>7. Holding'
    BY <1>1 DEF Holding
  <1> QED BY <1>2, <1>6, <1>7 DEF TInv
-----------------------------------------------------------------------------
(* The keys of a table are those of its content.                           *)
LEMMA KeysOfContent == \A t : KeysOf(t) = {e.key - 1 : e \in Content(t)}
  BY DEF KeysOf, Content

(* Tables with the same entries say the same of every cell,                *)
LEMMA SameContent ==
  ASSUME NEW t, NEW n, IsTable(t, n), Distinct(t),
         NEW u, NEW m, IsTable(u, m), Distinct(u),
         NEW c \in KeysOf(t), NEW e \in Content(t), e \in Content(u), e.key - 1 = c
  PROVE  ValueIn(t, c) = e.value /\ ValueIn(u, c) = e.value
  <1>1. PICK s \in Occupied(t) : e = t[s]
    BY DEF Content
  <1>2. PICK r \in Occupied(u) : e = u[r]
    BY DEF Content
  <1>3. t[s].key - 1 = c /\ t[s].value = e.value
        /\ u[r].key - 1 = c /\ u[r].value = e.value
    BY <1>1, <1>2
  <1>4. ValueIn(t, t[s].key - 1) = t[s].value
    BY ValueInSlot
  <1>5. ValueIn(u, u[r].key - 1) = u[r].value
    BY ValueInSlot
  <1> QED BY <1>3, <1>4, <1>5

(* and a table that has one new key, with no value yet, says the same as   *)
(* the one without it.                                                     *)
LEMMA NewKey ==
  ASSUME NEW t, NEW n, IsTable(t, n), Distinct(t),
         NEW u, NEW m, IsTable(u, m), Distinct(u),
         NEW k \in Keys, k - 1 \notin KeysOf(t),
         Content(u) = Content(t) \cup {[key |-> k, value |-> 0]}
  PROVE  /\ KeysOf(u) = KeysOf(t) \cup {k - 1}
         /\ \A c \in Cells : ValueIn(u, c) = ValueIn(t, c)
  <1>. DEFINE new == [key |-> k, value |-> 0]
  <1>1. KeysOf(u) = KeysOf(t) \cup {k - 1}
    <2>1. {e.key - 1 : e \in Content(u)} = {e.key - 1 : e \in Content(t)} \cup {new.key - 1}
      OBVIOUS
    <2> QED BY <2>1, KeysOfContent
  <1>2. ASSUME NEW c \in Cells PROVE ValueIn(u, c) = ValueIn(t, c)
    <2>1. CASE c \in KeysOf(t)
      <3>1. PICK e \in Content(t) : e.key - 1 = c
        BY <2>1, KeysOfContent
      <3> QED BY <2>1, <3>1, SameContent
    <2>2. CASE c = k - 1
      <3>1. PICK s \in Occupied(u) : u[s] = new
        BY DEF Content
      <3>2. ValueIn(u, c) = 0
        BY <2>2, <3>1, ValueInSlot
      <3> QED BY <2>2, <3>2 DEF ValueIn
    <2>3. CASE c \notin KeysOf(u)
      BY <1>1, <2>3 DEF ValueIn
    <2> QED BY <1>1, <2>1, <2>2, <2>3
  <1> QED BY <1>1, <1>2

(* Inserting where there is room: the map gets the key.                    *)
LEMMA InsertStep ==
  ASSUME TInv, Insert
  PROVE  TInv' /\ MapStep
  <1>1. /\ pc' = "held" /\ at' = Probe /\ used' = used + 1
        /\ entries' = [entries EXCEPT ![Probe] = NewEntry]
        /\ UNCHANGED <<mix, capacity, key>>
        /\ entries[Probe].key = 0 /\ ~(used >= capacity \div 2)
    BY DEF Insert, Absent, HalfFull
  <1>2. key - 1 \notin keys /\ key \in Keys /\ key # 0
    BY <1>1, ProbeFacts, TableFacts DEF Keys
  <1>3. NewEntry \in Entry /\ NewEntry.key = key
    BY <1>2 DEF NewEntry, Entry
  <1>4. \A s \in Occupied(entries) : entries[s].key # key
    BY <1>2 DEF keys
  <1>5. Puts(entries, capacity, NewEntry, {0, key}, Probe, entries')
    BY <1>1, <1>2, <1>3, <1>4, TableFacts DEF Puts, Probe
  <1>6. /\ Probe \in 0 .. capacity - 1 /\ entries'[Probe] = NewEntry
        /\ IsTable(entries', capacity) /\ WellProbed(entries', capacity)
        /\ Probe \notin Occupied(entries)
        /\ Occupied(entries') = Occupied(entries) \cup {Probe}
        /\ \A s \in Occupied(entries) : entries'[s] = entries[s]
    BY <1>5, TableFacts, PutKeeps
  <1>7. Cardinality(Occupied(entries')) = used + 1
    <2>1. Cardinality(Occupied(entries) \cup {Probe}) = Cardinality(Occupied(entries)) + 1
      BY <1>6, TableFacts, FS_AddElement
    <2> QED BY <1>6, <2>1, TableFacts
  <1>8. Tabled'
    <2>1. IsTable(entries, capacity)' /\ WellProbed(entries, capacity)'
      BY <1>1, <1>6 DEF IsTable, Entry, WellProbed, Place, Occupied
    <2>2. Cardinality(Occupied(entries))' = used'
      BY <1>1, <1>7 DEF Occupied
    <2>3. capacity * EntryBytes <= SizeMax
      BY DEF TInv, Tabled
    <2>4. 2 * used' <= capacity /\ Mixing' /\ capacity' \in Nat /\ capacity' >= 2
      BY <1>1, TableFacts DEF Mixing
    <2> QED BY <1>1, <1>2, <2>1, <2>2, <2>3, <2>4 DEF Tabled
  <1>9. Growing' /\ Holding'
    <2>1. Probe \in Occupied(entries')
      BY <1>6
    <2> QED BY <1>1, <1>3, <1>6, <2>1 DEF Growing, Holding, Occupied
  <1>10. Content(entries') = Content(entries) \cup {[key |-> key, value |-> 0]}
    BY <1>6 DEF Content, NewEntry
  <1>11. /\ KeysOf(entries') = KeysOf(entries) \cup {key - 1}
         /\ \A c \in Cells : ValueIn(entries', c) = ValueIn(entries, c)
    <2>. DEFINE u == entries'
    <2>1. IsTable(u, capacity) /\ Distinct(u) /\ Distinct(entries)
          /\ IsTable(entries, capacity)
      BY <1>6, TableFacts, WellProbedParts
    <2>2. key - 1 \notin KeysOf(entries)
      BY <1>2, KeysAreKeys
    <2>3. Content(u) = Content(entries) \cup {[key |-> key, value |-> 0]}
      BY <1>10
    <2>. HIDE DEF u
    <2>4. /\ KeysOf(u) = KeysOf(entries) \cup {key - 1}
          /\ \A c \in Cells : ValueIn(u, c) = ValueIn(entries, c)
      BY <1>2, <2>1, <2>2, <2>3, NewKey
    <2> QED BY <2>4 DEF u
  <1>12. keys' = keys \cup {key - 1} /\ Told' = Told
    <2>1. keys' = KeysOf(entries')
      BY DEF keys, KeysOf, Occupied
    <2>2. \A c : ValueOf(c)' = ValueIn(entries', c)
      BY <2>1 DEF ValueOf, ValueIn
    <2> QED BY <1>11, <2>1, <2>2, KeysAreKeys, ValueOfIsValueIn DEF Told
  <1>13. M!Insert(key - 1)
    <2>1. UNCHANGED [c \in Cells |-> ValueOf(c)]
      BY <1>12 DEF Told
    <2>2. ~(Cardinality(keys) >= capacity \div 2) /\ capacity' = capacity
      BY <1>1, TableFacts
    <2>3. capacity' = IF Cardinality(keys) >= capacity \div 2 THEN 2 * capacity ELSE capacity
      BY <2>2, Zenon
    <2>4. Given = -1 /\ Given' = key - 1
      BY <1>1, <1>9 DEF Insert, Given, Holding
    <2> QED BY <1>2, <1>12, <2>1, <2>3, <2>4, SameCount, Zenon
            DEF M!Insert, M!Nowhere, Given
  <1>14. key - 1 \in Cells
    BY <1>2, TableAssumption DEF Keys, Cells
  <1> QED BY <1>8, <1>9, <1>13, <1>14 DEF TInv, MapStep, M!Next

(* Inserting in the new table: the map gets the key and twice the slots.   *)
LEMMA SwapStep ==
  ASSUME TInv, Swap
  PROVE  TInv' /\ MapStep
  <1>. DEFINE n == 2 * capacity
              h == Hole(key)
              u == entries'
  <1>1. /\ pc = "move" /\ pc' = "held" /\ at' = h /\ used' = used + 1
        /\ index = capacity /\ u = [grown EXCEPT ![h] = NewEntry]
        /\ capacity' = n /\ UNCHANGED <<mix, key>>
    BY DEF Swap
  <1>2. /\ IsTable(grown, n) /\ WellProbed(grown, n) /\ Distinct(grown)
        /\ n \in Nat \ {0} /\ key \in Keys /\ key # 0
        /\ Stops(grown, n, key, {0}) # {} /\ h = FirstStop(grown, n, key, {0})
    BY <1>1, GrownFacts, TableFacts DEF Hole, Keys
  <1>3. /\ Content(grown) = {entries[s] : s \in {r \in Occupied(entries) : r < index}}
        /\ used >= capacity \div 2 /\ key - 1 \notin keys /\ n * EntryBytes <= SizeMax
    BY <1>1 DEF TInv, Growing
  <1>. HIDE DEF n, h, u
  <1>4. Content(grown) = Content(entries)
    <2>1. \A r \in Occupied(entries) : r < index
      BY <1>1, TableFacts DEF Occupied
    <2> QED BY <1>3, <2>1 DEF Content
  <1>5. KeysOf(grown) = keys /\ KeysOf(grown) = KeysOf(entries)
    BY <1>4, KeysOfContent, KeysAreKeys
  <1>6. IsFiniteSet(Occupied(grown)) /\ Cardinality(Occupied(grown)) = used
    BY <1>2, <1>5, CountKeys, TableFacts
  <1>7. NewEntry \in Entry /\ NewEntry.key = key
    BY <1>2 DEF NewEntry, Entry
  <1>8. \A s \in Occupied(grown) : grown[s].key # key
    <2>1. key - 1 \notin KeysOf(grown)
      BY <1>3, <1>5
    <2> QED BY <2>1 DEF KeysOf
  <1>9. Puts(grown, n, NewEntry, {0}, h, u)
    BY <1>1, <1>2, <1>7, <1>8 DEF Puts
  <1>10. /\ h \in 0 .. n - 1 /\ u[h] = NewEntry
         /\ IsTable(u, n) /\ WellProbed(u, n)
         /\ h \notin Occupied(grown) /\ Occupied(u) = Occupied(grown) \cup {h}
         /\ \A s \in Occupied(grown) : u[s] = grown[s]
    BY <1>9, TableFacts, PutKeeps
  <1>11. Cardinality(Occupied(u)) = used + 1
    <2>1. Cardinality(Occupied(grown) \cup {h}) = Cardinality(Occupied(grown)) + 1
      BY <1>6, <1>10, FS_AddElement
    <2> QED BY <1>6, <1>10, <2>1
  <1>12. Tabled'
    <2>1. IsTable(entries, capacity)' /\ WellProbed(entries, capacity)'
      BY <1>1, <1>10 DEF u, IsTable, Entry, WellProbed, Place, Occupied
    <2>2. Cardinality(Occupied(entries))' = used'
      BY <1>1, <1>11 DEF u, Occupied
    <2>3. capacity' * EntryBytes <= SizeMax
      BY <1>1, <1>3
    <2>4. 2 * used' <= capacity' /\ Mixing' /\ capacity' \in Nat /\ capacity' >= 2
      BY <1>1, TableFacts DEF Mixing, n
    <2> QED BY <1>1, <1>2, <2>1, <2>2, <2>3, <2>4 DEF Tabled
  <1>13. Growing' /\ Holding'
    <2>1. h \in Occupied(u)
      BY <1>10
    <2> QED BY <1>1, <1>7, <1>10, <2>1 DEF Growing, Holding, Occupied, u
  <1>14. Content(u) = Content(grown) \cup {[key |-> key, value |-> 0]}
    BY <1>10 DEF Content, NewEntry
  <1>15. /\ KeysOf(u) = KeysOf(entries) \cup {key - 1}
         /\ \A c \in Cells : ValueIn(u, c) = ValueIn(entries, c)
    <2>1. /\ IsTable(u, n) /\ Distinct(u) /\ Distinct(entries)
          /\ IsTable(entries, capacity)
      BY <1>10, TableFacts, WellProbedParts
    <2>2. key - 1 \notin KeysOf(entries)
      BY <1>3, KeysAreKeys
    <2>3. Content(u) = Content(entries) \cup {[key |-> key, value |-> 0]}
      BY <1>4, <1>14
    <2> QED BY <1>2, <2>1, <2>2, <2>3, NewKey
  <1>16. keys' = keys \cup {key - 1} /\ Told' = Told
    <2>1. keys' = KeysOf(u)
      BY DEF keys, KeysOf, Occupied, u
    <2>2. \A c : ValueOf(c)' = ValueIn(u, c)
      BY <2>1 DEF ValueOf, ValueIn, u
    <2> QED BY <1>15, <2>1, <2>2, KeysAreKeys, ValueOfIsValueIn DEF Told
  <1>17. M!Insert(key - 1)
    <2>1. UNCHANGED [c \in Cells |-> ValueOf(c)]
      BY <1>16 DEF Told
    <2>2. Cardinality(keys) >= capacity \div 2 /\ capacity' = 2 * capacity
      BY <1>1, <1>3, TableFacts DEF n
    <2>3. capacity' = IF Cardinality(keys) >= capacity \div 2 THEN 2 * capacity ELSE capacity
      BY <2>2, Zenon
    <2>4. Given = -1 /\ Given' = key - 1
      BY <1>1, <1>13 DEF Given, Holding
    <2> QED BY <1>3, <1>16, <2>1, <2>3, <2>4, SameCount, Zenon
            DEF M!Insert, M!Nowhere, Given
  <1>18. key - 1 \in Cells
    BY <1>2, TableAssumption DEF Keys, Cells
  <1> QED BY <1>12, <1>13, <1>17, <1>18 DEF TInv, MapStep, M!Next

(* Storing through the pointer: the value of one cell changes, that of the *)
(* key asked for.                                                          *)
LEMMA StoreStep ==
  ASSUME TInv, NEW v \in Values, Store(v)
  PROVE  TInv' /\ MapStep
  <1>. DEFINE u == entries'
  <1>1. /\ pc = "held" /\ pc' = "idle" /\ u = [entries EXCEPT ![at].value = v]
        /\ UNCHANGED <<mix, capacity, used, key>>
    BY DEF Store
  <1>2. at \in Occupied(entries) /\ entries[at].key = key
    BY <1>1 DEF TInv, Holding
  <1>3. v \in Int
    BY TableAssumption
  <1>. HIDE DEF u
  <1>4. /\ IsTable(u, capacity) /\ WellProbed(u, capacity)
        /\ Occupied(u) = Occupied(entries)
        /\ \A s \in Occupied(entries) :
             u[s].key = entries[s].key /\ (s # at => u[s] = entries[s])
    <2>1. Stores(entries, capacity, at, v, u)
      BY <1>1, <1>2, <1>3, TableFacts DEF Stores
    <2> QED BY <2>1, TableFacts, StoreKeeps
  <1>5. Tabled'
    <2>1. IsTable(entries, capacity)' /\ WellProbed(entries, capacity)'
      BY <1>1, <1>4 DEF u, IsTable, Entry, WellProbed, Place, Occupied
    <2>2. Occupied(entries)' = Occupied(entries)
      BY <1>4 DEF u, Occupied
    <2> QED BY <1>1, <2>1, <2>2 DEF TInv, Tabled, Mixing
  <1>6. Growing' /\ Holding'
    BY <1>1 DEF Growing, Holding
  <1>7. KeysOf(u) = KeysOf(entries)
    BY <1>4 DEF KeysOf
  <1>8. ASSUME NEW c \in Cells, c # key - 1
        PROVE  ValueIn(u, c) = ValueIn(entries, c)
    <2>1. CASE c \in KeysOf(entries)
      <3>1. PICK s \in Occupied(entries) : entries[s].key - 1 = c
        BY <2>1 DEF KeysOf
      <3>2. s # at
        BY <1>2, <1>8, <3>1
      <3>3. u[s] = entries[s] /\ s \in Occupied(u) /\ Distinct(u) /\ Distinct(entries)
        BY <1>4, <3>2, WellProbedParts, TableFacts
      <3> QED BY <1>4, <3>1, <3>3, ValueInSlot, TableFacts
    <2>2. CASE c \notin KeysOf(entries)
      BY <1>7, <2>2 DEF ValueIn
    <2> QED BY <2>1, <2>2
  <1>9. keys' = keys /\ key - 1 \in keys /\ key - 1 \in Cells
    <2>1. keys' = KeysOf(u)
      BY DEF keys, KeysOf, Occupied, u
    <2>2. key - 1 \in Cells
      BY TableFacts, TableAssumption DEF Keys, Cells
    <2> QED BY <1>2, <1>7, <2>1, <2>2, KeysAreKeys DEF keys
  <1>10. \A c \in Cells : c # key - 1 => Told'[c] = Told[c]
    <2>1. \A c : ValueOf(c)' = ValueIn(u, c)
      BY <1>7, <1>9, KeysAreKeys DEF ValueOf, ValueIn, u
    <2> QED BY <1>8, <2>1, ValueOfIsValueIn DEF Told
  <1>11. Told' = [Told EXCEPT ![key - 1] = Told'[key - 1]]
    BY <1>10 DEF Told
  <1>12. M!Use(key - 1)
    <2>1. UNCHANGED <<keys, capacity>>
      BY <1>1, <1>9
    <2>2. Given = key - 1 /\ Given' = -1
      BY <1>1, HeldIsGiven DEF Given
    <2> QED BY <1>9, <1>11, <2>1, <2>2, Zenon DEF M!Use, M!Nowhere, Told, Given
  <1> QED BY <1>5, <1>6, <1>9, <1>12 DEF TInv, MapStep, M!Next
-----------------------------------------------------------------------------
(* Every step keeps the invariant and is a step of the map or none.        *)
LEMMA StepKeepsTInv == TInv /\ [Next]_vars => TInv' /\ MapStep
  <1>. SUFFICES ASSUME TInv, [Next]_vars PROVE TInv' /\ MapStep
    OBVIOUS
  <1>1. ASSUME (\E c \in Cells : Ask(c)) \/ Limit \/ NoMem PROVE TInv' /\ MapStep
    BY <1>1, IdleSteps
  <1>0. CASE Read
    BY <1>0, ReadStep
  <1>2. ASSUME NEW v \in Values, Store(v) PROVE TInv' /\ MapStep
    BY <1>2, StoreStep
  <1>3. CASE Hit
    BY <1>3, HitStep
  <1>4. CASE Insert
    BY <1>4, InsertStep
  <1>5. CASE Grow
    BY <1>5, GrowStep
  <1>6. CASE Move
    BY <1>6, MoveStep
  <1>7. CASE Swap
    BY <1>7, SwapStep
  <1>8. CASE UNCHANGED vars
    <2>1. UNCHANGED <<mix, entries, capacity, used, grown, index, key, at, pc>>
      BY <1>8 DEF vars
    <2>2. Tabled' /\ keys' = keys /\ MapStep
      <3>1. Given' = Given
        BY <2>1 DEF Given
      <3> QED BY <2>1, <3>1, TableFacts, SameTable
    <2>3. Growing'
      <3>. SUFFICES ASSUME pc = "move" PROVE Growing'
        BY <2>1 DEF Growing
      <3>1. IsTable(grown, 2 * capacity)'
        BY <2>1, GrownFacts DEF IsTable, Entry
      <3>2. WellProbed(grown, 2 * capacity)'
        BY <2>1, GrownFacts DEF WellProbed, Place, Occupied
      <3>3. (Content(grown) = {entries[s] : s \in {u \in Occupied(entries) : u < index}})'
        BY <2>1 DEF TInv, Growing, Content, Occupied
      <3> QED BY <2>1, <2>2, <3>1, <3>2, <3>3 DEF TInv, Growing
    <2>4. Holding'
      BY <2>1 DEF TInv, Holding, Occupied
    <2> QED BY <2>2, <2>3, <2>4 DEF TInv
  <1> QED BY <1>0, <1>1, <1>2, <1>3, <1>4, <1>5, <1>6, <1>7, <1>8 DEF Next, Search, Slot

(* The invariant always holds.                                             *)
LEMMA AlwaysTInv == Spec => []TInv
  BY InitTabled, StepKeepsTInv, PTL DEF Spec

(* The empty table is the empty map.                                       *)
LEMMA InitIsMapInit == Init => M!Init
  <1>. SUFFICES ASSUME Init PROVE M!Init
    OBVIOUS
  <1>1. capacity = InitialSlots /\ entries = Empty(InitialSlots) /\ pc = "idle"
    BY DEF Init
  <1>2. keys = {}
    BY <1>1, TableAssumption, EmptyTable, KeysAreKeys
  <1>3. \A c : ValueOf(c) = 0
    BY <1>2 DEF ValueOf
  <1> QED BY <1>1, <1>2, <1>3 DEF M!Init, M!Nowhere, Given

(* The table is a map from cells to values: growth, collisions and resets  *)
(* never lose or invent one, whatever the hash does, and the pointer that  *)
(* the search is given is to the slot of the cell it asked for.            *)
THEOREM TableIsMap == Spec => ImplementsMap
  BY InitIsMapInit, StepKeepsTInv, AlwaysTInv, PTL DEF Spec, ImplementsMap, M!Spec, MapStep, Told

(* No probe loop goes round its table and no table size wraps, for every   *)
(* limit that the first table respects.                                    *)
THEOREM NoProbeGoesRound == Spec => []NeverExhausted
  <1>1. TInv => NeverExhausted
    BY AlwaysPlace, GrownFacts DEF TInv, Tabled, NeverExhausted
  <1> QED BY <1>1, AlwaysTInv, PTL

(* Both tables can be probed at every moment, the one being filled too.    *)
THEOREM AlwaysProbed == Spec => []TablesProbed
  <1>1. TInv => TablesProbed
    BY DEF TInv, Tabled, Growing, Content, TablesProbed
  <1> QED BY <1>1, AlwaysTInv, PTL
=============================================================================
