---------------------------- MODULE BreCompileProofs ---------------------------
(***************************************************************************)
(* Theorems about the compiler of a session, for all trees and limits:     *)
(* what the instructions of a program name, and that it hangs together.    *)
(***************************************************************************)
EXTENDS BreSession, FiniteSetTheorems, SequenceTheorems, Numbers, TLAPS

(* A sequence of whatever elements                                         *)
IsSeq(s) == Len(s) \in Nat /\ s = [k \in 1 .. Len(s) |-> s[k]]

Elements(s) == {s[k] : k \in 1 .. Len(s)}

LEMMA AnySeq ==
  ASSUME NEW s, IsSeq(s)
  PROVE  s \in Seq(Elements(s)) /\ DOMAIN s = 1 .. Len(s)
  BY DEF IsSeq, Elements

LEMMA TypedSeq ==
  ASSUME NEW S, NEW s \in Seq(S)
  PROVE  IsSeq(s)
  <1>1. Len(s) \in Nat /\ s \in [1 .. Len(s) -> S]
    BY LenProperties
  <1> QED BY <1>1 DEF IsSeq

LEMMA Appended ==
  ASSUME NEW s, IsSeq(s), NEW x
  PROVE  /\ IsSeq(Append(s, x))
         /\ Len(Append(s, x)) = Len(s) + 1
         /\ \A k \in 1 .. Len(s) : Append(s, x)[k] = s[k]
         /\ Append(s, x)[Len(s) + 1] = x
  <1>. DEFINE S == Elements(s) \cup {x}
  <1>1. s \in Seq(S)
    BY AnySeq DEF IsSeq
  <1>2. x \in S
    OBVIOUS
  <1>. HIDE DEF S
  <1>3. /\ Append(s, x) \in Seq(S) /\ Len(Append(s, x)) = Len(s) + 1
        /\ \A k \in 1 .. Len(s) : Append(s, x)[k] = s[k]
        /\ Append(s, x)[Len(s) + 1] = x
    BY <1>1, <1>2, AppendProperties
  <1>4. IsSeq(Append(s, x))
    BY <1>3, TypedSeq
  <1> QED BY <1>3, <1>4

LEMMA Concatenated ==
  ASSUME NEW s, IsSeq(s), NEW t, IsSeq(t)
  PROVE  /\ IsSeq(s \o t)
         /\ Len(s \o t) = Len(s) + Len(t)
         /\ \A k \in 1 .. Len(s) : (s \o t)[k] = s[k]
         /\ \A k \in 1 .. Len(t) : (s \o t)[Len(s) + k] = t[k]
  <1>. DEFINE S == Elements(s) \cup Elements(t)
  <1>1. s \in Seq(S) /\ t \in Seq(S)
    BY AnySeq DEF IsSeq
  <1>. HIDE DEF S
  <1>2. s \o t \in Seq(S) /\ Len(s) \in Nat /\ Len(t) \in Nat
    BY <1>1
  <1>3. IsSeq(s \o t)
    BY <1>2, TypedSeq
  <1> QED BY <1>1, <1>2, <1>3

LEMMA Indexed ==
  ASSUME NEW n \in Nat, NEW f, f = [k \in 1 .. n |-> f[k]]
  PROVE  IsSeq(f) /\ Len(f) = n
  BY DEF IsSeq

(* A group that an instruction names exists, and so do those inside it.    *)
InstrOK(x) ==
  /\ x = [op |-> x.op, a |-> x.a, b |-> x.b, next |-> x.next, min |-> x.min,
          max |-> x.max]
  /\ x.op \in Consuming => x.b \in Int
  /\ x.op = "OPEN" => x.a \in 1 .. MaxCaptures /\ x.b \in x.a .. MaxCaptures
  /\ x.op = "REF" => x.a \in 1 .. MaxCaptures

CodeOK(q) == IsSeq(q) /\ \A k \in 1 .. Len(q) : InstrOK(q[k])

(* A lowering, and one that has the tree and the groups of another         *)
LoweringOK(d) ==
  /\ d = [nodes |-> d.nodes, limits |-> d.limits, status |-> d.status, steps |-> d.steps,
          groups |-> d.groups, depth |-> d.depth, repeat_bound |-> d.repeat_bound,
          entry |-> d.entry, code |-> d.code, code_capacity |-> d.code_capacity,
          ranges |-> d.ranges, range_capacity |-> d.range_capacity,
          first |-> d.first, tail |-> d.tail]
  /\ CodeOK(d.code) /\ IsSeq(d.ranges)

Goes(d, e) ==
  LoweringOK(e) /\ e.nodes = d.nodes /\ e.limits = d.limits /\ e.groups = d.groups

LEMMA GoesSame ==
  ASSUME NEW d, LoweringOK(d)
  PROVE  Goes(d, d)
  BY DEF Goes

LEMMA GoesOnwards ==
  ASSUME NEW d, NEW e, Goes(d, e), NEW f, Goes(e, f)
  PROVE  Goes(d, f)
  BY DEF Goes

LEMMA StopGoes ==
  ASSUME NEW d, LoweringOK(d), NEW s
  PROVE  Goes(d, Compiler!Stop(d, s))
  BY DEF Goes, LoweringOK, Compiler!Stop

LEMMA WorkGoes ==
  ASSUME NEW d, LoweringOK(d)
  PROVE  Goes(d, Compiler!Work(d))
  <1>. DEFINE n == d.steps + 1
  <1>1. Compiler!Work(d) \in {Compiler!Stop(d, "LIMIT"), [d EXCEPT !.steps = n]}
    BY DEF Compiler!Work
  <1>. HIDE DEF n
  <1>2. Goes(d, [d EXCEPT !.steps = n])
    BY DEF Goes, LoweringOK
  <1> QED BY <1>1, <1>2, StopGoes

LEMMA SpansGoes ==
  ASSUME NEW d, LoweringOK(d), NEW i, NEW entry, NEW tail
  PROVE  /\ Goes(d, Compiler!Spans(d, i, entry, tail))
         /\ Compiler!Spans(d, i, entry, tail).code = d.code
  <1>. DEFINE f == [d.first EXCEPT ![i] = entry]
              t == [d.tail EXCEPT ![i] = tail]
              e == Compiler!Spans(d, i, entry, tail)
  <1>1. e = [d EXCEPT !.first = f, !.tail = t]
    BY DEF Compiler!Spans, LoweringOK
  <1>. HIDE DEF f, t, e
  <1>2. Goes(d, e) /\ e.code = d.code
    BY <1>1 DEF Goes, LoweringOK
  <1> QED BY <1>2 DEF e

LEMMA LinkGoes ==
  ASSUME NEW d, LoweringOK(d), NEW id, NEW next
  PROVE  Goes(d, Compiler!Link(d, id, next))
  <1>. DEFINE x == [d.code[id + 1] EXCEPT !.next = next]
              q == [d.code EXCEPT ![id + 1] = x]
              e == Compiler!Link(d, id, next)
  <1>1. e = [d EXCEPT !.code = q]
    BY DEF Compiler!Link, LoweringOK
  <1>2. CodeOK(q)
    <2>1. Len(d.code) \in Nat /\ d.code = [k \in 1 .. Len(d.code) |-> d.code[k]]
      BY DEF LoweringOK, CodeOK, IsSeq
    <2>. DEFINE n == Len(d.code)
    <2>2. q = [k \in 1 .. n |-> q[k]]
      BY <2>1
    <2>3. IsSeq(q) /\ Len(q) = n
      <3>. HIDE DEF q, n
      <3> QED BY <2>1, <2>2, Indexed DEF n
    <2>4. ASSUME NEW k \in 1 .. n PROVE InstrOK(q[k])
      <3>1. InstrOK(d.code[k])
        BY DEF LoweringOK, CodeOK
      <3>2. CASE k = id + 1
        <4>1. q[k] = [d.code[k] EXCEPT !.next = next]
          BY <2>1, <3>2
        <4> QED BY <3>1, <4>1 DEF InstrOK
      <3>3. CASE k # id + 1
        <4>1. q[k] = d.code[k]
          BY <2>1, <3>3
        <4> QED BY <3>1, <4>1
      <3> QED BY <3>2, <3>3
    <2> QED BY <2>3, <2>4 DEF CodeOK
  <1>. HIDE DEF q, e
  <1>3. Goes(d, e)
    BY <1>1, <1>2 DEF Goes, LoweringOK
  <1> QED BY <1>3 DEF e

LEMMA EmitGoes ==
  ASSUME NEW d, LoweringOK(d), NEW q, CodeOK(q)
  PROVE  /\ Goes(d, Compiler!Emit(d, q))
         /\ Compiler!Emit(d, q).first = d.first /\ Compiler!Emit(d, q).tail = d.tail
  <1>. DEFINE p == d.code \o q
              e == Compiler!Emit(d, q)
  <1>1. e \in {Compiler!Stop(d, "LIMIT"), [d EXCEPT !.code = p]}
    BY DEF Compiler!Emit
  <1>2. CodeOK(p)
    <2>1. /\ IsSeq(d.code) /\ IsSeq(q)
          /\ Len(d.code) \in Nat /\ Len(q) \in Nat
      BY DEF LoweringOK, CodeOK, IsSeq
    <2>2. /\ IsSeq(p) /\ Len(p) = Len(d.code) + Len(q)
          /\ \A k \in 1 .. Len(d.code) : p[k] = d.code[k]
          /\ \A k \in 1 .. Len(q) : p[Len(d.code) + k] = q[k]
      BY <2>1, Concatenated
    <2>3. ASSUME NEW k \in 1 .. Len(p) PROVE InstrOK(p[k])
      <3>1. CASE k <= Len(d.code)
        <4>1. k \in 1 .. Len(d.code)
          BY <2>1, <2>2, <3>1
        <4> QED BY <2>2, <4>1 DEF LoweringOK, CodeOK
      <3>2. CASE ~(k <= Len(d.code))
        <4>1. k - Len(d.code) \in 1 .. Len(q) /\ k = Len(d.code) + (k - Len(d.code))
          BY <2>1, <2>2, <3>2
        <4>2. p[k] = q[k - Len(d.code)]
          BY <2>2, <4>1
        <4> QED BY <4>1, <4>2 DEF CodeOK
      <3> QED BY <3>1, <3>2
    <2> QED BY <2>2, <2>3 DEF CodeOK
  <1>. HIDE DEF p, e
  <1>3. Goes(d, [d EXCEPT !.code = p])
    BY <1>2 DEF Goes, LoweringOK
  <1>4. Goes(d, e) /\ e.first = d.first /\ e.tail = d.tail
    BY <1>1, <1>3, StopGoes DEF Compiler!Stop, LoweringOK
  <1> QED BY <1>4 DEF e

LEMMA OneInstr ==
  ASSUME NEW x, InstrOK(x)
  PROVE  CodeOK(<<x>>)
  <1>1. <<x>> \in Seq({x}) /\ Len(<<x>>) = 1 /\ <<x>>[1] = x
    OBVIOUS
  <1>2. IsSeq(<<x>>)
    BY <1>1, TypedSeq
  <1> QED BY <1>1, <1>2 DEF CodeOK

LEMMA TwoInstrs ==
  ASSUME NEW x, InstrOK(x), NEW y, InstrOK(y)
  PROVE  CodeOK(<<x, y>>)
  <1>1. /\ <<x, y>> \in Seq({x, y}) /\ Len(<<x, y>>) = 2
        /\ <<x, y>>[1] = x /\ <<x, y>>[2] = y
    OBVIOUS
  <1>2. IsSeq(<<x, y>>)
    BY <1>1, TypedSeq
  <1>3. \A k \in 1 .. 2 : k = 1 \/ k = 2
    OBVIOUS
  <1> QED BY <1>1, <1>2, <1>3 DEF CodeOK

-----------------------------------------------------------------------------
(* The steps of the recursions over the nodes and the ranges of a class,   *)
(* the jumps of a program, the records of a chain and a heap: p says which *)
(* and of what.                                                            *)
StepOf(p, k, x) ==
  CASE p.of = "ranges" -> Compiler!AddRange(x, p.ranges[k])
    [] p.of = "class"  ->
         IF \E a \in p.i + 1 .. p.i + k :
              /\ Compiler!Name(p.d, a) \in Compiler!Elements
              /\ Compiler!Within(p.d, a, p.i + k)
         THEN x ELSE Compiler!AddElement(x, p.i, p.i + k, p.before)
    [] p.of = "join"   -> Compiler!Joined(x, p.i, p.i + k)
    [] p.of = "digits" -> Compiler!Digit(p.d, x, p.i + k)
    [] p.of = "after"  -> Compiler!After(p.p, x)
    [] p.of = "before" -> Compiler!Before(p.p, x)
    [] p.of = "walk"   -> Onward(p.r, p.id, x)
    [] p.of = "closings" ->
         IF Node(p.r, p.chain[k]).kind = 1 THEN Append(x, p.chain[k]) ELSE x
    [] p.of = "sift"   -> Sunk(x, p.n)
    [] p.of = "heap"   -> Sift(x, p.n, p.half - k)
    [] p.of = "sort"   ->
         IF k = p.n THEN x
         ELSE Sift([x EXCEPT !.q = Swapped(@, 1, p.n - k + 1)], p.n - k, 0)

(* h is what the recursion leads to up to n.                               *)
Leads(h, n, p, d) ==
  h = [k \in 0 .. n |-> IF k = 0 THEN d ELSE StepOf(p, k, h[k - 1])]

LEMMA LeadsAt ==
  ASSUME NEW n \in Nat, NEW h, NEW p, NEW d, Leads(h, n, p, d)
  PROVE  /\ h[0] = d
         /\ \A k \in 1 .. n : h[k] = StepOf(p, k, h[k - 1])
  <1>1. h = [k \in 0 .. n |-> IF k = 0 THEN d ELSE StepOf(p, k, h[k - 1])]
    BY DEF Leads
  <1>2. ASSUME NEW k \in 0 .. n
        PROVE  h[k] = IF k = 0 THEN d ELSE StepOf(p, k, h[k - 1])
    BY <1>1
  <1> QED BY <1>2

LEMMA LeadsUnique ==
  ASSUME NEW n \in Nat, NEW m \in Nat, NEW h, NEW f, NEW p, NEW d,
         Leads(h, n, p, d), Leads(f, m, p, d), NEW i \in 0 .. n, i <= m
  PROVE  h[i] = f[i]
  <1>. DEFINE T == {k \in 0 .. i : h[k] # f[k]}
  <1>1. SUFFICES ASSUME T # {} PROVE FALSE
    BY <1>1
  <1>2. PICK k \in T : \A j \in T : k <= j
    <2>1. T \subseteq Nat
      OBVIOUS
    <2> QED BY <1>1, <2>1, LeastNat
  <1>3. k # 0
    BY <1>2, LeadsAt
  <1>4. k \in 1 .. n /\ k \in 1 .. m /\ k - 1 \in 0 .. i /\ k - 1 \notin T
    BY <1>2, <1>3
  <1>5. h[k - 1] = f[k - 1]
    BY <1>4
  <1>6. h[k] = StepOf(p, k, h[k - 1]) /\ f[k] = StepOf(p, k, f[k - 1])
    BY <1>4, LeadsAt
  <1> QED BY <1>2, <1>5, <1>6

(* f is the function that the recursion defines.                           *)
Runs(f, p, d) == f = [k \in Nat |-> IF k = 0 THEN d ELSE StepOf(p, k, f[k - 1])]

LEMMA LeadsExist ==
  ASSUME NEW p, NEW d
  PROVE  \A n \in Nat : \E h : Leads(h, n, p, d)
  <1>. DEFINE T == {n \in Nat : ~\E h : Leads(h, n, p, d)}
  <1>1. T = {}
    <2>1. SUFFICES ASSUME T # {} PROVE FALSE
      OBVIOUS
    <2>2. PICK n \in T : \A m \in T : n <= m
      BY <2>1, LeastNat
    <2>3. n # 0
      <3>. DEFINE h == [k \in 0 .. 0 |-> d]
      <3>1. Leads(h, 0, p, d)
        BY DEF Leads
      <3> QED BY <2>2, <3>1
    <2>4. PICK h : Leads(h, n - 1, p, d)
      BY <2>2, <2>3
    <2>. DEFINE e == [k \in 0 .. n |-> IF k = n THEN StepOf(p, n, h[n - 1]) ELSE h[k]]
    <2>5. /\ h[0] = d
          /\ \A k \in 1 .. n - 1 : h[k] = StepOf(p, k, h[k - 1])
      BY <2>2, <2>3, <2>4, LeadsAt
    <2>6. ASSUME NEW k \in 0 .. n
          PROVE  e[k] = IF k = 0 THEN d ELSE StepOf(p, k, e[k - 1])
      <3>1. CASE k = 0
        BY <2>3, <2>5, <3>1
      <3>2. CASE k = n
        <4>1. e[k - 1] = h[k - 1] /\ k - 1 \in 0 .. n
          BY <2>2, <2>3, <3>2
        <4> QED BY <2>3, <3>2, <4>1
      <3>3. CASE k # 0 /\ k # n
        <4>1. k \in 1 .. n - 1 /\ k - 1 \in 0 .. n /\ k - 1 # n
          BY <2>2, <3>3
        <4>2. e[k] = h[k] /\ e[k - 1] = h[k - 1]
          BY <3>3, <4>1
        <4> QED BY <2>5, <3>3, <4>1, <4>2
      <3> QED BY <3>1, <3>2, <3>3
    <2>7. Leads(e, n, p, d)
      BY <2>6 DEF Leads
    <2> QED BY <2>2, <2>7
  <1> QED BY <1>1, Zenon

LEMMA StepsExist ==
  ASSUME NEW p, NEW d
  PROVE  \E f : Runs(f, p, d)
  <1>. DEFINE H(n) == CHOOSE h : Leads(h, n, p, d)
              f == [n \in Nat |-> H(n)[n]]
  <1>2. \A n \in Nat : Leads(H(n), n, p, d)
    BY LeadsExist
  <1>. HIDE DEF H
  <1>3. ASSUME NEW k \in Nat
        PROVE  f[k] = IF k = 0 THEN d ELSE StepOf(p, k, f[k - 1])
    <2>1. CASE k = 0
      BY <1>2, <2>1, LeadsAt
    <2>2. CASE k # 0
      <3>1. k - 1 \in Nat /\ k \in 1 .. k /\ k - 1 \in 0 .. k /\ k - 1 <= k - 1
        BY <2>2
      <3>2. H(k)[k] = StepOf(p, k, H(k)[k - 1])
        BY <1>2, <3>1, LeadsAt
      <3>3. H(k)[k - 1] = H(k - 1)[k - 1]
        BY <1>2, <3>1, LeadsUnique
      <3> QED BY <2>2, <3>1, <3>2, <3>3
    <2> QED BY <2>1, <2>2
  <1>4. f = [k \in Nat |-> IF k = 0 THEN d ELSE StepOf(p, k, f[k - 1])]
    BY <1>3
  <1> QED BY <1>4 DEF Runs

(* What every step keeps, the recursion keeps.                             *)
LEMMA StepsGo ==
  ASSUME NEW d, LoweringOK(d), NEW p, NEW f, Runs(f, p, d), NEW n \in Nat,
         \A k \in 1 .. n : \A x : Goes(d, x) => Goes(x, StepOf(p, k, x))
  PROVE  Goes(d, f[n])
  <1>. DEFINE T == {k \in 0 .. n : ~Goes(d, f[k])}
  <1>0. /\ f[0] = d
        /\ \A k \in Nat \ {0} : f[k] = StepOf(p, k, f[k - 1])
    <2>1. ASSUME NEW k \in Nat PROVE f[k] = IF k = 0 THEN d ELSE StepOf(p, k, f[k - 1])
      BY DEF Runs
    <2> QED BY <2>1
  <1>1. T = {}
    <2>1. SUFFICES ASSUME T # {} PROVE FALSE
      OBVIOUS
    <2>2. PICK k \in T : \A j \in T : k <= j
      <3>1. T \subseteq Nat
        OBVIOUS
      <3> QED BY <2>1, <3>1, LeastNat
    <2>3. k # 0
      BY <1>0, <2>2, GoesSame
    <2>4. k \in 1 .. n /\ k - 1 \in 0 .. n /\ Goes(d, f[k - 1])
      BY <2>2, <2>3
    <2>5. f[k] = StepOf(p, k, f[k - 1])
      BY <1>0, <2>4
    <2> QED BY <2>2, <2>4, <2>5, GoesOnwards
  <1>2. \A k \in 0 .. n : Goes(d, f[k])
    BY <1>1, Zenon
  <1>3. n \in 0 .. n
    OBVIOUS
  <1> QED BY <1>2, <1>3, Zenon

LEMMA AddRangeGoes ==
  ASSUME NEW d, LoweringOK(d), NEW x
  PROVE  Goes(d, Compiler!AddRange(d, x))
  <1>. DEFINE q == Append(d.ranges, [first |-> x[1], last |-> x[2]])
              e == Compiler!AddRange(d, x)
  <1>1. \/ e = d \/ e = Compiler!Stop(d, "BADPAT") \/ e = Compiler!Stop(d, "LIMIT")
        \/ e = [d EXCEPT !.ranges = q]
    BY DEF Compiler!AddRange
  <1>2. IsSeq(q)
    BY Appended DEF LoweringOK
  <1>. HIDE DEF q, e
  <1>3. Goes(d, [d EXCEPT !.ranges = q])
    BY <1>2 DEF Goes, LoweringOK
  <1>4. Goes(d, e)
    BY <1>1, <1>3, StopGoes, GoesSame
  <1> QED BY <1>4 DEF e

LEMMA AddRangesGoes ==
  ASSUME NEW d, LoweringOK(d), NEW element, Len(element[2]) \in Nat
  PROVE  Goes(d, Compiler!AddRanges(d, element))
  <1>. DEFINE p == [of |-> "ranges", ranges |-> element[2]]
              Adds(f) == f = [k \in Nat |-> IF k = 0 THEN d
                                            ELSE Compiler!AddRange(f[k - 1], element[2][k])]
              added == CHOOSE f : Adds(f)
              n == Len(element[2])
  <1>1. \A k, x : StepOf(p, k, x) = Compiler!AddRange(x, element[2][k])
    BY DEF StepOf
  <1>. HIDE DEF p
  <1>2. PICK g : Runs(g, p, d)
    BY StepsExist
  <1>3. Adds(g)
    BY <1>1, <1>2 DEF Runs
  <1>4. Adds(added)
    BY <1>3
  <1>5. Compiler!AddRanges(d, element)
        = IF element[1] = "OK" THEN added[n] ELSE Compiler!Stop(d, element[1])
    BY DEF Compiler!AddRanges
  <1>. HIDE DEF added
  <1>6. Runs(added, p, d)
    BY <1>1, <1>4 DEF Runs
  <1>7. ASSUME NEW k \in 1 .. n, NEW x, Goes(d, x) PROVE Goes(x, StepOf(p, k, x))
    BY <1>1, <1>7, AddRangeGoes DEF Goes
  <1>8. Goes(d, added[n])
    BY <1>6, <1>7, StepsGo
  <1> QED BY <1>5, <1>8, StopGoes

LEMMA TupleLengths ==
  /\ Len(<<>>) \in Nat
  /\ \A x : Len(<<x>>) \in Nat
  /\ \A x, y : Len(<<x, y>>) \in Nat
  /\ \A x, y, z : Len(<<x, y, z>>) \in Nat
  /\ \A x, y, z, w : Len(<<x, y, z, w>>) \in Nat
  OBVIOUS

LEMMA ElementLength ==
  ASSUME NEW d, NEW class, NEW i, NEW before
  PROVE  Len(Compiler!Element(d, class, i, before)[2]) \in Nat
  <1>. DEFINE e == Compiler!Element(d, class, i, before)
              known == Compiler!Tree(d, Compiler!Named(d, i, "ClassName")[1]).value
              R == Compiler!NamedRanges
  <1>1. ASSUME NEW n \in DOMAIN R PROVE Len(R[n]) \in Nat
    <2>1. DOMAIN R = {"alnum", "alpha", "blank", "cntrl", "digit", "graph", "lower",
                      "print", "punct", "space", "upper", "xdigit"}
      BY DEF Compiler!NamedRanges
    <2>2. /\ \E x, y, z : R["alnum"] = <<x, y, z>>
          /\ \E x, y : R["alpha"] = <<x, y>>
          /\ \E x, y : R["blank"] = <<x, y>>
          /\ \E x, y : R["cntrl"] = <<x, y>>
          /\ \E x : R["digit"] = <<x>>
          /\ \E x : R["graph"] = <<x>>
          /\ \E x : R["lower"] = <<x>>
          /\ \E x : R["print"] = <<x>>
          /\ \E x, y, z, w : R["punct"] = <<x, y, z, w>>
          /\ \E x, y : R["space"] = <<x, y>>
          /\ \E x : R["upper"] = <<x>>
          /\ \E x, y, z : R["xdigit"] = <<x, y, z>>
      BY DEF Compiler!NamedRanges
    <2> HIDE DEF R
    <2> QED BY <2>1, <2>2, TupleLengths
  <1>2. \/ e[2] = <<>>
        \/ \E x : e[2] = <<x>>
        \/ known \in DOMAIN R /\ e[2] = R[known]
    BY DEF Compiler!Element
  <1>3. CASE known \in DOMAIN R /\ e[2] = R[known]
    BY <1>1, <1>3
  <1> QED BY <1>2, <1>3, TupleLengths

LEMMA AddElementGoes ==
  ASSUME NEW d, LoweringOK(d), NEW class, NEW i, NEW before
  PROVE  Goes(d, Compiler!AddElement(d, class, i, before))
  <1>. DEFINE w == Compiler!Work(d)
              x == Compiler!Element(d, class, i, before)
              a == Compiler!AddRanges(w, x)
              e == Compiler!AddElement(d, class, i, before)
  <1>1. Goes(d, w)
    BY WorkGoes
  <1>2. Len(x[2]) \in Nat
    BY ElementLength
  <1>3. e = a \/ e = w \/ e = d
    <2>1. e = IF Compiler!Lowers(d) /\ Compiler!Lowers(w) THEN a
              ELSE IF Compiler!Lowers(d) THEN w ELSE d
      BY DEF Compiler!AddElement
    <2>. HIDE DEF e, a, w
    <2> QED BY <2>1
  <1>. HIDE DEF x, w, e
  <1>4. Goes(w, a)
    BY <1>1, <1>2, AddRangesGoes DEF Goes
  <1>5. Goes(d, a)
    BY <1>1, <1>4, GoesOnwards
  <1>. HIDE DEF a
  <1>6. Goes(d, e)
    BY <1>1, <1>3, <1>5, GoesSame
  <1> QED BY <1>6 DEF e

LEMMA BelowLength ==
  ASSUME NEW d, NEW i \in Nat, Compiler!Tree(d, i).end \in Int,
         Compiler!Tree(d, i).end > i
  PROVE  Len(Compiler!Below(d, i)) \in Nat
  <1>. DEFINE n == Compiler!Tree(d, i).end - i - 1
  <1>1. n \in Nat
    OBVIOUS
  <1>2. Compiler!Below(d, i) = [k \in 1 .. n |-> i + k]
    BY DEF Compiler!Below
  <1>. HIDE DEF n
  <1> QED BY <1>1, <1>2

LEMMA EmitClassOfGoes ==
  ASSUME NEW d, LoweringOK(d), NEW i, NEW before \in Nat
  PROVE  Goes(d, Compiler!EmitClassOf(d, i, before))
  <1>. DEFINE op == IF Compiler!Named(d, i, "Negation") # <<>> THEN "NOT_CLASS" ELSE "CLASS"
              x == Compiler!Instruction(op, before, Len(d.ranges) - before)
              e == Compiler!EmitClassOf(d, i, before)
  <1>1. \/ e = d \/ e = Compiler!Stop(d, "BADPAT") \/ e = Compiler!Emit(d, <<x>>)
    BY DEF Compiler!EmitClassOf
  <1>2. InstrOK(x)
    <2>1. op \in {"CLASS", "NOT_CLASS"} /\ Len(d.ranges) - before \in Int
      BY DEF LoweringOK, IsSeq
    <2>. HIDE DEF op
    <2> QED BY <2>1 DEF InstrOK, Compiler!Instruction
  <1>. HIDE DEF e, x
  <1>3. Goes(d, Compiler!Emit(d, <<x>>))
    BY <1>2, OneInstr, EmitGoes
  <1>4. Goes(d, e)
    BY <1>1, <1>3, GoesSame, StopGoes
  <1> QED BY <1>4 DEF e

LEMMA LowerClassGoes ==
  ASSUME NEW d, LoweringOK(d), NEW i \in Nat, Compiler!Tree(d, i).end \in Int,
         Compiler!Tree(d, i).end > i
  PROVE  Goes(d, Compiler!LowerClass(d, i))
  <1>. DEFINE before == Len(d.ranges)
              Part1(j) == \E a \in i + 1 .. j : /\ Compiler!Name(d, a) \in Compiler!Elements
                                                /\ Compiler!Within(d, a, j)
              Visits(f) == f = [k \in Nat |->
                                  IF k = 0 THEN d
                                  ELSE IF Part1(i + k) THEN f[k - 1]
                                  ELSE Compiler!AddElement(f[k - 1], i, i + k, before)]
              visited == CHOOSE f : Visits(f)
              p == [of |-> "class", i |-> i, d |-> d, before |-> before]
              n == Len(Compiler!Below(d, i))
  <1>1. ASSUME NEW k, NEW x
        PROVE  StepOf(p, k, x) = IF Part1(i + k) THEN x
                                 ELSE Compiler!AddElement(x, i, i + k, before)
    BY DEF StepOf
  <1>. HIDE DEF p, Part1, before
  <1>2. PICK g : Runs(g, p, d)
    BY StepsExist
  <1>3. Visits(g)
    BY <1>1, <1>2 DEF Runs
  <1>4. Visits(visited)
    BY <1>3
  <1>5. Compiler!LowerClass(d, i) = Compiler!EmitClassOf(visited[n], i, before)
    BY DEF Compiler!LowerClass, Part1, before
  <1>. HIDE DEF visited
  <1>6. Runs(visited, p, d)
    <2>1. visited = [k \in Nat |->
                       IF k = 0 THEN d
                       ELSE IF Part1(i + k) THEN visited[k - 1]
                       ELSE Compiler!AddElement(visited[k - 1], i, i + k, before)]
      BY <1>4
    <2>2. ASSUME NEW k \in Nat
          PROVE  visited[k] = IF k = 0 THEN d ELSE StepOf(p, k, visited[k - 1])
      BY <1>1, <2>1
    <2>3. visited = [k \in Nat |-> visited[k]]
      BY <2>1
    <2>. HIDE <1>1
    <2> QED BY <2>2, <2>3 DEF Runs
  <1>7. ASSUME NEW k \in 1 .. n, NEW x, Goes(d, x) PROVE Goes(x, StepOf(p, k, x))
    <2>1. Goes(x, Compiler!AddElement(x, i, i + k, before))
      BY <1>7, AddElementGoes DEF Goes
    <2> QED BY <1>1, <1>7, <2>1, GoesSame DEF Goes
  <1>8. n \in Nat
    BY BelowLength
  <1>9. Goes(d, visited[n])
    BY <1>6, <1>7, <1>8, StepsGo
  <1>10. before \in Nat
    BY DEF LoweringOK, IsSeq, before
  <1>11. Goes(visited[n], Compiler!EmitClassOf(visited[n], i, before))
    BY <1>9, <1>10, EmitClassOfGoes DEF Goes
  <1> QED BY <1>5, <1>9, <1>11, GoesOnwards

LEMMA JoinedGoes ==
  ASSUME NEW d, LoweringOK(d), NEW i, NEW j
  PROVE  Goes(d, Compiler!Joined(d, i, j))
  <1>. DEFINE l == Compiler!Link(d, d.tail[i], d.first[j])
              s == Compiler!Spans(d, i, d.first[j], d.tail[j])
              t == Compiler!Spans(l, i, d.first[i], d.tail[j])
              e == Compiler!Joined(d, i, j)
  <1>1. e = d \/ e = s \/ e = t
    BY DEF Compiler!Joined
  <1>2. Goes(d, s)
    BY SpansGoes
  <1>3. Goes(d, l)
    BY LinkGoes
  <1>. HIDE DEF l
  <1>4. Goes(d, t)
    BY <1>3, SpansGoes, GoesOnwards DEF Goes
  <1>. HIDE DEF s, t, e
  <1>5. Goes(d, e)
    BY <1>1, <1>2, <1>4, GoesSame
  <1> QED BY <1>5 DEF e

LEMMA JoinGoes ==
  ASSUME NEW d, LoweringOK(d), NEW i \in Nat, Compiler!Tree(d, i).end \in Int,
         Compiler!Tree(d, i).end > i
  PROVE  Goes(d, Compiler!Join(d, i))
  <1>. DEFINE Joins(f) == f = [k \in Nat |-> IF k = 0 THEN d
                                             ELSE Compiler!Joined(f[k - 1], i, i + k)]
              joined == CHOOSE f : Joins(f)
              p == [of |-> "join", i |-> i]
              n == Len(Compiler!Below(d, i))
  <1>1. \A k, x : StepOf(p, k, x) = Compiler!Joined(x, i, i + k)
    BY DEF StepOf
  <1>. HIDE DEF p
  <1>2. PICK g : Runs(g, p, d)
    BY StepsExist
  <1>3. Joins(g)
    BY <1>1, <1>2 DEF Runs
  <1>4. Joins(joined)
    BY <1>3
  <1>5. Compiler!Join(d, i) = joined[n]
    BY DEF Compiler!Join
  <1>. HIDE DEF joined
  <1>6. Runs(joined, p, d)
    BY <1>1, <1>4 DEF Runs
  <1>7. ASSUME NEW k \in 1 .. n, NEW x, Goes(d, x) PROVE Goes(x, StepOf(p, k, x))
    BY <1>1, <1>7, JoinedGoes DEF Goes
  <1>8. n \in Nat
    BY BelowLength
  <1>9. Goes(d, joined[n])
    BY <1>6, <1>7, <1>8, StepsGo
  <1> QED BY <1>5, <1>9

LEMMA WrappedGoes ==
  ASSUME NEW d, LoweringOK(d), NEW i, NEW next, NEW entry, NEW tail
  PROVE  Goes(d, Compiler!Wrapped(d, i, next, entry, tail))
  <1>. DEFINE l == Compiler!Link(d, d.tail[i], next)
  <1>1. Goes(d, l)
    BY LinkGoes
  <1>2. Goes(d, Compiler!Spans(l, i, entry, tail))
    <2>. HIDE DEF l
    <2> QED BY <1>1, SpansGoes, GoesOnwards DEF Goes
  <1>3. Goes(d, Compiler!Spans(d, i, entry, tail))
    BY SpansGoes
  <1> QED BY <1>2, <1>3 DEF Compiler!Wrapped

(* The greatest of a set of numbers up to n                                *)
LEMMA MaxIs ==
  ASSUME NEW n \in Nat, NEW T, T \subseteq 0 .. n, T # {}
  PROVE  Compiler!Max(T) \in T /\ \A x \in T : x <= Compiler!Max(T)
  <1>. DEFINE U == {u \in Nat : n - u \in T}
  <1>0. ASSUME NEW x \in T PROVE n - x \in U /\ x \in 0 .. n
    <2>1. x \in 0 .. n
      OBVIOUS
    <2>2. n - x \in Nat /\ n - (n - x) = x
      BY <2>1
    <2> QED BY <2>1, <2>2
  <1>1. PICK u \in U : \A y \in U : u <= y
    <2>1. U \subseteq Nat /\ U # {}
      BY <1>0
    <2> QED BY <2>1, LeastNat
  <1>2. PICK x \in T : x = n - u
    BY <1>1
  <1>3. ASSUME NEW y \in T PROVE x >= y
    <2>1. n - y \in U /\ y \in 0 .. n /\ x \in 0 .. n /\ u \in Nat
      BY <1>0
    <2>2. u <= n - y
      BY <1>1, <2>1
    <2> QED BY <1>2, <2>1, <2>2
  <1>4. \E m \in T : \A y \in T : m >= y
    BY <1>3
  <1>5. Compiler!Max(T) \in T /\ \A y \in T : Compiler!Max(T) >= y
    BY <1>4 DEF Compiler!Max
  <1> QED BY <1>5

(* A group node that has its number                                        *)
Numbered(d, i) == \E k \in 1 .. Len(d.groups) : d.groups[k] = i

(* What Bracket emits for node i, n being the number of instructions so far *)
BracketBy(d, i, n, x, y) ==
  /\ InstrOK(x) /\ x.op = "OPEN" /\ x.max = i
  /\ x.next = IF d.first[i] = NONE THEN n + 1 ELSE d.first[i]
  /\ InstrOK(y) /\ y.op = "CLOSE" /\ y.next = NONE
  /\ Compiler!Bracket(d, i) =
       IF Compiler!Lowers(Compiler!Emit(d, <<x, y>>))
       THEN Compiler!Wrapped(Compiler!Emit(d, <<x, y>>), i, n + 1, n, n + 1)
       ELSE Compiler!Emit(d, <<x, y>>)

LEMMA BracketIs ==
  ASSUME NEW d, LoweringOK(d), IsSeq(d.groups), Len(d.groups) <= MaxCaptures,
         NEW i \in Nat, Numbered(d, i), Compiler!Tree(d, i).end \in Int,
         Compiler!Tree(d, i).end > i, NEW n, n = Len(d.code)
  PROVE  \E x, y : BracketBy(d, i, n, x, y)
  <1>. DEFINE group == CHOOSE k \in DOMAIN d.groups : d.groups[k] = i
              inside == {k \in group .. Len(d.groups) : d.groups[k] < Compiler!Tree(d, i).end}
              next == IF d.first[i] = NONE THEN n + 1 ELSE d.first[i]
              x == [Compiler!Instruction("OPEN", group, Compiler!Max(inside)) EXCEPT
                      !.max = i, !.next = next]
              y == Compiler!Instruction("CLOSE", group, 0)
  <1>1. /\ Len(d.groups) \in Nat /\ DOMAIN d.groups = 1 .. Len(d.groups)
        /\ Len(d.groups) <= 9
    BY AnySeq DEF IsSeq, MaxCaptures
  <1>2. group \in 1 .. Len(d.groups) /\ d.groups[group] = i
    BY <1>1 DEF Numbered
  <1>. HIDE DEF group
  <1>3. Compiler!Max(inside) \in group .. Len(d.groups)
    <2>1. group \in inside
      BY <1>1, <1>2
    <2>2. ASSUME NEW k \in inside PROVE k \in 0 .. 9
      <3>1. k \in group .. Len(d.groups)
        OBVIOUS
      <3> QED BY <1>1, <1>2, <3>1
    <2>. HIDE DEF inside
    <2>3. Compiler!Max(inside) \in inside
      <3>1. inside \subseteq 0 .. 9 /\ 9 \in Nat /\ inside # {}
        BY <2>1, <2>2
      <3> QED BY <3>1, MaxIs
    <2> QED BY <2>3 DEF inside
  <1>4. InstrOK(x) /\ x.op = "OPEN" /\ x.max = i /\ x.next = next
    <2>. DEFINE m == Compiler!Max(inside)
    <2>1. /\ group \in 1 .. MaxCaptures /\ m \in group .. MaxCaptures
      BY <1>1, <1>2, <1>3 DEF MaxCaptures
    <2>. DEFINE z == Compiler!Instruction("OPEN", group, m)
    <2>3. x = [z EXCEPT !.max = i, !.next = next]
      OBVIOUS
    <2>4. z = [op |-> "OPEN", a |-> group, b |-> m, next |-> Compiler!NONE,
               min |-> 0, max |-> 0]
      BY DEF Compiler!Instruction
    <2>. HIDE DEF m, next, z, x
    <2>2. x = [op |-> "OPEN", a |-> group, b |-> m, next |-> next, min |-> 0, max |-> i]
      BY <2>3, <2>4
    <2> QED BY <2>1, <2>2 DEF InstrOK, Consuming
  <1>5. InstrOK(y) /\ y.op = "CLOSE" /\ y.next = NONE
    BY DEF InstrOK, Consuming, Compiler!Instruction, Compiler!NONE, NONE
  <1>6. Compiler!Bracket(d, i) =
          IF Compiler!Lowers(Compiler!Emit(d, <<x, y>>))
          THEN Compiler!Wrapped(Compiler!Emit(d, <<x, y>>), i, n + 1, n, n + 1)
          ELSE Compiler!Emit(d, <<x, y>>)
    BY DEF Compiler!Bracket, Compiler!NONE, NONE, group
  <1>7. BracketBy(d, i, n, x, y)
    <2>. HIDE DEF x, y
    <2> QED BY <1>4, <1>5, <1>6 DEF next, BracketBy
  <1>. HIDE DEF x, y
  <1> QED BY <1>7

LEMMA BracketGoes ==
  ASSUME NEW d, LoweringOK(d), IsSeq(d.groups), Len(d.groups) <= MaxCaptures,
         NEW i \in Nat, Numbered(d, i), Compiler!Tree(d, i).end \in Int,
         Compiler!Tree(d, i).end > i
  PROVE  Goes(d, Compiler!Bracket(d, i))
  <1>1. PICK n : n = Len(d.code)
    OBVIOUS
  <1>2. PICK x, y : BracketBy(d, i, n, x, y)
    BY <1>1, BracketIs
  <1>3. PICK e : e = Compiler!Emit(d, <<x, y>>)
    OBVIOUS
  <1>4. Goes(d, e)
    BY <1>2, <1>3, TwoInstrs, EmitGoes DEF BracketBy
  <1>5. PICK w : w = Compiler!Wrapped(e, i, n + 1, n, n + 1)
    OBVIOUS
  <1>6. Goes(d, w)
    BY <1>4, <1>5, WrappedGoes, GoesOnwards DEF Goes
  <1> QED BY <1>2, <1>3, <1>4, <1>5, <1>6 DEF BracketBy

(* What Loop emits for node i and the quantity q                           *)
LoopBy(d, i, q, n, x, y, bound) ==
  /\ InstrOK(x) /\ x.op = "REPEAT" /\ x.a = d.first[i] /\ x.b = i
  /\ x.next = NONE /\ x.min = q[2] /\ x.max = q[3]
  /\ InstrOK(y) /\ y.op = "REPEAT_END" /\ y.a = n
  /\ Compiler!Loop(d, i, q) = Compiler!Looped(Compiler!Emit(d, <<x, y>>), i, bound, n)

LEMMA LoopIs ==
  ASSUME NEW d, NEW i, NEW q, NEW n, n = Len(d.code), q[1] = "OK", d.first[i] # NONE
  PROVE  \E x, y, bound : LoopBy(d, i, q, n, x, y, bound)
  <1>. DEFINE x == [Compiler!Instruction("REPEAT", d.first[i], i) EXCEPT
                      !.min = q[2], !.max = q[3]]
              y == Compiler!Instruction("REPEAT_END", n, 0)
              bound == IF q[3] = Compiler!Unbounded THEN q[2] ELSE q[3]
  <1>1. InstrOK(y) /\ y.op = "REPEAT_END" /\ y.a = n
    BY DEF InstrOK, Consuming, Compiler!Instruction
  <1>2. x = [op |-> "REPEAT", a |-> d.first[i], b |-> i, next |-> Compiler!NONE,
             min |-> q[2], max |-> q[3]]
    <2>. DEFINE z == Compiler!Instruction("REPEAT", d.first[i], i)
    <2>1. z = [op |-> "REPEAT", a |-> d.first[i], b |-> i, next |-> Compiler!NONE,
               min |-> 0, max |-> 0]
      BY DEF Compiler!Instruction
    <2>2. x = [z EXCEPT !.min = q[2], !.max = q[3]]
      OBVIOUS
    <2>. HIDE DEF x, z
    <2> QED BY <2>1, <2>2
  <1>3. Compiler!Loop(d, i, q) = Compiler!Looped(Compiler!Emit(d, <<x, y>>), i, bound, n)
    BY DEF Compiler!Loop, Compiler!NONE, NONE
  <1>. HIDE DEF x, y, bound
  <1>4. /\ InstrOK(x) /\ x.op = "REPEAT" /\ x.a = d.first[i] /\ x.b = i
        /\ x.next = NONE /\ x.min = q[2] /\ x.max = q[3]
    BY <1>2 DEF InstrOK, Consuming, Compiler!NONE, NONE
  <1>5. LoopBy(d, i, q, n, x, y, bound)
    BY <1>1, <1>3, <1>4 DEF LoopBy
  <1> QED BY <1>5

(* The bound of repetitions is no part of what is lowered.                 *)
LEMMA LoopedIs ==
  ASSUME NEW e, LoweringOK(e), NEW i, NEW bound, NEW n, Compiler!Lowers(e)
  PROVE  \E f : /\ Goes(e, f) /\ f.code = e.code /\ f.first = e.first /\ f.tail = e.tail
                /\ Compiler!Looped(e, i, bound, n) = Compiler!Wrapped(f, i, n + 1, n, n)
  <1>. DEFINE most == IF bound > e.repeat_bound THEN bound ELSE e.repeat_bound
              f == [e EXCEPT !.repeat_bound = most]
  <1>1. Compiler!Looped(e, i, bound, n) = Compiler!Wrapped(f, i, n + 1, n, n)
    BY DEF Compiler!Looped
  <1>. HIDE DEF most
  <1>2. Goes(e, f) /\ f.code = e.code /\ f.first = e.first /\ f.tail = e.tail
    BY DEF Goes, LoweringOK
  <1>. HIDE DEF f
  <1> QED BY <1>1, <1>2

LEMMA LoopGoes ==
  ASSUME NEW d, LoweringOK(d), NEW i, NEW q
  PROVE  Goes(d, Compiler!Loop(d, i, q))
  <1>1. CASE q[1] = "OK" /\ d.first[i] # NONE
    <2>1. PICK n : n = Len(d.code)
      OBVIOUS
    <2>2. PICK x, y, bound : LoopBy(d, i, q, n, x, y, bound)
      BY <1>1, <2>1, LoopIs
    <2>3. PICK e : e = Compiler!Emit(d, <<x, y>>)
      OBVIOUS
    <2>4. Goes(d, e)
      BY <2>2, <2>3, TwoInstrs, EmitGoes DEF LoopBy
    <2>5. CASE Compiler!Lowers(e)
      <3>1. PICK f : /\ Goes(e, f)
                     /\ Compiler!Looped(e, i, bound, n) = Compiler!Wrapped(f, i, n + 1, n, n)
        BY <2>4, <2>5, LoopedIs DEF Goes
      <3>2. Goes(f, Compiler!Wrapped(f, i, n + 1, n, n))
        BY <3>1, WrappedGoes DEF Goes
      <3> QED BY <2>2, <2>3, <2>4, <3>1, <3>2, GoesOnwards DEF LoopBy
    <2>6. CASE ~Compiler!Lowers(e)
      BY <2>2, <2>3, <2>4, <2>6 DEF Compiler!Looped, LoopBy
    <2> QED BY <2>5, <2>6
  <1>2. CASE ~(q[1] = "OK" /\ d.first[i] # NONE)
    <2>1. Compiler!Loop(d, i, q) \in {Compiler!Stop(d, q[1]), Compiler!Stop(d, "LIMIT")}
      BY <1>2 DEF Compiler!Loop, Compiler!NONE, NONE
    <2> QED BY <2>1, StopGoes
  <1> QED BY <1>1, <1>2

LEMMA QuantifiedGoes ==
  ASSUME NEW d, LoweringOK(d), NEW i
  PROVE  Goes(d, Compiler!Quantified(d, i))
  <1>1. \/ Compiler!Quantified(d, i) = d
        \/ Compiler!Quantified(d, i) = Compiler!Stop(d, "BADPAT")
        \/ \E q : Compiler!Quantified(d, i) = Compiler!Loop(d, i, q)
    BY DEF Compiler!Quantified
  <1> QED BY <1>1, LoopGoes, GoesSame, StopGoes

LEMMA SingleGoes ==
  ASSUME NEW d, LoweringOK(d), NEW i
  PROVE  Goes(d, Compiler!Single(d, i))
  <1>1. \/ Compiler!Single(d, i) = d
        \/ \E n : Compiler!Single(d, i) = Compiler!Spans(d, i, n, n)
    BY DEF Compiler!Single
  <1> QED BY <1>1, SpansGoes, GoesSame

LEMMA SimpleGoes ==
  ASSUME NEW d, LoweringOK(d), NEW i, Compiler!Name(d, i) \in Compiler!Simple
  PROVE  Goes(d, Compiler!Emit(d, <<Compiler!SimpleInstruction(d, i)>>))
  <1>. DEFINE x == Compiler!SimpleInstruction(d, i)
  <1>1. \E op, a : /\ x = Compiler!Instruction(op, a, 0)
                   /\ op \in {"CHAR", "ANY", "BEGIN", "END"}
    BY DEF Compiler!SimpleInstruction, Compiler!Simple
  <1>. HIDE DEF x
  <1>2. InstrOK(x)
    BY <1>1 DEF InstrOK, Compiler!Instruction, Consuming
  <1> QED BY <1>2, OneInstr, EmitGoes DEF x

LEMMA ReferenceGoes ==
  ASSUME NEW d, LoweringOK(d), IsSeq(d.groups), Len(d.groups) <= MaxCaptures, NEW i
  PROVE  Goes(d, Compiler!LowerReference(d, i))
  <1>. DEFINE v == Compiler!Scalar(d, i, 1) - 48
              x == Compiler!Instruction("REF", v, 0)
  <1>1. \/ Compiler!LowerReference(d, i) = Compiler!Stop(d, "BADPAT")
        \/ /\ v \in DOMAIN d.groups
           /\ Compiler!LowerReference(d, i) = Compiler!Emit(d, <<x>>)
    BY DEF Compiler!LowerReference
  <1>2. CASE v \in DOMAIN d.groups
    <2>1. v \in 1 .. MaxCaptures
      <3>1. /\ Len(d.groups) \in Nat /\ DOMAIN d.groups = 1 .. Len(d.groups)
            /\ Len(d.groups) <= 9
        BY AnySeq DEF IsSeq, MaxCaptures
      <3>. HIDE DEF v
      <3> QED BY <1>2, <3>1 DEF MaxCaptures
    <2>. HIDE DEF v
    <2>2. InstrOK(x)
      BY <2>1 DEF InstrOK, Compiler!Instruction, Consuming
    <2>3. Goes(d, Compiler!Emit(d, <<x>>))
      <3>. HIDE DEF x
      <3> QED BY <2>2, OneInstr, EmitGoes
    <2> QED BY <1>1, <2>3, StopGoes DEF v
  <1>3. CASE v \notin DOMAIN d.groups
    BY <1>1, <1>3, StopGoes
  <1> QED BY <1>2, <1>3

LEMMA AcceptingGoes ==
  ASSUME NEW d, LoweringOK(d)
  PROVE  Goes(d, Compiler!Accepting(d))
  <1>. DEFINE x == Compiler!Instruction("ACCEPT", 0, 0)
              n == Len(d.code)
              e == Compiler!Emit(d, <<x>>)
              entry == IF d.first[0] = Compiler!NONE THEN n ELSE d.first[0]
              f == [e EXCEPT !.entry = entry]
              l == Compiler!Link(f, d.tail[0], n)
              y == Compiler!Accepting(d)
  <1>1. InstrOK(x)
    BY DEF InstrOK, Compiler!Instruction, Consuming
  <1>. HIDE DEF x
  <1>2. Goes(d, e)
    BY <1>1, OneInstr, EmitGoes
  <1>3. y = e \/ y = f \/ y = l
    BY DEF Compiler!Accepting, x
  <1>. HIDE DEF e, entry, n, y
  <1>4. Goes(e, f)
    BY <1>2 DEF Goes, LoweringOK
  <1>. HIDE DEF f
  <1>5. Goes(f, l)
    BY <1>4, LinkGoes DEF Goes
  <1>. HIDE DEF l
  <1>6. Goes(d, y)
    BY <1>2, <1>3, <1>4, <1>5, GoesOnwards
  <1> QED BY <1>6 DEF y

(* The first pass gives the groups their numbers, as long as there are any.*)
LEMMA ReservedIs ==
  ASSUME NEW d, LoweringOK(d), IsSeq(d.groups), Len(d.groups) <= MaxCaptures,
         d.limits.max_captures \in 0 .. MaxCaptures,
         Len(d.groups) <= d.limits.max_captures, NEW i,
         NEW e, e = Compiler!Reserved(d, i)
  PROVE  /\ LoweringOK(e) /\ e.nodes = d.nodes /\ e.limits = d.limits
         /\ IsSeq(e.groups) /\ Len(e.groups) <= d.limits.max_captures
         /\ \A j : Numbered(d, j) => Numbered(e, j)
         /\ Compiler!Lowers(e) /\ Compiler!Name(d, i) = "Group" => Numbered(e, i)
  <1>. DEFINE w == Compiler!Work(d)
              n == Compiler!GroupDepth(d, i)
              g == Append(w.groups, i)
              depth == IF n > w.depth THEN n ELSE w.depth
              m == [w EXCEPT !.groups = g, !.depth = depth]
  <1>1. Goes(d, w)
    BY WorkGoes
  <1>2. \/ /\ e \in {w, Compiler!Stop(w, "UNSUPPORTED"), Compiler!Stop(w, "LIMIT")}
           /\ Compiler!Lowers(e) => Compiler!Name(d, i) # "Group"
        \/ Len(d.groups) # d.limits.max_captures /\ e = m
    <2>1. \/ e = w /\ ~Compiler!Lowers(w)
          \/ e = Compiler!Stop(w, "UNSUPPORTED")
          \/ e = w /\ Compiler!Name(d, i) # "Group"
          \/ e = Compiler!Stop(w, "LIMIT")
          \/ Len(d.groups) # d.limits.max_captures /\ e = m
      BY DEF Compiler!Reserved
    <2>2. \A s : s # "OK" => ~Compiler!Lowers(Compiler!Stop(w, s))
      BY <1>1 DEF Compiler!Lowers, Compiler!Stop, Goes, LoweringOK
    <2>. HIDE DEF w, m
    <2> QED BY <2>1, <2>2
  <1>3. ASSUME NEW x, Goes(d, x)
        PROVE  /\ IsSeq(x.groups) /\ Len(x.groups) <= d.limits.max_captures
               /\ \A j : Numbered(d, j) => Numbered(x, j)
               /\ LoweringOK(x) /\ x.nodes = d.nodes /\ x.limits = d.limits
    BY <1>3 DEF Goes, Numbered
  <1>4. CASE e \in {w, Compiler!Stop(w, "UNSUPPORTED"), Compiler!Stop(w, "LIMIT")}
             /\ (Compiler!Lowers(e) => Compiler!Name(d, i) # "Group")
    <2>1. Goes(d, e)
      <3>. HIDE DEF w
      <3>1. \A s : Goes(w, Compiler!Stop(w, s))
        BY <1>1, StopGoes DEF Goes
      <3> QED BY <1>1, <1>4, <3>1, GoesOnwards
    <2> QED BY <1>3, <1>4, <2>1
  <1>5. CASE Len(d.groups) # d.limits.max_captures /\ e = m
    <2>1. w.groups = d.groups /\ Len(d.groups) \in Nat
      BY <1>1 DEF Goes, IsSeq
    <2>2. /\ IsSeq(g) /\ Len(g) = Len(d.groups) + 1
          /\ \A k \in 1 .. Len(d.groups) : g[k] = d.groups[k]
          /\ g[Len(d.groups) + 1] = i
      BY <2>1, Appended
    <2>. HIDE DEF g, depth, w
    <2>3. LoweringOK(e) /\ e.nodes = d.nodes /\ e.limits = d.limits /\ e.groups = g
      BY <1>1, <1>5 DEF Goes, LoweringOK
    <2>4. Len(g) <= d.limits.max_captures
      BY <1>5, <2>1, <2>2
    <2>5. Numbered(e, i)
      BY <2>1, <2>2, <2>3 DEF Numbered
    <2>6. ASSUME NEW j, Numbered(d, j) PROVE Numbered(e, j)
      <3>1. PICK k \in 1 .. Len(d.groups) : d.groups[k] = j
        BY <2>6 DEF Numbered
      <3>2. k \in 1 .. Len(g) /\ g[k] = j
        BY <2>1, <2>2, <3>1
      <3> QED BY <2>3, <3>2 DEF Numbered
    <2> QED BY <2>2, <2>3, <2>4, <2>5, <2>6
  <1> QED BY <1>2, <1>4, <1>5

-----------------------------------------------------------------------------
(* What holds of a compilation: its lowering has good instructions, each   *)
(* group node gets a number in the first pass, and so a program that comes *)
(* of it has good instructions.                                            *)
Valid(limits1) == LimitsStatus(limits1) = "OK"

CompileOK ==
  /\ source \in Sources
  /\ stage \in {"parse", "number", "lower", "accept"} => Valid(source.limits)
  /\ stage \in {"number", "lower", "accept"} =>
       /\ LoweringOK(c) /\ c.nodes = source.nodes /\ c.limits = source.limits
       /\ IsSeq(c.groups) /\ Len(c.groups) <= c.limits.max_captures
  /\ stage \in {"number", "lower"} => at \in 0 .. Len(source.nodes)
  /\ stage = "number" =>
       \A i \in 0 .. at - 1 :
         Compiler!Lowers(c) /\ Compiler!Name(c, i) = "Group" => Numbered(c, i)
  /\ stage = "lower" =>
       \A i \in 0 .. Len(source.nodes) - 1 :
         Compiler!Name(c, i) = "Group" => Numbered(c, i)
  /\ answer = "OK" => CodeOK(compiled.code)

LEMMA ValidLimits ==
  ASSUME NEW l \in [DOMAIN Ceilings -> Nat], Valid(l)
  PROVE  \A f \in DOMAIN Ceilings : l[f] \in 1 .. Ceilings[f]
  <1>1. ASSUME NEW f \in DOMAIN Ceilings PROVE l[f] \in 1 .. Ceilings[f]
    <2>1. l[f] # 0 /\ ~(l[f] > Ceilings[f]) /\ l[f] \in Nat
      BY DEF Valid, LimitsStatus
    <2>2. Ceilings[f] \in Int
      BY WordAssumption DEF Ceilings, MaxCaptures
    <2> QED BY <2>1, <2>2
  <1> QED BY <1>1

LEMMA FewGroups ==
  ASSUME CompileOK, stage \in {"parse", "number", "lower", "accept"}
  PROVE  /\ source.limits.max_captures \in 0 .. MaxCaptures
         /\ Len(source.nodes) \in Nat
         /\ \A i \in 0 .. Len(source.nodes) - 1 :
              /\ source.nodes[i + 1].end \in Int
              /\ source.nodes[i + 1].end > i
  <1>1. /\ source.limits \in [DOMAIN Ceilings -> Nat] /\ Valid(source.limits)
        /\ Len(source.nodes) \in Nat
        /\ \A k \in 1 .. Len(source.nodes) :
             source.nodes[k].end \in k .. Len(source.nodes)
    BY SourcesAssumption DEF CompileOK
  <1>2. source.limits["max_captures"] \in 1 .. Ceilings["max_captures"]
    <2>1. "max_captures" \in DOMAIN Ceilings
      BY DEF Ceilings
    <2> QED BY <1>1, <2>1, ValidLimits
  <1>3. source.limits.max_captures \in 0 .. MaxCaptures
    BY <1>2 DEF Ceilings, MaxCaptures
  <1>4. ASSUME NEW i \in 0 .. Len(source.nodes) - 1
        PROVE  source.nodes[i + 1].end \in Int /\ source.nodes[i + 1].end > i
    <2>1. i + 1 \in 1 .. Len(source.nodes)
      BY <1>1
    <2>2. source.nodes[i + 1].end \in i + 1 .. Len(source.nodes)
      BY <1>1, <2>1
    <2> QED BY <1>1, <2>2
  <1> QED BY <1>1, <1>3, <1>4

(* A call that is over leaves nothing behind but its answer.               *)
LEMMA FailOK ==
  ASSUME CompileOK, NEW s, s # "OK", Compiler!Fail(s)
  PROVE  CompileOK'
  BY DEF CompileOK, Compiler!Fail, Compiler!Return

LEMMA EmptySequence == IsSeq(<<>>) /\ Len(<<>>) = 0
  <1>1. <<>> \in Seq({}) /\ Len(<<>>) = 0
    OBVIOUS
  <1> QED BY <1>1, TypedSeq

LEMMA StartsOK ==
  ASSUME CompileOK, Compiler!Allocate \/ Compiler!StartLowering
  PROVE  CompileOK'
  <1>1. CASE Compiler!Allocate
    <2>1. Valid(source.limits)
      BY <1>1 DEF Compiler!Allocate, Compiler!Refusal, Valid, Compiler!LimitsStatus,
                  LimitsStatus, Compiler!Ceilings, Ceilings, Compiler!MaxCaptures,
                  MaxCaptures
    <2> QED BY <1>1, <2>1 DEF CompileOK, Compiler!Allocate, Compiler!Advance
  <1>2. CASE Compiler!StartLowering
    <2>. DEFINE d == Compiler!Lowering(source.nodes, source.limits, source.length)
    <2>1. /\ stage = "parse" /\ stage' = "number" /\ c' = d /\ at' = 0
          /\ UNCHANGED <<source, compiled, answer>>
      BY <1>2 DEF Compiler!StartLowering, Compiler!Advance
    <2>2. /\ LoweringOK(d) /\ d.nodes = source.nodes /\ d.limits = source.limits
          /\ IsSeq(d.groups) /\ Len(d.groups) = 0
      BY EmptySequence DEF Compiler!Lowering, LoweringOK, CodeOK
    <2>. HIDE DEF d
    <2>3. source.limits.max_captures \in Nat /\ Len(source.nodes) \in Nat
      BY <2>1, FewGroups DEF MaxCaptures
    <2> QED BY <2>1, <2>2, <2>3 DEF CompileOK
  <1> QED BY <1>1, <1>2

LEMMA NumberNodeOK ==
  ASSUME CompileOK, Compiler!NumberNode
  PROVE  CompileOK'
  <1>. DEFINE e == Compiler!Reserved(c, at)
              n == Len(source.nodes)
  <1>1. /\ stage = "number" /\ c.nodes = source.nodes /\ c.limits = source.limits
        /\ LoweringOK(c) /\ IsSeq(c.groups) /\ Len(c.groups) <= c.limits.max_captures
        /\ at \in 0 .. n
    BY DEF Compiler!NumberNode, CompileOK
  <1>2. at < n /\ Compiler!Lowers(c)
    BY <1>1 DEF Compiler!NumberNode
  <1>3. /\ c' = e /\ at' = at + 1
        /\ UNCHANGED <<source, stage, compiled, answer>>
    BY DEF Compiler!NumberNode, Compiler!Lower
  <1>4. source.limits.max_captures \in 0 .. MaxCaptures /\ n \in Nat
    BY <1>1, FewGroups
  <1>5. Len(c.groups) <= MaxCaptures
    BY <1>1, <1>4 DEF IsSeq, MaxCaptures
  <1>6. /\ LoweringOK(e) /\ e.nodes = c.nodes /\ e.limits = c.limits
        /\ IsSeq(e.groups) /\ Len(e.groups) <= c.limits.max_captures
        /\ \A j : Numbered(c, j) => Numbered(e, j)
        /\ Compiler!Lowers(e) /\ Compiler!Name(c, at) = "Group" => Numbered(e, at)
    BY <1>1, <1>4, <1>5, ReservedIs
  <1>. HIDE DEF e
  <1>7. ASSUME NEW i \in 0 .. at, Compiler!Lowers(e), Compiler!Name(e, i) = "Group"
        PROVE  Numbered(e, i)
    <2>1. Compiler!Name(c, i) = "Group"
      BY <1>6, <1>7 DEF Compiler!Name, Compiler!Tree
    <2>2. CASE i = at
      BY <1>6, <1>7, <2>1, <2>2
    <2>3. CASE i # at
      <3>1. i \in 0 .. at - 1
        BY <1>1, <2>3
      <3> QED BY <1>1, <1>2, <1>6, <2>1, <3>1 DEF CompileOK
    <2> QED BY <2>2, <2>3
  <1>8. at + 1 \in 0 .. n /\ at + 1 - 1 = at
    BY <1>1, <1>2, <1>4
  <1>9. /\ LoweringOK(c') /\ c'.nodes = source'.nodes /\ c'.limits = source'.limits
        /\ IsSeq(c'.groups) /\ Len(c'.groups) <= c'.limits.max_captures
    BY <1>1, <1>3, <1>6
  <1>10. \A i \in 0 .. at' - 1 :
           Compiler!Lowers(c') /\ Compiler!Name(c', i) = "Group" => Numbered(c', i)
    <2>1. at' - 1 = at /\ c' = e
      BY <1>1, <1>3, <1>4
    <2> QED BY <1>7, <2>1 DEF Compiler!Name, Compiler!Tree, Compiler!Lowers, Numbered
  <1> QED BY <1>1, <1>3, <1>8, <1>9, <1>10 DEF CompileOK

(* A step of the second pass                                               *)
LEMMA EmittedOK ==
  ASSUME CompileOK, stage = "lower", at > 0, NEW d, Goes(c, d),
         Compiler!Lower(d, Compiler!Node)
  PROVE  CompileOK'
  <1>. DEFINE n == Len(source.nodes)
  <1>1. /\ at \in 0 .. n /\ n \in Nat /\ c.nodes = source.nodes
        /\ c.limits = source.limits
        /\ IsSeq(c.groups) /\ Len(c.groups) <= c.limits.max_captures
        /\ \A i \in 0 .. n - 1 : Compiler!Name(c, i) = "Group" => Numbered(c, i)
    BY FewGroups DEF CompileOK
  <1>2. /\ c' = d /\ at' = at - 1
        /\ UNCHANGED <<source, stage, compiled, answer>>
    BY DEF Compiler!Lower, Compiler!Node
  <1>3. /\ LoweringOK(d) /\ d.nodes = source.nodes /\ d.limits = source.limits
        /\ d.groups = c.groups
    BY <1>1 DEF Goes
  <1>4. at - 1 \in 0 .. n
    BY <1>1
  <1>5. \A i \in 0 .. n - 1 : Compiler!Name(c', i) = "Group" => Numbered(c', i)
    <2>1. c'.nodes = c.nodes /\ c'.groups = c.groups
      BY <1>1, <1>2, <1>3
    <2> QED BY <1>1, <2>1 DEF Compiler!Name, Compiler!Tree, Numbered
  <1>6. /\ LoweringOK(c') /\ c'.nodes = source'.nodes /\ c'.limits = source'.limits
        /\ IsSeq(c'.groups) /\ Len(c'.groups) <= c'.limits.max_captures
    BY <1>1, <1>2, <1>3
  <1>7. stage' = "lower" /\ source' = source /\ at' \in 0 .. n
        /\ UNCHANGED <<compiled, answer>>
    BY <1>2, <1>4
  <1> QED BY <1>5, <1>6, <1>7 DEF CompileOK

LEMMA EmitsOK ==
  ASSUME CompileOK,
         \/ Compiler!SkipTerminal \/ Compiler!EmitSimple \/ Compiler!EmitClass
         \/ Compiler!EmitReference \/ Compiler!EmitGroup \/ Compiler!EmitLoop
  PROVE  CompileOK'
  <1>. DEFINE i == Compiler!Node
              w == Compiler!Work(c)
              n == Len(source.nodes)
  <1>1. /\ stage = "lower" /\ at > 0 /\ Compiler!Lowers(c)
    BY DEF Compiler!SkipTerminal, Compiler!EmitSimple, Compiler!EmitClass,
           Compiler!EmitReference, Compiler!EmitGroup, Compiler!EmitLoop,
           Compiler!Emitting
  <1>2. /\ LoweringOK(c) /\ c.nodes = source.nodes /\ c.limits = source.limits
        /\ IsSeq(c.groups) /\ Len(c.groups) <= c.limits.max_captures
        /\ at \in 0 .. n /\ n \in Nat
    BY <1>1, FewGroups DEF CompileOK
  <1>3. Len(c.groups) <= MaxCaptures
    <2>1. source.limits.max_captures \in 0 .. MaxCaptures /\ Len(c.groups) \in Nat
      BY <1>1, <1>2, FewGroups DEF IsSeq
    <2> QED BY <1>2, <2>1 DEF MaxCaptures
  <1>4. i \in 0 .. n - 1 /\ i \in Nat
    BY <1>1, <1>2 DEF Compiler!Node
  <1>. HIDE DEF i, n
  <1>5. Goes(c, w)
    BY <1>2, WorkGoes
  <1>. HIDE DEF w
  <1>6. ASSUME NEW d, Goes(c, d)
        PROVE  /\ LoweringOK(d) /\ IsSeq(d.groups) /\ Len(d.groups) <= MaxCaptures
               /\ Compiler!Tree(d, i).end \in Int /\ Compiler!Tree(d, i).end > i
               /\ Compiler!Name(d, i) = Compiler!Name(c, i)
               /\ Compiler!Name(c, i) = "Group" => Numbered(d, i)
    <2>1. d.nodes = source.nodes /\ d.groups = c.groups /\ LoweringOK(d)
      BY <1>2, <1>6 DEF Goes
    <2>2. source.nodes[i + 1].end \in Int /\ source.nodes[i + 1].end > i
      BY <1>1, <1>4, FewGroups DEF n
    <2>3. Compiler!Name(c, i) = "Group" => Numbered(c, i)
      BY <1>1, <1>4 DEF CompileOK, n
    <2> QED BY <1>2, <1>3, <2>1, <2>2, <2>3
            DEF Compiler!Tree, Compiler!Name, Numbered
  <1>7. ASSUME NEW d, Goes(w, d), Compiler!Lower(d, i) PROVE CompileOK'
    <2>1. Goes(c, d)
      BY <1>5, <1>7, GoesOnwards
    <2> QED BY <1>1, <1>7, <2>1, EmittedOK DEF i
  <1>8. Goes(w, w)
    BY <1>5, GoesSame DEF Goes
  <1>9. CASE Compiler!SkipTerminal
    <2>1. Goes(c, c)
      BY <1>2, GoesSame
    <2> QED BY <1>1, <1>9, <2>1, EmittedOK DEF Compiler!SkipTerminal
  <1>10. CASE Compiler!EmitSimple
    <2>. DEFINE e == Compiler!Emit(w, <<Compiler!SimpleInstruction(w, i)>>)
                s == Compiler!Single(e, i)
    <2>1. Compiler!Lower(w, i) \/ Compiler!Lower(s, i)
      BY <1>10 DEF Compiler!EmitSimple, w, i
    <2>2. Compiler!Name(w, i) \in Compiler!Simple
      BY <1>5, <1>6, <1>10 DEF Compiler!EmitSimple, Compiler!Emitting, i
    <2>3. Goes(w, e)
      BY <1>5, <2>2, SimpleGoes DEF Goes
    <2>. HIDE DEF e
    <2>4. Goes(w, s)
      BY <2>3, SingleGoes, GoesOnwards DEF Goes
    <2>. HIDE DEF s
    <2> QED BY <1>7, <1>8, <2>1, <2>4
  <1>11. CASE Compiler!EmitClass
    <2>. DEFINE e == Compiler!LowerClass(w, i)
                s == Compiler!Single(e, i)
    <2>1. Compiler!Lower(s, i)
      BY <1>11 DEF Compiler!EmitClass, w, i
    <2>2. Goes(w, e)
      BY <1>4, <1>5, <1>6, LowerClassGoes
    <2>. HIDE DEF e
    <2>3. Goes(w, s)
      BY <2>2, SingleGoes, GoesOnwards DEF Goes
    <2>. HIDE DEF s
    <2> QED BY <1>7, <2>1, <2>3
  <1>12. CASE Compiler!EmitReference
    <2>. DEFINE e == Compiler!LowerReference(w, i)
                s == Compiler!Single(e, i)
    <2>1. Compiler!Lower(w, i) \/ Compiler!Lower(s, i)
      BY <1>12 DEF Compiler!EmitReference, w, i
    <2>2. Goes(w, e)
      BY <1>5, <1>6, ReferenceGoes
    <2>. HIDE DEF e
    <2>3. Goes(w, s)
      BY <2>2, SingleGoes, GoesOnwards DEF Goes
    <2>. HIDE DEF s
    <2> QED BY <1>7, <1>8, <2>1, <2>3
  <1>13. CASE Compiler!EmitGroup
    <2>. DEFINE e == Compiler!Join(w, i)
                s == Compiler!Bracket(e, i)
    <2>1. Compiler!Lower(w, i) \/ Compiler!Lower(s, i)
      BY <1>13 DEF Compiler!EmitGroup, w, i
    <2>2. Goes(w, e)
      BY <1>4, <1>5, <1>6, JoinGoes
    <2>. HIDE DEF e
    <2>3. Goes(c, e)
      BY <1>5, <2>2, GoesOnwards
    <2>4. Compiler!Name(c, i) = "Group"
      BY <1>13 DEF Compiler!EmitGroup, Compiler!Emitting, i
    <2>5. Goes(e, s)
      BY <1>4, <1>6, <2>3, <2>4, BracketGoes
    <2>. HIDE DEF s
    <2>6. Goes(w, s)
      BY <2>2, <2>5, GoesOnwards
    <2> QED BY <1>7, <1>8, <2>1, <2>6
  <1>14. CASE Compiler!EmitLoop
    <2>. DEFINE e == Compiler!Join(w, i)
                s == Compiler!Quantified(e, i)
    <2>1. Compiler!Lower(w, i) \/ Compiler!Lower(s, i)
      BY <1>14 DEF Compiler!EmitLoop, w, i
    <2>2. Goes(w, e)
      BY <1>4, <1>5, <1>6, JoinGoes
    <2>. HIDE DEF e
    <2>3. Goes(w, s)
      BY <2>2, QuantifiedGoes, GoesOnwards DEF Goes
    <2>. HIDE DEF s
    <2> QED BY <1>7, <1>8, <2>1, <2>3
  <1> QED BY <1>9, <1>10, <1>11, <1>12, <1>13, <1>14

LEMMA CompileStepOK ==
  ASSUME CompileOK, Compiler!Next
  PROVE  CompileOK'
  <1>1. CASE \/ Compiler!Refuse \/ Compiler!AllocateNoMem \/ Compiler!SyntaxFails
             \/ Compiler!CodeNoMem \/ Compiler!Refused
    <2>1. \E s : s # "OK" /\ Compiler!Fail(s)
      BY <1>1 DEF Compiler!Refuse, Compiler!AllocateNoMem, Compiler!SyntaxFails,
                  Compiler!CodeNoMem, Compiler!Refused, Compiler!Lowers
    <2> QED BY <2>1, FailOK
  <1>2. CASE Compiler!StartEmitting
    <2>1. /\ stage = "number" /\ Compiler!Lowers(c) /\ at = Len(c.nodes)
          /\ stage' = "lower" /\ UNCHANGED <<source, compiled, answer, c, at>>
      BY <1>2 DEF Compiler!StartEmitting, Compiler!Advance
    <2>2. c.nodes = source.nodes
      BY <2>1 DEF CompileOK
    <2>3. \A i \in 0 .. Len(source.nodes) - 1 :
            Compiler!Name(c, i) = "Group" => Numbered(c, i)
      BY <2>1, <2>2 DEF CompileOK
    <2> QED BY <2>1, <2>3
            DEF CompileOK, Compiler!Name, Compiler!Tree, Numbered
  <1>3. CASE Compiler!EmitAccept
    <2>. DEFINE d == Compiler!Accepting(c)
    <2>1. /\ stage = "lower" /\ stage' = "accept" /\ c' = d
          /\ UNCHANGED <<source, compiled, answer, at>>
      BY <1>3 DEF Compiler!EmitAccept, Compiler!Advance
    <2>2. Goes(c, d)
      BY <2>1, AcceptingGoes DEF CompileOK
    <2>. HIDE DEF d
    <2> QED BY <2>1, <2>2 DEF CompileOK, Goes
  <1>4. CASE Compiler!Publish
    BY <1>4 DEF Compiler!Publish, Compiler!Return, Compiler!Compiled, CompileOK,
                LoweringOK
  <1> QED BY <1>1, <1>2, <1>3, <1>4, StartsOK, NumberNodeOK, EmitsOK DEF Compiler!Next

-----------------------------------------------------------------------------
(* What the blocks of a run cost *)
Blocks(r) ==
  r.capacity * StateBytes + r.history_capacity * NodeBytes
  + r.priority_capacity * PriorityBytes

-----------------------------------------------------------------------------
(* The code of a lowering is a set of pieces still to be joined, each a    *)
(* pair: the instruction it is entered by and the one it is left by, which *)
(* goes nowhere yet.                                                       *)
IdsOf(q) == 0 .. Len(q) - 1

(* A set of instructions that no jump leaves, and one that no jump enters  *)
Shut(q, R)  == \A i \in R : Compiler!Follows(q[i + 1]) \subseteq R \cup {NONE}
Drawn(q, L) == \A i \in IdsOf(q) : Compiler!Follows(q[i + 1]) \cap L # {} => i \in L

(* Where the instruction i jumps to, if it is linked already               *)
Jumps(q, F, i) ==
  /\ q[i + 1].op # "ACCEPT"
  /\ q[i + 1].op # "REPEAT_END" => q[i + 1].next \in IdsOf(q) \/ \E u \in F : u[2] = i
  /\ q[i + 1].op = "REPEAT" => q[i + 1].a \in IdsOf(q)
  /\ q[i + 1].op = "REPEAT_END" =>
       q[i + 1].a \in IdsOf(q) /\ q[q[i + 1].a + 1].op = "REPEAT"

(* From the entry of a piece one comes to its end, and from the entries of *)
(* all pieces everywhere; and the same backwards.                          *)
Threaded(q, F) ==
  /\ F \subseteq IdsOf(q) \X IdsOf(q)
  /\ \A u \in F : q[u[2] + 1].next = NONE /\ q[u[2] + 1].op \notin {"ACCEPT", "REPEAT_END"}
  /\ \A u, v \in F : u[2] = v[2] => u = v
  /\ \A i \in IdsOf(q) : Jumps(q, F, i)
  /\ \A R \in SUBSET IdsOf(q) :
       Shut(q, R) => /\ \A u \in F : u[1] \in R => u[2] \in R
                     /\ (\A u \in F : u[1] \in R) => R = IdsOf(q)
  /\ \A L \in SUBSET IdsOf(q) :
       Drawn(q, L) => /\ \A u \in F : u[2] \in L => u[1] \in L
                      /\ (\A u \in F : u[2] \in L) => L = IdsOf(q)

(* Two instructions that are alike but for what follows them               *)
Akin(x, y) ==
  /\ x.op = y.op /\ x.a = y.a /\ x.b = y.b /\ x.min = y.min /\ x.max = y.max

(* e has the instructions of q, but one is linked.                         *)
Linking(q, e, t, n) ==
  /\ \A i \in IdsOf(q) \ {t} : e[i + 1] = q[i + 1]
  /\ Akin(e[t + 1], q[t + 1]) /\ e[t + 1].next = n

LEMMA FollowsIs ==
  ASSUME NEW q, NEW F, Threaded(q, F), NEW i \in IdsOf(q)
  PROVE  Compiler!Follows(q[i + 1]) \subseteq IdsOf(q) \cup {NONE}
  <1>1. Jumps(q, F, i)
    BY DEF Threaded
  <1>2. ASSUME NEW u \in F, u[2] = i
        PROVE  q[i + 1].next = NONE /\ q[i + 1].op \notin {"ACCEPT", "REPEAT_END"}
    BY <1>2 DEF Threaded
  <1>3. CASE q[i + 1].op = "REPEAT_END"
    BY <1>1, <1>2, <1>3 DEF Jumps, Compiler!Follows
  <1>4. CASE q[i + 1].op # "REPEAT_END"
    BY <1>1, <1>2, <1>4 DEF Jumps, Compiler!Follows
  <1> QED BY <1>3, <1>4

(* A piece that has lost its end to a link: the jumps of its last          *)
(* instruction.                                                            *)
LEMMA LinkedFollows ==
  ASSUME NEW q, NEW F, Threaded(q, F), NEW u \in F, NEW e, NEW n,
         e[u[2] + 1].op = q[u[2] + 1].op, e[u[2] + 1].a = q[u[2] + 1].a,
         e[u[2] + 1].next = n
  PROVE  /\ n \in Compiler!Follows(e[u[2] + 1])
         /\ Compiler!Follows(e[u[2] + 1]) \subseteq Compiler!Follows(q[u[2] + 1]) \cup {n}
         /\ Compiler!Follows(q[u[2] + 1]) \subseteq Compiler!Follows(e[u[2] + 1]) \cup {NONE}
  BY DEF Threaded, Compiler!Follows

LEMMA MergeThreads ==
  ASSUME NEW q, NEW F, Threaded(q, F), NEW u \in F, NEW v \in F, u # v,
         Len(q) \in Nat, NEW e, Len(e) = Len(q), Linking(q, e, u[2], v[1])
  PROVE  Threaded(e, (F \ {u, v}) \cup {<<u[1], v[2]>>})
  <1>. DEFINE G == (F \ {u, v}) \cup {<<u[1], v[2]>>}
              I == IdsOf(q)
  <1>1. /\ F \subseteq I \X I /\ IdsOf(e) = I /\ I \subseteq Nat
        /\ \A w \in F : q[w[2] + 1].next = NONE
                        /\ q[w[2] + 1].op \notin {"ACCEPT", "REPEAT_END"}
        /\ \A w, x \in F : w[2] = x[2] => w = x
    BY DEF Threaded, IdsOf
  <1>2. /\ u[1] \in I /\ u[2] \in I /\ v[1] \in I /\ v[2] \in I /\ u[2] # v[2]
    BY <1>1
  <1>3. /\ \A i \in I \ {u[2]} : e[i + 1] = q[i + 1]
        /\ e[u[2] + 1].op = q[u[2] + 1].op /\ e[u[2] + 1].a = q[u[2] + 1].a
        /\ e[u[2] + 1].next = v[1]
    BY DEF Linking, Akin
  <1>4. \A i \in I : e[i + 1].op = q[i + 1].op /\ e[i + 1].a = q[i + 1].a
    BY <1>3
  <1>5. ASSUME NEW w \in G
        PROVE  w[2] # u[2] /\ (w \in F \/ w = <<u[1], v[2]>>) /\ w \in I \X I
    BY <1>1, <1>2, <1>5
  <1>6. G \subseteq I \X I
    BY <1>5
  <1>7. ASSUME NEW w \in G
        PROVE  e[w[2] + 1].next = NONE /\ e[w[2] + 1].op \notin {"ACCEPT", "REPEAT_END"}
    <2>1. e[w[2] + 1] = q[w[2] + 1]
      BY <1>3, <1>5
    <2>2. CASE w \in F
      BY <1>1, <2>1, <2>2
    <2>3. CASE w = <<u[1], v[2]>>
      BY <1>1, <2>1, <2>3
    <2> QED BY <1>5, <2>2, <2>3
  <1>8. ASSUME NEW w \in G, NEW x \in G, w[2] = x[2]
        PROVE  w = x
    <2>1. ASSUME NEW y \in G PROVE y \in F \ {u, v} \/ y = <<u[1], v[2]>>
      OBVIOUS
    <2>2. \A y \in F \ {u, v} : y[2] # v[2]
      BY <1>1
    <2> QED BY <1>1, <1>8, <2>1, <2>2
  <1>9. ASSUME NEW i \in I PROVE Jumps(e, G, i)
    <2>1. Jumps(q, F, i)
      BY DEF Threaded
    <2>2. ASSUME e[i + 1].op # "REPEAT_END"
          PROVE  e[i + 1].next \in I \/ \E w \in G : w[2] = i
      <3>1. CASE i = u[2]
        BY <1>2, <1>3, <3>1
      <3>2. CASE i # u[2] /\ q[i + 1].next \in I
        BY <1>3, <3>2
      <3>3. CASE i # u[2] /\ \E w \in F : w[2] = i
        <4>1. PICK w \in F : w[2] = i
          BY <3>3
        <4>2. CASE w = v
          <5>1. <<u[1], v[2]>> \in G /\ <<u[1], v[2]>>[2] = i
            BY <4>1, <4>2
          <5> QED BY <5>1
        <4>3. CASE w # v
          BY <3>3, <4>1, <4>3
        <4> QED BY <4>2, <4>3
      <3> QED BY <1>4, <2>1, <2>2, <3>1, <3>2, <3>3 DEF Jumps
    <2> QED BY <1>1, <1>4, <2>1, <2>2 DEF Jumps
  <1>10. /\ v[1] \in Compiler!Follows(e[u[2] + 1])
         /\ Compiler!Follows(q[u[2] + 1]) \subseteq Compiler!Follows(e[u[2] + 1]) \cup {NONE}
    BY <1>3, LinkedFollows, SMTT(30)
  <1>. HIDE DEF G, I
  <1>11. ASSUME NEW R \in SUBSET I, Shut(e, R)
         PROVE  /\ \A w \in G : w[1] \in R => w[2] \in R
                /\ (\A w \in G : w[1] \in R) => R = I
    <2>1. Shut(q, R)
      <3>1. ASSUME NEW i \in R PROVE Compiler!Follows(q[i + 1]) \subseteq R \cup {NONE}
        <4>1. Compiler!Follows(e[i + 1]) \subseteq R \cup {NONE} /\ i \in I
          BY <1>11 DEF Shut
        <4>2. CASE i = u[2]
          BY <1>10, <4>1, <4>2
        <4>3. CASE i # u[2]
          BY <1>3, <4>1, <4>3
        <4> QED BY <4>2, <4>3
      <3> QED BY <3>1 DEF Shut
    <2>2. /\ \A w \in F : w[1] \in R => w[2] \in R
          /\ (\A w \in F : w[1] \in R) => R = I
      BY <2>1 DEF Threaded, I
    <2>3. u[1] \in R => v[1] \in R
      <3>1. ASSUME u[2] \in R PROVE v[1] \in R \cup {NONE}
        BY <1>10, <1>11, <3>1 DEF Shut
      <3>2. v[1] # NONE
        BY <1>1, <1>2 DEF NONE
      <3> QED BY <2>2, <3>1, <3>2
    <2>4. \A w \in G : w[1] \in R => w[2] \in R
      BY <2>2, <2>3 DEF G
    <2>5. ASSUME \A w \in G : w[1] \in R PROVE R = I
      <3>1. u[1] \in R
        <4>1. <<u[1], v[2]>> \in G /\ <<u[1], v[2]>>[1] = u[1]
          BY DEF G
        <4> QED BY <2>5, <4>1
      <3>2. \A w \in F \ {u, v} : w[1] \in R
        BY <2>5 DEF G
      <3> QED BY <2>2, <2>3, <3>1, <3>2
    <2> QED BY <2>4, <2>5
  <1>12. ASSUME NEW L \in SUBSET I, Drawn(e, L)
         PROVE  /\ \A w \in G : w[2] \in L => w[1] \in L
                /\ (\A w \in G : w[2] \in L) => L = I
    <2>1. Drawn(q, L)
      <3>1. ASSUME NEW i \in I, Compiler!Follows(q[i + 1]) \cap L # {} PROVE i \in L
        <4>1. Compiler!Follows(e[i + 1]) \cap L # {} => i \in L
          BY <1>1, <1>12 DEF Drawn
        <4>2. NONE \notin L
          BY <1>1 DEF NONE
        <4>3. CASE i = u[2]
          BY <1>10, <3>1, <4>1, <4>2, <4>3
        <4>4. CASE i # u[2]
          BY <1>3, <3>1, <4>1, <4>4
        <4> QED BY <4>3, <4>4
      <3> QED BY <3>1 DEF Drawn, I
    <2>2. /\ \A w \in F : w[2] \in L => w[1] \in L
          /\ (\A w \in F : w[2] \in L) => L = I
      BY <2>1 DEF Threaded, I
    <2>3. v[1] \in L => u[2] \in L
      BY <1>1, <1>2, <1>10, <1>12 DEF Drawn
    <2>4. \A w \in G : w[2] \in L => w[1] \in L
      BY <2>2, <2>3 DEF G
    <2>5. ASSUME \A w \in G : w[2] \in L PROVE L = I
      <3>1. v[2] \in L
        <4>1. <<u[1], v[2]>> \in G /\ <<u[1], v[2]>>[2] = v[2]
          BY DEF G
        <4> QED BY <2>5, <4>1
      <3>2. \A w \in F \ {u, v} : w[2] \in L
        BY <2>5 DEF G
      <3> QED BY <2>2, <2>3, <3>1, <3>2
    <2> QED BY <2>4, <2>5
  <1> QED BY <1>1, <1>6, <1>7, <1>8, <1>9, <1>11, <1>12 DEF Threaded, G
(* e has the instructions of q and more of them.                           *)
Longer(q, e, n) ==
  Len(e) = Len(q) + n /\ \A i \in IdsOf(q) : e[i + 1] = q[i + 1]

(* A new instruction that is not linked to anything is a piece of its own. *)
LEMMA AddThreads ==
  ASSUME NEW q, NEW F, Threaded(q, F), Len(q) \in Nat, NEW n, n = Len(q),
         NEW e, Longer(q, e, 1), NEW x, e[n + 1] = x, x.next = NONE,
         x.op \notin {"ACCEPT", "REPEAT", "REPEAT_END"}
  PROVE  Threaded(e, F \cup {<<n, n>>})
  <1>. DEFINE G == F \cup {<<n, n>>}
              I == IdsOf(q)
  <1>1. /\ F \subseteq I \X I /\ IdsOf(e) = I \cup {n} /\ n \notin I /\ I \subseteq Nat
        /\ n \in Nat
        /\ \A i \in I : e[i + 1] = q[i + 1]
    BY DEF Threaded, IdsOf, Longer
  <1>2. \A w \in F : /\ q[w[2] + 1].next = NONE
                     /\ q[w[2] + 1].op \notin {"ACCEPT", "REPEAT_END"}
    BY DEF Threaded
  <1>3. \A w, y \in F : w[2] = y[2] => w = y
    BY DEF Threaded
  <1>4. Compiler!Follows(e[n + 1]) = {NONE}
    BY DEF Compiler!Follows
  <1>5. ASSUME NEW i \in I
        PROVE  Compiler!Follows(e[i + 1]) = Compiler!Follows(q[i + 1])
               /\ Compiler!Follows(q[i + 1]) \subseteq I \cup {NONE}
    BY <1>1, FollowsIs DEF I
  <1>6. G \subseteq IdsOf(e) \X IdsOf(e)
    BY <1>1
  <1>7. ASSUME NEW w \in G
        PROVE  e[w[2] + 1].next = NONE /\ e[w[2] + 1].op \notin {"ACCEPT", "REPEAT_END"}
    <2>1. CASE w \in F
      BY <1>1, <1>2, <2>1
    <2>2. CASE w = <<n, n>>
      BY <2>2
    <2> QED BY <2>1, <2>2
  <1>8. ASSUME NEW w \in G, NEW y \in G, w[2] = y[2] PROVE w = y
    <2>1. \A z \in F : z[2] # n
      BY <1>1
    <2> QED BY <1>3, <1>8, <2>1
  <1>9. ASSUME NEW i \in IdsOf(e) PROVE Jumps(e, G, i)
    <2>1. CASE i = n
      <3>1. <<n, n>> \in G /\ <<n, n>>[2] = i
        BY <2>1
      <3> QED BY <2>1, <3>1 DEF Jumps
    <2>2. CASE i \in I
      <3>1. Jumps(q, F, i) /\ e[i + 1] = q[i + 1]
        BY <1>1, <2>2 DEF Threaded
      <3>2. q[i + 1].op # "REPEAT_END" =>
              e[i + 1].next \in IdsOf(e) \/ \E w \in G : w[2] = i
        BY <1>1, <3>1 DEF Jumps
      <3>3. q[i + 1].op = "REPEAT_END" =>
              q[i + 1].a \in I /\ e[q[i + 1].a + 1].op = "REPEAT"
        BY <1>1, <3>1 DEF Jumps
      <3>4. q[i + 1].op = "REPEAT" => e[i + 1].a \in IdsOf(e)
        BY <1>1, <3>1 DEF Jumps
      <3> QED BY <1>1, <3>1, <3>2, <3>3, <3>4 DEF Jumps
    <2> QED BY <1>1, <2>1, <2>2
  <1>. HIDE DEF G, I
  <1>10. ASSUME NEW R \in SUBSET IdsOf(e), Shut(e, R)
         PROVE  /\ \A w \in G : w[1] \in R => w[2] \in R
                /\ (\A w \in G : w[1] \in R) => R = IdsOf(e)
    <2>. DEFINE T == R \cap I
    <2>1. Shut(q, T)
      <3>1. ASSUME NEW i \in T PROVE Compiler!Follows(q[i + 1]) \subseteq T \cup {NONE}
        <4>1. Compiler!Follows(e[i + 1]) \subseteq R \cup {NONE}
          BY <1>10 DEF Shut
        <4> QED BY <1>5, <4>1
      <3> QED BY <3>1 DEF Shut
    <2>2. /\ \A w \in F : w[1] \in T => w[2] \in T
          /\ (\A w \in F : w[1] \in T) => T = I
      BY <2>1 DEF Threaded, I
    <2>3. \A w \in F : w[1] \in I /\ w[2] \in I
      BY <1>1
    <2>4. \A w \in G : w \in F \/ (w[1] = n /\ w[2] = n)
      BY DEF G
    <2>5. (\A w \in G : w[1] \in R) => n \in R
      <3>1. <<n, n>> \in G /\ <<n, n>>[1] = n
        BY DEF G
      <3> QED BY <3>1
    <2>6. F \subseteq G
      BY DEF G
    <2> QED BY <1>1, <2>2, <2>3, <2>4, <2>5, <2>6
  <1>11. ASSUME NEW L \in SUBSET IdsOf(e), Drawn(e, L)
         PROVE  /\ \A w \in G : w[2] \in L => w[1] \in L
                /\ (\A w \in G : w[2] \in L) => L = IdsOf(e)
    <2>. DEFINE T == L \cap I
    <2>1. Drawn(q, T)
      <3>1. ASSUME NEW i \in I, Compiler!Follows(q[i + 1]) \cap T # {} PROVE i \in T
        <4>1. i \in IdsOf(e) /\ Compiler!Follows(e[i + 1]) \cap L # {}
          BY <1>1, <1>5, <3>1
        <4> QED BY <1>11, <4>1 DEF Drawn
      <3> QED BY <3>1 DEF Drawn, I
    <2>2. /\ \A w \in F : w[2] \in T => w[1] \in T
          /\ (\A w \in F : w[2] \in T) => T = I
      BY <2>1 DEF Threaded, I
    <2>3. \A w \in F : w[1] \in I /\ w[2] \in I
      BY <1>1
    <2>4. \A w \in G : w \in F \/ (w[1] = n /\ w[2] = n)
      BY DEF G
    <2>5. (\A w \in G : w[2] \in L) => n \in L
      <3>1. <<n, n>> \in G /\ <<n, n>>[2] = n
        BY DEF G
      <3> QED BY <3>1
    <2>6. F \subseteq G
      BY DEF G
    <2> QED BY <1>1, <2>2, <2>3, <2>4, <2>5, <2>6
  <1> QED BY <1>6, <1>7, <1>8, <1>9, <1>10, <1>11 DEF Threaded, G

(* A piece u becomes the body of a loop: its end goes on to the REPEAT_END *)
(* of the loop, which goes back to its REPEAT.                             *)
LEMMA LoopThreads ==
  ASSUME NEW q, NEW F, Threaded(q, F), Len(q) \in Nat, NEW u \in F, NEW n, n = Len(q),
         NEW e, Len(e) = n + 2, Linking(q, e, u[2], n + 1),
         e[n + 1].op = "REPEAT", e[n + 1].a = u[1], e[n + 1].next = NONE,
         e[n + 2].op = "REPEAT_END", e[n + 2].a = n
  PROVE  Threaded(e, (F \ {u}) \cup {<<n, n>>})
  <1>. DEFINE G == (F \ {u}) \cup {<<n, n>>}
              I == IdsOf(q)
  <1>1. /\ F \subseteq I \X I /\ IdsOf(e) = I \cup {n, n + 1}
        /\ n \notin I /\ n + 1 \notin I /\ I \subseteq Nat /\ n \in Nat
        /\ u[1] \in I /\ u[2] \in I /\ n + 1 + 1 = n + 2 /\ n + 1 # n
    BY DEF Threaded, IdsOf
  <1>2. \A w \in F : /\ q[w[2] + 1].next = NONE
                     /\ q[w[2] + 1].op \notin {"ACCEPT", "REPEAT_END"}
    BY DEF Threaded
  <1>3. \A w, y \in F : w[2] = y[2] => w = y
    BY DEF Threaded
  <1>4. /\ \A i \in I \ {u[2]} : e[i + 1] = q[i + 1]
        /\ e[u[2] + 1].op = q[u[2] + 1].op /\ e[u[2] + 1].a = q[u[2] + 1].a
        /\ e[u[2] + 1].next = n + 1
    BY DEF Linking, Akin
  <1>5. \A i \in I : e[i + 1].op = q[i + 1].op /\ e[i + 1].a = q[i + 1].a
    BY <1>4
  <1>6. /\ Compiler!Follows(e[n + 1]) = {u[1], NONE}
        /\ Compiler!Follows(e[n + 2]) = {n}
    BY DEF Compiler!Follows
  <1>7. /\ n + 1 \in Compiler!Follows(e[u[2] + 1])
        /\ Compiler!Follows(q[u[2] + 1]) \subseteq Compiler!Follows(e[u[2] + 1]) \cup {NONE}
    BY <1>2, <1>4 DEF Compiler!Follows
  <1>8. \A i \in I : Compiler!Follows(q[i + 1]) \subseteq I \cup {NONE}
    BY FollowsIs
  <1>9. \A w \in G : w \in F \ {u} \/ (w[1] = n /\ w[2] = n)
    OBVIOUS
  <1>10. <<n, n>> \in G /\ <<n, n>>[1] = n /\ <<n, n>>[2] = n /\ F \ {u} \subseteq G
    OBVIOUS
  <1>11. G \subseteq IdsOf(e) \X IdsOf(e)
    BY <1>1
  <1>. HIDE DEF G, I
  <1>12. \A w \in F : w[1] \in I /\ w[2] \in I
    BY <1>1
  <1>13. ASSUME NEW w \in G
         PROVE  e[w[2] + 1].next = NONE /\ e[w[2] + 1].op \notin {"ACCEPT", "REPEAT_END"}
    <2>1. CASE w \in F \ {u}
      <3>1. w[2] # u[2]
        BY <1>3, <2>1
      <3> QED BY <1>2, <1>4, <1>12, <2>1, <3>1
    <2>2. CASE w[2] = n
      BY <2>2
    <2> QED BY <1>9, <2>1, <2>2
  <1>14. ASSUME NEW w \in G, NEW y \in G, w[2] = y[2] PROVE w = y
    <2>1. \A z \in F : z[2] # n
      BY <1>1, <1>12
    <2>2. \A z \in G : z[2] = n => z = <<n, n>>
      BY <2>1 DEF G
    <2> QED BY <1>3, <1>9, <1>14, <2>1, <2>2
  <1>15. ASSUME NEW i \in IdsOf(e) PROVE Jumps(e, G, i)
    <2>1. CASE i = n
      BY <1>1, <1>10, <2>1 DEF Jumps
    <2>2. CASE i = n + 1
      <3>1. e[i + 1].op = "REPEAT_END" /\ e[i + 1].a = n
        BY <1>1, <2>2
      <3> QED BY <1>1, <3>1 DEF Jumps
    <2>3. CASE i \in I
      <3>1. Jumps(q, F, i) /\ e[i + 1].op = q[i + 1].op /\ e[i + 1].a = q[i + 1].a
        BY <1>5, <2>3 DEF Threaded, I
      <3>2. q[i + 1].op # "REPEAT_END" =>
              e[i + 1].next \in IdsOf(e) \/ \E w \in G : w[2] = i
        <4>1. CASE i = u[2]
          BY <1>1, <1>4, <4>1
        <4>2. CASE i # u[2]
          <5>1. e[i + 1] = q[i + 1]
            BY <1>4, <2>3, <4>2
          <5> QED BY <1>1, <1>10, <3>1, <4>2, <5>1 DEF Jumps, I
        <4> QED BY <4>1, <4>2
      <3>3. q[i + 1].op = "REPEAT_END" =>
              q[i + 1].a \in I /\ e[q[i + 1].a + 1].op = "REPEAT"
        BY <1>5, <3>1 DEF Jumps, I
      <3>4. q[i + 1].op = "REPEAT" => q[i + 1].a \in IdsOf(e)
        BY <1>1, <3>1 DEF Jumps, I
      <3> QED BY <1>1, <3>1, <3>2, <3>3, <3>4 DEF Jumps
    <2> QED BY <1>1, <2>1, <2>2, <2>3
  <1>16. ASSUME NEW R \in SUBSET IdsOf(e), Shut(e, R)
         PROVE  /\ \A w \in G : w[1] \in R => w[2] \in R
                /\ (\A w \in G : w[1] \in R) => R = IdsOf(e)
    <2>. DEFINE T == R \cap I
    <2>1. Shut(q, T)
      <3>1. ASSUME NEW i \in T PROVE Compiler!Follows(q[i + 1]) \subseteq T \cup {NONE}
        <4>1. Compiler!Follows(e[i + 1]) \subseteq R \cup {NONE}
          BY <1>16 DEF Shut
        <4>2. Compiler!Follows(q[i + 1]) \subseteq Compiler!Follows(e[i + 1]) \cup {NONE}
          BY <1>4, <1>7
        <4> QED BY <1>8, <4>1, <4>2
      <3> QED BY <3>1 DEF Shut
    <2>2. /\ \A w \in F : w[1] \in T => w[2] \in T
          /\ (\A w \in F : w[1] \in T) => T = I
      BY <2>1 DEF Threaded, I
    <2>3. n \in R => u[1] \in R
      <3>1. n \in R => u[1] \in R \cup {NONE}
        BY <1>6, <1>16 DEF Shut
      <3>2. u[1] # NONE
        BY <1>1 DEF NONE
      <3> QED BY <3>1, <3>2
    <2>4. u[2] \in R => n + 1 \in R
      <3>1. u[2] \in R => n + 1 \in R \cup {NONE}
        BY <1>7, <1>16 DEF Shut
      <3>2. n + 1 # NONE
        BY <1>1 DEF NONE
      <3> QED BY <3>1, <3>2
    <2>5. \A w \in G : w[1] \in R => w[2] \in R
      BY <1>9, <1>12, <2>2
    <2>6. ASSUME \A w \in G : w[1] \in R PROVE R = IdsOf(e)
      <3>1. n \in R /\ u[1] \in T
        BY <1>1, <1>10, <2>3, <2>6
      <3>2. \A w \in F : w[1] \in T
        BY <1>10, <1>12, <2>6, <3>1
      <3> QED BY <1>1, <2>2, <2>4, <3>1, <3>2
    <2> QED BY <2>5, <2>6
  <1>17. ASSUME NEW L \in SUBSET IdsOf(e), Drawn(e, L)
         PROVE  /\ \A w \in G : w[2] \in L => w[1] \in L
                /\ (\A w \in G : w[2] \in L) => L = IdsOf(e)
    <2>. DEFINE T == L \cap I
    <2>0. \A i \in IdsOf(e) : Compiler!Follows(e[i + 1]) \cap L # {} => i \in L
      BY <1>17 DEF Drawn
    <2>1. Drawn(q, T)
      <3>1. ASSUME NEW i \in I, Compiler!Follows(q[i + 1]) \cap T # {} PROVE i \in T
        <4>1. Compiler!Follows(q[i + 1]) \subseteq Compiler!Follows(e[i + 1]) \cup {NONE}
          BY <1>4, <1>7
        <4>2. NONE \notin L /\ i \in IdsOf(e)
          BY <1>1 DEF NONE
        <4>3. Compiler!Follows(e[i + 1]) \cap L # {}
          BY <3>1, <4>1, <4>2
        <4> QED BY <2>0, <4>2, <4>3
      <3> QED BY <3>1 DEF Drawn, I
    <2>2. /\ \A w \in F : w[2] \in T => w[1] \in T
          /\ (\A w \in F : w[2] \in T) => T = I
      BY <2>1 DEF Threaded, I
    <2>3. n \in L => n + 1 \in L
      BY <1>1, <1>6, <2>0
    <2>4. n + 1 \in L => u[2] \in L
      BY <1>1, <1>7, <2>0
    <2>5. \A w \in G : w[2] \in L => w[1] \in L
      BY <1>9, <1>12, <2>2
    <2>6. ASSUME \A w \in G : w[2] \in L PROVE L = IdsOf(e)
      <3>1. n \in L /\ n + 1 \in L /\ u[2] \in T
        BY <1>1, <1>10, <2>3, <2>4, <2>6
      <3>2. \A w \in F : w[2] \in T
        BY <1>10, <1>12, <2>6, <3>1
      <3> QED BY <1>1, <2>2, <3>1, <3>2
    <2> QED BY <2>5, <2>6
  <1> QED BY <1>11, <1>13, <1>14, <1>15, <1>16, <1>17 DEF Threaded, G

-----------------------------------------------------------------------------
(* A chain of growing sets within n elements that stops growing where two  *)
(* in a row are equal has stopped after n steps.                           *)
LEMMA ChainStops ==
  ASSUME NEW n \in Nat, NEW f, f[0] # {},
         \A k \in 0 .. n + 1 : f[k] \subseteq 0 .. n - 1,
         \A k \in 0 .. n : f[k] \subseteq f[k + 1],
         \A k \in 1 .. n : f[k - 1] = f[k] => f[k] = f[k + 1]
  PROVE  f[n] = f[n + 1]
  <1>. DEFINE Size(k) == Cardinality(f[k])
              T == {k \in 0 .. n : ~(f[k] = f[k + 1] \/ Size(k) >= k + 1)}
  <1>1. IsFiniteSet(0 .. n - 1) /\ Cardinality(0 .. n - 1) = n
    <2>1. IsFiniteSet(0 .. n - 1)
          /\ Cardinality(0 .. n - 1) = IF 0 > n - 1 THEN 0 ELSE n - 1 - 0 + 1
      BY FS_Interval
    <2> QED BY <2>1
  <1>2. ASSUME NEW k \in 0 .. n
        PROVE  IsFiniteSet(f[k]) /\ Size(k) \in Nat /\ Size(k) <= n
    <2>1. f[k] \subseteq 0 .. n - 1
      OBVIOUS
    <2> QED BY <1>1, <2>1, FS_Subset, FS_CardinalityType
  <1>3. T = {}
    <2>1. SUFFICES ASSUME T # {} PROVE FALSE
      OBVIOUS
    <2>2. PICK k \in T : \A j \in T : k <= j
      <3>1. T \subseteq Nat
        OBVIOUS
      <3> QED BY <2>1, <3>1, LeastNat
    <2>3. k \in 0 .. n /\ f[k] # f[k + 1] /\ ~(Size(k) >= k + 1)
      BY <2>2
    <2>4. CASE k = 0
      <3>1. Size(0) # 0
        BY <1>2, FS_EmptySet
      <3> QED BY <1>2, <2>3, <2>4, <3>1
    <2>5. CASE k # 0
      <3>1. k - 1 \in 0 .. n /\ k \in 1 .. n /\ k - 1 \notin T /\ k - 1 + 1 = k
        BY <2>2, <2>3, <2>5
      <3>2. f[k - 1] # f[k]
        BY <2>3, <3>1
      <3>3. Size(k - 1) >= k
        BY <3>1, <3>2
      <3>4. f[k - 1] \subseteq f[k]
        BY <3>1
      <3>5. Size(k - 1) <= Size(k) /\ Size(k - 1) # Size(k)
        BY <1>2, <3>1, <3>2, <3>4, FS_Subset
      <3>6. PICK a \in Nat : a = Size(k - 1)
        BY <1>2, <3>1
      <3>7. PICK b \in Nat : b = Size(k)
        BY <1>2, <3>1
      <3>8. k \in Nat /\ ~(b >= k + 1) /\ a >= k /\ a <= b /\ a # b
        BY <2>3, <3>1, <3>3, <3>5, <3>6, <3>7
      <3>. HIDE DEF T, Size
      <3> QED BY <3>8
    <2> QED BY <2>4, <2>5
  <1>4. n \in 0 .. n /\ (f[n] = f[n + 1] \/ Size(n) >= n + 1)
    <2>1. n \in 0 .. n
      OBVIOUS
    <2>2. \A k \in 0 .. n : f[k] = f[k + 1] \/ Size(k) >= k + 1
      BY <1>3, Zenon
    <2> QED BY <2>1, <2>2
  <1>5. ~(Size(n) >= n + 1)
    BY <1>2, <1>4
  <1> QED BY <1>4, <1>5

(* What can be entered from the entry is the least set with the entry that *)
(* no jump leaves.                                                         *)
LEMMA EnteredIs ==
  ASSUME NEW p, Len(p.code) \in Nat, p.entry \in IdsOf(p.code),
         \A i \in IdsOf(p.code) : Compiler!Follows(p.code[i + 1]) \subseteq IdsOf(p.code)
  PROVE  /\ Compiler!Entered(p) \subseteq IdsOf(p.code) /\ p.entry \in Compiler!Entered(p)
         /\ Shut(p.code, Compiler!Entered(p))
  <1>. DEFINE n == Len(p.code)
              I == IdsOf(p.code)
              s == {p.entry}
              r == [of |-> "after", p |-> p]
              Goes1(f) == f = [k \in Nat |-> IF k = 0 THEN {p.entry}
                                             ELSE Compiler!After(p, f[k - 1])]
              entered == CHOOSE f : Goes1(f)
  <1>1. \A k, x : StepOf(r, k, x) = Compiler!After(p, x)
    BY DEF StepOf
  <1>. HIDE DEF r
  <1>2. PICK g : Runs(g, r, s)
    BY StepsExist
  <1>3. Goes1(g)
    BY <1>1, <1>2 DEF Runs
  <1>4. Goes1(entered)
    BY <1>3
  <1>5. Compiler!Entered(p) = entered[n]
    BY DEF Compiler!Entered, Compiler!CodeCount
  <1>. HIDE DEF entered, I
  <1>6. ASSUME NEW k \in Nat
        PROVE  entered[k] = IF k = 0 THEN {p.entry} ELSE Compiler!After(p, entered[k - 1])
    BY <1>4
  <1>7. entered[0] = {p.entry}
    BY <1>6
  <1>8. ASSUME NEW k \in Nat PROVE entered[k + 1] = Compiler!After(p, entered[k])
    <2>1. k + 1 \in Nat /\ k + 1 # 0 /\ k + 1 - 1 = k
      OBVIOUS
    <2> QED BY <1>6, <2>1
  <1>9. ASSUME NEW x, x \subseteq I
        PROVE  /\ x \subseteq Compiler!After(p, x)
               /\ Compiler!After(p, x) \subseteq I
               /\ Compiler!After(p, x) \subseteq x => Shut(p.code, x)
    <2>1. Compiler!After(p, x)
            = x \cup UNION {Compiler!Follows(p.code[i + 1]) : i \in x \cap I}
      BY DEF Compiler!After, Compiler!Ids, Compiler!Instr, Compiler!CodeCount, I, IdsOf
    <2> QED BY <1>9, <2>1 DEF Shut, I
  <1>10. \A k \in Nat : entered[k] \subseteq I
    <2>. DEFINE T == {k \in Nat : ~(entered[k] \subseteq I)}
    <2>1. T = {}
      <3>1. SUFFICES ASSUME T # {} PROVE FALSE
        OBVIOUS
      <3>2. PICK k \in T : \A j \in T : k <= j
        BY <3>1, LeastNat
      <3>3. k # 0
        BY <1>7, <3>2 DEF I
      <3>4. k - 1 \in Nat /\ k - 1 \notin T /\ k - 1 + 1 = k
        BY <3>2, <3>3
      <3>5. entered[k] = Compiler!After(p, entered[k - 1])
        BY <1>8, <3>4
      <3>6. PICK x : x = entered[k - 1]
        OBVIOUS
      <3>7. x \subseteq I /\ entered[k] = Compiler!After(p, x)
        BY <3>4, <3>5, <3>6
      <3>8. Compiler!After(p, x) \subseteq I
        BY <1>9, <3>7
      <3> QED BY <3>2, <3>7, <3>8
    <2> QED BY <2>1
  <1>11. entered[n] = entered[n + 1]
    <2>1. ASSUME NEW k \in 0 .. n PROVE entered[k] \subseteq entered[k + 1]
      <3>1. PICK x : x = entered[k]
        OBVIOUS
      <3>2. x \subseteq I /\ k \in Nat
        BY <1>10, <3>1
      <3>3. entered[k + 1] = Compiler!After(p, x)
        BY <1>8, <3>1, <3>2
      <3>4. x \subseteq Compiler!After(p, x)
        BY <1>9, <3>2
      <3> QED BY <3>1, <3>3, <3>4
    <2>2. ASSUME NEW k \in 1 .. n, entered[k - 1] = entered[k]
          PROVE  entered[k] = entered[k + 1]
      <3>1. k - 1 \in Nat /\ k - 1 + 1 = k
        OBVIOUS
      <3> QED BY <1>8, <2>2, <3>1
    <2>3. \A k \in 0 .. n + 1 : entered[k] \subseteq 0 .. n - 1
      BY <1>10 DEF I, IdsOf
    <2>4. entered[0] # {}
      BY <1>7
    <2>. HIDE DEF n
    <2> QED BY <2>1, <2>2, <2>3, <2>4, ChainStops DEF n
  <1>12. entered[n + 1] = Compiler!After(p, entered[n])
    BY <1>8
  <1>13. p.entry \in entered[n]
    <2>. DEFINE T == {k \in Nat : p.entry \notin entered[k]}
    <2>1. T = {}
      <3>1. SUFFICES ASSUME T # {} PROVE FALSE
        OBVIOUS
      <3>2. PICK k \in T : \A j \in T : k <= j
        BY <3>1, LeastNat
      <3>3. k # 0
        BY <1>7, <3>2
      <3>4. k - 1 \in Nat /\ k - 1 \notin T /\ k - 1 + 1 = k
        BY <3>2, <3>3
      <3>5. entered[k] = Compiler!After(p, entered[k - 1])
        BY <1>8, <3>4
      <3>6. PICK x : x = entered[k - 1]
        OBVIOUS
      <3>7. x \subseteq I /\ p.entry \in x /\ entered[k] = Compiler!After(p, x)
        BY <1>10, <3>4, <3>5, <3>6
      <3>8. x \subseteq Compiler!After(p, x)
        BY <1>9, <3>7
      <3> QED BY <3>2, <3>7, <3>8
    <2> QED BY <2>1
  <1> QED BY <1>5, <1>9, <1>10, <1>11, <1>12, <1>13 DEF I

(* Where ACCEPT can be reached from is a set that no jump enters.          *)
LEMMA LeadingIs ==
  ASSUME NEW p, Len(p.code) \in Nat, Compiler!Of(p, {"ACCEPT"}) # {}
  PROVE  /\ Compiler!Leading(p) \subseteq IdsOf(p.code)
         /\ Compiler!Of(p, {"ACCEPT"}) \subseteq Compiler!Leading(p)
         /\ Drawn(p.code, Compiler!Leading(p))
  <1>. DEFINE n == Len(p.code)
              I == IdsOf(p.code)
              s == Compiler!Of(p, {"ACCEPT"})
              r == [of |-> "before", p |-> p]
              Goes1(f) == f = [k \in Nat |-> IF k = 0 THEN s
                                             ELSE Compiler!Before(p, f[k - 1])]
              leading == CHOOSE f : Goes1(f)
  <1>1. \A k, x : StepOf(r, k, x) = Compiler!Before(p, x)
    BY DEF StepOf
  <1>. HIDE DEF r
  <1>2. PICK g : Runs(g, r, s)
    BY StepsExist
  <1>3. Goes1(g)
    BY <1>1, <1>2 DEF Runs
  <1>4. Goes1(leading)
    BY <1>3
  <1>5. Compiler!Leading(p) = leading[n]
    BY DEF Compiler!Leading, Compiler!CodeCount
  <1>0. s \subseteq I
    BY DEF Compiler!Of, Compiler!Ids, Compiler!CodeCount, IdsOf
  <1>. HIDE DEF leading, I, s
  <1>6. ASSUME NEW k \in Nat
        PROVE  leading[k] = IF k = 0 THEN s ELSE Compiler!Before(p, leading[k - 1])
    BY <1>4
  <1>7. leading[0] = s
    BY <1>6
  <1>8. ASSUME NEW k \in Nat PROVE leading[k + 1] = Compiler!Before(p, leading[k])
    <2>1. k + 1 \in Nat /\ k + 1 # 0 /\ k + 1 - 1 = k
      OBVIOUS
    <2> QED BY <1>6, <2>1
  <1>9. ASSUME NEW x, x \subseteq I
        PROVE  /\ x \subseteq Compiler!Before(p, x)
               /\ Compiler!Before(p, x) \subseteq I
               /\ Compiler!Before(p, x) \subseteq x => Drawn(p.code, x)
    <2>1. Compiler!Before(p, x)
            = x \cup {i \in I : Compiler!Follows(p.code[i + 1]) \cap x # {}}
      BY DEF Compiler!Before, Compiler!Ids, Compiler!Instr, Compiler!CodeCount, I, IdsOf
    <2> QED BY <1>9, <2>1 DEF Drawn, I
  <1>10. \A k \in Nat : leading[k] \subseteq I /\ s \subseteq leading[k]
    <2>. DEFINE T == {k \in Nat : ~(leading[k] \subseteq I /\ s \subseteq leading[k])}
    <2>1. T = {}
      <3>1. SUFFICES ASSUME T # {} PROVE FALSE
        OBVIOUS
      <3>2. PICK k \in T : \A j \in T : k <= j
        BY <3>1, LeastNat
      <3>3. k # 0
        BY <1>0, <1>7, <3>2
      <3>4. k - 1 \in Nat /\ k - 1 \notin T /\ k - 1 + 1 = k
        BY <3>2, <3>3
      <3>5. leading[k] = Compiler!Before(p, leading[k - 1])
        BY <1>8, <3>4
      <3>6. PICK x : x = leading[k - 1]
        OBVIOUS
      <3>7. x \subseteq I /\ s \subseteq x /\ leading[k] = Compiler!Before(p, x)
        BY <3>4, <3>5, <3>6
      <3>8. Compiler!Before(p, x) \subseteq I /\ x \subseteq Compiler!Before(p, x)
        BY <1>9, <3>7
      <3> QED BY <3>2, <3>7, <3>8
    <2> QED BY <2>1
  <1>11. leading[n] = leading[n + 1]
    <2>1. ASSUME NEW k \in 0 .. n PROVE leading[k] \subseteq leading[k + 1]
      <3>1. PICK x : x = leading[k]
        OBVIOUS
      <3>2. x \subseteq I /\ k \in Nat
        BY <1>10, <3>1
      <3>3. leading[k + 1] = Compiler!Before(p, x)
        BY <1>8, <3>1, <3>2
      <3>4. x \subseteq Compiler!Before(p, x)
        BY <1>9, <3>2
      <3> QED BY <3>1, <3>3, <3>4
    <2>2. ASSUME NEW k \in 1 .. n, leading[k - 1] = leading[k]
          PROVE  leading[k] = leading[k + 1]
      <3>1. k - 1 \in Nat /\ k - 1 + 1 = k
        OBVIOUS
      <3> QED BY <1>8, <2>2, <3>1
    <2>3. \A k \in 0 .. n + 1 : leading[k] \subseteq 0 .. n - 1
      BY <1>10 DEF I, IdsOf
    <2>4. leading[0] # {}
      BY <1>7 DEF s
    <2>. HIDE DEF n
    <2> QED BY <2>1, <2>2, <2>3, <2>4, ChainStops DEF n
  <1>12. leading[n + 1] = Compiler!Before(p, leading[n])
    BY <1>8
  <1> QED BY <1>5, <1>9, <1>10, <1>11, <1>12 DEF I, s

-----------------------------------------------------------------------------
(* The scopes of a code have ranks of their own, from m on.                *)
Scoped == {"OPEN", "REPEAT"}

Ranked(q, m) ==
  /\ \A i \in IdsOf(q) : q[i + 1].op \in Scoped =>
       Compiler!Rank(q[i + 1]) \in Int /\ m <= Compiler!Rank(q[i + 1])
  /\ \A i, j \in IdsOf(q) :
       q[i + 1].op \in Scoped /\ q[j + 1].op \in Scoped
       /\ Compiler!Rank(q[i + 1]) = Compiler!Rank(q[j + 1]) => i = j

(* The loops of a code have their bounds in order.                         *)
Ordered(q) == \A i \in IdsOf(q) : q[i + 1].op = "REPEAT" => q[i + 1].min <= q[i + 1].max

LEMMA AkinRank ==
  ASSUME NEW x, NEW y, Akin(x, y)
  PROVE  Compiler!Rank(x) = Compiler!Rank(y)
  BY DEF Akin, Compiler!Rank

(* Instructions that are no scopes leave the ranks as they are, and one    *)
(* scope with a lower rank may come in.                                    *)
LEMMA RankedOn ==
  ASSUME NEW q, Len(q) \in Nat, NEW m \in Int, Ranked(q, m + 1), NEW e, Len(e) \in Nat,
         \A i \in IdsOf(q) : Akin(e[i + 1], q[i + 1]),
         NEW k \in IdsOf(e),
         \A i \in IdsOf(e) \ IdsOf(q) : i # k => e[i + 1].op \notin Scoped,
         k \notin IdsOf(q), e[k + 1].op \in Scoped => Compiler!Rank(e[k + 1]) = m
  PROVE  Ranked(e, m)
  <1>. DEFINE r(i) == Compiler!Rank(e[i + 1])
  <1>1. ASSUME NEW i \in IdsOf(q)
        PROVE  e[i + 1].op = q[i + 1].op /\ r(i) = Compiler!Rank(q[i + 1])
    BY <1>1, AkinRank DEF Akin
  <1>2. ASSUME NEW i \in IdsOf(e), e[i + 1].op \in Scoped
        PROVE  /\ i \in IdsOf(q) => r(i) \in Int /\ m + 1 <= r(i)
               /\ i \notin IdsOf(q) => i = k /\ r(i) = m
    BY <1>1, <1>2 DEF Ranked
  <1>3. \A i, j \in IdsOf(q) :
          e[i + 1].op \in Scoped /\ e[j + 1].op \in Scoped /\ r(i) = r(j) => i = j
    BY <1>1 DEF Ranked
  <1>. HIDE DEF r
  <1>4. ASSUME NEW i \in IdsOf(e), e[i + 1].op \in Scoped PROVE r(i) \in Int /\ m <= r(i)
    <2>1. PICK x : x = r(i)
      OBVIOUS
    <2>2. x = m \/ (x \in Int /\ m + 1 <= x)
      BY <1>2, <1>4, <2>1
    <2> QED BY <2>1, <2>2
  <1>5. ASSUME NEW i \in IdsOf(e), NEW j \in IdsOf(e), e[i + 1].op \in Scoped,
               e[j + 1].op \in Scoped, r(i) = r(j)
        PROVE  i = j
    <2>1. \A l \in IdsOf(e) : e[l + 1].op \in Scoped /\ l \in IdsOf(q) => r(l) # m
      <3>1. ASSUME NEW l \in IdsOf(e), e[l + 1].op \in Scoped, l \in IdsOf(q)
            PROVE  r(l) # m
        <4>1. PICK x : x = r(l)
          OBVIOUS
        <4>2. x \in Int /\ m + 1 <= x
          BY <1>2, <3>1, <4>1
        <4> QED BY <4>1, <4>2
      <3> QED BY <3>1
    <2> QED BY <1>2, <1>3, <1>5, <2>1
  <1> QED BY <1>4, <1>5 DEF Ranked, r

LEMMA RankedSame ==
  ASSUME NEW q, Len(q) \in Nat, NEW m, Ranked(q, m), NEW e, Len(e) \in Nat,
         \A i \in IdsOf(q) : Akin(e[i + 1], q[i + 1]),
         \A i \in IdsOf(e) \ IdsOf(q) : e[i + 1].op \notin Scoped
  PROVE  Ranked(e, m)
  <1>1. ASSUME NEW i \in IdsOf(q)
        PROVE  e[i + 1].op = q[i + 1].op
               /\ Compiler!Rank(e[i + 1]) = Compiler!Rank(q[i + 1])
    BY <1>1, AkinRank DEF Akin
  <1> QED BY <1>1 DEF Ranked

LEMMA RankedLower ==
  ASSUME NEW q, NEW m \in Int, Ranked(q, m + 1)
  PROVE  Ranked(q, m)
  <1>1. ASSUME NEW i \in IdsOf(q), q[i + 1].op \in Scoped
        PROVE  m <= Compiler!Rank(q[i + 1]) /\ Compiler!Rank(q[i + 1]) \in Int
    <2>1. PICK x : x = Compiler!Rank(q[i + 1])
      OBVIOUS
    <2>2. x \in Int /\ m + 1 <= x
      BY <1>1, <2>1 DEF Ranked
    <2> QED BY <2>1, <2>2
  <1> QED BY <1>1 DEF Ranked

LEMMA OrderedOn ==
  ASSUME NEW q, Ordered(q), NEW e,
         \A i \in IdsOf(q) : Akin(e[i + 1], q[i + 1]),
         \A i \in IdsOf(e) \ IdsOf(q) : e[i + 1].op = "REPEAT" => e[i + 1].min <= e[i + 1].max
  PROVE  Ordered(e)
  BY DEF Ordered, Akin

(* When at most one piece is left, an ACCEPT behind it makes a program.    *)
LEMMA ProgramOfThreads ==
  ASSUME NEW q, NEW F, Threaded(q, F), Len(q) \in Nat, NEW n, n = Len(q),
         NEW p, Len(p.code) = n + 1, p.code[n + 1].op = "ACCEPT",
         \/ F = {} /\ p.entry = n /\ \A i \in IdsOf(q) : p.code[i + 1] = q[i + 1]
         \/ \E u \in F : /\ F = {u} /\ p.entry = u[1]
                         /\ Linking(q, p.code, u[2], n)
  PROVE  /\ Compiler!Entered(p) = Compiler!Ids(p)
         /\ Compiler!Leading(p) = Compiler!Ids(p)
         /\ Compiler!Of(p, {"ACCEPT"}) = {Compiler!CodeCount(p) - 1}
         /\ \A i \in Compiler!Of(p, {"REPEAT_END"}) :
              Instr(p, Instr(p, i).a).op = "REPEAT"
  <1>. DEFINE e == p.code
              I == IdsOf(q)
  <1>1. /\ F \subseteq I \X I /\ IdsOf(e) = I \cup {n} /\ n \notin I /\ n \in Nat
        /\ I \subseteq Nat /\ Len(e) \in Nat /\ Len(e) = n + 1 /\ e[n + 1].op = "ACCEPT"
    BY DEF Threaded, IdsOf
  <1>2. Compiler!Ids(p) = IdsOf(e) /\ Compiler!CodeCount(p) - 1 = n
    BY <1>1 DEF Compiler!Ids, Compiler!CodeCount, IdsOf
  <1>3. \A i \in I : Jumps(q, F, i)
    BY DEF Threaded
  <1>4. \A i \in I : e[i + 1].op = q[i + 1].op /\ e[i + 1].a = q[i + 1].a
    BY DEF Linking, Akin
  <1>5. Compiler!Of(p, {"ACCEPT"}) = {n}
    <2>1. \A i \in I : e[i + 1].op # "ACCEPT"
      BY <1>3, <1>4 DEF Jumps
    <2> QED BY <1>1, <1>2, <2>1 DEF Compiler!Of, Compiler!Instr
  <1>6. ASSUME NEW i \in Compiler!Of(p, {"REPEAT_END"})
        PROVE  Instr(p, Instr(p, i).a).op = "REPEAT"
    <2>1. i \in I /\ e[i + 1].op = "REPEAT_END"
      BY <1>1, <1>2 DEF Compiler!Of, Compiler!Instr
    <2>2. q[i + 1].a \in I /\ q[q[i + 1].a + 1].op = "REPEAT" /\ e[i + 1].a = q[i + 1].a
      BY <1>3, <1>4, <2>1 DEF Jumps
    <2>3. PICK k \in I : k = e[i + 1].a
      BY <2>2
    <2>4. e[k + 1].op = "REPEAT"
      BY <1>4, <2>2, <2>3
    <2> QED BY <2>3, <2>4 DEF Instr
  <1>7. /\ Compiler!Follows(e[n + 1]) = {}
        /\ \A i \in I : Compiler!Follows(q[i + 1]) \subseteq I \cup {NONE}
    BY FollowsIs DEF Compiler!Follows
  <1>8. CASE F = {} /\ p.entry = n /\ \A i \in I : e[i + 1] = q[i + 1]
    <2>1. I = {}
      <3>1. Shut(q, {}) /\ {} \in SUBSET I
        BY DEF Shut
      <3>2. {} = I
        BY <1>8, <3>1 DEF Threaded
      <3> QED BY <3>2
    <2>2. IdsOf(e) = {n}
      BY <1>1, <2>1
    <2>3. \A i \in IdsOf(e) : Compiler!Follows(e[i + 1]) \subseteq IdsOf(e)
      BY <1>7, <2>2
    <2>. HIDE DEF I
    <2>4. Compiler!Entered(p) \subseteq IdsOf(e) /\ n \in Compiler!Entered(p)
      BY <1>1, <1>8, <2>2, <2>3, EnteredIs
    <2>5. Compiler!Leading(p) \subseteq IdsOf(e) /\ n \in Compiler!Leading(p)
      BY <1>1, <1>5, LeadingIs
    <2> QED BY <1>2, <1>5, <1>6, <2>2, <2>4, <2>5
  <1>9. CASE \E u \in F : F = {u} /\ p.entry = u[1] /\ Linking(q, e, u[2], n)
    <2>1. PICK u \in F : F = {u} /\ p.entry = u[1] /\ Linking(q, e, u[2], n)
      BY <1>9
    <2>2. /\ u[1] \in I /\ u[2] \in I
          /\ \A i \in I \ {u[2]} : e[i + 1] = q[i + 1]
          /\ e[u[2] + 1].op = q[u[2] + 1].op /\ e[u[2] + 1].a = q[u[2] + 1].a
          /\ e[u[2] + 1].next = n
      BY <1>1, <2>1 DEF Linking, Akin
    <2>3. /\ n \in Compiler!Follows(e[u[2] + 1])
          /\ Compiler!Follows(q[u[2] + 1])
               \subseteq Compiler!Follows(e[u[2] + 1]) \cup {NONE}
      <3>1. q[u[2] + 1].next = NONE /\ q[u[2] + 1].op \notin {"ACCEPT", "REPEAT_END"}
        BY DEF Threaded
      <3> QED BY <2>2, <3>1 DEF Compiler!Follows
    <2>4. ASSUME NEW i \in IdsOf(e) PROVE Compiler!Follows(e[i + 1]) \subseteq IdsOf(e)
      <3>1. CASE i = n
        BY <1>7, <3>1
      <3>2. CASE i = u[2]
        <4>1. Jumps(q, F, u[2])
          BY <1>3, <2>2
        <4> QED BY <1>1, <2>2, <3>2, <4>1, SMTT(30) DEF Jumps, Compiler!Follows, Threaded
      <3>3. CASE i # n /\ i # u[2]
        <4>1. e[i + 1] = q[i + 1] /\ i \in I /\ Jumps(q, F, i)
          BY <1>1, <1>3, <2>2, <3>3
        <4>2. \A w \in F : w[2] # i
          BY <2>1, <3>3
        <4> QED BY <1>1, <4>1, <4>2 DEF Jumps, Compiler!Follows
      <3> QED BY <3>1, <3>2, <3>3
    <2>. HIDE DEF I
    <2>5. /\ Compiler!Entered(p) \subseteq IdsOf(e) /\ u[1] \in Compiler!Entered(p)
          /\ Shut(e, Compiler!Entered(p))
      BY <1>1, <2>1, <2>2, <2>4, EnteredIs
    <2>6. /\ Compiler!Leading(p) \subseteq IdsOf(e) /\ n \in Compiler!Leading(p)
          /\ Drawn(e, Compiler!Leading(p))
      BY <1>1, <1>5, LeadingIs
    <2>7. Compiler!Entered(p) = IdsOf(e)
      <3>. DEFINE E == Compiler!Entered(p)
                  T == E \cap I
      <3>1. Shut(q, T)
        <4>1. ASSUME NEW i \in T PROVE Compiler!Follows(q[i + 1]) \subseteq T \cup {NONE}
          <5>1. Compiler!Follows(e[i + 1]) \subseteq E \cup {NONE}
            BY <2>5 DEF Shut
          <5>2. Compiler!Follows(q[i + 1]) \subseteq Compiler!Follows(e[i + 1]) \cup {NONE}
            BY <2>2, <2>3
          <5> QED BY <1>7, <5>1, <5>2
        <4> QED BY <4>1 DEF Shut
      <3>2. (\A w \in F : w[1] \in T) => T = I
        BY <3>1 DEF Threaded, I
      <3>3. T = I
        BY <2>1, <2>2, <2>5, <3>2
      <3>4. n \in E \cup {NONE}
        BY <2>2, <2>3, <2>5, <3>3 DEF Shut
      <3> QED BY <1>1, <2>5, <3>3, <3>4 DEF NONE
    <2>8. Compiler!Leading(p) = IdsOf(e)
      <3>. DEFINE E == Compiler!Leading(p)
                  T == E \cap I
      <3>1. Drawn(q, T)
        <4>1. ASSUME NEW i \in I, Compiler!Follows(q[i + 1]) \cap T # {} PROVE i \in T
          <5>1. Compiler!Follows(q[i + 1]) \subseteq Compiler!Follows(e[i + 1]) \cup {NONE}
            BY <2>2, <2>3
          <5>2. NONE \notin E /\ i \in IdsOf(e)
            BY <1>1, <2>6 DEF NONE
          <5>3. Compiler!Follows(e[i + 1]) \cap E # {}
            BY <4>1, <5>1, <5>2
          <5> QED BY <2>6, <5>2, <5>3 DEF Drawn
        <4> QED BY <4>1 DEF Drawn, I
      <3>2. (\A w \in F : w[2] \in T) => T = I
        BY <3>1 DEF Threaded, I
      <3>3. u[2] \in E
        BY <1>1, <2>2, <2>3, <2>6 DEF Drawn
      <3>4. T = I
        BY <2>1, <2>2, <3>2, <3>3
      <3> QED BY <1>1, <2>6, <3>4
    <2> QED BY <1>2, <1>5, <1>6, <2>7, <2>8
  <1> QED BY <1>8, <1>9

(* The same with names for what is linked, to be cited                     *)
Merges(q, F, u, v, e, t, n, G) ==
  /\ Threaded(q, F) /\ u \in F /\ v \in F /\ u # v
  /\ Len(q) \in Nat /\ Len(e) = Len(q) /\ t = u[2] /\ n = v[1]
  /\ Linking(q, e, t, n) /\ G = (F \ {u, v}) \cup {<<u[1], v[2]>>}

LEMMA MergeInto ==
  ASSUME NEW q, NEW F, NEW u, NEW v, NEW e, NEW t, NEW n, NEW G,
         Merges(q, F, u, v, e, t, n, G)
  PROVE  Threaded(e, G)
  BY MergeThreads DEF Merges

Adds(q, F, n, e, x, G) ==
  /\ Threaded(q, F) /\ Len(q) \in Nat /\ n = Len(q)
  /\ Len(e) = n + 1 /\ \A i \in IdsOf(q) : e[i + 1] = q[i + 1]
  /\ e[n + 1] = x /\ x.next = NONE /\ x.op \notin {"ACCEPT", "REPEAT", "REPEAT_END"}
  /\ G = F \cup {<<n, n>>}

LEMMA AddInto ==
  ASSUME NEW q, NEW F, NEW n, NEW e, NEW x, NEW G, Adds(q, F, n, e, x, G)
  PROVE  Threaded(e, G)
  <1>1. Longer(q, e, 1)
    BY DEF Longer, Adds
  <1> QED BY <1>1, AddThreads DEF Adds

(* Two instructions more, and two pieces                                   *)
AddsTwo(q, F, n, m, e, x, y, G) ==
  /\ Threaded(q, F) /\ Len(q) \in Nat /\ n = Len(q) /\ m = n + 1
  /\ Len(e) = m + 1 /\ \A i \in IdsOf(q) : e[i + 1] = q[i + 1]
  /\ e[n + 1] = x /\ x.next = NONE /\ x.op \notin {"ACCEPT", "REPEAT", "REPEAT_END"}
  /\ e[m + 1] = y /\ y.next = NONE /\ y.op \notin {"ACCEPT", "REPEAT", "REPEAT_END"}
  /\ G = F \cup {<<n, n>>, <<m, m>>}

LEMMA AddTwoInto ==
  ASSUME NEW q, NEW F, NEW n, NEW m, NEW e, NEW x, NEW y, NEW G,
         AddsTwo(q, F, n, m, e, x, y, G)
  PROVE  Threaded(e, G)
  <1>. USE DEF AddsTwo
  <1>0. n \in Nat /\ m \in Nat /\ IdsOf(q) = 0 .. n - 1
    BY DEF IdsOf
  <1>1. PICK q1 : q1 = [k \in 1 .. m |-> e[k]]
    OBVIOUS
  <1>2. q1 = [k \in 1 .. m |-> q1[k]] /\ \A k \in 1 .. m : q1[k] = e[k]
    BY <1>1
  <1>3. Len(q1) = m
    BY <1>0, <1>2, Indexed
  <1>4. q1[n + 1] = x /\ \A i \in IdsOf(q) : q1[i + 1] = q[i + 1]
    BY <1>0, <1>2
  <1>5. PICK F1 : F1 = F \cup {<<n, n>>}
    OBVIOUS
  <1>6. Threaded(q1, F1)
    <2>1. Adds(q, F, n, q1, x, F1)
      BY <1>3, <1>4, <1>5 DEF Adds
    <2> QED BY <2>1, AddInto
  <1>7. \A i \in IdsOf(q1) : e[i + 1] = q1[i + 1]
    BY <1>0, <1>2, <1>3 DEF IdsOf
  <1>8. G = F1 \cup {<<m, m>>}
    BY <1>5
  <1>9. Adds(q1, F1, m, e, y, G)
    BY <1>0, <1>3, <1>6, <1>7, <1>8 DEF Adds
  <1> QED BY <1>9, AddInto

IsInstr(x) ==
  x = [op |-> x.op, a |-> x.a, b |-> x.b, next |-> x.next, min |-> x.min, max |-> x.max]

(* An instruction before it is linked                                      *)
Loose(x) ==
  [op |-> x.op, a |-> x.a, b |-> x.b, next |-> NONE, min |-> x.min, max |-> x.max]

LEMMA LooseIs ==
  ASSUME NEW x
  PROVE  Akin(x, Loose(x)) /\ Akin(Loose(x), x) /\ Loose(x).next = NONE
         /\ Loose(x).op = x.op
  BY DEF Akin, Loose

(* A group without anything in it                                          *)
LEMMA EmptyBracketInto ==
  ASSUME NEW q, NEW F, Threaded(q, F), Len(q) \in Nat, NEW n, n = Len(q),
         NEW m, m = n + 1, NEW e, Len(e) = m + 1,
         \A i \in IdsOf(q) : e[i + 1] = q[i + 1],
         e[n + 1].op = "OPEN", e[m + 1].op = "CLOSE", e[m + 1].next = NONE,
         e[n + 1].next = m, NEW G, G = F \cup {<<n, m>>}
  PROVE  Threaded(e, G)
  <1>0. /\ n \in Nat /\ m \in Nat /\ IdsOf(q) = 0 .. n - 1 /\ n # m
        /\ F \subseteq IdsOf(q) \X IdsOf(q)
    BY DEF IdsOf, Threaded
  <1>1. PICK x : x = Loose(e[n + 1])
    OBVIOUS
  <1>2. PICK q2 : q2 = [k \in 1 .. m + 1 |-> IF k = n + 1 THEN x ELSE e[k]]
    OBVIOUS
  <1>3. /\ q2 = [k \in 1 .. m + 1 |-> q2[k]] /\ q2[n + 1] = x
        /\ \A k \in 1 .. m + 1 : k # n + 1 => q2[k] = e[k]
    BY <1>0, <1>2
  <1>4. Len(q2) = m + 1 /\ m + 1 \in Nat
    BY <1>0, <1>3, Indexed
  <1>5. /\ \A i \in IdsOf(q) : q2[i + 1] = q[i + 1]
        /\ q2[m + 1] = e[m + 1]
    BY <1>0, <1>3, SMTT(30)
  <1>6. PICK F2 : F2 = F \cup {<<n, n>>, <<m, m>>}
    OBVIOUS
  <1>7. Threaded(q2, F2)
    <2>1. x.next = NONE /\ x.op \notin {"ACCEPT", "REPEAT", "REPEAT_END"}
      BY <1>1, LooseIs
    <2>2. PICK y : y = e[m + 1]
      OBVIOUS
    <2>3. y.next = NONE /\ y.op \notin {"ACCEPT", "REPEAT", "REPEAT_END"} /\ q2[m + 1] = y
      BY <1>5, <2>2
    <2>4. AddsTwo(q, F, n, m, q2, x, y, F2)
      BY <1>3, <1>4, <1>5, <1>6, <2>1, <2>3 DEF AddsTwo
    <2> QED BY <2>4, AddTwoInto
  <1>8. Linking(q2, e, n, m)
    <2>1. \A i \in IdsOf(q2) \ {n} : i + 1 \in 1 .. m + 1 /\ i + 1 # n + 1
      BY <1>0, <1>4 DEF IdsOf
    <2>2. Akin(e[n + 1], q2[n + 1])
      BY <1>1, <1>3, LooseIs
    <2> QED BY <1>3, <2>1, <2>2 DEF Linking
  <1>9. PICK u, v : u = <<n, n>> /\ v = <<m, m>>
    OBVIOUS
  <1>10. u \in F2 /\ v \in F2 /\ u # v /\ u \notin F /\ v \notin F
         /\ n = u[2] /\ m = v[1] /\ <<u[1], v[2]>> = <<n, m>>
    BY <1>0, <1>6, <1>9
  <1>11. G = (F2 \ {u, v}) \cup {<<u[1], v[2]>>}
    BY <1>6, <1>9, <1>10
  <1>12. Len(e) = Len(q2) /\ Len(q2) \in Nat
    BY <1>4
  <1>13. Merges(q2, F2, u, v, e, n, m, G)
    BY <1>7, <1>8, <1>10, <1>11, <1>12 DEF Merges
  <1> QED BY <1>13, MergeInto

(* A piece v between OPEN and CLOSE                                        *)
LEMMA BracketInto ==
  ASSUME NEW q, NEW F, Threaded(q, F), Len(q) \in Nat, NEW n, n = Len(q),
         NEW m, m = n + 1, NEW e, Len(e) = m + 1, NEW v, v \in F,
         NEW t, t = v[2], Linking(q, e, t, m),
         e[n + 1].op = "OPEN", e[m + 1].op = "CLOSE", e[m + 1].next = NONE,
         e[n + 1].next = v[1], NEW G, G = (F \ {v}) \cup {<<n, m>>}
  PROVE  Threaded(e, G)
  <1>0. /\ n \in Nat /\ m \in Nat /\ IdsOf(q) = 0 .. n - 1 /\ n # m
        /\ F \subseteq IdsOf(q) \X IdsOf(q) /\ t \in 0 .. n - 1
    BY DEF IdsOf, Threaded
  <1>1. PICK x : x = Loose(e[n + 1])
    OBVIOUS
  <1>2. PICK q2 : q2 = [k \in 1 .. m + 1 |->
                          IF k = n + 1 THEN x ELSE IF k = m + 1 THEN e[m + 1] ELSE q[k]]
    OBVIOUS
  <1>3. /\ q2 = [k \in 1 .. m + 1 |-> q2[k]] /\ q2[n + 1] = x
        /\ q2[m + 1] = e[m + 1]
        /\ \A k \in 1 .. n : q2[k] = q[k]
    BY <1>0, <1>2
  <1>4. Len(q2) = m + 1 /\ m + 1 \in Nat
    BY <1>0, <1>3, Indexed
  <1>5. ASSUME NEW i \in IdsOf(q) PROVE q2[i + 1] = q[i + 1]
    <2>1. PICK k \in 1 .. n : k = i + 1
      BY <1>0
    <2> QED BY <1>3, <2>1
  <1>6. PICK F2 : F2 = F \cup {<<n, n>>, <<m, m>>}
    OBVIOUS
  <1>7. Threaded(q2, F2)
    <2>1. x.next = NONE /\ x.op \notin {"ACCEPT", "REPEAT", "REPEAT_END"}
      BY <1>1, LooseIs
    <2>2. PICK y : y = e[m + 1]
      OBVIOUS
    <2>3. y.next = NONE /\ y.op \notin {"ACCEPT", "REPEAT", "REPEAT_END"} /\ q2[m + 1] = y
      BY <1>3, <2>2
    <2>4. AddsTwo(q, F, n, m, q2, x, y, F2)
      BY <1>3, <1>4, <1>5, <1>6, <2>1, <2>3 DEF AddsTwo
    <2> QED BY <2>4, AddTwoInto
  <1>8. PICK q3 : q3 = [k \in 1 .. m + 1 |-> IF k = n + 1 THEN e[n + 1] ELSE q2[k]]
    OBVIOUS
  <1>9. /\ q3 = [k \in 1 .. m + 1 |-> q3[k]] /\ q3[n + 1] = e[n + 1]
        /\ \A k \in 1 .. m + 1 : k # n + 1 => q3[k] = q2[k]
    BY <1>0, <1>8
  <1>10. Len(q3) = m + 1
    BY <1>0, <1>9, Indexed
  <1>11. PICK u, y, w : u = <<n, n>> /\ y = <<m, m>> /\ w = <<n, v[2]>>
    OBVIOUS
  <1>12. /\ u \in F2 /\ y \in F2 /\ v \in F2 /\ u # y /\ v # y /\ u # v /\ w # y
         /\ u \notin F /\ y \notin F /\ w \notin F
         /\ n = u[1] /\ n = u[2] /\ m = y[1] /\ m = y[2] /\ n = w[1] /\ t = w[2]
    BY <1>0, <1>6, <1>11
  <1>13. PICK F3 : F3 = (F2 \ {u, v}) \cup {w}
    OBVIOUS
  <1>14. Threaded(q3, F3)
    <2>1. PICK s : s = v[1]
      OBVIOUS
    <2>2. Linking(q2, q3, n, s)
      <3>1. \A i \in IdsOf(q2) \ {n} : i + 1 \in 1 .. m + 1 /\ i + 1 # n + 1
        BY <1>0, <1>4 DEF IdsOf
      <3>2. Akin(q3[n + 1], q2[n + 1])
        BY <1>1, <1>3, <1>9, LooseIs
      <3> QED BY <1>9, <2>1, <3>1, <3>2 DEF Linking
    <2>3. F3 = (F2 \ {u, v}) \cup {<<u[1], v[2]>>}
      BY <1>11, <1>12, <1>13
    <2>4. Len(q3) = Len(q2) /\ Len(q2) \in Nat
      BY <1>4, <1>10
    <2>5. Merges(q2, F2, u, v, q3, n, s, F3)
      BY <1>7, <1>12, <2>1, <2>2, <2>3, <2>4 DEF Merges
    <2> QED BY <2>5, MergeInto
  <1>15. Linking(q3, e, t, m)
    <2>1. IdsOf(q3) = 0 .. m
      BY <1>0, <1>10 DEF IdsOf
    <2>2. /\ \A i \in 0 .. n - 1 : i # t => e[i + 1] = q[i + 1]
          /\ Akin(e[t + 1], q[t + 1]) /\ e[t + 1].next = m
      BY <1>0 DEF Linking
    <2>3. ASSUME NEW i \in 0 .. n - 1 PROVE q3[i + 1] = q[i + 1]
      <3>1. PICK k \in 1 .. n : k = i + 1
        BY <1>0
      <3>2. k \in 1 .. m + 1 /\ k # n + 1
        BY <1>0
      <3> QED BY <1>3, <1>9, <3>1, <3>2
    <2>4. q3[m + 1] = e[m + 1]
      <3>1. m + 1 \in 1 .. m + 1 /\ m + 1 # n + 1
        BY <1>0
      <3> QED BY <1>3, <1>9, <3>1
    <2>5. \A i \in 0 .. m : i \in 0 .. n - 1 \/ i = n \/ i = m
      BY <1>0
    <2>6. ASSUME NEW i \in 0 .. m, i # t PROVE e[i + 1] = q3[i + 1]
      BY <1>9, <2>2, <2>3, <2>4, <2>5, <2>6
    <2> QED BY <1>0, <2>1, <2>2, <2>3, <2>6 DEF Linking
  <1>16. G = (F3 \ {w, y}) \cup {<<w[1], y[2]>>}
    BY <1>6, <1>11, <1>12, <1>13
  <1>17. w \in F3 /\ y \in F3
    BY <1>12, <1>13
  <1>18. Len(e) = Len(q3) /\ Len(q3) \in Nat
    BY <1>4, <1>10
  <1>19. Merges(q3, F3, w, y, e, t, m, G)
    BY <1>12, <1>14, <1>15, <1>16, <1>17, <1>18 DEF Merges
  <1> QED BY <1>19, MergeInto

-----------------------------------------------------------------------------
(* The nodes that still await their parents, and their code                *)
NodesOf(d) == 0 .. Len(d.nodes) - 1

Strand(d, j)  == <<d.first[j], d.tail[j]>>
Strands(d, P) == {Strand(d, j) : j \in P}

Shaped(d) ==
  /\ d.first = [j \in NodesOf(d) |-> d.first[j]]
  /\ d.tail = [j \in NodesOf(d) |-> d.tail[j]]

WovenOf(d, F, m) == Threaded(d.code, F) /\ Ranked(d.code, m) /\ Ordered(d.code)

Apart(d, P) == P \subseteq NodesOf(d) /\ \A j, k \in P : d.tail[j] = d.tail[k] => j = k

Woven(d, P, m) ==
  LoweringOK(d) /\ Shaped(d) /\ Apart(d, P) /\ WovenOf(d, Strands(d, P), m)

(* d and e differ in the code, the work and what stands for node i only.   *)
Untouched(d, e, i) ==
  /\ e.nodes = d.nodes
  /\ \A j \in NodesOf(d) \ {i} : e.first[j] = d.first[j] /\ e.tail[j] = d.tail[j]

LEMMA CodeLength ==
  ASSUME NEW d, LoweringOK(d)
  PROVE  /\ Len(d.code) \in Nat /\ d.code = [k \in 1 .. Len(d.code) |-> d.code[k]]
         /\ \A k \in 1 .. Len(d.code) : IsInstr(d.code[k])
  BY DEF LoweringOK, CodeOK, IsSeq, InstrOK, IsInstr

LEMMA LinkIs ==
  ASSUME NEW d, LoweringOK(d), NEW t \in IdsOf(d.code), NEW n, NEW e,
         e = Compiler!Link(d, t, n)
  PROVE  /\ LoweringOK(e) /\ e.first = d.first /\ e.tail = d.tail /\ e.nodes = d.nodes
         /\ e.status = d.status /\ Len(e.code) = Len(d.code)
         /\ Linking(d.code, e.code, t, n)
  <1>1. LoweringOK(e)
    BY LinkGoes DEF Goes
  <1>. DEFINE x == [d.code[t + 1] EXCEPT !.next = n]
              q == [d.code EXCEPT ![t + 1] = x]
  <1>2. e = [d EXCEPT !.code = q]
    BY DEF Compiler!Link, LoweringOK
  <1>3. /\ Len(d.code) \in Nat /\ d.code = [k \in 1 .. Len(d.code) |-> d.code[k]]
        /\ IsInstr(d.code[t + 1]) /\ t + 1 \in 1 .. Len(d.code)
    BY CodeLength DEF IdsOf
  <1>4. /\ Akin(x, d.code[t + 1]) /\ x.next = n
    BY <1>3 DEF IsInstr, Akin
  <1>5. PICK r : r = d.code
    OBVIOUS
  <1>6. PICK l \in Nat : l = Len(d.code)
    BY <1>3
  <1>. HIDE DEF x
  <1>7. q = [k \in 1 .. l |-> IF k = t + 1 THEN x ELSE r[k]]
    BY <1>3, <1>5, <1>6
  <1>. HIDE DEF q
  <1>8. q = [k \in 1 .. l |-> q[k]]
    BY <1>7
  <1>9. Len(q) = l
    BY <1>8, Indexed
  <1>10. Linking(d.code, q, t, n)
    <2>1. q[t + 1] = x
      BY <1>3, <1>6, <1>7
    <2>2. ASSUME NEW i \in IdsOf(d.code) \ {t} PROVE q[i + 1] = d.code[i + 1]
      <3>1. i + 1 \in 1 .. l /\ i + 1 # t + 1
        BY <1>6 DEF IdsOf
      <3> QED BY <1>5, <1>7, <3>1
    <2> QED BY <1>4, <2>1, <2>2 DEF Linking
  <1>11. /\ e.code = q /\ e.first = d.first /\ e.tail = d.tail /\ e.nodes = d.nodes
         /\ e.status = d.status
    BY <1>2 DEF LoweringOK
  <1> QED BY <1>1, <1>6, <1>9, <1>10, <1>11

LEMMA SpansIs ==
  ASSUME NEW d, LoweringOK(d), Shaped(d), NEW i \in NodesOf(d), NEW entry, NEW tail,
         NEW e, e = Compiler!Spans(d, i, entry, tail)
  PROVE  /\ LoweringOK(e) /\ Shaped(e) /\ Untouched(d, e, i) /\ e.code = d.code
         /\ e.nodes = d.nodes /\ e.status = d.status
         /\ e.first[i] = entry /\ e.tail[i] = tail
  <1>1. LoweringOK(e) /\ e.code = d.code
    BY SpansGoes DEF Goes
  <1>. DEFINE f == [d.first EXCEPT ![i] = entry]
              t == [d.tail EXCEPT ![i] = tail]
  <1>2. e = [d EXCEPT !.first = f, !.tail = t]
    BY DEF Compiler!Spans, LoweringOK
  <1>3. PICK g : g = d.first
    OBVIOUS
  <1>4. PICK h : h = d.tail
    OBVIOUS
  <1>5. /\ f = [j \in NodesOf(d) |-> IF j = i THEN entry ELSE g[j]]
        /\ t = [j \in NodesOf(d) |-> IF j = i THEN tail ELSE h[j]]
    BY <1>3, <1>4 DEF Shaped
  <1>. HIDE DEF f, t
  <1>6. e.first = f /\ e.tail = t /\ e.nodes = d.nodes /\ e.status = d.status
    BY <1>2 DEF LoweringOK
  <1>7. /\ f[i] = entry /\ t[i] = tail
        /\ \A j \in NodesOf(d) \ {i} : f[j] = g[j] /\ t[j] = h[j]
        /\ f = [j \in NodesOf(d) |-> f[j]] /\ t = [j \in NodesOf(d) |-> t[j]]
    BY <1>5
  <1>8. NodesOf(e) = NodesOf(d)
    BY <1>6 DEF NodesOf
  <1> QED BY <1>1, <1>3, <1>4, <1>6, <1>7, <1>8 DEF Shaped, Untouched

(* What every step of the second pass ends with: code, and what of it      *)
(* stands for node i.                                                      *)
SpansWell(d, Q, i, entry, tail, m) ==
  /\ LoweringOK(d) /\ Shaped(d) /\ i \in NodesOf(d) /\ i \notin Q /\ Apart(d, Q)
  /\ \A j \in Q : d.tail[j] # tail
  /\ WovenOf(d, Strands(d, Q) \cup {<<entry, tail>>}, m)

LEMMA SpansWeaves ==
  ASSUME NEW d, NEW Q, NEW i, NEW entry, NEW tail, NEW m,
         SpansWell(d, Q, i, entry, tail, m),
         NEW e, e = Compiler!Spans(d, i, entry, tail)
  PROVE  Woven(e, Q \cup {i}, m)
  <1>1. /\ LoweringOK(e) /\ Shaped(e) /\ Untouched(d, e, i) /\ e.code = d.code
        /\ e.nodes = d.nodes /\ e.first[i] = entry /\ e.tail[i] = tail
    BY SpansIs DEF SpansWell
  <1>2. NodesOf(e) = NodesOf(d)
    BY <1>1 DEF NodesOf
  <1>3. \A j \in Q : e.first[j] = d.first[j] /\ e.tail[j] = d.tail[j]
    BY <1>1 DEF Untouched, SpansWell, Apart
  <1>4. Apart(e, Q \cup {i})
    BY <1>1, <1>2, <1>3 DEF Apart, SpansWell
  <1>5. Strands(e, Q \cup {i}) = Strands(d, Q) \cup {<<entry, tail>>}
    BY <1>1, <1>3 DEF Strands, Strand
  <1> QED BY <1>1, <1>4, <1>5 DEF Woven, WovenOf, SpansWell

LEMMA StrandsLess ==
  ASSUME NEW d, NEW P, NEW m, Woven(d, P, m), NEW i \in P
  PROVE  /\ Strands(d, P \ {i}) = Strands(d, P) \ {Strand(d, i)}
         /\ Strand(d, i) \in Strands(d, P) /\ Apart(d, P \ {i})
         /\ \A j \in P \ {i} : Strand(d, j) # Strand(d, i) /\ d.tail[j] # d.tail[i]
  <1>1. \A j \in P \ {i} : d.tail[j] # d.tail[i]
    BY DEF Woven, Apart
  <1>2. \A j : Strand(d, j)[2] = d.tail[j]
    BY DEF Strand
  <1>3. \A j \in P \ {i} : Strand(d, j) # Strand(d, i)
    BY <1>1, <1>2
  <1>4. Apart(d, P \ {i})
    BY DEF Woven, Apart
  <1>5. Strands(d, P \ {i}) = Strands(d, P) \ {Strand(d, i)}
    BY <1>3 DEF Strands
  <1> QED BY <1>1, <1>3, <1>4, <1>5 DEF Strands

(* Node i takes over the code of its first child.                          *)
LEMMA TakesOver ==
  ASSUME NEW d, NEW P, NEW m, Woven(d, P, m), NEW j \in P, NEW i \in NodesOf(d), i \notin P,
         NEW e, e = Compiler!Spans(d, i, d.first[j], d.tail[j])
  PROVE  Woven(e, (P \ {j}) \cup {i}, m)
  <1>1. /\ Strands(d, P \ {j}) = Strands(d, P) \ {Strand(d, j)}
        /\ Strand(d, j) \in Strands(d, P) /\ Apart(d, P \ {j})
        /\ \A k \in P \ {j} : d.tail[k] # d.tail[j]
    BY StrandsLess
  <1>2. Strands(d, P \ {j}) \cup {<<d.first[j], d.tail[j]>>} = Strands(d, P)
    BY <1>1 DEF Strand
  <1>3. PICK entry, tail : entry = d.first[j] /\ tail = d.tail[j]
    OBVIOUS
  <1>4. SpansWell(d, P \ {j}, i, entry, tail, m)
    BY <1>1, <1>2, <1>3 DEF SpansWell, Woven
  <1> QED BY <1>3, <1>4, SpansWeaves

(* A link leaves ranks and bounds as they are.                             *)
LEMMA LinkingKeeps ==
  ASSUME NEW q, Len(q) \in Nat, NEW e, Len(e) = Len(q), NEW t, NEW n, Linking(q, e, t, n),
         NEW m, Ranked(q, m), Ordered(q)
  PROVE  Ranked(e, m) /\ Ordered(e)
  <1>1. IdsOf(e) = IdsOf(q)
    BY DEF IdsOf
  <1>2. ASSUME NEW i \in IdsOf(q) PROVE Akin(e[i + 1], q[i + 1])
    BY DEF Linking, Akin
  <1>3. Ranked(e, m)
    BY <1>1, <1>2, RankedSame
  <1>4. Ordered(e)
    BY <1>1, <1>2 DEF Ordered, Akin
  <1> QED BY <1>3, <1>4

(* The code of the next child follows that of the children before.         *)
LEMMA Chains ==
  ASSUME NEW d, NEW P, NEW m, Woven(d, P, m), NEW i \in P, NEW j \in P, i # j,
         NEW l, l = Compiler!Link(d, d.tail[i], d.first[j]),
         NEW e, e = Compiler!Spans(l, i, d.first[i], d.tail[j])
  PROVE  Woven(e, P \ {j}, m)
  <1>. DEFINE F == Strands(d, P)
              Q == P \ {i, j}
  <1>1. PICK u, v : u = Strand(d, i) /\ v = Strand(d, j)
    OBVIOUS
  <1>0. /\ u \in F /\ \A k \in P \ {i} : Strand(d, k) # u
    <2>1. /\ Strand(d, i) \in Strands(d, P)
          /\ \A k \in P \ {i} : Strand(d, k) # Strand(d, i) /\ d.tail[k] # d.tail[i]
      BY StrandsLess
    <2> QED BY <1>1, <2>1
  <1>21. /\ v \in F /\ \A k \in P \ {j} : Strand(d, k) # v
    <2>1. /\ Strand(d, j) \in Strands(d, P)
          /\ \A k \in P \ {j} : Strand(d, k) # Strand(d, j) /\ d.tail[k] # d.tail[j]
      BY StrandsLess
    <2> QED BY <1>1, <2>1
  <1>2. u \in F /\ v \in F /\ u # v /\ u[2] = d.tail[i] /\ v[1] = d.first[j]
        /\ u[1] = d.first[i] /\ v[2] = d.tail[j]
    BY <1>0, <1>21, <1>1 DEF Strand
  <1>3. /\ Threaded(d.code, F) /\ LoweringOK(d) /\ Ranked(d.code, m) /\ Ordered(d.code)
        /\ Shaped(d) /\ P \subseteq NodesOf(d)
    BY DEF Woven, WovenOf, Apart
  <1>4. Len(d.code) \in Nat
    BY <1>3, CodeLength
  <1>5. PICK t, n : t = d.tail[i] /\ n = d.first[j]
    OBVIOUS
  <1>6. t \in IdsOf(d.code)
    <2>1. F \subseteq IdsOf(d.code) \X IdsOf(d.code)
      BY <1>3 DEF Threaded
    <2>. HIDE DEF F
    <2> QED BY <1>2, <1>5, <2>1
  <1>7. /\ LoweringOK(l) /\ l.first = d.first /\ l.tail = d.tail /\ l.nodes = d.nodes
        /\ l.status = d.status /\ Len(l.code) = Len(d.code)
        /\ Linking(d.code, l.code, t, n)
    BY <1>3, <1>5, <1>6, LinkIs
  <1>8. Ranked(l.code, m) /\ Ordered(l.code)
    BY <1>3, <1>4, <1>7, LinkingKeeps
  <1>9. PICK G : G = (F \ {u, v}) \cup {<<u[1], v[2]>>}
    OBVIOUS
  <1>10. PICK q, r : q = d.code /\ r = l.code
    OBVIOUS
  <1>11. Merges(q, F, u, v, r, t, n, G)
    BY <1>2, <1>3, <1>4, <1>5, <1>7, <1>9, <1>10 DEF Merges
  <1>12. Threaded(r, G)
    BY <1>11, MergeInto
  <1>13. F \ {u, v} = Strands(d, Q)
    <2>1. \A k \in Q : Strand(d, k) # u /\ Strand(d, k) # v
      BY <1>0, <1>21
    <2> QED BY <1>1, <2>1 DEF Strands
  <1>14. Strands(l, Q) = Strands(d, Q)
    BY <1>7, SMTT(30) DEF Strands, Strand
  <1>15. NodesOf(l) = NodesOf(d) /\ Shaped(l)
    BY <1>3, <1>7, ZenonT(30) DEF NodesOf, Shaped
  <1>16. Apart(l, Q) /\ \A k \in Q : l.tail[k] # d.tail[j]
    <2>1. Apart(d, Q) /\ \A k \in Q : d.tail[k] # d.tail[j]
      BY DEF Woven, Apart
    <2> QED BY <1>7, <1>15, <2>1 DEF Apart
  <1>17. PICK entry, tail : entry = d.first[i] /\ tail = d.tail[j]
    OBVIOUS
  <1>18. SpansWell(l, Q, i, entry, tail, m)
    <2>1. G = Strands(l, Q) \cup {<<entry, tail>>}
      BY <1>2, <1>9, <1>13, <1>14, <1>17
    <2>2. i \in NodesOf(l) /\ i \notin Q
      BY <1>3, <1>15
    <2>. HIDE DEF F, Q
    <2> QED BY <1>7, <1>8, <1>10, <1>12, <1>15, <1>16, <1>17, <2>1, <2>2
            DEF SpansWell, WovenOf
  <1>19. Q \cup {i} = P \ {j}
    OBVIOUS
  <1>. HIDE DEF Q
  <1>20. Woven(e, Q \cup {i}, m)
    BY <1>17, <1>18, SpansWeaves
  <1> QED BY <1>19, <1>20
-----------------------------------------------------------------------------
(* What holds at first and goes on holding, holds up to n.                 *)
LEMMA UpTo ==
  ASSUME NEW n \in Nat, NEW S, 0 \in S, \A k \in 1 .. n : k - 1 \in S => k \in S
  PROVE  \A k \in 0 .. n : k \in S
  <1>. DEFINE T == {k \in 0 .. n : k \notin S}
  <1>1. SUFFICES ASSUME T # {} PROVE FALSE
    OBVIOUS
  <1>2. PICK k \in T : \A j \in T : k <= j
    <2>1. T \subseteq Nat
      OBVIOUS
    <2> QED BY <1>1, <2>1, LeastNat
  <1>3. k \in 1 .. n /\ k - 1 \in 0 .. n /\ k - 1 \notin T
    BY <1>2
  <1> QED BY <1>2, <1>3

LEMMA RunsAt ==
  ASSUME NEW p, NEW d, NEW f, Runs(f, p, d)
  PROVE  /\ f[0] = d
         /\ \A k \in Nat \ {0} : f[k] = StepOf(p, k, f[k - 1])
  <1>1. ASSUME NEW k \in Nat PROVE f[k] = IF k = 0 THEN d ELSE StepOf(p, k, f[k - 1])
    BY DEF Runs
  <1> QED BY <1>1

-----------------------------------------------------------------------------
(* The nodes of a lowering                                                 *)
Parent(d, j) == Compiler!Tree(d, j).parent
End(d, j)    == Compiler!Tree(d, j).end

Treed(d) ==
  /\ IsTree(d) /\ Len(d.nodes) \in Nat
  /\ \A j \in NodesOf(d) : End(d, j) \in j + 1 .. Len(d.nodes)

LEMMA TreedIs ==
  ASSUME NEW d, Treed(d)
  PROVE  /\ NodesOf(d) \subseteq Nat /\ 0 \in NodesOf(d)
         /\ \A j \in NodesOf(d) : /\ Parent(d, j) \in Int /\ Parent(d, j) < j
                                  /\ End(d, j) \in Nat /\ j < End(d, j)
                                  /\ Parent(d, j) = -1 \/ Parent(d, j) \in NodesOf(d)
         /\ \A j \in NodesOf(d), i \in NodesOf(d) :
              Parent(d, j) = i => i < j /\ j < End(d, i)
         /\ \A i \in NodesOf(d) : \A j \in Nat : i < j /\ j < End(d, i) => j \in NodesOf(d)
  <1>1. NodesOf(d) = 0 .. Len(d.nodes) - 1 /\ Len(d.nodes) \in Nat /\ Len(d.nodes) > 0
    BY DEF NodesOf, Treed, IsTree
  <1>2. \A j \in NodesOf(d) : End(d, j) \in j + 1 .. Len(d.nodes)
    BY DEF Treed
  <1>3. Parent(d, 0) = NONE
    BY DEF Treed, IsTree, Parent
  <1>4. \A k \in NodesOf(d) \ {0} :
          Parent(d, k) \in 0 .. k - 1 /\ Compiler!Within(d, Parent(d, k), k)
    BY DEF Treed, IsTree, Parent, NodesOf
  <1>5. \A a, k : Compiler!Within(d, a, k) <=> a < k /\ k < End(d, a)
    BY DEF Compiler!Within, End
  <1>6. NONE = -1
    BY DEF NONE
  <1>7. ASSUME NEW j \in NodesOf(d), NEW i \in NodesOf(d), Parent(d, j) = i
        PROVE  i < j /\ j < End(d, i)
    <2>1. j # 0
      BY <1>1, <1>3, <1>6, <1>7
    <2> QED BY <1>4, <1>5, <1>7, <2>1
  <1>8. ASSUME NEW j \in NodesOf(d)
        PROVE  /\ Parent(d, j) \in Int /\ Parent(d, j) < j
               /\ Parent(d, j) = -1 \/ Parent(d, j) \in NodesOf(d)
    BY <1>1, <1>3, <1>4, <1>6
  <1> QED BY <1>1, <1>2, <1>7, <1>8

(* The nodes after node i that await the parent of i or one above it, and  *)
(* those after node i + k that await node i                                *)
Others(d, i)    == {j \in NodesOf(d) : i < j /\ Parent(d, j) < i /\ d.first[j] # NONE}
Kids(d, i, k)   == {j \in NodesOf(d) : i + k < j /\ Parent(d, j) = i /\ d.first[j] # NONE}
Mine(x, i)      == IF x.first[i] = NONE THEN {} ELSE {i}

(* x is what has become of d after the nodes up to i + k have been joined. *)
Joining(d, x, i, k) ==
  /\ Woven(x, Others(d, i) \cup Kids(d, i, k) \cup Mine(x, i), i + 1)
  /\ Untouched(d, x, i)
  /\ x.first[i] = NONE => x.tail[i] = NONE
  /\ Kids(d, i, 0) = {} => x.first[i] = NONE

LEMMA JoinedJoins ==
  ASSUME NEW d, Treed(d), NEW i \in NodesOf(d), NEW k \in Nat \ {0}, NEW x,
         Joining(d, x, i, k - 1), NEW e, e = Compiler!Joined(x, i, i + k),
         i + k \in NodesOf(d)
  PROVE  Joining(d, e, i, k)
  <1>1. PICK j \in NodesOf(d) : j = i + k
    OBVIOUS
  <1>2. i \in Nat /\ j \in Nat /\ i < j /\ i + 1 \in Int /\ NodesOf(d) \subseteq Nat
        /\ \A a \in NodesOf(d) : (i + (k - 1) < a) <=> (j < a \/ a = j)
    BY <1>1, TreedIs
  <1>3. PICK P : P = Others(d, i) \cup Kids(d, i, k - 1) \cup Mine(x, i)
    OBVIOUS
  <1>4. /\ Woven(x, P, i + 1) /\ LoweringOK(x) /\ Shaped(x)
        /\ NodesOf(x) = NodesOf(d) /\ x.nodes = d.nodes
        /\ x.first[j] = d.first[j] /\ x.tail[j] = d.tail[j]
        /\ \A a \in NodesOf(d) \ {i} : x.first[a] = d.first[a] /\ x.tail[a] = d.tail[a]
        /\ x.first[i] = NONE => x.tail[i] = NONE
        /\ Kids(d, i, 0) = {} => x.first[i] = NONE
    BY <1>2, <1>3 DEF Joining, Untouched, Woven, NodesOf
  <1>5. /\ i \notin Others(d, i) /\ i \notin Kids(d, i, k - 1) /\ i \notin Kids(d, i, k)
        /\ j \notin Kids(d, i, k) /\ j # i
    BY <1>1, <1>2 DEF Others, Kids
  <1>6. Compiler!NONE = NONE
    BY DEF NONE, Compiler!NONE
  <1>7. CASE Parent(d, j) # i \/ x.first[j] = NONE
    <2>1. e = x
      BY <1>1, <1>4, <1>6, <1>7 DEF Compiler!Joined, Parent, Compiler!Tree
    <2>2. Kids(d, i, k - 1) = Kids(d, i, k)
      BY <1>1, <1>2, <1>4, <1>7 DEF Kids
    <2> QED BY <2>1, <2>2 DEF Joining
  <1>8. CASE Parent(d, j) = i /\ x.first[j] # NONE
    <2>1. /\ Kids(d, i, k - 1) = Kids(d, i, k) \cup {j} /\ j \in Kids(d, i, 0)
          /\ j \notin Others(d, i)
      BY <1>1, <1>2, <1>4, <1>8 DEF Kids, Others
    <2>2. Parent(x, j) = i
      BY <1>4, <1>8 DEF Parent, Compiler!Tree
    <2>3. CASE x.first[i] = NONE
      <3>1. e = Compiler!Spans(x, i, x.first[j], x.tail[j])
        BY <1>1, <1>6, <1>8, <2>2, <2>3 DEF Compiler!Joined, Parent
      <3>2. Mine(x, i) = {} /\ j \in P /\ i \notin P
        BY <1>3, <1>5, <2>1, <2>3 DEF Mine
      <3>3. Woven(e, (P \ {j}) \cup {i}, i + 1)
        BY <1>4, <3>1, <3>2, TakesOver
      <3>4. /\ Untouched(x, e, i) /\ e.first[i] = x.first[j]
        BY <1>4, <3>1, SpansIs
      <3>5. Mine(e, i) = {i}
        BY <1>8, <3>4 DEF Mine
      <3>6. (P \ {j}) \cup {i} = Others(d, i) \cup Kids(d, i, k) \cup Mine(e, i)
        BY <1>3, <1>5, <2>1, <3>2, <3>5
      <3>7. Untouched(d, e, i)
        BY <1>4, <3>4 DEF Untouched
      <3> QED BY <1>8, <2>1, <3>3, <3>4, <3>6, <3>7 DEF Joining
    <2>4. CASE x.first[i] # NONE
      <3>1. PICK l : l = Compiler!Link(x, x.tail[i], x.first[j])
        OBVIOUS
      <3>2. e = Compiler!Spans(l, i, x.first[i], x.tail[j])
        BY <1>1, <1>6, <1>8, <2>2, <2>4, <3>1 DEF Compiler!Joined, Parent
      <3>3. Mine(x, i) = {i} /\ j \in P /\ i \in P
        BY <1>3, <2>1, <2>4 DEF Mine
      <3>4. Woven(e, P \ {j}, i + 1)
        BY <1>4, <1>5, <3>1, <3>2, <3>3, Chains
      <3>5. /\ LoweringOK(l) /\ l.first = x.first /\ l.tail = x.tail /\ l.nodes = x.nodes
        <4>1. x.tail[i] \in IdsOf(x.code)
          <5>1. <<x.first[i], x.tail[i]>> \in Strands(x, P)
            BY <3>3 DEF Strands, Strand
          <5> QED BY <1>4, <5>1 DEF Woven, WovenOf, Threaded
        <4> QED BY <1>4, <3>1, <4>1, LinkIs
      <3>6. Shaped(l) /\ NodesOf(l) = NodesOf(d)
        BY <1>4, <3>5 DEF Shaped, NodesOf
      <3>7. Untouched(l, e, i) /\ e.first[i] = x.first[i]
        BY <3>2, <3>5, <3>6, SpansIs
      <3>8. Untouched(d, e, i)
        BY <1>4, <3>5, <3>6, <3>7 DEF Untouched
      <3>9. Mine(e, i) = {i}
        BY <2>4, <3>7 DEF Mine
      <3>10. P \ {j} = Others(d, i) \cup Kids(d, i, k) \cup Mine(e, i)
        BY <1>3, <1>5, <2>1, <3>3, <3>9
      <3> QED BY <2>1, <2>4, <3>4, <3>7, <3>8, <3>10 DEF Joining
    <2> QED BY <2>3, <2>4
  <1> QED BY <1>7, <1>8

(* The children of node i are joined once all nodes below i have been.     *)
LEMMA JoinJoins ==
  ASSUME NEW d, Treed(d), NEW i \in NodesOf(d), Joining(d, d, i, 0),
         NEW e, e = Compiler!Join(d, i)
  PROVE  /\ Woven(e, Others(d, i) \cup Mine(e, i), i + 1) /\ Untouched(d, e, i)
         /\ e.first[i] = NONE => e.tail[i] = NONE
         /\ Kids(d, i, 0) = {} => e.first[i] = NONE
  <1>. DEFINE Joins(f) == f = [k \in Nat |-> IF k = 0 THEN d
                                             ELSE Compiler!Joined(f[k - 1], i, i + k)]
              joined == CHOOSE f : Joins(f)
              p == [of |-> "join", i |-> i]
              n == Len(Compiler!Below(d, i))
  <1>1. \A k, x : StepOf(p, k, x) = Compiler!Joined(x, i, i + k)
    BY DEF StepOf
  <1>. HIDE DEF p
  <1>2. PICK g : Runs(g, p, d)
    BY StepsExist
  <1>3. Joins(g)
    BY <1>1, <1>2 DEF Runs
  <1>4. Joins(joined)
    BY <1>3
  <1>5. Compiler!Join(d, i) = joined[n]
    BY DEF Compiler!Join
  <1>. HIDE DEF joined
  <1>6. Runs(joined, p, d)
    BY <1>1, <1>4 DEF Runs
  <1>7. /\ i \in Nat /\ End(d, i) \in Nat /\ i < End(d, i)
        /\ NodesOf(d) \subseteq Nat
        /\ \A j \in NodesOf(d) : Parent(d, j) = i => j < End(d, i)
        /\ \A j \in Nat : i < j /\ j < End(d, i) => j \in NodesOf(d)
    BY TreedIs
  <1>8. n = End(d, i) - i - 1 /\ n \in Nat
    <2>1. PICK m \in Nat : m = End(d, i) - i - 1
      BY <1>7
    <2>2. Compiler!Below(d, i) = [k \in 1 .. m |-> i + k]
      BY <2>1 DEF Compiler!Below, End
    <2> QED BY <2>1, <2>2
  <1>. HIDE DEF n
  <1>9. /\ joined[0] = d
        /\ \A k \in Nat \ {0} : joined[k] = Compiler!Joined(joined[k - 1], i, i + k)
    BY <1>1, <1>6, RunsAt
  <1>. DEFINE S == {k \in 0 .. n : Joining(d, joined[k], i, k)}
  <1>10. \A k \in 0 .. n : k \in S
    <2>1. 0 \in S
      BY <1>8, <1>9
    <2>2. ASSUME NEW k \in 1 .. n, k - 1 \in S PROVE k \in S
      <3>1. i + k \in NodesOf(d) /\ k \in Nat \ {0} /\ k \in 0 .. n
        BY <1>7, <1>8
      <3>2. Joining(d, joined[k - 1], i, k - 1)
        BY <2>2
      <3>3. joined[k] = Compiler!Joined(joined[k - 1], i, i + k)
        BY <1>9, <3>1
      <3>4. Joining(d, joined[k], i, k)
        BY <3>1, <3>2, <3>3, JoinedJoins
      <3> QED BY <3>1, <3>4
    <2>. HIDE DEF S
    <2> QED BY <1>8, <2>1, <2>2, UpTo
  <1>11. Joining(d, e, i, n)
    BY <1>5, <1>8, <1>10
  <1>12. Kids(d, i, n) = {}
    BY <1>7, <1>8 DEF Kids
  <1>13. Others(d, i) \cup Kids(d, i, n) \cup Mine(e, i) = Others(d, i) \cup Mine(e, i)
    BY <1>12
  <1> QED BY <1>11, <1>13 DEF Joining
-----------------------------------------------------------------------------
(* e is d with the instructions q added.                                   *)
Appends(d, e, q) ==
  /\ Goes(d, e) /\ e.first = d.first /\ e.tail = d.tail
  /\ Len(e.code) = Len(d.code) + Len(q)
  /\ \A k \in 1 .. Len(d.code) : e.code[k] = d.code[k]
  /\ \A k \in 1 .. Len(q) : e.code[Len(d.code) + k] = q[k]

LEMMA StopsLowering ==
  ASSUME NEW d, LoweringOK(d), NEW s, s # "OK"
  PROVE  ~Compiler!Lowers(Compiler!Stop(d, s))
  BY DEF Compiler!Lowers, Compiler!Stop, LoweringOK

LEMMA EmitIs ==
  ASSUME NEW d, LoweringOK(d), NEW q, CodeOK(q), NEW e, e = Compiler!Emit(d, q),
         Compiler!Lowers(e)
  PROVE  Appends(d, e, q)
  <1>. DEFINE p == d.code \o q
  <1>1. Goes(d, e) /\ e.first = d.first /\ e.tail = d.tail
    BY EmitGoes
  <1>2. e = [d EXCEPT !.code = p]
    BY StopsLowering DEF Compiler!Emit
  <1>3. /\ IsSeq(d.code) /\ IsSeq(q)
        /\ Len(d.code) \in Nat /\ Len(q) \in Nat
    BY DEF LoweringOK, CodeOK, IsSeq
  <1>4. /\ Len(p) = Len(d.code) + Len(q)
        /\ \A k \in 1 .. Len(d.code) : p[k] = d.code[k]
        /\ \A k \in 1 .. Len(q) : p[Len(d.code) + k] = q[k]
    BY <1>3, Concatenated
  <1>. HIDE DEF p
  <1>5. e.code = p
    BY <1>2 DEF LoweringOK
  <1> QED BY <1>1, <1>4, <1>5 DEF Appends

(* e differs from d in the work done and the ranges only.                  *)
Keeps(d, e) ==
  Goes(d, e) /\ e.code = d.code /\ e.first = d.first /\ e.tail = d.tail

LEMMA KeepsWoven ==
  ASSUME NEW d, NEW P, NEW m, Woven(d, P, m), NEW e, Keeps(d, e)
  PROVE  Woven(e, P, m) /\ NodesOf(e) = NodesOf(d)
  <1>1. /\ LoweringOK(e) /\ e.nodes = d.nodes /\ e.code = d.code /\ e.first = d.first
        /\ e.tail = d.tail
    BY DEF Keeps, Goes
  <1>2. NodesOf(e) = NodesOf(d) /\ Strands(e, P) = Strands(d, P)
    BY <1>1 DEF NodesOf, Strands, Strand
  <1>3. Shaped(e) /\ Apart(e, P)
    BY <1>1, <1>2 DEF Woven, Shaped, Apart
  <1> QED BY <1>1, <1>2, <1>3 DEF Woven, WovenOf

LEMMA WorkKeeps ==
  ASSUME NEW d, LoweringOK(d)
  PROVE  Keeps(d, Compiler!Work(d))
  <1>. DEFINE n == d.steps + 1
              e == Compiler!Work(d)
  <1>1. Goes(d, e)
    BY WorkGoes
  <1>2. e \in {Compiler!Stop(d, "LIMIT"), [d EXCEPT !.steps = n]}
    BY DEF Compiler!Work
  <1>. HIDE DEF n, e
  <1>3. e.code = d.code /\ e.first = d.first /\ e.tail = d.tail
    BY <1>2 DEF LoweringOK, Compiler!Stop
  <1>4. Keeps(d, e)
    BY <1>1, <1>3 DEF Keeps
  <1> QED BY <1>4 DEF e

LEMMA KeepsAgain ==
  ASSUME NEW d, NEW e, Keeps(d, e), NEW f, Keeps(e, f)
  PROVE  Keeps(d, f)
  BY GoesOnwards DEF Keeps

(* What is emitted stands for node i from now on; l has the new code.      *)
Finishing(d, P, m, Q, i, l, entry, tail, k, e) ==
  /\ Woven(d, P, m) /\ Q \subseteq P /\ i \in NodesOf(d) /\ i \notin Q
  /\ LoweringOK(l) /\ l.first = d.first /\ l.tail = d.tail /\ l.nodes = d.nodes
  /\ tail \in Nat /\ Len(d.code) <= tail
  /\ WovenOf(l, Strands(d, Q) \cup {<<entry, tail>>}, k)
  /\ e = Compiler!Spans(l, i, entry, tail)

LEMMA Finishes ==
  ASSUME NEW d, NEW P, NEW m, NEW Q, NEW i, NEW l, NEW entry, NEW tail, NEW k,
         NEW e, Finishing(d, P, m, Q, i, l, entry, tail, k, e)
  PROVE  /\ Woven(e, Q \cup {i}, k) /\ Untouched(d, e, i)
         /\ e.first[i] = entry /\ e.tail[i] = tail
  <1>1. /\ LoweringOK(d) /\ Shaped(d) /\ Apart(d, P) /\ Threaded(d.code, Strands(d, P))
        /\ Q \subseteq P /\ LoweringOK(l) /\ l.first = d.first /\ l.tail = d.tail
        /\ l.nodes = d.nodes
    BY DEF Finishing, Woven, WovenOf
  <1>2. Strands(l, Q) = Strands(d, Q) /\ NodesOf(l) = NodesOf(d) /\ Shaped(l)
    BY <1>1 DEF Strands, Strand, NodesOf, Shaped
  <1>3. Apart(l, Q)
    BY <1>1, <1>2 DEF Apart
  <1>4. ASSUME NEW j \in Q PROVE l.tail[j] # tail
    <2>1. Strand(d, j) \in Strands(d, P)
      BY <1>1 DEF Strands
    <2>2. Strand(d, j) \in IdsOf(d.code) \X IdsOf(d.code)
      BY <1>1, <2>1 DEF Threaded
    <2>3. d.tail[j] \in IdsOf(d.code)
      BY <2>2 DEF Strand
    <2>4. Len(d.code) \in Nat
      BY <1>1, CodeLength
    <2> QED BY <1>1, <2>3, <2>4 DEF IdsOf, Finishing
  <1>5. SpansWell(l, Q, i, entry, tail, k)
    BY <1>1, <1>2, <1>3, <1>4 DEF SpansWell, Finishing
  <1>6. Woven(e, Q \cup {i}, k)
    <2>1. e = Compiler!Spans(l, i, entry, tail)
      BY DEF Finishing
    <2> QED BY <1>5, <2>1, SpansWeaves
  <1>7. Untouched(l, e, i) /\ e.first[i] = entry /\ e.tail[i] = tail
    <2>1. e = Compiler!Spans(l, i, entry, tail) /\ i \in NodesOf(l)
      BY <1>2 DEF Finishing
    <2> QED BY <1>1, <1>2, <2>1, SpansIs
  <1>8. Untouched(d, e, i)
    BY <1>1, <1>2, <1>7 DEF Untouched
  <1> QED BY <1>6, <1>7, <1>8

(* A node with one instruction of its own                                  *)
LEMMA SingleWeaves ==
  ASSUME NEW d, NEW Q, NEW i \in Nat, Woven(d, Q, i + 1), i \in NodesOf(d), i \notin Q,
         NEW x, InstrOK(x), x.next = NONE,
         x.op \notin {"ACCEPT", "REPEAT", "REPEAT_END", "OPEN"},
         NEW e, Appends(d, e, <<x>>), NEW f, f = Compiler!Single(e, i), Compiler!Lowers(f)
  PROVE  /\ Woven(f, Q \cup {i}, i) /\ Untouched(d, f, i)
         /\ f.first[i] # NONE
  <1>1. PICK n : n = Len(d.code)
    OBVIOUS
  <1>2. /\ LoweringOK(d) /\ Threaded(d.code, Strands(d, Q)) /\ Ranked(d.code, i + 1)
        /\ Ordered(d.code) /\ n \in Nat
    BY <1>1, CodeLength DEF Woven, WovenOf
  <1>3. Len(<<x>>) = 1 /\ <<x>>[1] = x
    OBVIOUS
  <1>4. /\ LoweringOK(e) /\ e.first = d.first /\ e.tail = d.tail /\ e.nodes = d.nodes
        /\ Len(e.code) = n + 1 /\ e.code[n + 1] = x
        /\ \A k \in 1 .. n : e.code[k] = d.code[k]
    BY <1>1, <1>3 DEF Appends, Goes
  <1>5. IdsOf(d.code) = 0 .. n - 1 /\ IdsOf(e.code) = 0 .. n
    BY <1>1, <1>2, <1>4 DEF IdsOf
  <1>6. ASSUME NEW j \in IdsOf(d.code) PROVE e.code[j + 1] = d.code[j + 1]
    <2>1. PICK k \in 1 .. n : k = j + 1
      BY <1>2, <1>5
    <2> QED BY <1>4, <2>1
  <1>7. PICK F, G : F = Strands(d, Q) /\ G = F \cup {<<n, n>>}
    OBVIOUS
  <1>8. Threaded(e.code, G)
    <2>1. Adds(d.code, F, n, e.code, x, G)
      BY <1>1, <1>2, <1>4, <1>6, <1>7 DEF Adds
    <2> QED BY <2>1, AddInto
  <1>9. Ranked(e.code, i) /\ Ordered(e.code)
    <2>1. \A j \in IdsOf(d.code) : Akin(e.code[j + 1], d.code[j + 1])
      BY <1>6 DEF Akin
    <2>2. \A j \in IdsOf(e.code) \ IdsOf(d.code) : j = n
      BY <1>2, <1>5
    <2>3. \A j \in IdsOf(e.code) \ IdsOf(d.code) :
            e.code[j + 1].op \notin Scoped /\ e.code[j + 1].op # "REPEAT"
      BY <1>4, <2>2 DEF Scoped
    <2>4. Ranked(d.code, i)
      BY <1>2, RankedLower
    <2>5. Len(e.code) \in Nat /\ Len(d.code) \in Nat
      BY <1>1, <1>2, <1>4
    <2>6. Ranked(e.code, i)
      BY <2>1, <2>3, <2>4, <2>5, RankedSame
    <2>7. Ordered(e.code)
      BY <1>2, <2>1, <2>3, OrderedOn
    <2> QED BY <2>6, <2>7
  <1>11. f = Compiler!Spans(e, i, n, n)
    <2>1. Len(e.code) - 1 = n
      BY <1>2, <1>4
    <2>2. CASE Compiler!Lowers(e)
      BY <2>1, <2>2 DEF Compiler!Single
    <2>3. CASE ~Compiler!Lowers(e)
      BY <2>3 DEF Compiler!Single
    <2> QED BY <2>2, <2>3
  <1>10. PICK m : m = i + 1
    OBVIOUS
  <1>13. Finishing(d, Q, m, Q, i, e, n, n, i, f)
    BY <1>1, <1>2, <1>4, <1>7, <1>8, <1>9, <1>10, <1>11 DEF Finishing, WovenOf
  <1>12. Woven(f, Q \cup {i}, i) /\ Untouched(d, f, i) /\ f.first[i] = n
    BY <1>13, Finishes
  <1> QED BY <1>2, <1>12 DEF NONE
(* The lemmas about groups with a name for what they need                  *)
Empties(q, F, n, m, e, G) ==
  /\ Threaded(q, F) /\ Len(q) \in Nat /\ n = Len(q) /\ m = n + 1 /\ Len(e) = m + 1
  /\ \A i \in IdsOf(q) : e[i + 1] = q[i + 1]
  /\ e[n + 1].op = "OPEN" /\ e[m + 1].op = "CLOSE" /\ e[m + 1].next = NONE
  /\ e[n + 1].next = m /\ G = F \cup {<<n, m>>}

LEMMA EmptyInto ==
  ASSUME NEW q, NEW F, NEW n, NEW m, NEW e, NEW G, Empties(q, F, n, m, e, G)
  PROVE  Threaded(e, G)
  BY EmptyBracketInto DEF Empties

Encloses(q, F, n, m, e, v, t, G) ==
  /\ Threaded(q, F) /\ Len(q) \in Nat /\ n = Len(q) /\ m = n + 1 /\ Len(e) = m + 1
  /\ v \in F /\ t = v[2] /\ Linking(q, e, t, m)
  /\ e[n + 1].op = "OPEN" /\ e[m + 1].op = "CLOSE" /\ e[m + 1].next = NONE
  /\ e[n + 1].next = v[1] /\ G = (F \ {v}) \cup {<<n, m>>}

LEMMA EnclosedInto ==
  ASSUME NEW q, NEW F, NEW n, NEW m, NEW e, NEW v, NEW t, NEW G,
         Encloses(q, F, n, m, e, v, t, G)
  PROVE  Threaded(e, G)
  BY BracketInto DEF Encloses

(* Two instructions come after those of node i, whose last is linked.      *)
LinksOn(d, x, y, e, n, t, s, l) ==
  /\ LoweringOK(d) /\ Appends(d, e, <<x, y>>) /\ n = Len(d.code) /\ t \in IdsOf(d.code)
  /\ l = Compiler!Link(e, t, s)

LEMMA AppendsLinked ==
  ASSUME NEW d, NEW x, NEW y, NEW e, NEW n, NEW t, NEW s, NEW l,
         LinksOn(d, x, y, e, n, t, s, l)
  PROVE  /\ LoweringOK(l) /\ l.first = d.first /\ l.tail = d.tail /\ l.nodes = d.nodes
         /\ Len(l.code) = n + 2 /\ Linking(d.code, l.code, t, s)
         /\ l.code[n + 1] = x /\ l.code[n + 2] = y
  <1>0. /\ LoweringOK(d) /\ Appends(d, e, <<x, y>>) /\ n = Len(d.code)
        /\ t \in IdsOf(d.code) /\ l = Compiler!Link(e, t, s)
    BY DEF LinksOn
  <1>1. Len(<<x, y>>) = 2 /\ <<x, y>>[1] = x /\ <<x, y>>[2] = y
    OBVIOUS
  <1>2. /\ LoweringOK(e) /\ e.first = d.first /\ e.tail = d.tail /\ e.nodes = d.nodes
        /\ Len(e.code) = n + 2 /\ e.code[n + 1] = x /\ e.code[n + 2] = y
        /\ \A k \in 1 .. n : e.code[k] = d.code[k]
    BY <1>0, <1>1 DEF Appends, Goes
  <1>3. n \in Nat
    BY <1>0, CodeLength
  <1>4. IdsOf(d.code) = 0 .. n - 1 /\ IdsOf(e.code) = 0 .. n + 1
    BY <1>0, <1>2, <1>3 DEF IdsOf
  <1>5. t \in IdsOf(e.code) /\ n \in IdsOf(e.code) \ {t} /\ n + 1 \in IdsOf(e.code) \ {t}
        /\ IdsOf(d.code) \subseteq IdsOf(e.code)
    BY <1>0, <1>3, <1>4
  <1>6. /\ LoweringOK(l) /\ l.first = e.first /\ l.tail = e.tail /\ l.nodes = e.nodes
        /\ l.status = e.status /\ Len(l.code) = Len(e.code)
        /\ Linking(e.code, l.code, t, s)
    BY <1>0, <1>2, <1>5, LinkIs
  <1>7. /\ \A j \in IdsOf(e.code) \ {t} : l.code[j + 1] = e.code[j + 1]
        /\ Akin(l.code[t + 1], e.code[t + 1]) /\ l.code[t + 1].next = s
    BY <1>0, <1>6 DEF Linking
  <1>8. ASSUME NEW j \in IdsOf(d.code) PROVE e.code[j + 1] = d.code[j + 1]
    <2>1. PICK k \in 1 .. n : k = j + 1
      BY <1>0, <1>3, <1>4
    <2> QED BY <1>0, <1>2, <2>1
  <1>9. Linking(d.code, l.code, t, s)
    BY <1>0, <1>5, <1>7, <1>8 DEF Linking
  <1>10. l.code[n + 1] = x
    BY <1>0, <1>2, <1>5, <1>7
  <1>11. l.code[n + 2] = y
    <2>1. n + 1 + 1 = n + 2
      BY <1>0, <1>3
    <2> QED BY <1>0, <1>2, <1>5, <1>7, <2>1
  <1> QED BY <1>0, <1>2, <1>6, <1>9, <1>10, <1>11

(* The same when nothing is linked                                         *)
LEMMA AppendsTwo ==
  ASSUME NEW d, LoweringOK(d), NEW x, NEW y, NEW e, Appends(d, e, <<x, y>>),
         NEW n, n = Len(d.code)
  PROVE  /\ LoweringOK(e) /\ e.first = d.first /\ e.tail = d.tail /\ e.nodes = d.nodes
         /\ Len(e.code) = n + 2 /\ e.code[n + 1] = x /\ e.code[n + 2] = y
         /\ \A j \in IdsOf(d.code) : e.code[j + 1] = d.code[j + 1]
  <1>1. Len(<<x, y>>) = 2 /\ <<x, y>>[1] = x /\ <<x, y>>[2] = y
    OBVIOUS
  <1>2. /\ LoweringOK(e) /\ e.first = d.first /\ e.tail = d.tail /\ e.nodes = d.nodes
        /\ Len(e.code) = n + 2 /\ e.code[n + 1] = x /\ e.code[n + 2] = y
        /\ \A k \in 1 .. n : e.code[k] = d.code[k]
    BY <1>1 DEF Appends, Goes
  <1>3. n \in Nat
    BY CodeLength
  <1>4. ASSUME NEW j \in IdsOf(d.code) PROVE e.code[j + 1] = d.code[j + 1]
    <2>1. PICK k \in 1 .. n : k = j + 1
      BY <1>3 DEF IdsOf
    <2> QED BY <1>2, <2>1
  <1> QED BY <1>2, <1>4

(* A scope and its end: x opens it, and its rank is i.                     *)
ScopesMore(q, n, i, r) ==
  /\ n \in Nat /\ Len(q) = n /\ i \in Int /\ Ranked(q, i + 1) /\ Ordered(q)
  /\ Len(r) = n + 2 /\ \A j \in IdsOf(q) : Akin(r[j + 1], q[j + 1])
  /\ r[n + 1].op \in Scoped => Compiler!Rank(r[n + 1]) = i
  /\ r[n + 1].op = "REPEAT" => r[n + 1].min <= r[n + 1].max
  /\ r[n + 2].op \notin Scoped

LEMMA ScopeRanks ==
  ASSUME NEW q, NEW n, NEW i, NEW r, ScopesMore(q, n, i, r)
  PROVE  Ranked(r, i) /\ Ordered(r)
  <1>0. /\ n \in Nat /\ Len(q) = n /\ i \in Int /\ Ranked(q, i + 1) /\ Ordered(q)
        /\ Len(r) = n + 2 /\ \A j \in IdsOf(q) : Akin(r[j + 1], q[j + 1])
        /\ r[n + 1].op \in Scoped => Compiler!Rank(r[n + 1]) = i
        /\ r[n + 1].op = "REPEAT" => r[n + 1].min <= r[n + 1].max
        /\ r[n + 2].op \notin Scoped
    BY DEF ScopesMore
  <1>1. /\ IdsOf(q) = 0 .. n - 1 /\ IdsOf(r) = 0 .. n + 1 /\ Len(q) \in Nat /\ Len(r) \in Nat
        /\ n \in IdsOf(r) /\ n \notin IdsOf(q) /\ n + 1 + 1 = n + 2
    BY <1>0 DEF IdsOf
  <1>2. \A j \in IdsOf(r) \ IdsOf(q) : j = n \/ j = n + 1
    BY <1>1
  <1>3. \A j \in IdsOf(r) \ IdsOf(q) : j # n => r[j + 1].op \notin Scoped
    BY <1>0, <1>1, <1>2
  <1>4. Ranked(r, i)
    BY <1>0, <1>1, <1>3, RankedOn
  <1>5. \A j \in IdsOf(r) \ IdsOf(q) :
          r[j + 1].op = "REPEAT" => r[j + 1].min <= r[j + 1].max
    BY <1>0, <1>1, <1>2, <1>3 DEF Scoped
  <1> QED BY <1>0, <1>4, <1>5, OrderedOn

(* A group goes between OPEN and CLOSE.                                    *)
Bracketing(d, Q, i, n, m, x, y, e, f) ==
  /\ i \in Nat /\ Woven(d, Q \cup Mine(d, i), i + 1) /\ i \in NodesOf(d) /\ i \notin Q
  /\ n = Len(d.code) /\ m = n + 1 /\ x.op = "OPEN" /\ x.max = i
  /\ x.next = IF d.first[i] = NONE THEN m ELSE d.first[i]
  /\ y.op = "CLOSE" /\ y.next = NONE
  /\ Appends(d, e, <<x, y>>) /\ f = Compiler!Wrapped(e, i, m, n, m)

LEMMA BracketWeaves ==
  ASSUME NEW d, NEW Q, NEW i, NEW n, NEW m, NEW x, NEW y, NEW e, NEW f,
         Bracketing(d, Q, i, n, m, x, y, e, f)
  PROVE  /\ Woven(f, Q \cup {i}, i) /\ Untouched(d, f, i) /\ f.first[i] # NONE
  <1>0. /\ i \in Nat /\ Woven(d, Q \cup Mine(d, i), i + 1) /\ i \in NodesOf(d) /\ i \notin Q
        /\ n = Len(d.code) /\ m = n + 1 /\ x.op = "OPEN" /\ x.max = i
        /\ x.next = IF d.first[i] = NONE THEN m ELSE d.first[i]
        /\ y.op = "CLOSE" /\ y.next = NONE
        /\ Appends(d, e, <<x, y>>) /\ f = Compiler!Wrapped(e, i, m, n, m)
     BY DEF Bracketing
   <1>1. PICK P : P = Q \cup Mine(d, i)
     OBVIOUS
   <1>2. /\ LoweringOK(d) /\ Woven(d, P, i + 1) /\ Threaded(d.code, Strands(d, P))
         /\ Ranked(d.code, i + 1) /\ Ordered(d.code) /\ n \in Nat /\ m + 1 = n + 2 /\ m \in Nat
         /\ n <= m
     BY <1>0, <1>1, CodeLength DEF Woven, WovenOf
   <1>3. /\ LoweringOK(e) /\ e.first = d.first /\ e.tail = d.tail /\ e.nodes = d.nodes
         /\ Len(e.code) = n + 2 /\ e.code[n + 1] = x /\ e.code[n + 2] = y
         /\ \A j \in IdsOf(d.code) : e.code[j + 1] = d.code[j + 1]
     BY <1>0, <1>2, AppendsTwo, SMTT(30)
   <1>4. PICK F, G : F = Strands(d, P) /\ G = Strands(d, Q) \cup {<<n, m>>}
     OBVIOUS
   <1>5. Compiler!NONE = NONE
    BY DEF Compiler!NONE, NONE
  <1>6. PICK k : k = i + 1
    OBVIOUS
  <1>7. CASE d.first[i] = NONE
    <2>1. P = Q /\ F = Strands(d, Q)
      BY <1>0, <1>1, <1>4, <1>7 DEF Mine
    <2>2. f = Compiler!Spans(e, i, n, m)
      BY <1>0, <1>3, <1>5, <1>7 DEF Compiler!Wrapped
    <2>3. Threaded(e.code, G)
      <3>1. /\ Len(e.code) = m + 1 /\ e.code[n + 1].op = "OPEN" /\ e.code[m + 1].op = "CLOSE"
            /\ e.code[m + 1].next = NONE /\ e.code[n + 1].next = m
            /\ G = F \cup {<<n, m>>} /\ Len(d.code) \in Nat
        BY <1>0, <1>2, <1>3, <1>4, <1>7, <2>1
      <3>2. PICK q, r : q = d.code /\ r = e.code
        OBVIOUS
      <3>3. Empties(q, F, n, m, r, G)
        BY <1>0, <1>2, <1>3, <1>4, <3>1, <3>2 DEF Empties
      <3>4. Threaded(r, G)
        BY <1>0, <3>3, EmptyInto
      <3> QED BY <1>0, <3>2, <3>4
    <2>4. Ranked(e.code, i) /\ Ordered(e.code)
      <3>1. \A j \in IdsOf(d.code) : Akin(e.code[j + 1], d.code[j + 1])
        BY <1>0, <1>3 DEF Akin
      <3>2. /\ Compiler!Rank(e.code[n + 1]) = i /\ e.code[n + 1].op # "REPEAT"
            /\ e.code[n + 2].op \notin Scoped
        BY <1>0, <1>3 DEF Compiler!Rank, Scoped
      <3>3. ScopesMore(d.code, n, i, e.code)
        BY <1>0, <1>2, <1>3, <3>1, <3>2 DEF ScopesMore
      <3> QED BY <1>0, <3>3, ScopeRanks
    <2>5. Finishing(d, P, k, Q, i, e, n, m, i, f)
      BY <1>0, <1>2, <1>3, <1>4, <1>6, <2>1, <2>2, <2>3, <2>4 DEF Finishing, WovenOf
    <2>6. Woven(f, Q \cup {i}, i) /\ Untouched(d, f, i) /\ f.first[i] = n
      BY <2>5, Finishes
    <2> QED BY <1>0, <1>2, <2>6 DEF NONE
  <1>8. CASE d.first[i] # NONE
    <2>1. P = Q \cup {i} /\ i \in P /\ P \ {i} = Q
      BY <1>0, <1>1, <1>8 DEF Mine
    <2>2. PICK l, t : t = d.tail[i] /\ l = Compiler!Link(e, t, m)
      OBVIOUS
    <2>3. f = Compiler!Spans(l, i, n, m)
      BY <1>0, <1>3, <1>5, <1>8, <2>2 DEF Compiler!Wrapped
    <2>4. PICK v : v = Strand(d, i)
      OBVIOUS
    <2>5. /\ Strands(d, Q) = F \ {v} /\ v \in F
      <3>1. /\ Strands(d, P \ {i}) = Strands(d, P) \ {Strand(d, i)}
            /\ Strand(d, i) \in Strands(d, P)
        BY <1>0, <1>2, <2>1, StrandsLess
      <3> QED BY <1>0, <1>4, <2>1, <2>4, <3>1
    <2>6. v[1] = d.first[i] /\ t = v[2]
      BY <1>0, <2>2, <2>4 DEF Strand
    <2>7. t \in IdsOf(d.code)
      BY <1>0, <1>2, <1>4, <2>5, <2>6 DEF Threaded
    <2>8. /\ LoweringOK(l) /\ l.first = d.first /\ l.tail = d.tail /\ l.nodes = d.nodes
          /\ Len(l.code) = n + 2 /\ Linking(d.code, l.code, t, m)
          /\ l.code[n + 1] = x /\ l.code[n + 2] = y
      <3>1. LinksOn(d, x, y, e, n, t, m, l)
        BY <1>0, <1>2, <2>2, <2>7 DEF LinksOn
      <3> QED BY <1>0, <3>1, AppendsLinked
    <2>9. Threaded(l.code, G)
      <3>1. /\ Len(l.code) = m + 1 /\ l.code[n + 1].op = "OPEN" /\ l.code[m + 1].op = "CLOSE"
            /\ l.code[m + 1].next = NONE /\ l.code[n + 1].next = v[1]
            /\ G = (F \ {v}) \cup {<<n, m>>} /\ Len(d.code) \in Nat
        BY <1>0, <1>2, <1>4, <1>8, <2>5, <2>6, <2>8
      <3>2. PICK q, r : q = d.code /\ r = l.code
        OBVIOUS
      <3>3. Encloses(q, F, n, m, r, v, t, G)
        BY <1>0, <1>2, <1>4, <2>5, <2>6, <2>8, <3>1, <3>2 DEF Encloses
      <3>4. Threaded(r, G)
        BY <1>0, <3>3, EnclosedInto
      <3> QED BY <1>0, <3>2, <3>4
    <2>10. Ranked(l.code, i) /\ Ordered(l.code)
      <3>1. \A j \in IdsOf(d.code) : Akin(l.code[j + 1], d.code[j + 1])
        BY <1>0, <2>8 DEF Linking, Akin
      <3>2. /\ Compiler!Rank(l.code[n + 1]) = i /\ l.code[n + 1].op # "REPEAT"
            /\ l.code[n + 2].op \notin Scoped
        BY <1>0, <2>8 DEF Compiler!Rank, Scoped
      <3>3. ScopesMore(d.code, n, i, l.code)
        BY <1>0, <1>2, <2>8, <3>1, <3>2 DEF ScopesMore
      <3> QED BY <1>0, <3>3, ScopeRanks
    <2>11. Finishing(d, P, k, Q, i, l, n, m, i, f)
      BY <1>0, <1>2, <1>4, <1>6, <2>1, <2>3, <2>8, <2>9, <2>10 DEF Finishing, WovenOf
    <2>12. Woven(f, Q \cup {i}, i) /\ Untouched(d, f, i) /\ f.first[i] = n
      BY <2>11, Finishes
    <2> QED BY <1>0, <1>2, <2>12 DEF NONE
  <1> QED BY <1>0, <1>7, <1>8

(* A quantified piece goes between REPEAT and REPEAT_END.                  *)
Circling(d, Q, i, n, x, y, e, f) ==
  /\ i \in Nat /\ Woven(d, Q \cup Mine(d, i), i + 1) /\ i \in NodesOf(d) /\ i \notin Q
  /\ n = Len(d.code) /\ d.first[i] # NONE
  /\ x.op = "REPEAT" /\ x.a = d.first[i] /\ x.b = i /\ x.next = NONE /\ x.min <= x.max
  /\ y.op = "REPEAT_END" /\ y.a = n
  /\ Appends(d, e, <<x, y>>) /\ f = Compiler!Wrapped(e, i, n + 1, n, n)

LEMMA LoopWeaves ==
  ASSUME NEW d, NEW Q, NEW i, NEW n, NEW x, NEW y, NEW e, NEW f,
         Circling(d, Q, i, n, x, y, e, f)
  PROVE  /\ Woven(f, Q \cup {i}, i) /\ Untouched(d, f, i) /\ f.first[i] # NONE
  <1>0. /\ i \in Nat /\ Woven(d, Q \cup Mine(d, i), i + 1) /\ i \in NodesOf(d) /\ i \notin Q
        /\ n = Len(d.code) /\ d.first[i] # NONE
        /\ x.op = "REPEAT" /\ x.a = d.first[i] /\ x.b = i /\ x.next = NONE /\ x.min <= x.max
        /\ y.op = "REPEAT_END" /\ y.a = n
        /\ Appends(d, e, <<x, y>>) /\ f = Compiler!Wrapped(e, i, n + 1, n, n)
     BY DEF Circling
   <1>1. PICK P : P = Q \cup Mine(d, i)
     OBVIOUS
   <1>2. /\ LoweringOK(d) /\ Woven(d, P, i + 1) /\ Threaded(d.code, Strands(d, P))
         /\ Ranked(d.code, i + 1) /\ Ordered(d.code) /\ n \in Nat /\ n <= n
     BY <1>0, <1>1, CodeLength DEF Woven, WovenOf
   <1>3. /\ e.first = d.first /\ e.tail = d.tail
     BY <1>0, <1>2, AppendsTwo
   <1>4. PICK F, G : F = Strands(d, P) /\ G = Strands(d, Q) \cup {<<n, n>>}
     OBVIOUS
   <1>5. Compiler!NONE = NONE
    BY DEF Compiler!NONE, NONE
  <1>6. PICK k : k = i + 1
    OBVIOUS
  <1>7. P = Q \cup {i} /\ i \in P /\ P \ {i} = Q
    BY <1>0, <1>1 DEF Mine
  <1>8. PICK l, t : t = d.tail[i] /\ l = Compiler!Link(e, t, n + 1)
    OBVIOUS
  <1>9. f = Compiler!Spans(l, i, n, n)
    BY <1>0, <1>3, <1>5, <1>8 DEF Compiler!Wrapped
  <1>10. PICK v : v = Strand(d, i)
    OBVIOUS
  <1>11. /\ Strands(d, Q) = F \ {v} /\ v \in F
    <2>1. /\ Strands(d, P \ {i}) = Strands(d, P) \ {Strand(d, i)}
          /\ Strand(d, i) \in Strands(d, P)
      BY <1>0, <1>2, <1>7, StrandsLess
    <2> QED BY <1>0, <1>4, <1>7, <1>10, <2>1
  <1>12. v[1] = d.first[i] /\ t = v[2]
    BY <1>0, <1>8, <1>10 DEF Strand
  <1>13. t \in IdsOf(d.code)
    BY <1>0, <1>2, <1>4, <1>11, <1>12 DEF Threaded
  <1>14. /\ LoweringOK(l) /\ l.first = d.first /\ l.tail = d.tail /\ l.nodes = d.nodes
         /\ Len(l.code) = n + 2 /\ Linking(d.code, l.code, t, n + 1)
         /\ l.code[n + 1] = x /\ l.code[n + 2] = y
    <2>1. PICK m : m = n + 1
      OBVIOUS
    <2>2. l = Compiler!Link(e, t, m)
      BY <1>0, <1>8, <2>1
    <2>3. /\ LoweringOK(l) /\ l.first = d.first /\ l.tail = d.tail /\ l.nodes = d.nodes
          /\ Len(l.code) = n + 2 /\ Linking(d.code, l.code, t, m)
          /\ l.code[n + 1] = x /\ l.code[n + 2] = y
      <3>1. LinksOn(d, x, y, e, n, t, m, l)
        BY <1>0, <1>2, <1>13, <2>2 DEF LinksOn
      <3> QED BY <1>0, <3>1, AppendsLinked
    <2> QED BY <1>0, <2>1, <2>3
  <1>15. Threaded(l.code, G)
    <2>1. G = (F \ {v}) \cup {<<n, n>>} /\ Len(d.code) \in Nat
      BY <1>0, <1>2, <1>4, <1>11
    <2>2. PICK q, r : q = d.code /\ r = l.code
      OBVIOUS
    <2>3. /\ Len(r) = n + 2 /\ Linking(q, r, v[2], n + 1)
          /\ r[n + 1].op = "REPEAT" /\ r[n + 1].a = v[1] /\ r[n + 1].next = NONE
          /\ r[n + 2].op = "REPEAT_END" /\ r[n + 2].a = n
          /\ Threaded(q, F) /\ Len(q) \in Nat /\ n = Len(q) /\ v \in F
      BY <1>0, <1>2, <1>4, <1>11, <1>12, <1>14, <2>1, <2>2
    <2>4. Threaded(r, (F \ {v}) \cup {<<n, n>>})
      BY <1>0, <2>3, LoopThreads
    <2> QED BY <1>0, <2>1, <2>2, <2>4
  <1>16. Ranked(l.code, i) /\ Ordered(l.code)
    <2>1. \A j \in IdsOf(d.code) : Akin(l.code[j + 1], d.code[j + 1])
      BY <1>0, <1>14 DEF Linking, Akin
    <2>2. /\ Compiler!Rank(l.code[n + 1]) = i
          /\ l.code[n + 1].min <= l.code[n + 1].max
          /\ l.code[n + 2].op \notin Scoped
      BY <1>0, <1>14 DEF Compiler!Rank, Scoped
    <2>3. ScopesMore(d.code, n, i, l.code)
      BY <1>0, <1>2, <1>14, <2>1, <2>2 DEF ScopesMore
    <2> QED BY <1>0, <2>3, ScopeRanks
  <1>17. Finishing(d, P, k, Q, i, l, n, n, i, f)
    BY <1>0, <1>2, <1>4, <1>6, <1>7, <1>9, <1>14, <1>15, <1>16 DEF Finishing, WovenOf
  <1>18. Woven(f, Q \cup {i}, i) /\ Untouched(d, f, i) /\ f.first[i] = n
    BY <1>17, Finishes
  <1> QED BY <1>0, <1>2, <1>18 DEF NONE
-----------------------------------------------------------------------------
(* The nodes from number m on have been lowered: those that await a node   *)
(* before it are the pieces of the code.  Nothing stands for a node that   *)
(* is part of an instruction's own text.                                   *)
Covered(d, j) ==
  \E a \in NodesOf(d) : /\ Compiler!Within(d, a, j)
                        /\ Compiler!Name(d, a) \in Compiler!Own \cup {"terminal"}

Pending(d, m) == {j \in NodesOf(d) : m <= j /\ Parent(d, j) < m /\ d.first[j] # NONE}

Weaving(d, m) ==
  /\ Treed(d) /\ Woven(d, Pending(d, m), m)
  /\ \A j \in NodesOf(d) : d.first[j] = NONE => d.tail[j] = NONE
  /\ \A j \in NodesOf(d) : j < m \/ Covered(d, j) => d.first[j] = NONE

LEMMA SameTree ==
  ASSUME NEW d, NEW e, e.nodes = d.nodes
  PROVE  /\ Treed(d) => Treed(e)
         /\ NodesOf(e) = NodesOf(d) /\ \A j : Covered(e, j) <=> Covered(d, j)
         /\ \A j : Parent(e, j) = Parent(d, j) /\ End(e, j) = End(d, j)
                   /\ Compiler!Name(e, j) = Compiler!Name(d, j)
  <1>1. /\ NodesOf(e) = NodesOf(d)
        /\ \A j : Compiler!Tree(e, j) = Compiler!Tree(d, j)
    BY DEF NodesOf, Compiler!Tree
  <1>2. /\ \A j : Parent(e, j) = Parent(d, j) /\ End(e, j) = End(d, j)
                  /\ Compiler!Name(e, j) = Compiler!Name(d, j)
        /\ \A a, j : Compiler!Within(e, a, j) <=> Compiler!Within(d, a, j)
    BY <1>1 DEF Parent, End, Compiler!Name, Compiler!Within
  <1>3. IsTree(d) => IsTree(e)
    BY <1>1, <1>2 DEF IsTree
  <1>4. \A j : Covered(e, j) <=> Covered(d, j)
    BY <1>1, <1>2 DEF Covered
  <1>5. Treed(d) => Treed(e)
    BY <1>1, <1>2, <1>3 DEF Treed
  <1> QED BY <1>1, <1>2, <1>4, <1>5

LEMMA KeepsWeaving ==
  ASSUME NEW d, NEW m, Weaving(d, m), NEW e, Keeps(d, e)
  PROVE  Weaving(e, m) /\ NodesOf(e) = NodesOf(d)
         /\ \A j : Compiler!Name(e, j) = Compiler!Name(d, j)
  <1>1. e.nodes = d.nodes /\ e.first = d.first /\ e.tail = d.tail
    BY DEF Keeps, Goes
  <1>2. /\ Treed(d) => Treed(e)
        /\ NodesOf(e) = NodesOf(d) /\ \A j : Covered(e, j) <=> Covered(d, j)
        /\ \A j : Parent(e, j) = Parent(d, j)
                  /\ Compiler!Name(e, j) = Compiler!Name(d, j)
    BY <1>1, SameTree
  <1>3. Pending(e, m) = Pending(d, m)
    BY <1>1, <1>2 DEF Pending
  <1>4. Woven(e, Pending(e, m), m)
    <2>1. PICK P : P = Pending(d, m) /\ Woven(d, P, m)
      BY DEF Weaving
    <2>2. Woven(e, P, m)
      BY <2>1, KeepsWoven
    <2> QED BY <1>3, <2>1, <2>2
  <1> QED BY <1>1, <1>2, <1>4 DEF Weaving

(* What lowering node i has to lead to                                     *)
Finished(d, e, i) ==
  /\ Woven(e, Others(d, i) \cup Mine(e, i), i) /\ Untouched(d, e, i)
  /\ e.first[i] = NONE => e.tail[i] = NONE
  /\ Covered(d, i) => e.first[i] = NONE

LEMMA FinishedWeaves ==
  ASSUME NEW d, NEW i \in NodesOf(d), Weaving(d, i + 1), NEW e, Finished(d, e, i)
  PROVE  Weaving(e, i)
  <1>1. e.nodes = d.nodes
        /\ \A j \in NodesOf(d) \ {i} : e.first[j] = d.first[j] /\ e.tail[j] = d.tail[j]
    BY DEF Finished, Untouched
  <1>2. /\ Treed(e) /\ Treed(d)
        /\ NodesOf(e) = NodesOf(d) /\ \A j : Covered(e, j) <=> Covered(d, j)
        /\ \A j : Parent(e, j) = Parent(d, j)
    BY <1>1, SameTree DEF Weaving
  <1>3. /\ NodesOf(d) \subseteq Nat
        /\ \A j \in NodesOf(d) : Parent(d, j) \in Int /\ Parent(d, j) < j
    BY <1>2, TreedIs
  <1>4. ASSUME NEW j \in NodesOf(d)
        PROVE  j \in Pending(e, i) <=> j \in Others(d, i) \cup Mine(e, i)
    <2>1. CASE j = i
      BY <1>2, <1>3, <2>1 DEF Pending, Others, Mine
    <2>2. CASE j # i
      <3>1. i <= j <=> i < j
        BY <1>3, <2>2
      <3> QED BY <1>1, <1>2, <2>2, <3>1 DEF Pending, Others, Mine
    <2> QED BY <2>1, <2>2
  <1>5. Pending(e, i) = Others(d, i) \cup Mine(e, i)
    BY <1>2, <1>4 DEF Pending, Others, Mine
  <1>6. ASSUME NEW j \in NodesOf(d)
        PROVE  /\ e.first[j] = NONE => e.tail[j] = NONE
               /\ j < i \/ Covered(e, j) => e.first[j] = NONE
    <2>1. CASE j = i
      BY <1>2, <1>3, <2>1 DEF Finished
    <2>2. CASE j # i
      <3>1. j < i => j < i + 1
        BY <1>3
      <3> QED BY <1>1, <1>2, <2>2, <3>1 DEF Weaving
    <2> QED BY <2>1, <2>2
  <1> QED BY <1>2, <1>5, <1>6 DEF Weaving, Finished

(* Where the lowering of node i starts                                     *)
LEMMA NodeStarts ==
  ASSUME NEW d, NEW i \in NodesOf(d), Weaving(d, i + 1)
  PROVE  /\ Woven(d, Others(d, i) \cup Kids(d, i, 0), i + 1) /\ Joining(d, d, i, 0)
         /\ d.first[i] = NONE /\ d.tail[i] = NONE /\ i \notin Others(d, i)
         /\ Covered(d, i) \/ Compiler!Name(d, i) \in Compiler!Own \cup {"terminal"}
              => Kids(d, i, 0) = {}
         /\ Covered(d, i) => Compiler!Name(d, i) \notin Compiler!Own \cup {"Group"}
  <1>1. /\ Treed(d) /\ IsTree(d) /\ NodesOf(d) \subseteq Nat
        /\ \A j \in NodesOf(d) : Parent(d, j) \in Int /\ End(d, j) \in Nat
        /\ \A j \in NodesOf(d), k \in NodesOf(d) : Parent(d, j) = k => k < j /\ j < End(d, k)
    BY TreedIs DEF Weaving, Treed
  <1>2. \A a, k \in NodesOf(d) : Compiler!Within(d, a, k) =>
          /\ End(d, k) <= End(d, a)
          /\ Compiler!Name(d, a) \in Compiler!Own \cup {"terminal"} =>
               Compiler!Name(d, k) \notin Compiler!Own \cup {"Group"}
    BY <1>1 DEF IsTree, NodesOf, End
  <1>3. \A a, k : Compiler!Within(d, a, k) <=> a < k /\ k < End(d, a)
    BY DEF Compiler!Within, End
  <1>4. d.first[i] = NONE /\ d.tail[i] = NONE
    <2>1. i < i + 1
      BY <1>1
    <2> QED BY <2>1 DEF Weaving
  <1>5. Pending(d, i + 1) = Others(d, i) \cup Kids(d, i, 0)
    <2>1. ASSUME NEW j \in NodesOf(d)
          PROVE  /\ i + 1 <= j <=> i < j
                 /\ i + 0 < j <=> i < j
                 /\ Parent(d, j) < i + 1 <=> (Parent(d, j) < i \/ Parent(d, j) = i)
      <3>. PICK a \in Int : a = Parent(d, j)
        BY <1>1
      <3> QED BY <1>1
    <2> QED BY <2>1 DEF Pending, Others, Kids
  <1>6. Mine(d, i) = {} /\ i \notin Others(d, i)
    BY <1>1, <1>4 DEF Mine, Others
  <1>7. Woven(d, Others(d, i) \cup Kids(d, i, 0), i + 1)
    BY <1>5 DEF Weaving
  <1>8. Joining(d, d, i, 0)
    BY <1>4, <1>6, <1>7 DEF Joining, Untouched
  <1>9. ASSUME Covered(d, i) \/ Compiler!Name(d, i) \in Compiler!Own \cup {"terminal"},
               NEW j \in Kids(d, i, 0)
        PROVE  FALSE
    <2>1. /\ j \in NodesOf(d) /\ Parent(d, j) = i /\ d.first[j] # NONE
          /\ i < j /\ j < End(d, i)
      BY <1>1 DEF Kids
    <2>2. Covered(d, j)
      <3>1. CASE Covered(d, i)
        <4>1. PICK a \in NodesOf(d) :
                /\ Compiler!Within(d, a, i)
                /\ Compiler!Name(d, a) \in Compiler!Own \cup {"terminal"}
          BY <3>1 DEF Covered
        <4>2. a < i /\ End(d, i) <= End(d, a)
          BY <1>2, <1>3, <4>1
        <4>3. a < j /\ j < End(d, a)
          BY <1>1, <2>1, <4>2
        <4> QED BY <1>3, <4>1, <4>3 DEF Covered
      <3>2. CASE Compiler!Name(d, i) \in Compiler!Own \cup {"terminal"}
        BY <1>3, <2>1, <3>2 DEF Covered
      <3> QED BY <1>9, <3>1, <3>2
    <2> QED BY <2>1, <2>2 DEF Weaving
  <1>10. Covered(d, i) => Compiler!Name(d, i) \notin Compiler!Own \cup {"Group"}
    BY <1>2 DEF Covered
  <1> QED BY <1>4, <1>6, <1>7, <1>8, <1>9, <1>10

(* A lowering without a new scope is one down to a lower rank too.         *)
LEMMA WovenLower ==
  ASSUME NEW d, NEW P, NEW m \in Int, Woven(d, P, m + 1)
  PROVE  Woven(d, P, m)
  BY RankedLower DEF Woven, WovenOf

LEMMA SkipWeaves ==
  ASSUME NEW d, NEW i \in NodesOf(d), Weaving(d, i + 1), Compiler!Name(d, i) = "terminal"
  PROVE  Weaving(d, i)
  <1>1. /\ Woven(d, Others(d, i) \cup Kids(d, i, 0), i + 1)
        /\ d.first[i] = NONE /\ d.tail[i] = NONE /\ Kids(d, i, 0) = {}
    BY NodeStarts
  <1>2. i \in Int
    BY TreedIs DEF Weaving
  <1>3. Mine(d, i) = {}
    BY <1>1 DEF Mine
  <1>4. Woven(d, Others(d, i) \cup Mine(d, i), i)
    <2>1. PICK P : P = Others(d, i) \cup Mine(d, i)
      OBVIOUS
    <2>2. Woven(d, P, i + 1)
      BY <1>1, <1>3, <2>1
    <2> QED BY <1>2, <2>1, <2>2, WovenLower
  <1>5. Finished(d, d, i)
    BY <1>1, <1>4 DEF Finished, Untouched
  <1> QED BY <1>5, FinishedWeaves

(* An instruction that is no scope, before it is linked                    *)
Plain(x) ==
  InstrOK(x) /\ x.next = NONE /\ x.op \notin {"ACCEPT", "REPEAT", "REPEAT_END", "OPEN"}

LEMMA SingleStep ==
  ASSUME NEW d, NEW i \in NodesOf(d), Weaving(d, i + 1),
         Compiler!Name(d, i) \in Compiler!Own, NEW x, Plain(x),
         NEW e, e = Compiler!Emit(d, <<x>>), NEW f, f = Compiler!Single(e, i),
         Compiler!Lowers(f)
  PROVE  Weaving(f, i)
  <1>1. /\ Woven(d, Others(d, i) \cup Kids(d, i, 0), i + 1)
        /\ Kids(d, i, 0) = {} /\ i \notin Others(d, i) /\ ~Covered(d, i)
    BY NodeStarts
  <1>2. i \in Nat
    BY TreedIs DEF Weaving
  <1>3. Compiler!Lowers(e)
    BY DEF Compiler!Single
  <1>4. LoweringOK(d) /\ CodeOK(<<x>>)
    BY OneInstr DEF Weaving, Woven, Plain
  <1>5. Appends(d, e, <<x>>)
    BY <1>3, <1>4, EmitIs
  <1>6. PICK Q : Q = Others(d, i)
    OBVIOUS
  <1>7. Woven(d, Q, i + 1) /\ i \notin Q
    BY <1>1, <1>6
  <1>8. /\ InstrOK(x) /\ x.next = NONE
        /\ x.op \notin {"ACCEPT", "REPEAT", "REPEAT_END", "OPEN"}
    BY DEF Plain
  <1>9. Woven(f, Q \cup {i}, i) /\ Untouched(d, f, i) /\ f.first[i] # NONE
    BY <1>2, <1>5, <1>7, <1>8, SingleWeaves
  <1>10. Finished(d, f, i)
    BY <1>1, <1>6, <1>9 DEF Finished, Mine
  <1> QED BY <1>10, FinishedWeaves
-----------------------------------------------------------------------------
(* A number is never above the limit for repetitions.                      *)
LEMMA DigitIs ==
  ASSUME NEW d, NEW t, Compiler!Name(d, t) = "terminal" => Compiler!Tree(d, t).value \in Int,
         d.limits.max_repeat \in Nat, NEW v \in Int, v <= d.limits.max_repeat
  PROVE  Compiler!Digit(d, v, t) \in Int /\ Compiler!Digit(d, v, t) <= d.limits.max_repeat
  <1>1. CASE Compiler!Name(d, t) # "terminal"
    BY <1>1 DEF Compiler!Digit
  <1>2. CASE Compiler!Name(d, t) = "terminal"
    <2>1. PICK u, m : u = Compiler!Tree(d, t).value - 48 /\ m = v * 10 + u
      OBVIOUS
    <2>2. m \in Int
      BY <1>2, <2>1
    <2>3. Compiler!Digit(d, v, t)
          = IF v = NONE \/ m > d.limits.max_repeat THEN NONE ELSE m
      BY <1>2, <2>1 DEF Compiler!Digit, Compiler!NONE, NONE
    <2> QED BY <2>2, <2>3 DEF NONE
  <1> QED BY <1>1, <1>2

LEMMA NumberValueIs ==
  ASSUME NEW d, Treed(d), d.limits.max_repeat \in Nat, NEW i \in NodesOf(d)
  PROVE  /\ Compiler!NumberValue(d, i) \in Int
         /\ Compiler!NumberValue(d, i) <= d.limits.max_repeat
  <1>. DEFINE Reads(f) == f = [k \in Nat |-> IF k = 0 THEN 0
                                             ELSE Compiler!Digit(d, f[k - 1], i + k)]
              value == CHOOSE f : Reads(f)
              p == [of |-> "digits", i |-> i, d |-> d]
              n == Len(Compiler!Below(d, i))
  <1>1. \A k, x : StepOf(p, k, x) = Compiler!Digit(d, x, i + k)
    BY DEF StepOf
  <1>. HIDE DEF p
  <1>2. PICK g : Runs(g, p, 0)
    BY StepsExist
  <1>3. Reads(g)
    BY <1>1, <1>2 DEF Runs
  <1>4. Reads(value)
    BY <1>3
  <1>5. Compiler!NumberValue(d, i) = value[n]
    BY DEF Compiler!NumberValue
  <1>. HIDE DEF value
  <1>6. Runs(value, p, 0)
    BY <1>1, <1>4 DEF Runs
  <1>7. /\ i \in Nat /\ End(d, i) \in Nat /\ i < End(d, i)
        /\ \A j \in Nat : i < j /\ j < End(d, i) => j \in NodesOf(d)
    BY TreedIs
  <1>8. n = End(d, i) - i - 1 /\ n \in Nat
    <2>1. PICK m \in Nat : m = End(d, i) - i - 1
      BY <1>7
    <2>2. Compiler!Below(d, i) = [k \in 1 .. m |-> i + k]
      BY <2>1 DEF Compiler!Below, End
    <2> QED BY <2>1, <2>2
  <1>. HIDE DEF n
  <1>9. /\ value[0] = 0
        /\ \A k \in Nat \ {0} : value[k] = Compiler!Digit(d, value[k - 1], i + k)
    BY <1>1, <1>6, RunsAt
  <1>. DEFINE S == {k \in 0 .. n : value[k] \in Int /\ value[k] <= d.limits.max_repeat}
  <1>10. \A k \in 0 .. n : k \in S
    <2>1. 0 \in S
      BY <1>8, <1>9
    <2>2. ASSUME NEW k \in 1 .. n, k - 1 \in S PROVE k \in S
      <3>1. i + k \in NodesOf(d) /\ k \in Nat \ {0} /\ k \in 0 .. n
        BY <1>7, <1>8
      <3>2. PICK v \in Int : v = value[k - 1] /\ v <= d.limits.max_repeat
        BY <2>2
      <3>3. Compiler!Name(d, i + k) = "terminal" => Compiler!Tree(d, i + k).value \in Int
        BY <3>1 DEF Treed, IsTree, NodesOf
      <3>4. PICK t : t = i + k
        OBVIOUS
      <3>5. Compiler!Digit(d, v, t) \in Int /\ Compiler!Digit(d, v, t) <= d.limits.max_repeat
        BY <3>2, <3>3, <3>4, DigitIs
      <3> QED BY <1>9, <3>1, <3>2, <3>4, <3>5
    <2>. HIDE DEF S
    <2> QED BY <1>8, <2>1, <2>2, UpTo
  <1> QED BY <1>5, <1>8, <1>10

(* The bounds of a quantifier are in order.                                *)
InOrder(q) == q[1] = "OK" => q[2] <= q[3]

LEMMA QuantityOrdered ==
  ASSUME NEW d, Treed(d), d.limits.max_repeat \in 0 .. 255, NEW i \in NodesOf(d)
  PROVE  InOrder(Compiler!Quantity(d, i))
  <1>. DEFINE numbers == {j \in i + 1 .. Compiler!Tree(d, i).end - 1 :
                            Compiler!Name(d, j) = "Number"}
  <1>1. PICK a, b, q : /\ a = Compiler!NumberValue(d, Compiler!Min(numbers))
                       /\ b = Compiler!NumberValue(d, Compiler!Max(numbers))
                       /\ q = Compiler!Quantity(d, i)
    OBVIOUS
  <1>2. \/ q = <<"OK", 0, Compiler!Unbounded>> \/ q[1] # "OK"
        \/ /\ numbers # {}
           /\ \/ q = <<"OK", a, a>> \/ q = <<"OK", a, Compiler!Unbounded>>
              \/ ~(a > b) /\ q = <<"OK", a, b>>
    BY <1>1 DEF Compiler!Quantity
  <1>3. /\ i \in Nat /\ End(d, i) \in Nat
        /\ \A j \in Nat : i < j /\ j < End(d, i) => j \in NodesOf(d)
    BY TreedIs
  <1>4. numbers \subseteq NodesOf(d) /\ numbers \subseteq 0 .. End(d, i)
    <2>1. ASSUME NEW j \in numbers PROVE j \in NodesOf(d) /\ j \in 0 .. End(d, i)
      <3>1. j \in i + 1 .. End(d, i) - 1
        BY DEF End
      <3> QED BY <1>3, <3>1
    <2> QED BY <2>1
  <1>. HIDE DEF numbers
  <1>5. numbers # {} => Compiler!Min(numbers) \in numbers /\ Compiler!Max(numbers) \in numbers
    <2>1. SUFFICES ASSUME numbers # {}
          PROVE  Compiler!Min(numbers) \in numbers /\ Compiler!Max(numbers) \in numbers
      OBVIOUS
    <2>2. Compiler!Max(numbers) \in numbers
      BY <1>3, <1>4, <2>1, MaxIs
    <2>3. numbers \subseteq Nat
      BY <1>3, <1>4
    <2>4. \E x \in numbers : \A y \in numbers : x <= y
      BY <2>1, <2>3, LeastNat
    <2>5. Compiler!Min(numbers) \in numbers
      BY <2>4 DEF Compiler!Min
    <2> QED BY <2>2, <2>5
  <1>6. numbers # {} => /\ a \in Int /\ a <= d.limits.max_repeat
                        /\ b \in Int /\ b <= d.limits.max_repeat
    <2>1. SUFFICES ASSUME numbers # {}
          PROVE  /\ a \in Int /\ a <= d.limits.max_repeat
                 /\ b \in Int /\ b <= d.limits.max_repeat
      OBVIOUS
    <2>2. PICK x \in NodesOf(d), y \in NodesOf(d) :
            x = Compiler!Min(numbers) /\ y = Compiler!Max(numbers)
      BY <1>4, <1>5, <2>1
    <2>3. d.limits.max_repeat \in Nat
      OBVIOUS
    <2> QED BY <1>1, <2>2, <2>3, NumberValueIs
  <1>7. Compiler!Unbounded \in Nat /\ Compiler!Unbounded >= 65535
    BY WordAssumption, WidthAssumption DEF Compiler!Unbounded
  <1>8. InOrder(q)
    <2>1. CASE q = <<"OK", 0, Compiler!Unbounded>>
      BY <1>7, <2>1 DEF InOrder
    <2>2. CASE q[1] # "OK"
      BY <2>2 DEF InOrder
    <2>3. CASE numbers # {} /\ q = <<"OK", a, a>>
      BY <1>6, <2>3 DEF InOrder
    <2>4. CASE numbers # {} /\ q = <<"OK", a, Compiler!Unbounded>>
      <3>1. a <= Compiler!Unbounded
        BY <1>6, <1>7, <2>4
      <3> QED BY <2>4, <3>1 DEF InOrder
    <2>5. CASE numbers # {} /\ ~(a > b) /\ q = <<"OK", a, b>>
      BY <1>6, <2>5 DEF InOrder
    <2> QED BY <1>2, <2>1, <2>2, <2>3, <2>4, <2>5
  <1> QED BY <1>1, <1>8

(* The quantifier of a piece is a node of the tree, and so is what is below*)
(* it.                                                                     *)
LEMMA QuantifiedIs ==
  ASSUME NEW e, Treed(e), NEW i \in NodesOf(e), NEW f, f = Compiler!Quantified(e, i)
  PROVE  \/ f = e \/ f = Compiler!Stop(e, "BADPAT")
         \/ \E k \in NodesOf(e) : f = Compiler!Loop(e, i, Compiler!Quantity(e, k))
  <1>1. PICK T, last : T = Compiler!QuantifiersOf(e, i) /\ last = Compiler!Max(T)
    OBVIOUS
  <1>2. \/ f = e \/ f = Compiler!Stop(e, "BADPAT")
        \/ /\ T # {} /\ last + 1 # End(e, last)
           /\ f = Compiler!Loop(e, i, Compiler!Quantity(e, last + 1))
    BY <1>1 DEF Compiler!Quantified, End
  <1>3. /\ i \in Nat /\ NodesOf(e) \subseteq Nat
        /\ \A k \in NodesOf(e) :
             /\ End(e, k) \in Nat /\ k < End(e, k)
             /\ \A j \in Nat : k < j /\ j < End(e, k) => j \in NodesOf(e)
    BY TreedIs
  <1>4. ASSUME T # {}, last + 1 # End(e, last) PROVE last + 1 \in NodesOf(e)
    <2>1. ASSUME NEW j \in T PROVE j \in NodesOf(e) /\ j \in 0 .. End(e, i)
      <3>1. j \in i + 1 .. End(e, i) - 1
        BY <1>1 DEF Compiler!QuantifiersOf, End
      <3>2. j \in Nat /\ i < j /\ j < End(e, i) /\ End(e, i) \in Nat
        BY <1>3, <3>1
      <3> QED BY <1>3, <3>2
    <2>2. last \in T
      <3>1. T \subseteq 0 .. End(e, i) /\ End(e, i) \in Nat
        BY <1>3, <2>1
      <3> QED BY <1>1, <1>4, <3>1, MaxIs
    <2>3. last \in NodesOf(e)
      BY <2>1, <2>2
    <2>4. last \in Nat /\ End(e, last) \in Nat /\ last + 1 < End(e, last)
      BY <1>3, <1>4, <2>3
    <2>5. last + 1 \in Nat /\ last < last + 1
      BY <2>4
    <2> QED BY <1>3, <2>3, <2>4, <2>5
  <1> QED BY <1>2, <1>4
-----------------------------------------------------------------------------
LEMMA UntouchedAgain ==
  ASSUME NEW d, NEW e, NEW f, NEW i, Untouched(d, e, i), Untouched(e, f, i)
  PROVE  Untouched(d, f, i)
  BY DEF Untouched, NodesOf

(* A node and the numbers of the groups                                    *)
Ready(d, i) ==
  /\ i \in NodesOf(d) /\ Weaving(d, i + 1)
  /\ IsSeq(d.groups) /\ Len(d.groups) <= MaxCaptures
  /\ Compiler!Name(d, i) = "Group" => Numbered(d, i)

(* What the children of a node leave when they have been joined            *)
LEMMA JoinStep ==
  ASSUME NEW d, NEW i, Ready(d, i), NEW e, e = Compiler!Join(d, i)
  PROVE  /\ i \in Nat /\ i \in NodesOf(e) /\ LoweringOK(e)
         /\ Woven(e, Others(d, i) \cup Mine(e, i), i + 1) /\ Untouched(d, e, i)
         /\ e.first[i] = NONE => e.tail[i] = NONE
         /\ Covered(d, i) => e.first[i] = NONE
         /\ i \notin Others(d, i) /\ e.groups = d.groups /\ e.nodes = d.nodes
         /\ e.limits = d.limits /\ End(e, i) \in Nat /\ End(e, i) > i
         /\ Compiler!Name(e, i) = Compiler!Name(d, i)
  <1>1. i \in NodesOf(d) /\ Weaving(d, i + 1) /\ Treed(d) /\ LoweringOK(d)
    BY DEF Ready, Weaving, Woven
  <1>2. /\ Joining(d, d, i, 0) /\ i \notin Others(d, i)
        /\ Covered(d, i) => Kids(d, i, 0) = {}
    BY <1>1, NodeStarts
  <1>3. /\ Woven(e, Others(d, i) \cup Mine(e, i), i + 1) /\ Untouched(d, e, i)
        /\ e.first[i] = NONE => e.tail[i] = NONE
        /\ Kids(d, i, 0) = {} => e.first[i] = NONE
    BY <1>1, <1>2, JoinJoins
  <1>4. i \in Nat /\ End(d, i) \in Nat /\ End(d, i) > i
    BY <1>1, TreedIs
  <1>5. Goes(d, e)
    BY <1>1, <1>4, JoinGoes DEF End
  <1>6. /\ e.nodes = d.nodes /\ e.groups = d.groups /\ e.limits = d.limits
        /\ LoweringOK(e)
    BY <1>5 DEF Goes
  <1>7. NodesOf(e) = NodesOf(d) /\ End(e, i) = End(d, i)
        /\ Compiler!Name(e, i) = Compiler!Name(d, i)
    BY <1>6, SameTree
  <1> QED BY <1>1, <1>2, <1>3, <1>4, <1>6, <1>7

LEMMA GroupStep ==
  ASSUME NEW d, NEW i, Ready(d, i), Compiler!Name(d, i) = "Group",
         NEW e, e = Compiler!Join(d, i), NEW f, f = Compiler!Bracket(e, i),
         Compiler!Lowers(f)
  PROVE  Weaving(f, i)
  <1>1. /\ i \in Nat /\ i \in NodesOf(e) /\ LoweringOK(e)
        /\ Woven(e, Others(d, i) \cup Mine(e, i), i + 1) /\ Untouched(d, e, i)
        /\ i \notin Others(d, i) /\ e.groups = d.groups
        /\ End(e, i) \in Nat /\ End(e, i) > i
    BY JoinStep
  <1>2. IsSeq(e.groups) /\ Len(e.groups) <= MaxCaptures /\ Numbered(e, i)
    BY <1>1 DEF Ready, Numbered
  <1>3. PICK n, m : n = Len(e.code) /\ m = n + 1
    OBVIOUS
  <1>4. PICK x, y : BracketBy(e, i, n, x, y)
    BY <1>1, <1>2, <1>3, BracketIs DEF End
  <1>5. /\ InstrOK(x) /\ x.op = "OPEN" /\ x.max = i
        /\ x.next = IF e.first[i] = NONE THEN m ELSE e.first[i]
        /\ InstrOK(y) /\ y.op = "CLOSE" /\ y.next = NONE
    BY <1>3, <1>4 DEF BracketBy
  <1>6. PICK g : g = Compiler!Emit(e, <<x, y>>)
    OBVIOUS
  <1>7. /\ Compiler!Lowers(g) /\ f = Compiler!Wrapped(g, i, m, n, m)
    BY <1>3, <1>4, <1>6 DEF BracketBy
  <1>8. Appends(e, g, <<x, y>>)
    <2>1. CodeOK(<<x, y>>)
      BY <1>5, TwoInstrs
    <2> QED BY <1>1, <1>6, <1>7, <2>1, EmitIs
  <1>9. PICK Q : Q = Others(d, i)
    OBVIOUS
  <1>10. Woven(e, Q \cup Mine(e, i), i + 1) /\ i \notin Q
    BY <1>1, <1>9
  <1>11. Woven(f, Q \cup {i}, i) /\ Untouched(e, f, i) /\ f.first[i] # NONE
    <2>1. Bracketing(e, Q, i, n, m, x, y, g, f)
      BY <1>1, <1>3, <1>5, <1>7, <1>8, <1>10 DEF Bracketing
    <2> QED BY <2>1, BracketWeaves
  <1>12. Untouched(d, f, i)
    BY <1>1, <1>11, UntouchedAgain
  <1>13. i \in NodesOf(d) /\ Weaving(d, i + 1) /\ ~Covered(d, i)
    <2>1. i \in NodesOf(d) /\ Weaving(d, i + 1)
      BY DEF Ready
    <2> QED BY <2>1, NodeStarts
  <1>14. Finished(d, f, i)
    BY <1>9, <1>11, <1>12, <1>13 DEF Finished, Mine
  <1> QED BY <1>13, <1>14, FinishedWeaves

LEMMA LoopStep ==
  ASSUME NEW d, NEW i, Ready(d, i), Compiler!Name(d, i) \notin Compiler!Emits,
         NEW e, e = Compiler!Join(d, i), NEW f, f = Compiler!Quantified(e, i),
         Compiler!Lowers(f), d.limits.max_repeat \in 0 .. 255
  PROVE  Weaving(f, i)
  <1>1. /\ i \in Nat /\ i \in NodesOf(e) /\ LoweringOK(e)
        /\ Woven(e, Others(d, i) \cup Mine(e, i), i + 1) /\ Untouched(d, e, i)
        /\ i \notin Others(d, i) /\ e.nodes = d.nodes /\ e.limits = d.limits
        /\ e.first[i] = NONE => e.tail[i] = NONE
        /\ Covered(d, i) => e.first[i] = NONE
    BY JoinStep
  <1>2. i \in NodesOf(d) /\ Weaving(d, i + 1)
    BY DEF Ready
  <1>3. PICK Q : Q = Others(d, i)
    OBVIOUS
  <1>4. Woven(e, Q \cup Mine(e, i), i + 1) /\ i \notin Q
    BY <1>1, <1>3
  <1>5. CASE f = e
    <2>1. PICK P : P = Q \cup Mine(e, i)
      OBVIOUS
    <2>2. Woven(e, P, i)
      <3>1. Woven(e, P, i + 1) /\ i \in Int
        BY <1>1, <1>4, <2>1
      <3> QED BY <3>1, WovenLower
    <2>3. Finished(d, f, i)
      BY <1>1, <1>3, <1>5, <2>1, <2>2 DEF Finished
    <2> QED BY <1>2, <2>3, FinishedWeaves
  <1>6. CASE f # e
    <2>1. f # Compiler!Stop(e, "BADPAT")
      BY <1>1, StopsLowering
    <2>0. Treed(e)
      BY <1>1, <1>2, SameTree DEF Weaving
    <2>2. PICK k \in NodesOf(e) : f = Compiler!Loop(e, i, Compiler!Quantity(e, k))
      BY <1>1, <1>6, <2>0, <2>1, QuantifiedIs
    <2>3. PICK q : q = Compiler!Quantity(e, k)
      OBVIOUS
    <2>4. f = Compiler!Loop(e, i, q) /\ InOrder(q)
      <3>1. e.limits.max_repeat \in 0 .. 255
        BY <1>1
      <3> QED BY <2>0, <2>2, <2>3, <3>1, QuantityOrdered
    <2>5. q[1] = "OK" /\ e.first[i] # NONE
      <3>1. f # Compiler!Stop(e, "LIMIT")
        BY <1>1, StopsLowering
      <3>2. q[1] # "OK" => f # Compiler!Stop(e, q[1])
        BY <1>1, StopsLowering
      <3> QED BY <2>4, <3>1, <3>2 DEF Compiler!Loop, Compiler!NONE, NONE
    <2>6. PICK n : n = Len(e.code)
      OBVIOUS
    <2>7. PICK x, y, bound : LoopBy(e, i, q, n, x, y, bound)
      BY <2>5, <2>6, LoopIs
    <2>8. /\ InstrOK(x) /\ x.op = "REPEAT" /\ x.a = e.first[i] /\ x.b = i
          /\ x.next = NONE /\ x.min <= x.max
          /\ InstrOK(y) /\ y.op = "REPEAT_END" /\ y.a = n
      BY <2>4, <2>5, <2>7 DEF LoopBy, InOrder
    <2>9. PICK g : g = Compiler!Emit(e, <<x, y>>)
      OBVIOUS
    <2>10. f = Compiler!Looped(g, i, bound, n)
      BY <2>4, <2>7, <2>9 DEF LoopBy
    <2>11. Compiler!Lowers(g)
      BY <2>10 DEF Compiler!Looped
    <2>12. Appends(e, g, <<x, y>>) /\ LoweringOK(g)
      <3>1. CodeOK(<<x, y>>)
        BY <2>8, TwoInstrs
      <3>2. Appends(e, g, <<x, y>>)
        BY <1>1, <2>9, <2>11, <3>1, EmitIs
      <3> QED BY <3>2 DEF Appends, Goes
    <2>13. PICK h : /\ Goes(g, h) /\ h.code = g.code /\ h.first = g.first /\ h.tail = g.tail
                    /\ Compiler!Looped(g, i, bound, n) = Compiler!Wrapped(h, i, n + 1, n, n)
      BY <2>11, <2>12, LoopedIs
    <2>14. Appends(e, h, <<x, y>>)
      <3>1. Goes(e, h)
        BY <2>12, <2>13, GoesOnwards DEF Appends
      <3> QED BY <2>12, <2>13, <3>1 DEF Appends
    <2>15. f = Compiler!Wrapped(h, i, n + 1, n, n)
      BY <2>10, <2>13
    <2>16. Woven(f, Q \cup {i}, i) /\ Untouched(e, f, i) /\ f.first[i] # NONE
      <3>1. Circling(e, Q, i, n, x, y, h, f)
        BY <1>1, <1>4, <2>5, <2>6, <2>8, <2>14, <2>15 DEF Circling
      <3> QED BY <3>1, LoopWeaves
    <2>17. Untouched(d, f, i)
      BY <1>1, <2>16, UntouchedAgain
    <2>18. Finished(d, f, i)
      BY <1>1, <1>3, <2>5, <2>16, <2>17 DEF Finished, Mine
    <2> QED BY <1>2, <2>18, FinishedWeaves
  <1> QED BY <1>5, <1>6
-----------------------------------------------------------------------------
(* Nodes with an instruction of their own                                  *)
LEMMA KeepsSame ==
  ASSUME NEW d, LoweringOK(d)
  PROVE  Keeps(d, d) /\ \A s : Keeps(d, Compiler!Stop(d, s))
  <1>1. Keeps(d, d)
    BY GoesSame DEF Keeps
  <1>2. ASSUME NEW s PROVE Keeps(d, Compiler!Stop(d, s))
    <2>1. Goes(d, Compiler!Stop(d, s))
      BY StopGoes
    <2> QED BY <2>1 DEF Keeps, Compiler!Stop, LoweringOK
  <1> QED BY <1>1, <1>2

LEMMA KeepsOK ==
  ASSUME NEW d, NEW e, Keeps(d, e)
  PROVE  LoweringOK(e)
  BY DEF Keeps, Goes

LEMMA AddRangeKeeps ==
  ASSUME NEW d, LoweringOK(d), NEW x
  PROVE  Keeps(d, Compiler!AddRange(d, x))
  <1>. DEFINE q == Append(d.ranges, [first |-> x[1], last |-> x[2]])
              e == Compiler!AddRange(d, x)
  <1>1. \/ e = d \/ e = Compiler!Stop(d, "BADPAT") \/ e = Compiler!Stop(d, "LIMIT")
        \/ e = [d EXCEPT !.ranges = q]
    BY DEF Compiler!AddRange
  <1>2. Goes(d, e)
    BY AddRangeGoes
  <1>. HIDE DEF q, e
  <1>3. e.code = d.code /\ e.first = d.first /\ e.tail = d.tail
    BY <1>1 DEF LoweringOK, Compiler!Stop
  <1>4. Keeps(d, e)
    BY <1>2, <1>3 DEF Keeps
  <1> QED BY <1>4 DEF e

LEMMA StepsKeep ==
  ASSUME NEW d, LoweringOK(d), NEW p, NEW f, Runs(f, p, d), NEW n \in Nat,
         \A k \in 1 .. n : \A x : Keeps(d, x) => Keeps(x, StepOf(p, k, x))
  PROVE  Keeps(d, f[n])
  <1>1. /\ f[0] = d
        /\ \A k \in Nat \ {0} : f[k] = StepOf(p, k, f[k - 1])
    BY RunsAt
  <1>. DEFINE S == {k \in 0 .. n : Keeps(d, f[k])}
  <1>2. \A k \in 0 .. n : k \in S
    <2>1. 0 \in S
      BY <1>1, KeepsSame
    <2>2. ASSUME NEW k \in 1 .. n, k - 1 \in S PROVE k \in S
      <3>1. k \in Nat \ {0} /\ k \in 0 .. n
        OBVIOUS
      <3>2. Keeps(d, f[k - 1]) /\ f[k] = StepOf(p, k, f[k - 1])
        BY <1>1, <2>2, <3>1
      <3>3. Keeps(d, f[k])
        BY <3>2, KeepsAgain
      <3> QED BY <3>1, <3>3
    <2>. HIDE DEF S
    <2> QED BY <2>1, <2>2, UpTo
  <1> QED BY <1>2

LEMMA AddRangesKeeps ==
  ASSUME NEW d, LoweringOK(d), NEW element, Len(element[2]) \in Nat
  PROVE  Keeps(d, Compiler!AddRanges(d, element))
  <1>. DEFINE p == [of |-> "ranges", ranges |-> element[2]]
              Adds1(f) == f = [k \in Nat |-> IF k = 0 THEN d
                                            ELSE Compiler!AddRange(f[k - 1], element[2][k])]
              added == CHOOSE f : Adds1(f)
              n == Len(element[2])
  <1>1. \A k, x : StepOf(p, k, x) = Compiler!AddRange(x, element[2][k])
    BY DEF StepOf
  <1>. HIDE DEF p
  <1>2. PICK g : Runs(g, p, d)
    BY StepsExist
  <1>3. Adds1(g)
    BY <1>1, <1>2 DEF Runs
  <1>4. Adds1(added)
    BY <1>3
  <1>5. Compiler!AddRanges(d, element)
        = IF element[1] = "OK" THEN added[n] ELSE Compiler!Stop(d, element[1])
    BY DEF Compiler!AddRanges
  <1>. HIDE DEF added
  <1>6. Runs(added, p, d)
    BY <1>1, <1>4 DEF Runs
  <1>7. ASSUME NEW k \in 1 .. n, NEW x, Keeps(d, x) PROVE Keeps(x, StepOf(p, k, x))
    BY <1>1, <1>7, AddRangeKeeps, KeepsOK
  <1>8. Keeps(d, added[n])
    BY <1>6, <1>7, StepsKeep
  <1> QED BY <1>5, <1>8, KeepsSame

LEMMA AddElementKeeps ==
  ASSUME NEW d, LoweringOK(d), NEW class, NEW i, NEW before
  PROVE  Keeps(d, Compiler!AddElement(d, class, i, before))
  <1>. DEFINE w == Compiler!Work(d)
              x == Compiler!Element(d, class, i, before)
              a == Compiler!AddRanges(w, x)
              e == Compiler!AddElement(d, class, i, before)
  <1>1. Keeps(d, w)
    BY WorkKeeps
  <1>2. Len(x[2]) \in Nat
    BY ElementLength
  <1>3. e = a \/ e = w \/ e = d
    <2>1. e = IF Compiler!Lowers(d) /\ Compiler!Lowers(w) THEN a
              ELSE IF Compiler!Lowers(d) THEN w ELSE d
      BY DEF Compiler!AddElement
    <2>. HIDE DEF e, a, w
    <2> QED BY <2>1
  <1>. HIDE DEF x, w, e
  <1>4. Keeps(w, a)
    BY <1>1, <1>2, AddRangesKeeps, KeepsOK
  <1>5. Keeps(d, a)
    BY <1>1, <1>4, KeepsAgain
  <1>. HIDE DEF a
  <1>6. Keeps(d, e)
    BY <1>1, <1>3, <1>5, KeepsSame
  <1> QED BY <1>6 DEF e

(* A class ends with one instruction or not at all.                        *)
OnePlain(d, e) ==
  \/ ~Compiler!Lowers(e)
  \/ \E v, x : Keeps(d, v) /\ Plain(x) /\ e = Compiler!Emit(v, <<x>>)

LEMMA EmitClassOfPlain ==
  ASSUME NEW d, NEW v, Keeps(d, v), NEW i, NEW before \in Nat
  PROVE  OnePlain(d, Compiler!EmitClassOf(v, i, before))
  <1>. DEFINE op == IF Compiler!Named(v, i, "Negation") # <<>> THEN "NOT_CLASS" ELSE "CLASS"
              x == Compiler!Instruction(op, before, Len(v.ranges) - before)
              e == Compiler!EmitClassOf(v, i, before)
  <1>0. LoweringOK(v)
    BY KeepsOK
  <1>1. \/ e = v /\ ~Compiler!Lowers(v)
        \/ e = Compiler!Stop(v, "BADPAT") \/ e = Compiler!Emit(v, <<x>>)
    BY DEF Compiler!EmitClassOf
  <1>2. Plain(x)
    <2>1. op \in {"CLASS", "NOT_CLASS"} /\ Len(v.ranges) - before \in Int
      BY <1>0 DEF LoweringOK, IsSeq
    <2>. HIDE DEF op
    <2> QED BY <2>1 DEF Plain, InstrOK, Consuming, Compiler!Instruction, Compiler!NONE, NONE
  <1>. HIDE DEF e, x
  <1>3. ~Compiler!Lowers(Compiler!Stop(v, "BADPAT"))
    BY <1>0, StopsLowering
  <1>4. OnePlain(d, e)
    BY <1>1, <1>2, <1>3 DEF OnePlain
  <1> QED BY <1>4 DEF e

LEMMA LowerClassPlain ==
  ASSUME NEW d, LoweringOK(d), NEW i \in Nat, Compiler!Tree(d, i).end \in Int,
         Compiler!Tree(d, i).end > i
  PROVE  OnePlain(d, Compiler!LowerClass(d, i))
  <1>. DEFINE before == Len(d.ranges)
              Part1(j) == \E a \in i + 1 .. j : /\ Compiler!Name(d, a) \in Compiler!Elements
                                                /\ Compiler!Within(d, a, j)
              Visits(f) == f = [k \in Nat |->
                                  IF k = 0 THEN d
                                  ELSE IF Part1(i + k) THEN f[k - 1]
                                  ELSE Compiler!AddElement(f[k - 1], i, i + k, before)]
              visited == CHOOSE f : Visits(f)
              p == [of |-> "class", i |-> i, d |-> d, before |-> before]
              n == Len(Compiler!Below(d, i))
  <1>1. ASSUME NEW k, NEW x
        PROVE  StepOf(p, k, x) = IF Part1(i + k) THEN x
                                 ELSE Compiler!AddElement(x, i, i + k, before)
    BY DEF StepOf
  <1>. HIDE DEF p, Part1, before
  <1>2. PICK g : Runs(g, p, d)
    BY StepsExist
  <1>3. Visits(g)
    BY <1>1, <1>2 DEF Runs
  <1>4. Visits(visited)
    BY <1>3
  <1>5. Compiler!LowerClass(d, i) = Compiler!EmitClassOf(visited[n], i, before)
    BY DEF Compiler!LowerClass, Part1, before
  <1>. HIDE DEF visited
  <1>6. Runs(visited, p, d)
    <2>1. visited = [k \in Nat |->
                       IF k = 0 THEN d
                       ELSE IF Part1(i + k) THEN visited[k - 1]
                       ELSE Compiler!AddElement(visited[k - 1], i, i + k, before)]
      BY <1>4
    <2>2. ASSUME NEW k \in Nat
          PROVE  visited[k] = IF k = 0 THEN d ELSE StepOf(p, k, visited[k - 1])
      BY <1>1, <2>1
    <2>3. visited = [k \in Nat |-> visited[k]]
      BY <2>1
    <2>. HIDE <1>1
    <2> QED BY <2>2, <2>3 DEF Runs
  <1>7. ASSUME NEW k \in 1 .. n, NEW x, Keeps(d, x) PROVE Keeps(x, StepOf(p, k, x))
    <2>0. LoweringOK(x)
      BY <1>7, KeepsOK
    <2>1. Keeps(x, Compiler!AddElement(x, i, i + k, before))
      BY <2>0, AddElementKeeps
    <2> QED BY <1>1, <2>0, <2>1, KeepsSame
  <1>8. n \in Nat
    BY BelowLength
  <1>9. Keeps(d, visited[n])
    BY <1>6, <1>7, <1>8, StepsKeep
  <1>10. before \in Nat
    BY DEF LoweringOK, IsSeq, before
  <1> QED BY <1>5, <1>9, <1>10, EmitClassOfPlain

(* A node whose instruction is the only one of it                          *)
LEMMA OneStep ==
  ASSUME NEW d, NEW i \in NodesOf(d), Weaving(d, i + 1),
         Compiler!Name(d, i) \in Compiler!Own, NEW e, OnePlain(d, e),
         NEW f, f = Compiler!Single(e, i), Compiler!Lowers(f)
  PROVE  Weaving(f, i)
  <1>1. Compiler!Lowers(e)
    BY DEF Compiler!Single
  <1>2. PICK v, x : Keeps(d, v) /\ Plain(x) /\ e = Compiler!Emit(v, <<x>>)
    BY <1>1 DEF OnePlain
  <1>3. PICK k : k = i + 1
    OBVIOUS
  <1>4. /\ Weaving(v, k) /\ NodesOf(v) = NodesOf(d)
        /\ \A j : Compiler!Name(v, j) = Compiler!Name(d, j)
    BY <1>2, <1>3, KeepsWeaving
  <1>5. Weaving(v, i + 1) /\ i \in NodesOf(v) /\ Compiler!Name(v, i) \in Compiler!Own
    BY <1>3, <1>4
  <1> QED BY <1>2, <1>5, SingleStep

LEMMA SimplePlain ==
  ASSUME NEW d, LoweringOK(d), NEW i, Compiler!Name(d, i) \in Compiler!Simple
  PROVE  OnePlain(d, Compiler!Emit(d, <<Compiler!SimpleInstruction(d, i)>>))
  <1>. DEFINE x == Compiler!SimpleInstruction(d, i)
  <1>1. \E op, a : /\ x = Compiler!Instruction(op, a, 0)
                   /\ op \in {"CHAR", "ANY", "BEGIN", "END"}
    BY DEF Compiler!SimpleInstruction, Compiler!Simple
  <1>. HIDE DEF x
  <1>2. Plain(x)
    BY <1>1 DEF Plain, InstrOK, Compiler!Instruction, Consuming, Compiler!NONE, NONE
  <1>3. OnePlain(d, Compiler!Emit(d, <<x>>))
    BY <1>2, KeepsSame DEF OnePlain
  <1> QED BY <1>3 DEF x

LEMMA ReferencePlain ==
  ASSUME NEW d, LoweringOK(d), IsSeq(d.groups), Len(d.groups) <= MaxCaptures, NEW i
  PROVE  OnePlain(d, Compiler!LowerReference(d, i))
  <1>. DEFINE v == Compiler!Scalar(d, i, 1) - 48
              x == Compiler!Instruction("REF", v, 0)
  <1>1. \/ Compiler!LowerReference(d, i) = Compiler!Stop(d, "BADPAT")
        \/ /\ v \in DOMAIN d.groups
           /\ Compiler!LowerReference(d, i) = Compiler!Emit(d, <<x>>)
    BY DEF Compiler!LowerReference
  <1>2. CASE Compiler!LowerReference(d, i) = Compiler!Stop(d, "BADPAT")
    BY <1>2, StopsLowering DEF OnePlain
  <1>3. CASE /\ v \in DOMAIN d.groups
             /\ Compiler!LowerReference(d, i) = Compiler!Emit(d, <<x>>)
    <2>1. v \in 1 .. MaxCaptures
      <3>1. /\ Len(d.groups) \in Nat /\ DOMAIN d.groups = 1 .. Len(d.groups)
            /\ Len(d.groups) <= 9
        BY AnySeq DEF IsSeq, MaxCaptures
      <3>. HIDE DEF v
      <3> QED BY <1>3, <3>1 DEF MaxCaptures
    <2>. HIDE DEF v
    <2>2. Plain(x)
      BY <2>1 DEF Plain, InstrOK, Compiler!Instruction, Consuming, Compiler!NONE, NONE
    <2>. HIDE DEF x
    <2> QED BY <1>3, <2>2, KeepsSame DEF OnePlain
  <1> QED BY <1>1, <1>2, <1>3
-----------------------------------------------------------------------------
(* Before the second pass there is no code.                                *)
Blank(d) ==
  d.code = <<>> /\ Shaped(d) /\ \A j \in NodesOf(d) : d.first[j] = NONE /\ d.tail[j] = NONE

LEMMA LoweringBlank ==
  ASSUME NEW nodes, NEW limits1, NEW length1
  PROVE  Blank(Compiler!Lowering(nodes, limits1, length1))
  <1>. DEFINE d == Compiler!Lowering(nodes, limits1, length1)
              ids == 0 .. Len(nodes) - 1
  <1>1. /\ d.nodes = nodes /\ d.code = <<>>
        /\ d.first = [i \in ids |-> NONE] /\ d.tail = [i \in ids |-> NONE]
    BY DEF Compiler!Lowering, Compiler!NONE, NONE
  <1>2. NodesOf(d) = ids
    BY <1>1 DEF NodesOf
  <1>. HIDE DEF d, ids
  <1>3. Blank(d)
    BY <1>1, <1>2 DEF Blank, Shaped
  <1> QED BY <1>3 DEF d

LEMMA ReservedBlank ==
  ASSUME NEW d, LoweringOK(d), Blank(d), NEW i, NEW e, e = Compiler!Reserved(d, i)
  PROVE  Blank(e)
  <1>. DEFINE w == Compiler!Work(d)
              n == Compiler!GroupDepth(d, i)
              g == Append(w.groups, i)
              depth == IF n > w.depth THEN n ELSE w.depth
              m == [w EXCEPT !.groups = g, !.depth = depth]
  <1>1. Keeps(d, w)
    BY WorkKeeps
  <1>2. e = w \/ e = Compiler!Stop(w, "UNSUPPORTED") \/ e = Compiler!Stop(w, "LIMIT") \/ e = m
    BY DEF Compiler!Reserved
  <1>. HIDE DEF w, g, depth
  <1>3. e.nodes = d.nodes /\ e.code = d.code /\ e.first = d.first /\ e.tail = d.tail
    BY <1>1, <1>2 DEF Keeps, Goes, LoweringOK, Compiler!Stop
  <1> QED BY <1>3 DEF Blank, Shaped, NodesOf

LEMMA EmptyThreads == Threaded(<<>>, {}) /\ \A m : Ranked(<<>>, m) /\ Ordered(<<>>)
  <1>1. IdsOf(<<>>) = {}
    BY EmptySequence DEF IdsOf
  <1> QED BY <1>1 DEF Threaded, Ranked, Ordered

(* The second pass starts with a tree and no code.                         *)
LEMMA BlankWeaves ==
  ASSUME NEW d, Treed(d), LoweringOK(d), Blank(d), NEW m, m = Len(d.nodes)
  PROVE  Weaving(d, m)
  <1>1. Pending(d, m) = {}
    BY DEF Pending, Blank
  <1>2. Strands(d, {}) = {} /\ Apart(d, {})
    BY DEF Strands, Apart
  <1>3. Woven(d, {}, m)
    BY <1>2, EmptyThreads DEF Blank, Woven, WovenOf
  <1> QED BY <1>1, <1>3 DEF Weaving, Blank

(* p is the code q with ACCEPT behind it, and the last piece linked to it. *)
Completed(q, F, m, n, p) ==
  /\ Threaded(q, F) /\ Ranked(q, m) /\ Ordered(q) /\ Len(q) \in Nat /\ n = Len(q)
  /\ Len(p.code) = n + 1 /\ p.code[n + 1].op = "ACCEPT"
  /\ \/ F = {} /\ p.entry = n /\ \A i \in IdsOf(q) : p.code[i + 1] = q[i + 1]
     \/ \E u \in F : F = {u} /\ p.entry = u[1] /\ Linking(q, p.code, u[2], n)

LEMMA EndsTogether ==
  ASSUME NEW q, NEW F, NEW m, NEW n, NEW p, Completed(q, F, m, n, p)
  PROVE  Compiler!HoldsTogether(p) /\ Compiler!BoundsInOrder(p)
  <1>1. /\ Compiler!Entered(p) = Compiler!Ids(p)
        /\ Compiler!Leading(p) = Compiler!Ids(p)
        /\ Compiler!Of(p, {"ACCEPT"}) = {Compiler!CodeCount(p) - 1}
        /\ \A i \in Compiler!Of(p, {"REPEAT_END"}) :
             Instr(p, Instr(p, i).a).op = "REPEAT"
    BY ProgramOfThreads DEF Completed
  <1>2. /\ Len(q) \in Nat /\ n = Len(q) /\ Len(p.code) = n + 1
        /\ Ranked(q, m) /\ Ordered(q) /\ p.code[n + 1].op = "ACCEPT"
    BY DEF Completed
  <1>3. \A i \in IdsOf(q) : Akin(p.code[i + 1], q[i + 1])
    BY DEF Completed, Linking, Akin
  <1>4. ASSUME NEW i \in IdsOf(p.code) \ IdsOf(q) PROVE p.code[i + 1].op = "ACCEPT"
    <2>1. i = n
      BY <1>2 DEF IdsOf
    <2> QED BY <1>2, <2>1
  <1>5. PICK r : r = p.code
    OBVIOUS
  <1>6. Ranked(r, m)
    <2>1. Len(r) \in Nat
      BY <1>2, <1>5
    <2>2. \A i \in IdsOf(r) \ IdsOf(q) : r[i + 1].op \notin Scoped
      BY <1>4, <1>5 DEF Scoped
    <2>3. \A i \in IdsOf(q) : Akin(r[i + 1], q[i + 1])
      BY <1>3, <1>5
    <2> QED BY <1>2, <2>1, <2>2, <2>3, RankedSame
  <1>7. Ordered(r)
    <2>1. \A i \in IdsOf(r) \ IdsOf(q) : r[i + 1].op = "REPEAT" => r[i + 1].min <= r[i + 1].max
      BY <1>4, <1>5
    <2>2. \A i \in IdsOf(q) : Akin(r[i + 1], q[i + 1])
      BY <1>3, <1>5
    <2> QED BY <1>2, <2>1, <2>2, OrderedOn
  <1>8. Compiler!Ids(p) = IdsOf(p.code) /\ \A i : Compiler!Instr(p, i) = p.code[i + 1]
    BY DEF Compiler!Ids, Compiler!CodeCount, Compiler!Instr, IdsOf
  <1>9. \A i, j \in Compiler!Of(p, {"OPEN", "REPEAT"}) :
          Compiler!Rank(Compiler!Instr(p, i)) = Compiler!Rank(Compiler!Instr(p, j)) => i = j
    BY <1>5, <1>6, <1>8 DEF Compiler!Of, Ranked, Scoped
  <1>10. Compiler!BoundsInOrder(p)
    BY <1>5, <1>7, <1>8 DEF Compiler!Of, Ordered, Compiler!BoundsInOrder
  <1> QED BY <1>1, <1>9, <1>10 DEF Compiler!HoldsTogether, Instr, Compiler!Instr

LEMMA WeavingEnds ==
  ASSUME NEW d, Weaving(d, 0), NEW f, f = Compiler!Accepting(d), Compiler!Lowers(f)
  PROVE  /\ Compiler!HoldsTogether(Compiler!Compiled(f))
         /\ Compiler!BoundsInOrder(Compiler!Compiled(f))
  <1>. DEFINE x == Compiler!Instruction("ACCEPT", 0, 0)
              entry == IF d.first[0] = NONE THEN Len(d.code) ELSE d.first[0]
  <1>1. PICK n, e, P, q, F, p :
          /\ n = Len(d.code) /\ e = Compiler!Emit(d, <<x>>) /\ P = Pending(d, 0)
          /\ q = d.code /\ F = Strands(d, P) /\ p = Compiler!Compiled(f)
    OBVIOUS
  <1>2. /\ LoweringOK(d) /\ Threaded(q, F) /\ Ranked(q, 0) /\ Ordered(q)
        /\ n \in Nat /\ Treed(d)
        /\ d.first[0] = NONE => d.tail[0] = NONE
    <2>1. Woven(d, P, 0) /\ Treed(d) /\ 0 \in NodesOf(d)
      BY <1>1, TreedIs DEF Weaving
    <2>2. d.first[0] = NONE => d.tail[0] = NONE
      BY <2>1 DEF Weaving
    <2>3. LoweringOK(d)
      BY <2>1 DEF Woven
    <2>4. n \in Nat
      BY <1>1, <2>3, CodeLength
    <2> QED BY <1>1, <2>1, <2>2, <2>3, <2>4 DEF Woven, WovenOf
  <1>3. P = IF d.first[0] = NONE THEN {} ELSE {0}
    <2>1. /\ 0 \in NodesOf(d) /\ NodesOf(d) \subseteq Nat /\ Parent(d, 0) = -1
          /\ \A j \in NodesOf(d) : Parent(d, j) < 0 => j = 0
      <3>1. 0 \in NodesOf(d) /\ NodesOf(d) \subseteq Nat
        BY <1>2, TreedIs
      <3>2. Parent(d, 0) = -1 /\ \A j \in NodesOf(d) \ {0} : Parent(d, j) \in 0 .. j - 1
        BY <1>2 DEF Treed, IsTree, NodesOf, Parent, NONE
      <3> QED BY <3>1, <3>2
    <2>2. P = {j \in NodesOf(d) : 0 <= j /\ Parent(d, j) < 0 /\ d.first[j] # NONE}
      BY <1>1 DEF Pending
    <2>3. \A j : j \in P <=> j = 0 /\ d.first[0] # NONE
      BY <2>1, <2>2
    <2> QED BY <2>3
  <1>4. InstrOK(x) /\ x.op = "ACCEPT"
    BY DEF InstrOK, Compiler!Instruction, Consuming
  <1>. HIDE DEF x
  <1>5. Compiler!Lowers(e) /\ \/ d.tail[0] = NONE /\ f = [e EXCEPT !.entry = entry]
                              \/ /\ d.tail[0] # NONE
                                 /\ f = Compiler!Link([e EXCEPT !.entry = entry], d.tail[0], n)
    BY <1>1 DEF Compiler!Accepting, Compiler!NONE, NONE, x
  <1>. HIDE DEF entry
  <1>6. /\ Goes(d, e) /\ Len(e.code) = n + 1 /\ e.code[n + 1] = x
        /\ \A k \in 1 .. n : e.code[k] = q[k]
    <2>1. CodeOK(<<x>>)
      BY <1>4, OneInstr
    <2>2. Appends(d, e, <<x>>)
      BY <1>1, <1>2, <1>5, <2>1, EmitIs
    <2>3. Len(<<x>>) = 1 /\ <<x>>[1] = x
      OBVIOUS
    <2> QED BY <1>1, <2>2, <2>3 DEF Appends
  <1>7. PICK g : /\ g = [e EXCEPT !.entry = entry]
                 /\ LoweringOK(g) /\ g.code = e.code /\ g.entry = entry
    <2>. DEFINE g == [e EXCEPT !.entry = entry]
    <2>1. LoweringOK(g) /\ g.code = e.code /\ g.entry = entry
      BY <1>6 DEF Goes, LoweringOK
    <2>. HIDE DEF g
    <2>2. \E h : h = g /\ LoweringOK(h) /\ h.code = e.code /\ h.entry = entry
      BY <2>1
    <2> QED BY <2>2 DEF g
  <1>8. p.code = f.code /\ p.entry = f.entry
    BY <1>1 DEF Compiler!Compiled
  <1>9. CASE d.first[0] = NONE
    <2>1. P = {} /\ F = {} /\ f = g /\ entry = n
      BY <1>1, <1>2, <1>3, <1>5, <1>7, <1>9 DEF Strands, entry
    <2>2. \A i \in IdsOf(q) : p.code[i + 1] = q[i + 1]
      <3>1. ASSUME NEW i \in IdsOf(q) PROVE p.code[i + 1] = q[i + 1]
        <4>1. PICK k \in 1 .. n : k = i + 1
          BY <1>1, <1>2 DEF IdsOf
        <4> QED BY <1>6, <1>7, <1>8, <2>1, <4>1
      <3> QED BY <3>1
    <2>3. Completed(q, F, 0, n, p)
      BY <1>1, <1>2, <1>4, <1>6, <1>7, <1>8, <2>1, <2>2 DEF Completed
    <2> QED BY <1>1, <2>3, EndsTogether
  <1>10. CASE d.first[0] # NONE
    <2>1. PICK u, t : u = <<d.first[0], t>> /\ t = d.tail[0] /\ F = {u}
      <3>1. F = {<<d.first[0], d.tail[0]>>}
        BY <1>1, <1>3, <1>10 DEF Strands, Strand
      <3> QED BY <3>1
    <2>2. u[1] = d.first[0] /\ u[2] = t /\ u \in F
      BY <2>1
    <2>3. t \in IdsOf(q) /\ t # NONE
      <3>1. F \subseteq IdsOf(q) \X IdsOf(q)
        BY <1>2 DEF Threaded
      <3>2. u[2] \in IdsOf(q)
        BY <2>2, <3>1
      <3> QED BY <1>1, <1>2, <2>2, <3>2 DEF IdsOf, NONE
    <2>4. f = Compiler!Link(g, t, n) /\ entry = d.first[0]
      BY <1>5, <1>7, <1>10, <2>1, <2>3 DEF entry
    <2>5. t \in IdsOf(g.code) /\ t # n
      BY <1>1, <1>2, <1>6, <1>7, <2>3 DEF IdsOf
    <2>6. Len(f.code) = n + 1 /\ Linking(g.code, f.code, t, n)
      <3>1. LoweringOK(g) /\ t \in IdsOf(g.code) /\ f = Compiler!Link(g, t, n)
        BY <1>7, <2>4, <2>5
      <3>2. Len(f.code) = Len(g.code) /\ Linking(g.code, f.code, t, n)
        BY <3>1, LinkIs
      <3> QED BY <1>6, <1>7, <3>2
    <2>7. f.entry = entry
      BY <1>7, <2>4 DEF Compiler!Link, LoweringOK
    <2>8. f.code[n + 1] = x
      <3>1. n \in IdsOf(g.code) \ {t}
        BY <1>2, <1>6, <1>7, <2>5 DEF IdsOf
      <3> QED BY <1>6, <1>7, <2>6, <3>1 DEF Linking
    <2>9. Linking(q, f.code, t, n)
      <3>1. ASSUME NEW i \in IdsOf(q) PROVE i \in IdsOf(g.code) /\ g.code[i + 1] = q[i + 1]
        <4>1. PICK k \in 1 .. n : k = i + 1
          BY <1>1, <1>2 DEF IdsOf
        <4>2. i \in IdsOf(g.code)
          BY <1>1, <1>2, <1>6, <1>7 DEF IdsOf
        <4> QED BY <1>6, <1>7, <4>1, <4>2
      <3> QED BY <2>3, <2>6, <3>1 DEF Linking
    <2>10. Completed(q, F, 0, n, p)
      BY <1>1, <1>2, <1>4, <1>8, <2>1, <2>2, <2>4, <2>6, <2>7, <2>8, <2>9 DEF Completed
    <2> QED BY <1>1, <2>10, EndsTogether
  <1> QED BY <1>9, <1>10
-----------------------------------------------------------------------------
(* What holds of the code while it is made: before the second pass there is*)
(* none, during the pass it is woven, and behind ACCEPT it is a program.   *)
LinkOK ==
  /\ stage = "number" => Blank(c)
  /\ stage = "lower" /\ Compiler!Lowers(c) => Weaving(c, at)
  /\ stage = "accept" /\ Compiler!Lowers(c) =>
       /\ Compiler!HoldsTogether(Compiler!Compiled(c))
       /\ Compiler!BoundsInOrder(Compiler!Compiled(c))
  /\ Compiler!Linked

LEMMA SourceTreed ==
  ASSUME CompileOK, stage \in {"number", "lower"}
  PROVE  Treed(c) /\ LoweringOK(c) /\ c.limits.max_repeat \in 0 .. 255
  <1>1. /\ source \in Sources /\ c.nodes = source.nodes /\ c.limits = source.limits
        /\ Valid(source.limits) /\ LoweringOK(c)
    BY DEF CompileOK
  <1>2. Treed(source)
    <2>1. /\ IsTree(source) /\ Len(source.nodes) \in Nat
          /\ \A k \in 1 .. Len(source.nodes) : source.nodes[k].end \in k .. Len(source.nodes)
      BY <1>1, TreesAssumption, SourcesAssumption
    <2>2. ASSUME NEW j \in NodesOf(source)
          PROVE  End(source, j) \in j + 1 .. Len(source.nodes)
      <3>1. PICK k \in 1 .. Len(source.nodes) : k = j + 1
        BY <2>1 DEF NodesOf
      <3> QED BY <2>1, <3>1 DEF End, Compiler!Tree
    <2> QED BY <2>1, <2>2 DEF Treed
  <1>3. Treed(c)
    BY <1>1, <1>2, SameTree
  <1>4. c.limits.max_repeat \in 0 .. 255
    <2>1. source.limits \in [DOMAIN Ceilings -> Nat] /\ "max_repeat" \in DOMAIN Ceilings
      BY <1>1, SourcesAssumption DEF Ceilings
    <2>2. source.limits["max_repeat"] \in 1 .. Ceilings["max_repeat"]
      BY <1>1, <2>1, ValidLimits
    <2>3. Ceilings["max_repeat"] = 255
      BY DEF Ceilings
    <2> QED BY <1>1, <2>2, <2>3
  <1> QED BY <1>1, <1>3, <1>4

(* A call that is over with an error leaves no program.                    *)
LEMMA FailLinks ==
  ASSUME NEW s, s # "OK", Compiler!Fail(s)
  PROVE  LinkOK'
  BY DEF LinkOK, Compiler!Fail, Compiler!Return, Compiler!Linked

LEMMA StartsLink ==
  ASSUME CompileOK, LinkOK,
         Compiler!Allocate \/ Compiler!StartLowering \/ Compiler!NumberNode
  PROVE  LinkOK'
  <1>1. CASE Compiler!Allocate
    BY <1>1 DEF LinkOK, Compiler!Allocate, Compiler!Advance, Compiler!Linked
  <1>2. CASE Compiler!StartLowering
    <2>1. PICK d : d = Compiler!Lowering(source.nodes, source.limits, source.length)
      OBVIOUS
    <2>2. stage' = "number" /\ c' = d /\ UNCHANGED <<compiled, answer>>
      BY <1>2, <2>1 DEF Compiler!StartLowering, Compiler!Advance
    <2>3. Blank(d)
      BY <2>1, LoweringBlank
    <2> QED BY <2>2, <2>3 DEF LinkOK, Compiler!Linked
  <1>3. CASE Compiler!NumberNode
    <2>1. PICK d : d = Compiler!Reserved(c, at)
      OBVIOUS
    <2>2. stage = "number" /\ stage' = "number" /\ c' = d /\ UNCHANGED <<compiled, answer>>
      BY <1>3, <2>1 DEF Compiler!NumberNode, Compiler!Lower
    <2>3. Blank(d)
      BY <2>1, <2>2, ReservedBlank DEF LinkOK, CompileOK
    <2> QED BY <2>2, <2>3 DEF LinkOK, Compiler!Linked
  <1> QED BY <1>1, <1>2, <1>3

(* Where a step of the second pass starts, and what it leads to            *)
LEMMA WorkReady ==
  ASSUME CompileOK, LinkOK, stage = "lower", Compiler!Lowers(c), at > 0,
         NEW w, w = Compiler!Work(c), NEW i, i = Compiler!Node
  PROVE  /\ Ready(w, i) /\ LoweringOK(w) /\ w.limits.max_repeat \in 0 .. 255
         /\ i \in Nat /\ End(w, i) \in Nat /\ End(w, i) > i
         /\ Weaving(c, i + 1) /\ i \in NodesOf(c)
         /\ Compiler!Name(w, i) = Compiler!Name(c, i)
  <1>1. /\ Treed(c) /\ LoweringOK(c) /\ c.limits.max_repeat \in 0 .. 255
        /\ Weaving(c, at) /\ c.nodes = source.nodes /\ at \in 0 .. Len(source.nodes)
        /\ Len(source.nodes) \in Nat
    BY SourceTreed, FewGroups DEF LinkOK, CompileOK
  <1>2. i + 1 = at /\ i \in NodesOf(c) /\ i \in Nat
    BY <1>1 DEF Compiler!Node, NodesOf
  <1>3. Keeps(c, w)
    BY <1>1, WorkKeeps
  <1>4. PICK k : k = i + 1 /\ Weaving(c, k)
    BY <1>1, <1>2
  <1>5. /\ Weaving(w, k) /\ NodesOf(w) = NodesOf(c)
        /\ \A j : Compiler!Name(w, j) = Compiler!Name(c, j)
    BY <1>3, <1>4, KeepsWeaving
  <1>6. /\ LoweringOK(w) /\ w.groups = c.groups /\ w.limits = c.limits
    BY <1>3 DEF Keeps, Goes
  <1>7. IsSeq(c.groups) /\ Len(c.groups) <= MaxCaptures
    <2>1. /\ IsSeq(c.groups) /\ Len(c.groups) <= c.limits.max_captures
          /\ c.limits = source.limits
      BY DEF CompileOK
    <2>2. source.limits.max_captures \in 0 .. MaxCaptures /\ Len(c.groups) \in Nat
      BY <2>1, FewGroups DEF IsSeq
    <2> QED BY <2>1, <2>2 DEF MaxCaptures
  <1>8. Compiler!Name(c, i) = "Group" => Numbered(c, i)
    BY <1>1, <1>2 DEF CompileOK, NodesOf
  <1>9. Ready(w, i)
    BY <1>2, <1>4, <1>5, <1>6, <1>7, <1>8 DEF Ready, Numbered
  <1>10. End(w, i) \in Nat /\ End(w, i) > i
    <2>1. Treed(w) /\ i \in NodesOf(w)
      BY <1>2, <1>5 DEF Weaving
    <2> QED BY <1>2, <2>1, TreedIs
  <1> QED BY <1>1, <1>2, <1>4, <1>5, <1>6, <1>9, <1>10

LEMMA EmitsLink ==
  ASSUME CompileOK, LinkOK,
         \/ Compiler!SkipTerminal \/ Compiler!EmitSimple \/ Compiler!EmitClass
         \/ Compiler!EmitReference \/ Compiler!EmitGroup \/ Compiler!EmitLoop
  PROVE  LinkOK'
  <1>1. /\ stage = "lower" /\ at > 0 /\ Compiler!Lowers(c)
    BY DEF Compiler!SkipTerminal, Compiler!EmitSimple, Compiler!EmitClass,
           Compiler!EmitReference, Compiler!EmitGroup, Compiler!EmitLoop,
           Compiler!Emitting
  <1>2. PICK w, i : w = Compiler!Work(c) /\ i = Compiler!Node
    OBVIOUS
  <1>3. /\ Ready(w, i) /\ LoweringOK(w) /\ w.limits.max_repeat \in 0 .. 255
        /\ i \in Nat /\ End(w, i) \in Nat /\ End(w, i) > i
        /\ Weaving(c, i + 1) /\ i \in NodesOf(c)
        /\ Compiler!Name(w, i) = Compiler!Name(c, i)
    BY <1>1, <1>2, WorkReady
  <1>4. ASSUME NEW d, Compiler!Lower(d, i), Compiler!Lowers(d) => Weaving(d, i) PROVE LinkOK'
    BY <1>1, <1>4 DEF LinkOK, Compiler!Lower, Compiler!Linked
  <1>5. i \in NodesOf(w) /\ Weaving(w, i + 1) /\ IsSeq(w.groups) /\ Len(w.groups) <= MaxCaptures
    BY <1>3 DEF Ready
  <1>6. CASE Compiler!SkipTerminal
    <2>1. Compiler!Name(c, i) = "terminal" /\ Compiler!Lower(c, i)
      BY <1>2, <1>6 DEF Compiler!SkipTerminal, Compiler!Emitting
    <2>2. Weaving(c, i)
      BY <1>3, <2>1, SkipWeaves
    <2> QED BY <1>4, <2>1, <2>2
  <1>7. CASE Compiler!EmitSimple
    <2>1. PICK e, d : /\ e = Compiler!Emit(w, <<Compiler!SimpleInstruction(w, i)>>)
                      /\ d = Compiler!Single(e, i)
      OBVIOUS
    <2>2. /\ Compiler!Name(w, i) \in Compiler!Simple
          /\ Compiler!Lower(IF Compiler!Lowers(w) THEN d ELSE w, i)
      BY <1>2, <1>3, <1>7, <2>1 DEF Compiler!EmitSimple, Compiler!Emitting
    <2>3. OnePlain(w, e) /\ Compiler!Name(w, i) \in Compiler!Own
      BY <1>3, <2>1, <2>2, SimplePlain DEF Compiler!Own
    <2>4. Compiler!Lowers(d) => Weaving(d, i)
      BY <1>5, <2>1, <2>3, OneStep
    <2>5. CASE Compiler!Lowers(w)
      BY <1>4, <2>2, <2>4, <2>5
    <2>6. CASE ~Compiler!Lowers(w)
      BY <1>4, <2>2, <2>6
    <2> QED BY <2>5, <2>6
  <1>8. CASE Compiler!EmitClass
    <2>1. PICK e, d : e = Compiler!LowerClass(w, i) /\ d = Compiler!Single(e, i)
      OBVIOUS
    <2>2. Compiler!Name(w, i) = "Class" /\ Compiler!Lower(d, i)
      BY <1>2, <1>3, <1>8, <2>1 DEF Compiler!EmitClass, Compiler!Emitting
    <2>3. OnePlain(w, e) /\ Compiler!Name(w, i) \in Compiler!Own
      BY <1>3, <2>1, <2>2, LowerClassPlain DEF Compiler!Own, End
    <2>4. Compiler!Lowers(d) => Weaving(d, i)
      BY <1>5, <2>1, <2>3, OneStep
    <2> QED BY <1>4, <2>2, <2>4
  <1>9. CASE Compiler!EmitReference
    <2>1. PICK e, d : e = Compiler!LowerReference(w, i) /\ d = Compiler!Single(e, i)
      OBVIOUS
    <2>2. /\ Compiler!Name(w, i) = "Reference"
          /\ Compiler!Lower(IF Compiler!Lowers(w) THEN d ELSE w, i)
      BY <1>2, <1>3, <1>9, <2>1 DEF Compiler!EmitReference, Compiler!Emitting
    <2>3. OnePlain(w, e) /\ Compiler!Name(w, i) \in Compiler!Own
      BY <1>3, <1>5, <2>1, <2>2, ReferencePlain DEF Compiler!Own
    <2>4. Compiler!Lowers(d) => Weaving(d, i)
      BY <1>5, <2>1, <2>3, OneStep
    <2>5. CASE Compiler!Lowers(w)
      BY <1>4, <2>2, <2>4, <2>5
    <2>6. CASE ~Compiler!Lowers(w)
      BY <1>4, <2>2, <2>6
    <2> QED BY <2>5, <2>6
  <1>10. CASE Compiler!EmitGroup
    <2>1. PICK e, d : e = Compiler!Join(w, i) /\ d = Compiler!Bracket(e, i)
      OBVIOUS
    <2>2. /\ Compiler!Name(w, i) = "Group"
          /\ Compiler!Lower(IF Compiler!Lowers(w) THEN d ELSE w, i)
      BY <1>2, <1>3, <1>10, <2>1 DEF Compiler!EmitGroup, Compiler!Emitting
    <2>4. Compiler!Lowers(d) => Weaving(d, i)
      BY <1>3, <2>1, <2>2, GroupStep
    <2>5. CASE Compiler!Lowers(w)
      BY <1>4, <2>2, <2>4, <2>5
    <2>6. CASE ~Compiler!Lowers(w)
      BY <1>4, <2>2, <2>6
    <2> QED BY <2>5, <2>6
  <1>11. CASE Compiler!EmitLoop
    <2>1. PICK e, d : e = Compiler!Join(w, i) /\ d = Compiler!Quantified(e, i)
      OBVIOUS
    <2>2. /\ Compiler!Name(w, i) \notin Compiler!Emits
          /\ Compiler!Lower(IF Compiler!Lowers(w) THEN d ELSE w, i)
      BY <1>2, <1>3, <1>11, <2>1 DEF Compiler!EmitLoop
    <2>4. Compiler!Lowers(d) => Weaving(d, i)
      BY <1>3, <2>1, <2>2, LoopStep
    <2>5. CASE Compiler!Lowers(w)
      BY <1>4, <2>2, <2>4, <2>5
    <2>6. CASE ~Compiler!Lowers(w)
      BY <1>4, <2>2, <2>6
    <2> QED BY <2>5, <2>6
  <1> QED BY <1>6, <1>7, <1>8, <1>9, <1>10, <1>11

LEMMA LinkStepOK ==
  ASSUME CompileOK, LinkOK, Compiler!Next
  PROVE  LinkOK'
  <1>1. CASE \/ Compiler!Refuse \/ Compiler!AllocateNoMem \/ Compiler!SyntaxFails
             \/ Compiler!CodeNoMem \/ Compiler!Refused
    <2>1. \E s : s # "OK" /\ Compiler!Fail(s)
      BY <1>1 DEF Compiler!Refuse, Compiler!AllocateNoMem, Compiler!SyntaxFails,
                  Compiler!CodeNoMem, Compiler!Refused, Compiler!Lowers
    <2> QED BY <2>1, FailLinks
  <1>2. CASE Compiler!StartEmitting
    <2>1. /\ stage = "number" /\ at = Len(c.nodes)
          /\ stage' = "lower" /\ UNCHANGED <<compiled, answer, c, at>>
      BY <1>2 DEF Compiler!StartEmitting, Compiler!Advance
    <2>2. Blank(c) /\ Treed(c) /\ LoweringOK(c)
      BY <2>1, SourceTreed DEF LinkOK
    <2>3. Weaving(c, at)
      BY <2>1, <2>2, BlankWeaves
    <2> QED BY <2>1, <2>3 DEF LinkOK, Compiler!Linked
  <1>3. CASE Compiler!EmitAccept
    <2>1. PICK d : d = Compiler!Accepting(c)
      OBVIOUS
    <2>2. /\ stage = "lower" /\ Compiler!Lowers(c) /\ at = 0
          /\ stage' = "accept" /\ c' = d /\ UNCHANGED <<compiled, answer>>
      BY <1>3, <2>1 DEF Compiler!EmitAccept, Compiler!Advance
    <2>3. Weaving(c, 0)
      BY <2>2 DEF LinkOK
    <2>4. Compiler!Lowers(d) => /\ Compiler!HoldsTogether(Compiler!Compiled(d))
                                /\ Compiler!BoundsInOrder(Compiler!Compiled(d))
      BY <2>1, <2>3, WeavingEnds
    <2> QED BY <2>2, <2>4 DEF LinkOK, Compiler!Linked
  <1>4. CASE Compiler!Publish
    <2>1. /\ stage = "accept" /\ Compiler!Lowers(c) /\ stage' = "done"
          /\ compiled' = Compiler!Compiled(c)
      BY <1>4 DEF Compiler!Publish, Compiler!Return
    <2> QED BY <2>1 DEF LinkOK, Compiler!Linked
  <1> QED BY <1>1, <1>2, <1>3, <1>4, StartsLink, EmitsLink DEF Compiler!Next
(* In every session, whatever tree in preorder is compiled, with whatever  *)
(* limits and lack of memory on the way: a program that a caller is        *)
(* handed hangs together.  No jump leaves it, every instruction of it      *)
(* can come to its only end, and each loop closes on its own head, with    *)
(* bounds in order.                                                        *)
(* (bre_lower, bre_emit, bre_quantity and maia_bre_compile_utf8)           *)
THEOREM ProgramsAreLinked == Session => []ProgramsLinked
  <1>1. SessionInit => CompileOK /\ LinkOK
    BY DEF SessionInit, Compiler!Init, CompileOK, LinkOK, Compiler!Linked
  <1>2. (CompileOK /\ LinkOK) /\ [SessionNext]_<<vars, compiling>> => (CompileOK /\ LinkOK)'
    <2> SUFFICES ASSUME CompileOK, LinkOK, [SessionNext]_<<vars, compiling>>
                 PROVE  CompileOK' /\ LinkOK'
      OBVIOUS
    <2>1. CASE Compiler!Next
      BY <2>1, CompileStepOK, LinkStepOK
    <2>2. CASE UNCHANGED compiling
      BY <2>2 DEF CompileOK, LinkOK, compiling, Compiler!Linked
    <2>3. Compiler!Next \/ UNCHANGED compiling
      BY DEF SessionNext, Compile, Ask, Match, Rest
    <2> QED BY <2>1, <2>2, <2>3
  <1>3. LinkOK => ProgramsLinked
    BY DEF LinkOK, ProgramsLinked
  <1> QED BY <1>1, <1>2, <1>3, PTL DEF Session
==============================================================================
