--------------------------- MODULE BreLexerProofs ---------------------------
(***************************************************************************)
(* Proofs about BreLexer, for every set of texts, every limit on the       *)
(* length of a pattern and every engine under the token table: the check   *)
(* accepts exactly the well-formed texts, the lexer's own decoder refuses  *)
(* none of these, its units spell the text, the tokens tile it, and the    *)
(* token array is never found full.                                        *)
(*                                                                         *)
(* The argument: the check's offset is always the end of a chain of        *)
(* well-formed sequences from offset 0, and if the whole text is such a    *)
(* chain, then by any chain of it the offset is one of its members: both   *)
(* decoders step along it.  A scalar has no more units than bytes and a    *)
(* token no fewer units than one, so the tokens, and the end-of-text token *)
(* after them, are at most one more than the bytes.  On                    *)
(* top of that invariant, the units decoded so far spell the bytes decoded *)
(* so far (the low bits that a decoder takes from a sequence are those     *)
(* that the encoding puts there), and the tokens reach to the position.    *)
(***************************************************************************)
EXTENDS BreLexer, Numbers, SequenceTheorems, TLAPS
-----------------------------------------------------------------------------
(* The decoders of Utf8 decode exactly the table of well-formed sequences, *)
(* they agree, and encoding what they decode gives back the bytes.         *)

(* The value of the low bits of each kind of byte                          *)
LEMMA LowBits ==
  ASSUME NEW b \in Nat
  PROVE  /\ 128 <= b /\ b <= 191 => b % 64 = b - 128
         /\ 194 <= b /\ b <= 223 => b % 32 = b - 192
         /\ 224 <= b /\ b <= 239 => b % 16 = b - 224
         /\ 240 <= b /\ b <= 247 => b % 8 = b - 240
  OBVIOUS

(* The bytes between two offsets                                           *)
LEMMA BytesBetween ==
  ASSUME NEW utf8 \in Seq(Byte), NEW i \in 0 .. Len(utf8) - 1,
         NEW b \in i + 1 .. Len(utf8)
  PROVE  /\ Len(SubSeq(utf8, i + 1, b)) = b - i
         /\ \A j \in 1 .. b - i : SubSeq(utf8, i + 1, b)[j] = utf8[i + j]
         /\ \A j \in 1 .. b - i : utf8[i + j] \in Nat /\ utf8[i + j] <= 255
  <1>1. \A j \in 1 .. Len(utf8) : utf8[j] \in Byte
    BY ElementOfSeq
  <1>2. i + 1 \in Nat /\ b \in Nat /\ i + 1 <= b + 1 /\ b <= Len(utf8) /\ i + 1 >= 1
    BY LenProperties
  <1>3. /\ SubSeq(utf8, i + 1, b) \in Seq(Byte)
        /\ Len(SubSeq(utf8, i + 1, b)) = IF i + 1 <= b THEN b - (i + 1) + 1 ELSE 0
        /\ \A j \in 1 .. b - (i + 1) + 1 : SubSeq(utf8, i + 1, b)[j] = utf8[(i + 1) + j - 1]
    BY <1>1, <1>2, SubSeqProperties, SMTT(30)
  <1>4. \A j \in 1 .. b - i : i + j \in 1 .. Len(utf8) /\ (i + 1) + j - 1 = i + j
    BY <1>2
  <1>. DEFINE T(k) == utf8[k] \in Nat /\ utf8[k] <= 255
  <1>5. ASSUME NEW x \in Byte PROVE x \in Nat /\ x <= 255
    BY DEF Byte
  <1>6. ASSUME NEW k \in 1 .. Len(utf8) PROVE T(k)
    BY <1>1, <1>5, Zenon
  <1>. HIDE DEF T
  <1>7. \A j \in 1 .. b - i : T(i + j)
    BY <1>4, <1>6, Zenon
  <1>8. \A j \in 1 .. b - i : utf8[i + j] \in Nat /\ utf8[i + j] <= 255
    BY <1>7, Zenon DEF T
  <1> QED BY <1>2, <1>3, <1>4, <1>8
-----------------------------------------------------------------------------
(* What the bytes of each length compose, and which of the conditions on   *)
(* the scalar they meet: those of the table.                               *)
InTwo(a, b)      == 64 * (a % 32) + (b % 64)
InThree(a, b, c) == 64 * (64 * (a % 16) + (b % 64)) + (c % 64)
InFour(a, b, c, d) == 64 * (64 * (64 * (a % 8) + (b % 64)) + (c % 64)) + (d % 64)

IsCont(b) == 128 <= b /\ b <= 191

Smallest(n) == IF n = 2 THEN 128 ELSE IF n = 3 THEN 2048 ELSE 65536

(* What two bytes make, and the ranges it falls into.                      *)
LEMMA TwoBytes ==
  ASSUME NEW a \in Nat, NEW b \in Nat, 194 <= a, a <= 223, IsCont(b)
  PROVE  /\ InTwo(a, b) = 64 * (a - 192) + (b - 128)
         /\ InTwo(a, b) \in Nat /\ 128 <= InTwo(a, b) /\ InTwo(a, b) <= 2047
  BY LowBits DEF InTwo, IsCont

(* The same of three bytes: too short a form, a surrogate, or neither.     *)
LEMMA ThreeBytes ==
  ASSUME NEW a \in Nat, NEW b \in Nat, NEW c \in Nat,
         224 <= a, a <= 239, IsCont(b), IsCont(c)
  PROVE  /\ InThree(a, b, c) = 64 * (64 * (a - 224) + (b - 128)) + (c - 128)
         /\ InThree(a, b, c) \in Nat /\ InThree(a, b, c) <= 65535
         /\ 2048 <= InThree(a, b, c) <=> (a = 224 => 160 <= b)
         /\ 55296 <= InThree(a, b, c) /\ InThree(a, b, c) <= 57343
              <=> (a = 237 /\ 160 <= b)
  <1>1. InThree(a, b, c) = 64 * (64 * (a - 224) + (b - 128)) + (c - 128)
    BY LowBits DEF InThree, IsCont
  <1> QED BY <1>1 DEF IsCont

(* The same of four bytes: too short a form, beyond the last, or neither.  *)
LEMMA FourBytes ==
  ASSUME NEW a \in Nat, NEW b \in Nat, NEW c \in Nat, NEW d \in Nat,
         240 <= a, a <= 244, IsCont(b), IsCont(c), IsCont(d)
  PROVE  /\ InFour(a, b, c, d)
               = 64 * (64 * (64 * (a - 240) + (b - 128)) + (c - 128)) + (d - 128)
         /\ InFour(a, b, c, d) \in Nat
         /\ Smallest(4) <= InFour(a, b, c, d) <=> (a = 240 => 144 <= b)
         /\ InFour(a, b, c, d) <= ScalarMax <=> (a = 244 => b <= 143)
  <1>1. InFour(a, b, c, d)
          = 64 * (64 * (64 * (a - 240) + (b - 128)) + (c - 128)) + (d - 128)
    BY LowBits DEF InFour, IsCont
  <1> QED BY <1>1 DEF IsCont, Smallest, ScalarMax
-----------------------------------------------------------------------------
(* What the first byte says, to the two decoders alike                     *)
LEMMA LeadBytes ==
  ASSUME NEW a \in Nat
  PROVE  /\ 194 <= a /\ a <= 223 =>
              /\ IsLead(a) /\ Lead(a) = [bits |-> a % 32, more |-> 1, min |-> 128]
              /\ LexLead(a) = [value |-> a % 32, extra |-> 1, minimum |-> 128]
         /\ 224 <= a /\ a <= 239 =>
              /\ IsLead(a) /\ Lead(a) = [bits |-> a % 16, more |-> 2, min |-> 2048]
              /\ LexLead(a) = [value |-> a % 16, extra |-> 2, minimum |-> 2048]
         /\ 240 <= a /\ a <= 244 =>
              /\ IsLead(a) /\ Lead(a) = [bits |-> a % 8, more |-> 3, min |-> 65536]
              /\ LexLead(a) = [value |-> a % 8, extra |-> 3, minimum |-> 65536]
         /\ a < 194 \/ a > 244 =>
              /\ ~IsLead(a)
              /\ LexLead(a) = [value |-> a, extra |-> 0, minimum |-> 0]
  <1>1. CASE 194 <= a /\ a <= 223
    BY <1>1 DEF IsLead, Lead, LexLead
  <1>2. CASE 224 <= a /\ a <= 239
    BY <1>2 DEF IsLead, Lead, LexLead
  <1>3. CASE 240 <= a /\ a <= 244
    BY <1>3 DEF IsLead, Lead, LexLead
  <1>4. CASE a < 194 \/ a > 244
    BY <1>4 DEF IsLead, Lead, LexLead
  <1> QED BY <1>1, <1>2, <1>3, <1>4

(* Membership in the surrogates, as inequalities,                          *)
LEMMA InSurrogates ==
  ASSUME NEW v \in Nat
  PROVE  v \in Surrogates <=> 55296 <= v /\ v <= 57343
  BY DEF Surrogates

(* and in the continuation bytes.                                          *)
LEMMA InContinuation ==
  ASSUME NEW b \in Nat
  PROVE  b \in Continuation <=> IsCont(b)
  BY DEF Continuation, IsCont

(* The first decoder, by the number of bytes of the encoding               *)
LEMMA NextOfShort ==
  ASSUME NEW utf8 \in Seq(Byte), NEW i \in 0 .. Len(utf8) - 1, utf8[i + 1] \in Nat
  PROVE  LET a == utf8[i + 1]
         IN /\ a = 0 => Utf8Next(utf8, i) = Refused("ARGUMENT")
            /\ 1 <= a /\ a <= 127 => Utf8Next(utf8, i) = Accepted(i + 1, a)
            /\ (128 <= a /\ a < 194) \/ a > 244 => Utf8Next(utf8, i) = Refused("ENCODING")
  <1>. DEFINE a == utf8[i + 1]
  <1>1. a \in Nat /\ ~(i >= Len(utf8))
    BY LenProperties
  <1>. HIDE DEF a
  <1>2. ASSUME a = 0 PROVE Utf8Next(utf8, i) = Refused("ARGUMENT")
    BY <1>1, <1>2 DEF Utf8Next, a
  <1>3. ASSUME 1 <= a, a <= 127 PROVE Utf8Next(utf8, i) = Accepted(i + 1, a)
    <2>1. a # 0 /\ a <= 127
      BY <1>1, <1>3
    <2> QED BY <1>1, <2>1, Zenon DEF Utf8Next, a
  <1>4. ASSUME (128 <= a /\ a < 194) \/ a > 244
        PROVE  Utf8Next(utf8, i) = Refused("ENCODING")
    <2>1. a # 0 /\ ~(a <= 127) /\ ~IsLead(a)
      BY <1>1, <1>4, LeadBytes
    <2> QED BY <1>1, <2>1, Zenon DEF Utf8Next, a
  <1> QED BY <1>2, <1>3, <1>4 DEF a

(* A byte that continues no sequence is outside 128 .. 191.                *)
LEMMA NotCont ==
  ASSUME NEW b \in Nat
  PROVE  (b < 128 \/ b > 191) <=> ~IsCont(b)
  BY DEF IsCont

(* What holds of all bytes of a sequence holds of those after the first.   *)
LEMMA TailBytes ==
  ASSUME NEW utf8, NEW i, NEW n \in {2, 3, 4}, \A j \in 1 .. n : utf8[i + j] \in Nat
  PROVE  \A j \in 2 .. n : utf8[i + j] \in Nat
  <1>1. \A j \in 2 .. n : j \in 1 .. n
    OBVIOUS
  <1> QED BY <1>1, Zenon

(* The scalar that a lead byte and n - 1 continuation bytes make           *)
Value(utf8, i, n) ==
  IF n = 2 THEN InTwo(utf8[i + 1], utf8[i + 2])
  ELSE IF n = 3 THEN InThree(utf8[i + 1], utf8[i + 2], utf8[i + 3])
  ELSE InFour(utf8[i + 1], utf8[i + 2], utf8[i + 3], utf8[i + 4])

LeadOf(a, n) ==
  \/ n = 2 /\ 194 <= a /\ a <= 223
  \/ n = 3 /\ 224 <= a /\ a <= 239
  \/ n = 4 /\ 240 <= a /\ a <= 244

(* A lead byte, by the length of the sequence it starts.                   *)
LEMMA LongLead ==
  ASSUME NEW utf8, NEW i \in Nat, NEW n \in {2, 3, 4}, utf8[i + 1] \in Nat,
         LeadOf(utf8[i + 1], n)
  PROVE  LET a == utf8[i + 1]
         IN /\ IsLead(a) /\ Lead(a).more = n - 1 /\ Lead(a).min = Smallest(n)
            /\ Composed(utf8, i, Lead(a).bits, n - 1) = Value(utf8, i, n)
            /\ LexLead(a).extra = n - 1 /\ LexLead(a).minimum = Smallest(n)
            /\ Composed(utf8, i, LexLead(a).value, n - 1) = Value(utf8, i, n)
  <1>. DEFINE a == utf8[i + 1]
  <1>1. a \in Nat
    OBVIOUS
  <1>2. CASE n = 2
    <2>1. 194 <= a /\ a <= 223
      BY <1>2 DEF LeadOf
    <2>2. /\ IsLead(a) /\ Lead(a) = [bits |-> a % 32, more |-> 1, min |-> 128]
          /\ LexLead(a) = [value |-> a % 32, extra |-> 1, minimum |-> 128]
      BY <1>1, <2>1, LeadBytes
    <2>3. Composed(utf8, i, a % 32, 1) = InTwo(a, utf8[i + 2])
      BY DEF Composed, InTwo, Shift
    <2> QED BY <1>2, <2>2, <2>3 DEF Value, Smallest
  <1>3. CASE n = 3
    <2>1. 224 <= a /\ a <= 239
      BY <1>3 DEF LeadOf
    <2>2. /\ IsLead(a) /\ Lead(a) = [bits |-> a % 16, more |-> 2, min |-> 2048]
          /\ LexLead(a) = [value |-> a % 16, extra |-> 2, minimum |-> 2048]
      BY <1>1, <2>1, LeadBytes
    <2>3. Composed(utf8, i, a % 16, 2) = InThree(a, utf8[i + 2], utf8[i + 3])
      BY DEF Composed, InThree, Shift
    <2> QED BY <1>3, <2>2, <2>3 DEF Value, Smallest
  <1>4. CASE n = 4
    <2>1. 240 <= a /\ a <= 244
      BY <1>4 DEF LeadOf
    <2>2. /\ IsLead(a) /\ Lead(a) = [bits |-> a % 8, more |-> 3, min |-> 65536]
          /\ LexLead(a) = [value |-> a % 8, extra |-> 3, minimum |-> 65536]
      BY <1>1, <2>1, LeadBytes
    <2>3. Composed(utf8, i, a % 8, 3) = InFour(a, utf8[i + 2], utf8[i + 3], utf8[i + 4])
      BY DEF Composed, InFour, Shift
    <2> QED BY <1>4, <2>2, <2>3 DEF Value, Smallest
  <1> QED BY <1>2, <1>3, <1>4

(* What makes n bytes from offset i on an encoding, once their lead byte   *)
(* is one of n bytes                                                       *)
Fine(utf8, i, n) ==
  /\ i + n <= Len(utf8)
  /\ \A j \in 2 .. n : IsCont(utf8[i + j])
  /\ Smallest(n) <= Value(utf8, i, n) /\ Value(utf8, i, n) <= ScalarMax
  /\ Value(utf8, i, n) \notin Surrogates

(* The bytes of a utf8 are numbers up to 255.                              *)
LEMMA BytesAreNat ==
  ASSUME NEW utf8 \in Seq(Byte)
  PROVE  \A k \in 1 .. Len(utf8) : utf8[k] \in Nat /\ utf8[k] <= 255
  <1>. DEFINE T(k) == utf8[k] \in Nat /\ utf8[k] <= 255
  <1>1. \A k \in 1 .. Len(utf8) : utf8[k] \in Byte
    BY ElementOfSeq
  <1>2. ASSUME NEW x \in Byte PROVE x \in Nat /\ x <= 255
    BY DEF Byte
  <1>3. ASSUME NEW k \in 1 .. Len(utf8) PROVE T(k)
    BY <1>1, <1>2, Zenon
  <1> QED BY <1>3

(* What the bytes of a sequence make is a number.                          *)
LEMMA ValueIsNat ==
  ASSUME NEW utf8, NEW i \in Nat, NEW n \in {2, 3, 4},
         \A j \in 1 .. n : utf8[i + j] \in Nat
  PROVE  Value(utf8, i, n) \in Nat
  <1>1. CASE n = 2
    <2>1. utf8[i + 1] \in Nat /\ utf8[i + 2] \in Nat
      BY <1>1
    <2> QED BY <1>1, <2>1 DEF Value, InTwo
  <1>2. CASE n = 3
    <2>1. utf8[i + 1] \in Nat /\ utf8[i + 2] \in Nat /\ utf8[i + 3] \in Nat
      BY <1>2
    <2> QED BY <1>2, <2>1 DEF Value, InThree
  <1>3. CASE n = 4
    <2>1. utf8[i + 1] \in Nat /\ utf8[i + 2] \in Nat /\ utf8[i + 3] \in Nat /\ utf8[i + 4] \in Nat
      BY <1>3
    <2> QED BY <1>3, <2>1 DEF Value, InFour
  <1> QED BY <1>1, <1>2, <1>3

(* On a lead byte, bre_utf8_next accepts exactly the sequences that are    *)
(* fine.                                                                   *)
LEMMA NextOfLong ==
  ASSUME NEW utf8 \in Seq(Byte), NEW i \in 0 .. Len(utf8) - 1, NEW n \in {2, 3, 4},
         LeadOf(utf8[i + 1], n)
  PROVE  Utf8Next(utf8, i) = IF Fine(utf8, i, n) THEN Accepted(i + n, Value(utf8, i, n))
                             ELSE Refused("ENCODING")
  <1>. DEFINE a == utf8[i + 1]
              L == Lead(a)
  <1>1. /\ i \in Nat /\ Len(utf8) \in Nat /\ i + 1 \in 1 .. Len(utf8) /\ ~(i >= Len(utf8))
    BY LenProperties
  <1>2. a \in Nat /\ a <= 255
    BY <1>1, BytesAreNat, Zenon
  <1>3. a # 0 /\ ~(a <= 127)
    BY <1>2 DEF LeadOf
  <1>4. /\ IsLead(a) /\ L.more = n - 1 /\ L.min = Smallest(n)
        /\ Composed(utf8, i, L.bits, n - 1) = Value(utf8, i, n)
    BY <1>1, <1>2, LongLead
  <1>. HIDE DEF L
  <1>5. CASE i + n > Len(utf8)
    <2>1. L.more > Len(utf8) - (i + 1)
      BY <1>1, <1>4, <1>5
    <2>2. ~Fine(utf8, i, n)
      BY <1>1, <1>5 DEF Fine
    <2>3. Utf8Next(utf8, i) = Refused("ENCODING")
      BY <1>1, <1>3, <2>1, Zenon DEF Utf8Next, L
    <2> QED BY <2>2, <2>3
  <1>6. CASE i + n <= Len(utf8)
    <2>1. ~(L.more > Len(utf8) - (i + 1))
      BY <1>1, <1>4, <1>6
    <2>2. Utf8Next(utf8, i) = NextLong(utf8, i)
      BY <1>1, <1>3, <1>4, <2>1, Zenon DEF Utf8Next, L
    <2>3. \A j \in 1 .. n : utf8[i + j] \in Nat
      BY <1>1, <1>6, BytesAreNat
    <2>4. (\A j \in 2 .. n : utf8[i + j] \in Continuation)
            <=> (\A j \in 2 .. n : IsCont(utf8[i + j]))
      <3>1. \A j \in 2 .. n : utf8[i + j] \in Nat
        BY <2>3, TailBytes, Zenon
      <3>2. \A j \in 2 .. n : utf8[i + j] \in Continuation <=> IsCont(utf8[i + j])
        BY <3>1, InContinuation, Zenon
      <3> QED BY <3>2, Zenon
    <2>5. L.more + 1 = n /\ i + 1 + L.more = i + n
      BY <1>1, <1>4
    <2>6. NextLong(utf8, i)
            = IF /\ \A j \in 2 .. n : utf8[i + j] \in Continuation
                 /\ Smallest(n) <= Value(utf8, i, n) /\ Value(utf8, i, n) <= ScalarMax
                 /\ Value(utf8, i, n) \notin Surrogates
              THEN Accepted(i + n, Value(utf8, i, n)) ELSE Refused("ENCODING")
      BY <1>4, <2>5, Zenon DEF NextLong, L
    <2> QED BY <1>6, <2>2, <2>4, <2>6, Zenon DEF Fine
  <1> QED BY <1>1, <1>5, <1>6

(* So does maiaCCLexDecode, with the units of the same value.              *)
LEMMA LexOfLong ==
  ASSUME NEW utf8 \in Seq(Byte), NEW i \in 0 .. Len(utf8) - 1, NEW n \in {2, 3, 4},
         LeadOf(utf8[i + 1], n)
  PROVE  LexDecode(utf8, i)
           = IF Fine(utf8, i, n)
             THEN [failed |-> FALSE, position |-> i + n, units |-> Units(Value(utf8, i, n))]
             ELSE LexFailure
  <1>. DEFINE a == utf8[i + 1]
              L == LexLead(a)
              v == Value(utf8, i, n)
              Cut == \/ a >= 128 /\ L.extra = 0
                     \/ L.extra > Len(utf8) - (i + 1)
              Bad == \/ \E j \in 2 .. n : utf8[i + j] < 128 \/ utf8[i + j] > 191
                     \/ v < Smallest(n) \/ v > ScalarMax \/ v \in Surrogates
              Good == [failed |-> FALSE, position |-> i + n, units |-> Units(v)]
  <1>1. i \in Nat /\ Len(utf8) \in Nat /\ i + 1 \in 1 .. Len(utf8)
    BY LenProperties
  <1>2. a \in Nat /\ a <= 255
    BY <1>1, BytesAreNat, Zenon
  <1>3. /\ L.extra = n - 1 /\ L.minimum = Smallest(n)
        /\ Composed(utf8, i, L.value, n - 1) = v
    BY <1>1, <1>2, LongLead
  <1>. HIDE DEF L
  <1>4. L.extra # 0 /\ L.extra + 1 = n /\ i + 1 + L.extra = i + n
    BY <1>1, <1>3
  <1>5. Cut <=> i + n > Len(utf8)
    BY <1>1, <1>3, <1>4
  <1>6. LexDecode(utf8, i) = IF Cut THEN LexFailure ELSE IF Bad THEN LexFailure ELSE Good
    <2>1. /\ (IF L.extra = 0 THEN a ELSE Composed(utf8, i, L.value, L.extra)) = v
      BY <1>3, <1>4
    <2> QED BY <1>3, <1>4, <2>1, Zenon DEF LexDecode, L
  <1>7. CASE i + n > Len(utf8)
    <2>1. ~Fine(utf8, i, n)
      BY <1>1, <1>7 DEF Fine
    <2> QED BY <1>5, <1>6, <1>7, <2>1, Zenon
  <1>8. CASE i + n <= Len(utf8)
    <2>1. ~Cut
      BY <1>1, <1>5, <1>8
    <2>2. \A j \in 1 .. n : utf8[i + j] \in Nat
      BY <1>1, <1>8, BytesAreNat
    <2>3. (\E j \in 2 .. n : utf8[i + j] < 128 \/ utf8[i + j] > 191)
            <=> ~(\A j \in 2 .. n : IsCont(utf8[i + j]))
      <3>. HIDE DEF Cut, Bad, Good, v
      <3>1. \A j \in 2 .. n : utf8[i + j] \in Nat
        BY <2>2, TailBytes, Zenon
      <3>2. \A j \in 2 .. n : (utf8[i + j] < 128 \/ utf8[i + j] > 191) <=> ~IsCont(utf8[i + j])
        BY <3>1, NotCont, Zenon
      <3> QED BY <3>2, Zenon
    <2>4. v \in Nat /\ Smallest(n) \in Nat
      BY <1>1, <2>2, ValueIsNat DEF Smallest
    <2>5. (v < Smallest(n) \/ v > ScalarMax) <=> ~(Smallest(n) <= v /\ v <= ScalarMax)
      <3>. HIDE DEF v
      <3> QED BY <2>4 DEF ScalarMax
    <2>6. Bad <=> ~Fine(utf8, i, n)
      BY <1>8, <2>3, <2>5, Zenon DEF Fine
    <2>. HIDE DEF Bad, Cut, Good
    <2>7. LexDecode(utf8, i) = IF Fine(utf8, i, n) THEN Good ELSE LexFailure
      BY <1>6, <2>1, <2>6, Zenon
    <2> QED BY <2>7 DEF Good
  <1> QED BY <1>1, <1>7, <1>8

(* The table of well-formed sequences admits the same bytes.               *)
LEMMA FineIsWellFormed ==
  ASSUME NEW utf8 \in Seq(Byte), NEW i \in 0 .. Len(utf8) - 1, NEW n \in {2, 3, 4},
         LeadOf(utf8[i + 1], n), i + n <= Len(utf8)
  PROVE  Fine(utf8, i, n) <=> WellFormed(SubSeq(utf8, i + 1, i + n))
  <1>. DEFINE s == SubSeq(utf8, i + 1, i + n)
              v == Value(utf8, i, n)
  <1>1. i \in Nat /\ Len(utf8) \in Nat /\ i + n \in i + 1 .. Len(utf8)
    BY LenProperties
  <1>2. Len(s) = n /\ \A j \in 1 .. n : s[j] = utf8[i + j] /\ utf8[i + j] \in Nat
    <2>1. Len(s) = (i + n) - i /\ \A j \in 1 .. (i + n) - i : s[j] = utf8[i + j] /\ utf8[i + j] \in Nat
      BY <1>1, BytesBetween
    <2>2. (i + n) - i = n
      BY <1>1
    <2> QED BY <2>1, <2>2
  <1>3. v \in Nat
    BY <1>1, <1>2, ValueIsNat
  <1>4. v \in Surrogates <=> 55296 <= v /\ v <= 57343
    BY <1>3, InSurrogates
  <1>. HIDE DEF s
  <1>5. CASE n = 2
    <2>. DEFINE a == utf8[i + 1]  b == utf8[i + 2]
    <2>1. a \in Nat /\ b \in Nat /\ s[1] = a /\ s[2] = b /\ Len(s) = 2
      BY <1>2, <1>5
    <2>2. 194 <= a /\ a <= 223
      BY <1>5 DEF LeadOf
    <2>3. v = InTwo(a, b) /\ Smallest(n) = 128
      BY <1>5 DEF Value, Smallest
    <2>4. (\A j \in 2 .. n : IsCont(utf8[i + j])) <=> IsCont(b)
      BY <1>5
    <2>. HIDE DEF a, b, v
    <2>5. WellFormed(s) <=> IsCont(b)
      BY <2>1, <2>2 DEF WellFormed, IsCont, Continuation
    <2>6. IsCont(b) => 128 <= v /\ v <= 2047
      BY <2>1, <2>2, <2>3, TwoBytes
    <2>7. IsCont(b) => 128 <= v /\ v <= ScalarMax /\ v \notin Surrogates
      BY <1>3, <1>4, <2>6 DEF ScalarMax
    <2>. HIDE DEF s
    <2> QED BY <2>3, <2>4, <2>5, <2>7, Zenon DEF Fine, v, s
  <1>6. CASE n = 3
    <2>. DEFINE a == utf8[i + 1]  b == utf8[i + 2]  c == utf8[i + 3]
    <2>1. a \in Nat /\ b \in Nat /\ c \in Nat /\ s[1] = a /\ s[2] = b /\ s[3] = c /\ Len(s) = 3
      BY <1>2, <1>6
    <2>2. 224 <= a /\ a <= 239
      BY <1>6 DEF LeadOf
    <2>3. v = InThree(a, b, c) /\ Smallest(n) = 2048
      BY <1>6 DEF Value, Smallest
    <2>4. (\A j \in 2 .. n : IsCont(utf8[i + j])) <=> IsCont(b) /\ IsCont(c)
      BY <1>6
    <2>. HIDE DEF a, b, c, v
    <2>5. WellFormed(s) <=> /\ IsCont(b) /\ IsCont(c)
                            /\ a = 224 => 160 <= b
                            /\ ~(a = 237 /\ 160 <= b)
      BY <2>1, <2>2 DEF WellFormed, IsCont, Continuation
    <2>6. IsCont(b) /\ IsCont(c) =>
            /\ v <= 65535
            /\ 2048 <= v <=> (a = 224 => 160 <= b)
            /\ 55296 <= v /\ v <= 57343 <=> (a = 237 /\ 160 <= b)
      <3>. SUFFICES ASSUME IsCont(b), IsCont(c)
                    PROVE  /\ v <= 65535
                           /\ 2048 <= v <=> (a = 224 => 160 <= b)
                           /\ 55296 <= v /\ v <= 57343 <=> (a = 237 /\ 160 <= b)
        OBVIOUS
      <3>1. v = 64 * (64 * (a - 224) + (b - 128)) + (c - 128)
        BY <2>1, <2>2, <2>3, ThreeBytes
      <3>2. 128 <= b /\ b <= 191 /\ 128 <= c /\ c <= 191
        BY <2>1 DEF IsCont
      <3>3. v <= 65535
        BY <2>1, <2>2, <3>1, <3>2
      <3>4. 2048 <= v <=> (a = 224 => 160 <= b)
        BY <2>1, <2>2, <3>1, <3>2
      <3>5. 55296 <= v /\ v <= 57343 <=> (a = 237 /\ 160 <= b)
        BY <2>1, <2>2, <3>1, <3>2
      <3> QED BY <3>3, <3>4, <3>5
    <2>7. IsCont(b) /\ IsCont(c) => v <= ScalarMax
      BY <1>3, <2>6 DEF ScalarMax
    <2>8. Fine(utf8, i, n) <=> /\ IsCont(b) /\ IsCont(c)
                               /\ 2048 <= v /\ v <= ScalarMax /\ v \notin Surrogates
      <3>1. Fine(utf8, i, n) <=> /\ \A j \in 2 .. n : IsCont(utf8[i + j])
                                 /\ Smallest(n) <= v /\ v <= ScalarMax /\ v \notin Surrogates
        BY Zenon DEF Fine, v
      <3>2. Smallest(n) = 2048
        BY <2>3
      <3>. DEFINE F == Fine(utf8, i, n)
                  A == \A j \in 2 .. n : IsCont(utf8[i + j])
                  B == IsCont(b) /\ IsCont(c)
                  W == 2048 <= v
                  S == v <= ScalarMax /\ v \notin Surrogates
      <3>3. (F <=> A /\ W /\ S) /\ (A <=> B)
        <4> DEFINE X == Smallest(n) <= v
        <4>1. A <=> B BY <2>4, Zenon
        <4>2. W <=> X BY <3>2
        <4>3. F <=> A /\ X /\ S BY <3>1, Zenon
        <4> HIDE DEF F, A, B, W, S, X
        <4> QED BY <4>1, <4>2, <4>3
      <3>4. F <=> B /\ W /\ S
        <4>. HIDE DEF F, A, B, W, S
        <4> QED BY <3>3
      <3> QED BY <3>4
    <2>9. Fine(utf8, i, n) <=> WellFormed(s)
      BY <1>4, <2>5, <2>6, <2>7, <2>8
    <2> QED BY <2>9 DEF s
  <1>7. CASE n = 4
    <2>. DEFINE a == utf8[i + 1]  b == utf8[i + 2]  c == utf8[i + 3]  d == utf8[i + 4]
    <2>1. /\ a \in Nat /\ b \in Nat /\ c \in Nat /\ d \in Nat
          /\ s[1] = a /\ s[2] = b /\ s[3] = c /\ s[4] = d /\ Len(s) = 4
      BY <1>2, <1>7
    <2>2. 240 <= a /\ a <= 244
      BY <1>7 DEF LeadOf
    <2>3. v = InFour(a, b, c, d) /\ Smallest(n) = 65536
      BY <1>7 DEF Value, Smallest
    <2>4. (\A j \in 2 .. n : IsCont(utf8[i + j])) <=> IsCont(b) /\ IsCont(c) /\ IsCont(d)
      BY <1>7
    <2>. HIDE DEF a, b, c, d, v
    <2>5. WellFormed(s) <=> /\ IsCont(b) /\ IsCont(c) /\ IsCont(d)
                            /\ a = 240 => 144 <= b
                            /\ a = 244 => b <= 143
      BY <2>1, <2>2, SMTT(30) DEF WellFormed, IsCont, Continuation
    <2>6. IsCont(b) /\ IsCont(c) /\ IsCont(d) =>
            /\ Smallest(4) <= v <=> (a = 240 => 144 <= b)
            /\ v <= ScalarMax <=> (a = 244 => b <= 143)
      <3>1. IsCont(b) /\ IsCont(c) /\ IsCont(d) =>
              /\ Smallest(4) <= InFour(a, b, c, d) <=> (a = 240 => 144 <= b)
              /\ InFour(a, b, c, d) <= ScalarMax <=> (a = 244 => b <= 143)
        BY <2>1, <2>2, FourBytes, SMTT(30)
      <3> QED BY <2>3, <3>1
    <2>7. 65536 <= v => v \notin Surrogates
      BY <1>3, <1>4
    <2>8. Fine(utf8, i, n) <=> /\ IsCont(b) /\ IsCont(c) /\ IsCont(d)
                               /\ 65536 <= v /\ v <= ScalarMax /\ v \notin Surrogates
      <3>1. Fine(utf8, i, n) <=> /\ \A j \in 2 .. n : IsCont(utf8[i + j])
                                 /\ Smallest(n) <= v /\ v <= ScalarMax /\ v \notin Surrogates
        BY Zenon DEF Fine, v
      <3> QED BY <2>3, <2>4, <3>1
    <2>9. Fine(utf8, i, n) <=> WellFormed(s)
      <3>1. Smallest(4) = 65536
        BY DEF Smallest
      <3> QED BY <2>5, <2>6, <2>7, <2>8, <3>1
    <2> QED BY <2>9 DEF s
  <1> QED BY <1>5, <1>6, <1>7

(* The first byte of a well-formed sequence tells how long it is.          *)
LEMMA WellFormedLead ==
  ASSUME NEW s, NEW a \in Nat, NEW m \in Nat, Len(s) = m, s[1] = a, WellFormed(s)
  PROVE  \/ m = 1 /\ a <= 127
         \/ m \in {2, 3, 4} /\ LeadOf(a, m)
  <1>1. CASE m = 1 /\ a < 128
    BY <1>1
  <1>2. CASE m = 2 /\ a \in 194 .. 223
    BY <1>2 DEF LeadOf
  <1>3. CASE m = 3 /\ (a = 224 \/ a = 237 \/ a \in 225 .. 239 \ {237})
    BY <1>3 DEF LeadOf
  <1>4. CASE m = 4 /\ (a = 240 \/ a \in 241 .. 243 \/ a = 244)
    BY <1>4 DEF LeadOf
  <1> QED BY <1>1, <1>2, <1>3, <1>4 DEF WellFormed

(* Both accept every byte from 1 to 127 as a sequence of its own.          *)
LEMMA OneByte ==
  ASSUME NEW utf8 \in Seq(Byte), NEW i \in 0 .. Len(utf8) - 1, utf8[i + 1] <= 127
  PROVE  /\ WellFormed(SubSeq(utf8, i + 1, i + 1))
         /\ LexDecode(utf8, i)
              = [failed |-> FALSE, position |-> i + 1, units |-> <<utf8[i + 1]>>]
  <1>. DEFINE s == SubSeq(utf8, i + 1, i + 1)
              a == utf8[i + 1]
  <1>1. i \in Nat /\ Len(utf8) \in Nat /\ i + 1 \in i + 1 .. Len(utf8) /\ (i + 1) - i = 1
    BY LenProperties
  <1>2. Len(s) = 1 /\ s[1] = a /\ a \in Nat
    <2>1. /\ Len(s) = (i + 1) - i
          /\ \A j \in 1 .. (i + 1) - i : s[j] = utf8[i + j] /\ utf8[i + j] \in Nat
      BY <1>1, BytesBetween
    <2> QED BY <1>1, <2>1
  <1>3. a < 128
    BY <1>2
  <1>. HIDE DEF s
  <1>4. WellFormed(s)
    BY <1>2, <1>3 DEF WellFormed
  <1>5. LexLead(a) = [value |-> a, extra |-> 0, minimum |-> 0]
    BY <1>2, <1>3, LeadBytes
  <1>6. ~(0 > Len(utf8) - (i + 1)) /\ i + 1 + 0 = i + 1 /\ ~(a >= 128)
    BY <1>1, <1>2, <1>3
  <1>7. /\ ~(a < 0) /\ ~(a > ScalarMax) /\ a \notin Surrogates /\ Units(a) = <<a>>
    BY <1>2, <1>3, InSurrogates, SMTT(30) DEF ScalarMax, Units
  <1>8. 2 .. 0 + 1 = {}
    OBVIOUS
  <1>. DEFINE L == LexLead(a)
              Cut == \/ a >= 128 /\ L.extra = 0
                     \/ L.extra > Len(utf8) - (i + 1)
              Bad == \/ \E j \in 2 .. L.extra + 1 : utf8[i + j] < 128 \/ utf8[i + j] > 191
                     \/ a < L.minimum \/ a > ScalarMax \/ a \in Surrogates
  <1>9. ~Cut /\ ~Bad /\ L.extra = 0 /\ i + 1 + L.extra = i + 1
    BY <1>5, <1>6, <1>7, <1>8
  <1>10. LexDecode(utf8, i)
           = IF Cut THEN LexFailure ELSE IF Bad THEN LexFailure
             ELSE [failed |-> FALSE, position |-> i + 1 + L.extra, units |-> Units(a)]
    <2>. HIDE DEF L
    <2>1. (IF L.extra = 0 THEN a ELSE Composed(utf8, i, L.value, L.extra)) = a
      BY <1>9
    <2> QED BY <2>1, Zenon DEF LexDecode, L
  <1>. HIDE DEF Cut, Bad, L
  <1>11. LexDecode(utf8, i) = [failed |-> FALSE, position |-> i + 1, units |-> <<a>>]
    BY <1>7, <1>9, <1>10, Zenon
  <1> QED BY <1>4, <1>11 DEF s

(* What bre_utf8_next accepts at an offset is a well-formed sequence, and  *)
(* no NUL.                                                                 *)
LEMMA NextIsSound ==
  ASSUME NEW utf8 \in Seq(Byte), NEW i \in 0 .. Len(utf8) - 1
  PROVE  LET next == Utf8Next(utf8, i)
         IN /\ next.status \in {"OK", "ENCODING", "ARGUMENT"}
            /\ next.status = "OK" =>
                 /\ next.offset \in i + 1 .. Len(utf8) /\ utf8[i + 1] # 0
                 /\ WellFormed(SubSeq(utf8, i + 1, next.offset))
  <1>. DEFINE next == Utf8Next(utf8, i)
              a == utf8[i + 1]
  <1>1. i \in Nat /\ Len(utf8) \in Nat /\ i + 1 \in 1 .. Len(utf8) /\ i + 1 \in i + 1 .. Len(utf8)
    BY LenProperties
  <1>2. a \in Nat /\ a <= 255
    BY <1>1, BytesAreNat, Zenon
  <1>3. CASE a = 0 \/ (128 <= a /\ a < 194) \/ a > 244
    <2>1. next = Refused("ARGUMENT") \/ next = Refused("ENCODING")
      BY <1>2, <1>3, NextOfShort
    <2> QED BY <2>1 DEF Refused
  <1>4. CASE 1 <= a /\ a <= 127
    <2>1. next = Accepted(i + 1, a)
      BY <1>2, <1>4, NextOfShort
    <2>2. WellFormed(SubSeq(utf8, i + 1, i + 1))
      BY <1>4, OneByte
    <2>3. a # 0
      BY <1>2, <1>4
    <2> QED BY <1>1, <2>1, <2>2, <2>3 DEF Accepted
  <1>5. ASSUME NEW n \in {2, 3, 4}, LeadOf(a, n)
        PROVE  /\ next.status \in {"OK", "ENCODING", "ARGUMENT"}
               /\ next.status = "OK" =>
                    /\ next.offset \in i + 1 .. Len(utf8) /\ a # 0
                    /\ WellFormed(SubSeq(utf8, i + 1, next.offset))
    <2>1. next = IF Fine(utf8, i, n) THEN Accepted(i + n, Value(utf8, i, n))
                 ELSE Refused("ENCODING")
      BY <1>5, NextOfLong
    <2>2. CASE ~Fine(utf8, i, n)
      BY <2>1, <2>2 DEF Refused
    <2>3. CASE Fine(utf8, i, n)
      <3>1. i + n <= Len(utf8)
        BY <2>3 DEF Fine
      <3>2. i + n \in i + 1 .. Len(utf8) /\ a # 0
        BY <1>1, <1>2, <1>5, <3>1 DEF LeadOf
      <3>3. WellFormed(SubSeq(utf8, i + 1, i + n))
        BY <1>5, <2>3, <3>1, FineIsWellFormed
      <3>4. next.status = "OK" /\ next.offset = i + n
        BY <2>1, <2>3 DEF Accepted
      <3> QED BY <3>2, <3>3, <3>4
    <2> QED BY <2>2, <2>3
  <1>6. \/ a = 0 \/ (128 <= a /\ a < 194) \/ a > 244
        \/ 1 <= a /\ a <= 127
        \/ \E n \in {2, 3, 4} : LeadOf(a, n)
    BY <1>2 DEF LeadOf
  <1>. DEFINE Goal == /\ next.status \in {"OK", "ENCODING", "ARGUMENT"}
                      /\ next.status = "OK" =>
                           /\ next.offset \in i + 1 .. Len(utf8) /\ a # 0
                           /\ WellFormed(SubSeq(utf8, i + 1, next.offset))
  <1>7. ASSUME NEW n \in {2, 3, 4}, LeadOf(a, n) PROVE Goal
    BY <1>5, <1>7
  <1>8. (a = 0 \/ (128 <= a /\ a < 194) \/ a > 244) => Goal
    BY <1>3
  <1>9. (1 <= a /\ a <= 127) => Goal
    BY <1>4
  <1>. HIDE DEF a, next, Goal
  <1>10. Goal
    BY <1>6, <1>7, <1>8, <1>9
  <1> QED BY <1>10 DEF a, next, Goal

(* Where a well-formed sequence begins, and no NUL, bre_utf8_next accepts  *)
(* it, and the lexer's decoder takes the same bytes for the same scalar.   *)
LEMMA DecodersAccept ==
  ASSUME NEW utf8 \in Seq(Byte), NEW i \in 0 .. Len(utf8) - 1,
         NEW b \in i + 1 .. Len(utf8), utf8[i + 1] # 0,
         WellFormed(SubSeq(utf8, i + 1, b))
  PROVE  /\ Utf8Next(utf8, i).status = "OK" /\ Utf8Next(utf8, i).offset = b
         /\ LexDecode(utf8, i)
              = [failed |-> FALSE, position |-> b, units |-> Units(Utf8Next(utf8, i).value)]
  <1>. DEFINE a == utf8[i + 1]
  <1>1. i \in Nat /\ Len(utf8) \in Nat /\ i + 1 \in 1 .. Len(utf8)
    BY LenProperties
  <1>2. a \in Nat /\ a <= 255
    BY <1>1, BytesAreNat, Zenon
  <1>3. CASE b = i + 1 /\ a <= 127
    <2>1. Utf8Next(utf8, i) = Accepted(i + 1, a)
      BY <1>2, <1>3, NextOfShort
    <2>2. LexDecode(utf8, i) = [failed |-> FALSE, position |-> i + 1, units |-> <<a>>]
      BY <1>3, OneByte
    <2>3. Units(a) = <<a>>
      BY <1>2, <1>3, SMTT(30) DEF Units
    <2>4. /\ Utf8Next(utf8, i).status = "OK" /\ Utf8Next(utf8, i).offset = b
          /\ Utf8Next(utf8, i).value = a
      BY <1>3, <2>1 DEF Accepted
    <2> QED BY <1>3, <2>2, <2>3, <2>4, Zenon
  <1>4. ASSUME NEW n \in {2, 3, 4}, b = i + n, LeadOf(a, n)
        PROVE  /\ Utf8Next(utf8, i).status = "OK" /\ Utf8Next(utf8, i).offset = b
               /\ LexDecode(utf8, i)
                    = [failed |-> FALSE, position |-> b, units |-> Units(Utf8Next(utf8, i).value)]
    <2>1. i + n <= Len(utf8)
      BY <1>1, <1>4
    <2>2. Fine(utf8, i, n)
      BY <1>4, <2>1, FineIsWellFormed
    <2>3. Utf8Next(utf8, i) = Accepted(i + n, Value(utf8, i, n))
      BY <1>4, <2>2, NextOfLong
    <2>4. LexDecode(utf8, i)
            = [failed |-> FALSE, position |-> i + n, units |-> Units(Value(utf8, i, n))]
      BY <1>4, <2>2, LexOfLong
    <2> QED BY <1>4, <2>3, <2>4 DEF Accepted
  <1>. DEFINE s == SubSeq(utf8, i + 1, b)
  <1>5. \/ b - i = 1 /\ a <= 127
        \/ b - i \in {2, 3, 4} /\ LeadOf(a, b - i)
    <2>1. b - i \in Nat /\ 1 \in 1 .. b - i
      BY <1>1
    <2>2. Len(s) = b - i /\ \A j \in 1 .. b - i : s[j] = utf8[i + j]
      BY BytesBetween, Zenon
    <2>3. Len(s) = b - i /\ s[1] = a
      BY <2>1, <2>2
    <2>4. WellFormed(s)
      OBVIOUS
    <2>. HIDE DEF s, a
    <2> QED BY <1>2, <2>1, <2>3, <2>4, WellFormedLead
  <1>6. CASE b - i = 1 /\ a <= 127
    <2>1. b = i + 1
      BY <1>1, <1>6
    <2> QED BY <1>3, <1>6, <2>1
  <1>7. CASE b - i \in {2, 3, 4} /\ LeadOf(a, b - i)
    <2>1. b = i + (b - i)
      BY <1>1
    <2> QED BY <1>4, <1>7, <2>1
  <1> QED BY <1>5, <1>6, <1>7
-----------------------------------------------------------------------------
(* A chain: offsets from 0 to `to`, each but the last with another to      *)
(* which the bytes are a well-formed sequence other than NUL.              *)
Chain(t, cuts, to) ==
  /\ cuts \in SUBSET (0 .. to)
  /\ {0, to} \subseteq cuts
  /\ \A a \in cuts \ {to} :
       t[a + 1] # 0 /\ \E b \in cuts : b > a /\ WellFormed(SubSeq(t, a + 1, b))

(* The empty beginning of a utf8 is a chain.                               *)
LEMMA ChainStarts == \A t : Chain(t, {0}, 0)
  BY DEF Chain

(* What bre_utf8_next accepts at the end of a chain makes it longer.       *)
LEMMA ChainGrows ==
  ASSUME NEW t \in Seq(Byte), NEW i \in 0 .. Len(t) - 1, NEW cuts, Chain(t, cuts, i),
         Utf8Next(t, i).status = "OK"
  PROVE  Chain(t, cuts \cup {Utf8Next(t, i).offset}, Utf8Next(t, i).offset)
  <1>. DEFINE o == Utf8Next(t, i).offset
              longer == cuts \cup {o}
  <1>1. /\ o \in i + 1 .. Len(t) /\ t[i + 1] # 0
        /\ WellFormed(SubSeq(t, i + 1, o))
    BY NextIsSound
  <1>2. i \in Nat /\ o \in Nat /\ o > i
    BY <1>1, LenProperties
  <1>. HIDE DEF o
  <1>3. cuts \subseteq 0 .. i /\ 0 \in cuts /\ i \in cuts
    BY DEF Chain
  <1>4. longer \in SUBSET (0 .. o) /\ {0, o} \subseteq longer
    BY <1>2, <1>3
  <1>5. ASSUME NEW a \in longer \ {o}
        PROVE  t[a + 1] # 0 /\ \E b \in longer : b > a /\ WellFormed(SubSeq(t, a + 1, b))
    <2>1. CASE a = i
      BY <1>1, <1>2, <2>1
    <2>2. CASE a # i
      <3>1. a \in cuts \ {i}
        BY <2>2
      <3> QED BY <3>1 DEF Chain
    <2> QED BY <2>1, <2>2
  <1> QED BY <1>4, <1>5 DEF Chain, o

(* Where the whole utf8 is a chain, both decoders go from each of its      *)
(* offsets to another.                                                     *)
LEMMA ChainLeads ==
  ASSUME NEW t \in Seq(Byte), NEW cuts, Chain(t, cuts, Len(t)),
         NEW i \in cuts, i # Len(t)
  PROVE  /\ i \in 0 .. Len(t) - 1 /\ t[i + 1] # 0
         /\ Utf8Next(t, i).status = "OK"
         /\ Utf8Next(t, i).offset \in cuts
         /\ LexDecode(t, i) = [failed |-> FALSE, position |-> Utf8Next(t, i).offset,
                               units |-> Units(Utf8Next(t, i).value)]
  <1>1. Len(t) \in Nat /\ cuts \subseteq 0 .. Len(t)
    BY LenProperties DEF Chain
  <1>2. i \in 0 .. Len(t) - 1
    BY <1>1
  <1>3. t[i + 1] # 0 /\ \E b \in cuts : b > i /\ WellFormed(SubSeq(t, i + 1, b))
    BY DEF Chain
  <1>4. PICK b \in cuts : b > i /\ WellFormed(SubSeq(t, i + 1, b))
    BY <1>3
  <1>5. b \in i + 1 .. Len(t)
    BY <1>1, <1>2, <1>4
  <1>6. /\ Utf8Next(t, i).status = "OK" /\ Utf8Next(t, i).offset = b
        /\ LexDecode(t, i)
             = [failed |-> FALSE, position |-> b, units |-> Units(Utf8Next(t, i).value)]
    BY <1>2, <1>3, <1>4, <1>5, DecodersAccept
  <1> QED BY <1>2, <1>3, <1>6

(* What bre_utf8_next accepts has one of two forms.                        *)
LEMMA NextForms ==
  ASSUME NEW t \in Seq(Byte), NEW i \in 0 .. Len(t) - 1, Utf8Next(t, i).status = "OK"
  PROVE  \/ t[i + 1] \in Nat /\ t[i + 1] <= 127 /\ Utf8Next(t, i) = Accepted(i + 1, t[i + 1])
         \/ \E n \in {2, 3, 4} :
              LeadOf(t[i + 1], n) /\ Fine(t, i, n) /\ Utf8Next(t, i) = Accepted(i + n, Value(t, i, n))
  <1>. DEFINE a == t[i + 1]
  <1>1. i + 1 \in 1 .. Len(t)
    BY LenProperties
  <1>2. a \in Nat /\ a <= 255
    BY <1>1, BytesAreNat, Zenon
  <1>3. Refused("ARGUMENT").status # "OK" /\ Refused("ENCODING").status # "OK"
    BY DEF Refused
  <1>4. a = 0 => Utf8Next(t, i) = Refused("ARGUMENT")
    BY <1>2, NextOfShort
  <1>5. (128 <= a /\ a < 194) \/ a > 244 => Utf8Next(t, i) = Refused("ENCODING")
    BY <1>2, NextOfShort
  <1>6. 1 <= a /\ a <= 127 => Utf8Next(t, i) = Accepted(i + 1, a)
    BY <1>2, NextOfShort
  <1>7. ASSUME NEW n \in {2, 3, 4}, LeadOf(a, n)
        PROVE  Fine(t, i, n) /\ Utf8Next(t, i) = Accepted(i + n, Value(t, i, n))
    <2>1. Utf8Next(t, i) = IF Fine(t, i, n) THEN Accepted(i + n, Value(t, i, n))
                           ELSE Refused("ENCODING")
      BY <1>7, NextOfLong
    <2> QED BY <1>3, <2>1
  <1>8. \/ a = 0 \/ (128 <= a /\ a < 194) \/ a > 244
        \/ 1 <= a /\ a <= 127
        \/ \E n \in {2, 3, 4} : LeadOf(a, n)
    BY <1>2 DEF LeadOf
  <1>9. CASE 1 <= a /\ a <= 127
    BY <1>2, <1>6, <1>9
  <1>10. CASE \E n \in {2, 3, 4} : LeadOf(a, n)
    BY <1>7, <1>10
  <1> QED BY <1>3, <1>4, <1>5, <1>8, <1>9, <1>10

(* A value has one unit up to 65535 and two beyond.                        *)
LEMMA ShortUnits ==
  ASSUME NEW v \in Nat
  PROVE  /\ v <= 65535 => Units(v) = <<v>>
         /\ Units(v) \in Seq(Int) /\ Len(Units(v)) \in {1, 2}
         /\ v <= 65535 => Len(Units(v)) = 1
  BY DEF Units

(* A scalar has no more units than bytes.                                  *)
LEMMA UnitsOfScalar ==
  ASSUME NEW t \in Seq(Byte), NEW i \in 0 .. Len(t) - 1, Utf8Next(t, i).status = "OK"
  PROVE  LET next == Utf8Next(t, i)
         IN /\ next.value \in Nat
            /\ Units(next.value) \in Seq(Int)
            /\ Len(Units(next.value)) \in {1, 2}
            /\ Len(Units(next.value)) <= next.offset - i
  <1>. DEFINE a == t[i + 1]
              next == Utf8Next(t, i)
              Goal == /\ next.value \in Nat
                      /\ Units(next.value) \in Seq(Int)
                      /\ Len(Units(next.value)) \in {1, 2}
                      /\ Len(Units(next.value)) <= next.offset - i
  <1>1. i \in Nat /\ Len(t) \in Nat
    BY LenProperties
  <1>2. ASSUME a \in Nat /\ a <= 127 /\ next = Accepted(i + 1, a) PROVE Goal
    <2>1. next.value = a /\ next.offset = i + 1
      BY <1>2 DEF Accepted
    <2>2. a \in Nat /\ a <= 65535
      BY <1>2
    <2>. HIDE DEF a, next
    <2>3. Units(a) \in Seq(Int) /\ Len(Units(a)) = 1
      BY <2>2, ShortUnits, SMTT(30)
    <2>4. next.offset - i = 1
      BY <1>1, <2>1
    <2> QED BY <2>1, <2>2, <2>3, <2>4
  <1>3. ASSUME NEW n \in {2, 3, 4}, LeadOf(a, n), Fine(t, i, n),
               next = Accepted(i + n, Value(t, i, n))
        PROVE  Goal
    <2>. DEFINE v == Value(t, i, n)
    <2>1. next.value = v /\ next.offset = i + n
      BY <1>3 DEF Accepted
    <2>2. \A j \in 1 .. n : t[i + j] \in Nat
      <3>1. \A j \in 1 .. n : i + j \in 1 .. Len(t)
        BY <1>1, <1>3 DEF Fine
      <3> QED BY <3>1, BytesAreNat
    <2>3. v \in Nat
      BY <1>1, <2>2, ValueIsNat
    <2>. HIDE DEF v, next
    <2>4. Units(v) \in Seq(Int) /\ Len(Units(v)) \in {1, 2}
      BY <2>3, ShortUnits, SMTT(30)
    <2>5. next.offset - i = n
      BY <1>1, <2>1
    <2>. DEFINE k == Len(Units(v))
    <2>. HIDE DEF k
    <2>6. \A m \in {1, 2} : m <= n
      BY <1>3
    <2>7. k \in {1, 2}
      BY <2>4 DEF k
    <2>8. k <= n
      BY <2>6, <2>7
    <2>. USE DEF k
    <2> QED BY <2>1, <2>3, <2>4, <2>5, <2>8
  <1>. HIDE DEF Goal
  <1>4. Goal
    BY <1>2, <1>3, NextForms
  <1> QED BY <1>4 DEF Goal
-----------------------------------------------------------------------------
(* A number from its digits to the base 64, and the digits again           *)
Shifted(x, y) == 64 * x + y

LEMMA Digits ==
  ASSUME NEW x \in Nat, NEW y \in Nat, y < 64
  PROVE  Shifted(x, y) \in Nat /\ Shifted(x, y) \div 64 = x /\ Shifted(x, y) % 64 = y
  BY DEF Shifted

LEMMA ScalarBound ==
  ASSUME NEW v \in Nat, v <= ScalarMax
  PROVE  v \in 0 .. ScalarMax
  <1>1. ScalarMax \in Nat
    BY DEF ScalarMax
  <1> QED BY <1>1

(* The low bits of a continuation byte are a digit.                        *)
LEMMA ContDigit ==
  ASSUME NEW b \in Nat, IsCont(b)
  PROVE  b - 128 \in Nat /\ b - 128 < 64
  BY DEF IsCont

LEMMA Quotients ==
  ASSUME NEW v \in Nat
  PROVE  /\ v \div 1 = v /\ v \div 4096 = (v \div 64) \div 64
         /\ v \div 262144 = ((v \div 64) \div 64) \div 64
  OBVIOUS

(* The encoding of what bytes make is these bytes.                         *)
LEMMA EncodesTwo ==
  ASSUME NEW a \in Nat, NEW b \in Nat, 194 <= a, a <= 223, IsCont(b)
  PROVE  Encode(InTwo(a, b)) = <<a, b>>
  <1>. DEFINE v == InTwo(a, b)
  <1>1. v = Shifted(a - 192, b - 128) /\ v \in Nat /\ 128 <= v /\ v <= 2047
    BY TwoBytes DEF Shifted
  <1>2. a - 192 \in Nat /\ b - 128 \in Nat /\ b - 128 < 64
    BY ContDigit
  <1>. HIDE DEF v
  <1>3. v \div 64 = a - 192 /\ v % 64 = b - 128
    BY <1>1, <1>2, Digits
  <1>4. v \div 1 = v
    BY <1>1, Quotients
  <1>5. Encode(v) = <<192 + v \div 64, Tail6(v, 1)>>
    BY <1>1, SMTT(20) DEF Encode
  <1>6. 192 + v \div 64 = a /\ Tail6(v, 1) = b
    BY <1>3, <1>4 DEF Tail6
  <1> QED BY <1>5, <1>6 DEF v

LEMMA EncodesThree ==
  ASSUME NEW a \in Nat, NEW b \in Nat, NEW c \in Nat,
         224 <= a, a <= 239, IsCont(b), IsCont(c), Smallest(3) <= InThree(a, b, c)
  PROVE  Encode(InThree(a, b, c)) = <<a, b, c>>
  <1>. DEFINE v == InThree(a, b, c)
              w == Shifted(a - 224, b - 128)
  <1>1. /\ v = 64 * (64 * (a - 224) + (b - 128)) + (c - 128)
        /\ v \in Nat /\ 2048 <= v /\ v <= 65535
    BY ThreeBytes, SMTT(20) DEF Smallest
  <1>2. /\ a - 224 \in Nat /\ b - 128 \in Nat /\ b - 128 < 64
        /\ c - 128 \in Nat /\ c - 128 < 64
    BY ContDigit
  <1>3. v = Shifted(w, c - 128)
    BY <1>1 DEF Shifted
  <1>. HIDE DEF v
  <1>4. w \in Nat /\ w \div 64 = a - 224 /\ w % 64 = b - 128
    BY <1>2, Digits
  <1>. HIDE DEF w
  <1>5. v \div 64 = w /\ v % 64 = c - 128
    BY <1>2, <1>3, <1>4, Digits
  <1>6. v \div 1 = v /\ v \div 4096 = a - 224
    BY <1>1, <1>4, <1>5, Quotients
  <1>7. Encode(v) = <<224 + v \div 4096, Tail6(v, 64), Tail6(v, 1)>>
    BY <1>1, SMTT(20) DEF Encode
  <1>8. 224 + v \div 4096 = a /\ Tail6(v, 64) = b /\ Tail6(v, 1) = c
    BY <1>4, <1>5, <1>6 DEF Tail6
  <1> QED BY <1>7, <1>8 DEF v

LEMMA FourDigits ==
  ASSUME NEW x \in Nat, NEW y \in Nat, NEW z \in Nat, NEW o \in Nat, y < 64, z < 64, o < 64,
         NEW v, v = Shifted(Shifted(Shifted(x, y), z), o)
  PROVE  /\ v \div 262144 = x /\ (v \div 4096) % 64 = y
         /\ (v \div 64) % 64 = z /\ (v \div 1) % 64 = o
  <1>. DEFINE u == Shifted(x, y)
  <1>1. u \in Nat /\ u \div 64 = x /\ u % 64 = y
    BY Digits
  <1>. HIDE DEF u
  <1>. DEFINE w == Shifted(u, z)
  <1>2. w \in Nat /\ w \div 64 = u /\ w % 64 = z
    BY <1>1, Digits
  <1>. HIDE DEF w
  <1>3. v = Shifted(w, o)
    BY DEF w, u
  <1>4. v \in Nat /\ v \div 64 = w /\ v % 64 = o
    BY <1>2, <1>3, Digits
  <1>5. v \div 1 = v /\ v \div 4096 = u /\ v \div 262144 = x
    BY <1>1, <1>2, <1>4, Quotients
  <1> QED BY <1>1, <1>2, <1>4, <1>5

LEMMA EncodesFour ==
  ASSUME NEW a \in Nat, NEW b \in Nat, NEW c \in Nat, NEW d \in Nat,
         240 <= a, a <= 244, IsCont(b), IsCont(c), IsCont(d),
         Smallest(4) <= InFour(a, b, c, d)
  PROVE  Encode(InFour(a, b, c, d)) = <<a, b, c, d>>
  <1>. DEFINE v == InFour(a, b, c, d)
  <1>1. v = 64 * (64 * (64 * (a - 240) + (b - 128)) + (c - 128)) + (d - 128)
        /\ v \in Nat /\ 65536 <= v
    BY FourBytes, SMTT(20) DEF Smallest
  <1>2. /\ b - 128 \in Nat /\ b - 128 < 64 /\ c - 128 \in Nat /\ c - 128 < 64
        /\ d - 128 \in Nat /\ d - 128 < 64
    BY ContDigit
  <1>3. v = Shifted(Shifted(Shifted(a - 240, b - 128), c - 128), d - 128)
    BY <1>1 DEF Shifted
  <1>. HIDE DEF v
  <1>4. Encode(v) = <<240 + v \div 262144, Tail6(v, 4096), Tail6(v, 64), Tail6(v, 1)>>
    BY <1>1, SMTT(20) DEF Encode
  <1>5. a - 240 \in Nat
    OBVIOUS
  <1>6. /\ v \div 262144 = a - 240 /\ (v \div 4096) % 64 = b - 128
        /\ (v \div 64) % 64 = c - 128 /\ (v \div 1) % 64 = d - 128
    BY <1>2, <1>3, <1>5, FourDigits, SMTT(20)
  <1>7. 240 + v \div 262144 = a /\ Tail6(v, 4096) = b /\ Tail6(v, 64) = c /\ Tail6(v, 1) = d
    BY <1>6 DEF Tail6
  <1> QED BY <1>4, <1>7 DEF v

(* What bre_utf8_next accepts is the encoding of the scalar it reports.    *)
LEMMA NextEncodes ==
  ASSUME NEW t \in Seq(Byte), NEW i \in 0 .. Len(t) - 1, Utf8Next(t, i).status = "OK"
  PROVE  LET next == Utf8Next(t, i)
         IN /\ SubSeq(t, i + 1, next.offset) = Encode(next.value)
            /\ next.value \in 0 .. ScalarMax
  <1>. DEFINE next == Utf8Next(t, i)
              s == SubSeq(t, i + 1, next.offset)
  <1>1. i \in Nat /\ Len(t) \in Nat /\ next.offset \in i + 1 .. Len(t)
    BY NextIsSound, LenProperties
  <1>2. /\ Len(s) = next.offset - i
        /\ \A j \in 1 .. next.offset - i : s[j] = t[i + j]
        /\ \A j \in 1 .. next.offset - i : t[i + j] \in Nat
    BY <1>1, BytesBetween
  <1>3. s \in Seq(Byte)
    BY <1>1, SubSeqProperties, ElementOfSeq, SMTT(30)
  <1>4. ASSUME t[i + 1] \in Nat /\ t[i + 1] <= 127, next = Accepted(i + 1, t[i + 1])
        PROVE  s = Encode(next.value) /\ next.value \in 0 .. ScalarMax
    <2>1. next.value = t[i + 1] /\ next.offset = i + 1
      BY <1>4 DEF Accepted
    <2>2. Encode(t[i + 1]) = <<t[i + 1]>> /\ t[i + 1] \in 0 .. ScalarMax
      <3>. DEFINE x == t[i + 1]
      <3>1. x \in Nat /\ x <= 127
        BY <1>4
      <3>. HIDE DEF x
      <3>2. Encode(x) = <<x>>
        BY <3>1, SMTT(20) DEF Encode
      <3>3. x \in 0 .. ScalarMax
        <4>1. x <= ScalarMax
          BY <3>1, SMTT(20) DEF ScalarMax
        <4> QED BY <3>1, <4>1, ScalarBound
      <3> QED BY <3>2, <3>3 DEF x
    <2>3. next.offset - i = 1
      BY <1>1, <2>1
    <2>. HIDE DEF next, s
    <2>4. Len(s) = 1 /\ s[1] = t[i + 1]
      BY <1>2, <2>3
    <2>5. s = <<t[i + 1]>>
      BY <1>3, <2>4
    <2> QED BY <2>1, <2>2, <2>5
  <1>5. ASSUME NEW n \in {2, 3, 4}, LeadOf(t[i + 1], n), Fine(t, i, n),
               next = Accepted(i + n, Value(t, i, n))
        PROVE  s = Encode(next.value) /\ next.value \in 0 .. ScalarMax
    <2>. DEFINE v == Value(t, i, n)
    <2>1. next.value = v /\ next.offset - i = n
      BY <1>1, <1>5 DEF Accepted
    <2>. HIDE DEF next, s
    <2>2. Len(s) = n /\ \A j \in 1 .. n : s[j] = t[i + j] /\ t[i + j] \in Nat
      BY <1>2, <2>1
    <2>3. v \in Nat
      BY <1>1, <2>2, ValueIsNat
    <2>. HIDE DEF v
    <2>4. /\ \A j \in 2 .. n : IsCont(t[i + j])
          /\ Smallest(n) <= v /\ v <= ScalarMax
      BY <1>5, Zenon DEF Fine, v
    <2>5. v \in 0 .. ScalarMax
      BY <2>3, <2>4, ScalarBound
    <2>6. CASE n = 2
      <3>1. s = <<t[i + 1], t[i + 2]>> /\ t[i + 1] \in Nat /\ t[i + 2] \in Nat
        BY <1>3, <2>2, <2>6
      <3>2. Encode(v) = <<t[i + 1], t[i + 2]>>
        BY <1>5, <2>4, <2>6, <3>1, EncodesTwo, SMTT(20) DEF Value, LeadOf, v
      <3> QED BY <2>1, <2>5, <3>1, <3>2
    <2>7. CASE n = 3
      <3>1. /\ s = <<t[i + 1], t[i + 2], t[i + 3]>>
            /\ t[i + 1] \in Nat /\ t[i + 2] \in Nat /\ t[i + 3] \in Nat
        BY <1>3, <2>2, <2>7
      <3>2. Encode(v) = <<t[i + 1], t[i + 2], t[i + 3]>>
        BY <1>5, <2>4, <2>7, <3>1, EncodesThree, SMTT(20) DEF Value, LeadOf, v
      <3> QED BY <2>1, <2>5, <3>1, <3>2
    <2>8. CASE n = 4
      <3>1. /\ s = <<t[i + 1], t[i + 2], t[i + 3], t[i + 4]>>
            /\ t[i + 1] \in Nat /\ t[i + 2] \in Nat /\ t[i + 3] \in Nat /\ t[i + 4] \in Nat
        BY <1>3, <2>2, <2>8
      <3>2. Encode(v) = <<t[i + 1], t[i + 2], t[i + 3], t[i + 4]>>
        <4>1. 240 <= t[i + 1] /\ t[i + 1] <= 244
          BY <1>5, <2>8 DEF LeadOf
        <4>2. IsCont(t[i + 2]) /\ IsCont(t[i + 3]) /\ IsCont(t[i + 4])
          BY <2>4, <2>8
        <4>3. v = InFour(t[i + 1], t[i + 2], t[i + 3], t[i + 4])
          BY <2>8 DEF Value, v
        <4>4. Smallest(4) <= InFour(t[i + 1], t[i + 2], t[i + 3], t[i + 4])
          BY <2>4, <2>8, <4>3
        <4>. DEFINE a == t[i + 1]
                    b == t[i + 2]
                    c == t[i + 3]
                    d == t[i + 4]
        <4>5. a \in Nat /\ b \in Nat /\ c \in Nat /\ d \in Nat
          BY <3>1
        <4>. HIDE DEF a, b, c, d
        <4>6. 240 <= a /\ a <= 244 /\ IsCont(b) /\ IsCont(c) /\ IsCont(d)
              /\ Smallest(4) <= InFour(a, b, c, d)
          BY <4>1, <4>2, <4>4 DEF a, b, c, d
        <4>7. Encode(InFour(a, b, c, d)) = <<a, b, c, d>>
          BY <4>5, <4>6, EncodesFour, Zenon
        <4> QED BY <4>3, <4>7, Zenon DEF a, b, c, d
      <3> QED BY <2>1, <2>5, <3>1, <3>2
    <2> QED BY <2>6, <2>7, <2>8
  <1>. HIDE DEF next, s
  <1>6. s = Encode(next.value) /\ next.value \in 0 .. ScalarMax
    BY <1>4, <1>5, NextForms DEF next
  <1> QED BY <1>6 DEF next, s

(* The units of a scalar stand for it.                                     *)
LEMMA UnitsBack ==
  ASSUME NEW v \in 0 .. ScalarMax
  PROVE  /\ Len(Units(v)) = 1 => OfUnits(<<Units(v)[1]>>) = v
         /\ Len(Units(v)) = 2 => OfUnits(<<Units(v)[1], Units(v)[2]>>) = v
  <1>1. CASE v <= 65535
    BY <1>1 DEF Units, OfUnits
  <1>2. CASE v > 65535
    <2>. DEFINE x == v - 65536
                h == x \div 1024
                l == x % 1024
    <2>1. x \in Nat /\ v = 65536 + x
      BY <1>2
    <2>2. h \in Nat /\ l \in Nat /\ x = 1024 * h + l
      BY <2>1
    <2>3. Units(v) = <<55296 + h, 56320 + l>>
      BY <1>2 DEF Units
    <2>. HIDE DEF x, h, l
    <2>4. OfUnits(<<55296 + h, 56320 + l>>) = v
      BY <2>1, <2>2 DEF OfUnits
    <2> QED BY <2>3, <2>4
  <1> QED BY <1>1, <1>2
-----------------------------------------------------------------------------
(* The check, the decoding and the tokens                                  *)
(* Among finitely long matches there is a longest, and a first of those.   *)
LEMMA BestExists ==
  ASSUME NEW C, C # {}, C \subseteq Nat, NEW n \in Nat, NEW end \in [C -> 0 .. n]
  PROVE  \E k \in C : \A j \in C : end[j] < end[k] \/ (end[j] = end[k] /\ k <= j)
  <1>1. \A k \in C : n - end[k] \in Nat
    OBVIOUS
  <1>. DEFINE Short == {n - end[k] : k \in C}
  <1>2. Short \subseteq Nat /\ Short # {}
    BY <1>1
  <1>3. \E x \in Short : \A y \in Short : x <= y
    BY <1>2, LeastNat
  <1>4. PICK m \in C : \A j \in C : n - end[m] <= n - end[j]
    BY <1>3
  <1>5. \A j \in C : end[j] <= end[m]
    BY <1>4
  <1>. DEFINE Longest == {k \in C : end[k] = end[m]}
  <1>6. Longest \subseteq Nat /\ Longest # {}
    OBVIOUS
  <1>7. PICK k \in Longest : \A j \in Longest : k <= j
    BY <1>6, LeastNat
  <1>8. \A j \in C : end[j] < end[k] \/ (end[j] = end[k] /\ k <= j)
    BY <1>5, <1>7
  <1> QED BY <1>7, <1>8

(* Where a pattern matches, the best one does, beyond the position.        *)
LEMMA BestAdvances ==
  ASSUME position \in Nat, Len(units) \in Nat, Candidates # {}
  PROVE  End(Best) \in position + 1 .. Len(units)
  <1>. DEFINE end == [k \in Candidates |-> End(k)]
  <1>1. Candidates \subseteq Nat
    BY DEF Candidates
  <1>2. \A k \in Candidates : End(k) \in position + 1 .. Len(units)
    BY DEF Candidates
  <1>3. end \in [Candidates -> 0 .. Len(units)]
    BY <1>2
  <1>4. \E k \in Candidates :
          \A j \in Candidates : end[j] < end[k] \/ (end[j] = end[k] /\ k <= j)
    BY <1>1, <1>3, BestExists
  <1>5. \E k \in Candidates :
          \A j \in Candidates : End(j) < End(k) \/ (End(j) = End(k) /\ k <= j)
    BY <1>4
  <1>6. Best \in Candidates
    BY <1>5, Zenon DEF Best
  <1> QED BY <1>2, <1>6
-----------------------------------------------------------------------------
(* The invariant.  Its parts: the types; what each phase finds undone; the *)
(* chains; and the counts.                                                 *)
Typed ==
  /\ text \in Seq(Byte) /\ pc \in Phases /\ failed \in {0, 1, 2}
  /\ at \in 0 .. Len(text) /\ position \in 0 .. Len(units)
  /\ units \in Seq(Int) /\ \E S : tokens \in Seq(S)

Undone ==
  /\ pc = "call" => at = 0
  /\ pc \in {"call", "check"} => units = <<>>
  /\ pc \in {"call", "check", "decode"} => tokens = <<>> /\ position = 0
  /\ pc # "done" => failed = 0 /\ status = "none"
  /\ pc \in {"check", "decode", "match"} => Len(text) <= MaxPattern

Chained ==
  /\ pc = "check" => \E cuts : Chain(text, cuts, at)
  /\ pc \in {"call", "check", "decode"} =>
       \A cuts : Chain(text, cuts, Len(text)) => at \in cuts
  /\ pc \in {"decode", "match"} => \E cuts : Chain(text, cuts, Len(text))
  /\ pc = "match" => at = Len(text)
  /\ status \in {"ENCODING", "ARGUMENT"} => ~ \E cuts : Chain(text, cuts, Len(text))
  /\ failed = 1 => at = Len(text)

Counted ==
  /\ pc \in {"decode", "match"} => Len(units) <= at
  /\ pc = "match" => Len(tokens) <= position

LexInv == Typed /\ Undone /\ Chained /\ Counted

(* What a caller may pass satisfies the invariant.                         *)
LEMMA InitEstablishes == Init => LexInv
  <1>. SUFFICES ASSUME Init PROVE LexInv
    OBVIOUS
  <1>. USE DEF Init
  <1>1. text \in Seq(Byte)
    BY TextAssumption
  <1>2. Len(text) \in Nat
    BY <1>1, LenProperties
  <1>3. Typed
    <2>1. <<>> \in Seq(Int) /\ <<>> \in Seq({}) /\ Len(<<>>) = 0
      OBVIOUS
    <2>2. \E S : tokens \in Seq(S)
      BY <2>1
    <2> QED BY <1>1, <1>2, <2>1, <2>2 DEF Typed, Phases
  <1>4. Undone
    BY DEF Undone
  <1>5. Chained
    BY DEF Chained, Chain
  <1>6. Counted
    BY DEF Counted
  <1> QED BY <1>3, <1>4, <1>5, <1>6 DEF LexInv

(* Every step of the check and of the lexer keeps it.                      *)
LEMMA NextPreserves == LexInv /\ [Next]_vars => LexInv'
  <1>. SUFFICES ASSUME LexInv, [Next]_vars PROVE LexInv'
    OBVIOUS
  <1>. USE DEF LexInv
  <1>1. Len(text) \in Nat /\ Len(units) \in Nat /\ text \in Seq(Byte) /\ units \in Seq(Int)
    BY LenProperties DEF Typed
  <1>2. CASE Begin
    <2>. USE <1>2 DEF Begin, Lexing, Goto, Answer
    <2>1. Typed'
      BY DEF Typed, Phases
    <2>2. Undone'
      BY <1>1, CapacityAssumption DEF Undone, Typed
    <2>3. Chained'
      <3>1. Chain(text, {0}, 0)
        BY ChainStarts
      <3> QED BY <3>1 DEF Chained, Undone
    <2>4. Counted'
      BY DEF Counted
    <2> QED BY <2>1, <2>2, <2>3, <2>4
  <1>3. CASE CheckScalar
    <2>. DEFINE next == Utf8Next(text, at)
    <2>1. at \in 0 .. Len(text) - 1
      BY <1>1, <1>3 DEF CheckScalar, Typed
    <2>2. PICK cuts : Chain(text, cuts, at)
      BY <1>3 DEF CheckScalar, Chained
    <2>3. /\ next.status \in {"OK", "ENCODING", "ARGUMENT"}
          /\ next.status = "OK" => next.offset \in at + 1 .. Len(text)
      BY <1>1, <2>1, NextIsSound
    <2>4. next.status = "OK" => Chain(text, cuts \cup {next.offset}, next.offset)
      BY <1>1, <2>1, <2>2, ChainGrows
    <2>5. ASSUME NEW whole, Chain(text, whole, Len(text))
          PROVE  next.status = "OK" /\ next.offset \in whole
      <3>1. at \in whole /\ at # Len(text)
        BY <1>1, <1>3, <2>1, <2>5 DEF CheckScalar, Chained
      <3> QED BY <1>1, <2>5, <3>1, ChainLeads
    <2>. HIDE DEF next
    <2>6. /\ pc = "check" /\ UNCHANGED <<text, units, offsets, position, tokens, failed>>
          /\ \/ next.status = "OK" /\ at' = next.offset /\ pc' = "check" /\ UNCHANGED status
             \/ next.status # "OK" /\ pc' = "done" /\ status' = next.status /\ UNCHANGED at
      BY <1>3 DEF CheckScalar, Goto, Answer, Lexing, next
    <2>7. Typed'
      BY <1>1, <2>3, <2>6 DEF Typed, Phases
    <2>8. Undone'
      BY <2>6 DEF Undone
    <2>9. Chained'
      BY <2>3, <2>4, <2>5, <2>6 DEF Chained, Undone
    <2>10. Counted'
      BY <2>6 DEF Counted
    <2> QED BY <2>7, <2>8, <2>9, <2>10
  <1>4. CASE Reserve
    <2>. USE <1>4 DEF Reserve, Goto, Answer, Fail
    <2>1. Typed'
      BY <1>1 DEF Typed, Phases
    <2>2. Undone'
      BY DEF Undone
    <2>3. Chained'
      <3>1. \A cuts : Chain(text, cuts, Len(text)) => 0 \in cuts
        BY DEF Chain
      <3> QED BY <3>1 DEF Chained, Undone
    <2>4. Counted'
      <3>1. Len(units) = 0
        BY DEF Undone
      <3> QED BY <3>1 DEF Counted
    <2> QED BY <2>1, <2>2, <2>3, <2>4
  <1>5. CASE DecodeScalar
    <2>. DEFINE next == Utf8Next(text, at)
                scalar == Units(next.value)
    <2>1. at \in 0 .. Len(text) - 1
      BY <1>1, <1>5 DEF DecodeScalar, Typed
    <2>2. PICK cuts : Chain(text, cuts, Len(text))
      BY <1>5 DEF DecodeScalar, Chained
    <2>3. ASSUME NEW whole, Chain(text, whole, Len(text))
          PROVE  /\ next.status = "OK" /\ next.offset \in whole
                 /\ LexDecode(text, at) = [failed |-> FALSE, position |-> next.offset,
                                           units |-> scalar]
      <3>1. at \in whole /\ at # Len(text)
        BY <1>1, <1>5, <2>1, <2>3 DEF DecodeScalar, Chained
      <3> QED BY <1>1, <2>3, <3>1, ChainLeads
    <2>4. next.status = "OK" /\ next.offset \in at + 1 .. Len(text)
      BY <1>1, <2>1, <2>2, <2>3, NextIsSound
    <2>5. scalar \in Seq(Int) /\ Len(scalar) \in {1, 2} /\ Len(scalar) <= next.offset - at
      BY <1>1, <2>1, <2>4, UnitsOfScalar
    <2>6. LexDecode(text, at) = [failed |-> FALSE, position |-> next.offset, units |-> scalar]
      BY <2>2, <2>3
    <2>7. \A whole : Chain(text, whole, Len(text)) => next.offset \in whole
      BY <2>3
    <2>. HIDE DEF next, scalar
    <2>8. /\ pc = "decode" /\ pc' = "decode"
          /\ units' = units \o scalar /\ at' = next.offset
          /\ UNCHANGED <<text, position, tokens, failed, status>>
      BY <1>5, <2>6 DEF DecodeScalar, Goto, Fail
    <2>9. units' \in Seq(Int) /\ Len(units') = Len(units) + Len(scalar)
      BY <1>1, <2>5, <2>8, ConcatProperties
    <2>10. position = 0
      BY <2>8 DEF Undone
    <2>11. Typed'
      BY <1>1, <2>4, <2>5, <2>8, <2>9, <2>10 DEF Typed, Phases
    <2>12. Undone'
      BY <2>8 DEF Undone
    <2>13. Chained'
      BY <2>7, <2>8 DEF Chained, Undone
    <2>14. Counted'
      BY <1>1, <2>1, <2>4, <2>5, <2>8, <2>9 DEF Counted
    <2> QED BY <2>11, <2>12, <2>13, <2>14
  <1>6. CASE Decoded
    <2>. USE <1>6 DEF Decoded, Goto
    <2>1. Typed'
      BY DEF Typed, Phases
    <2>2. Undone'
      BY DEF Undone
    <2>3. Chained'
      BY DEF Chained, Undone
    <2>4. Counted'
      <3>1. Len(tokens) = 0 /\ position = 0
        BY DEF Undone
      <3> QED BY <3>1 DEF Counted
    <2> QED BY <2>1, <2>2, <2>3, <2>4
  <1>7. CASE Match
    <2>1. /\ pc = "match" /\ position < Len(units)
          /\ UNCHANGED <<text, at, units>>
      BY <1>7 DEF Match
    <2>2. PICK S : tokens \in Seq(S)
      BY DEF Typed
    <2>3. Len(tokens) \in Nat /\ position \in Nat
      BY <1>1, <2>2, LenProperties DEF Typed
    <2>4. ~Full
      BY <1>1, <2>1, <2>3, CapacityAssumption DEF Full, Counted, Chained, Undone
    <2>. DEFINE token == Token(LexPatterns[Best].token, position, End(Best))
    <2>5. \/ /\ pc' = "done" /\ failed' \in {1, 2} /\ status' \in {"NOMEM", "BADPAT"}
             /\ UNCHANGED <<tokens, position>>
          \/ /\ pc' = "match" /\ UNCHANGED <<failed, status>> /\ Candidates # {}
             /\ tokens' = Append(tokens, token) /\ position' = End(Best)
      BY <1>7, <2>4 DEF Match, Fail, Answer, Goto
    <2>6. CASE pc' = "done"
      <3>1. Typed'
        BY <2>1, <2>5, <2>6 DEF Typed, Phases
      <3>2. Undone'
        BY <2>5, <2>6 DEF Undone
      <3>3. Chained'
        BY <2>1, <2>5, <2>6 DEF Chained
      <3>4. Counted'
        BY <2>6 DEF Counted
      <3> QED BY <3>1, <3>2, <3>3, <3>4
    <2>7. CASE pc' = "match"
      <3>1. Candidates # {}
        BY <2>5, <2>7
      <3>2. End(Best) \in position + 1 .. Len(units)
        BY <1>1, <2>3, <3>1, BestAdvances
      <3>. HIDE DEF token
      <3>3. tokens' = Append(tokens, token) /\ position' = End(Best)
        BY <2>5, <2>7
      <3>4. tokens' \in Seq(S \cup {token}) /\ Len(tokens') = Len(tokens) + 1
        BY <2>2, <3>3, AppendProperties, SeqMonotonic
      <3>5. Typed'
        BY <1>1, <2>1, <2>3, <2>5, <2>7, <3>2, <3>3, <3>4 DEF Typed, Phases
      <3>6. Undone'
        BY <2>1, <2>5, <2>7 DEF Undone
      <3>7. Chained'
        BY <2>1, <2>5, <2>7 DEF Chained
      <3>8. Counted'
        BY <1>1, <2>1, <2>3, <2>7, <3>2, <3>3, <3>4 DEF Counted
      <3> QED BY <3>5, <3>6, <3>7, <3>8
    <2> QED BY <2>5, <2>6, <2>7
  <1>8. CASE EndOfText
    <2>. DEFINE token == Token("EOF", Len(units), Len(units))
    <2>1. PICK S : tokens \in Seq(S)
      BY DEF Typed
    <2>. HIDE DEF token
    <2>2. /\ pc = "match" /\ pc' = "done" /\ status' = "OK"
          /\ tokens' = Append(tokens, token)
          /\ UNCHANGED <<text, at, units, position, failed>>
      BY <1>8 DEF EndOfText, Answer, token
    <2>3. tokens' \in Seq(S \cup {token})
      BY <2>1, <2>2, AppendProperties, SeqMonotonic
    <2>4. Typed'
      BY <2>2, <2>3 DEF Typed, Phases
    <2>5. Undone' /\ Chained' /\ Counted'
      BY <2>2 DEF Undone, Chained, Counted
    <2> QED BY <2>4, <2>5
  <1>9. CASE UNCHANGED vars
    BY <1>9 DEF vars, Typed, Undone, Chained, Counted
  <1> QED BY <1>2, <1>3, <1>4, <1>5, <1>6, <1>7, <1>8, <1>9 DEF Next
-----------------------------------------------------------------------------
(* So it holds throughout.                                                 *)
LEMMA AlwaysLexInv == Spec => []LexInv
  <1>1. Init => LexInv
    BY InitEstablishes
  <1>2. LexInv /\ [Next]_vars => LexInv'
    BY NextPreserves
  <1> QED BY <1>1, <1>2, PTL DEF Spec

(* `Whole` speaks of chains, and of no other thing.                        *)
LEMMA WholeIsChain == \A to : Whole(to) <=> \E cuts : Chain(text, cuts, to)
  BY DEF Whole, Chain, Bytes

(* bre_text_check passes exactly the texts that are well-formed sequences  *)
(* without NUL, one after the other, from the first byte to the last.      *)
THEOREM TheCheckIsTheEncoding == Spec => []ChecksTheEncoding
  <1>1. LexInv => ChecksTheEncoding
    BY WholeIsChain DEF LexInv, Chained, ChecksTheEncoding
  <1> QED BY <1>1, AlwaysLexInv, PTL

(* maiaCCLexDecode refuses no text that bre_text_check passed: what the    *)
(* lexer refuses, it refuses for want of a token.                          *)
THEOREM TheDecodersAgree == Spec => []CheckedTextDecodes
  <1>1. LexInv => CheckedTextDecodes
    BY DEF LexInv, Chained, CheckedTextDecodes
  <1> QED BY <1>1, AlwaysLexInv, PTL

(* maiaCCLexerTokenize never finds the token array of BreCompile full.     *)
THEOREM TheTokensFit == Spec => []CapacityNeverReached
  <1>1. LexInv => CapacityNeverReached
    BY DEF LexInv, Typed, CapacityNeverReached
  <1> QED BY <1>1, AlwaysLexInv, PTL
-----------------------------------------------------------------------------
(* What the decoded units spell.  A unit is the last of its scalar when no *)
(* other has its offset; the scalar ends where the next one starts, or     *)
(* where the decoder is.                                                   *)
LastUnit(us, os, i) == i = Len(us) \/ os[i + 1] # os[i]

EndOf(us, os, to, i) == IF i = Len(us) THEN to ELSE os[i + 1]

ScalarAt(us, os, i) ==
  IF i = 1 \/ os[i - 1] # os[i] THEN <<us[i]>> ELSE <<us[i - 1], us[i]>>

SpelledUpTo(t, us, os, to) ==
  /\ us \in Seq(Int) /\ os \in Seq(Int) /\ Len(os) = Len(us) /\ to \in 0 .. Len(t)
  /\ \A i \in 1 .. Len(us) : os[i] \in 0 .. to - 1
  /\ \A i \in 1 .. Len(us) :
       LastUnit(us, os, i) =>
         SubSeq(t, os[i] + 1, EndOf(us, os, to, i)) = Encode(OfUnits(ScalarAt(us, os, i)))
  /\ IF Len(us) = 0 THEN to = 0 ELSE os[1] = 0

SpeltInv ==
  /\ pc \in {"call", "check"} => offsets = <<>>
  /\ pc = "decode" => SpelledUpTo(text, units, offsets, at)
  /\ pc = "match" => \E os : /\ SpelledUpTo(text, units, os, at)
                             /\ offsets = Append(os, at)

(* Two sequences, one after the other                                      *)
LEMMA Concatenated ==
  ASSUME NEW r \in Seq(Int), NEW s \in Seq(Int)
  PROVE  /\ r \o s \in Seq(Int) /\ Len(r \o s) = Len(r) + Len(s)
         /\ \A i \in 1 .. Len(r) : (r \o s)[i] = r[i]
         /\ \A j \in 1 .. Len(s) : (r \o s)[Len(r) + j] = s[j]
  <1>1. /\ r \o s \in Seq(Int) /\ Len(r \o s) = Len(r) + Len(s)
        /\ \A i \in 1 .. Len(r) + Len(s) :
             (r \o s)[i] = IF i <= Len(r) THEN r[i] ELSE s[i - Len(r)]
    BY ConcatProperties
  <1>2. Len(r) \in Nat /\ Len(s) \in Nat
    BY LenProperties
  <1>3. ASSUME NEW j \in 1 .. Len(s) PROVE (r \o s)[Len(r) + j] = s[j]
    <2>1. /\ Len(r) + j \in 1 .. Len(r) + Len(s) /\ ~(Len(r) + j <= Len(r))
          /\ Len(r) + j - Len(r) = j
      BY <1>2
    <2> QED BY <1>1, <2>1
  <1>4. \A i \in 1 .. Len(r) : i \in 1 .. Len(r) + Len(s) /\ i <= Len(r)
    BY <1>2
  <1> QED BY <1>1, <1>3, <1>4

(* One more scalar is spelled by one more unit, or by two.                 *)
LEMMA SpelledGrows ==
  ASSUME NEW t \in Seq(Byte), NEW us, NEW os, NEW to, SpelledUpTo(t, us, os, to),
         NEW end \in to + 1 .. Len(t), NEW v \in 0 .. ScalarMax,
         SubSeq(t, to + 1, end) = Encode(v),
         Units(v) \in Seq(Int), Len(Units(v)) \in {1, 2}
  PROVE  SpelledUpTo(t, us \o Units(v), os \o [j \in 1 .. Len(Units(v)) |-> to], end)
  <1>. DEFINE more == Units(v)
              k == Len(more)
              same == [j \in 1 .. k |-> to]
              vs == us \o more
              ps == os \o same
              n == Len(us)
  <1>1. /\ us \in Seq(Int) /\ os \in Seq(Int) /\ Len(os) = n /\ n \in Nat
        /\ to \in Nat /\ to < end /\ end <= Len(t) /\ Len(t) \in Nat
    BY LenProperties DEF SpelledUpTo
  <1>2. k \in {1, 2} /\ more \in Seq(Int)
    OBVIOUS
  <1>3. /\ k = 1 => OfUnits(<<more[1]>>) = v
        /\ k = 2 => OfUnits(<<more[1], more[2]>>) = v
    BY UnitsBack
  <1>4. SubSeq(t, to + 1, end) = Encode(v)
    OBVIOUS
  <1>. HIDE DEF more
  <1>5. same \in Seq(Int) /\ Len(same) = k /\ \A j \in 1 .. k : same[j] = to
    BY <1>1, <1>2
  <1>. HIDE DEF same, k
  <1>6. /\ vs \in Seq(Int) /\ Len(vs) = n + k
        /\ \A i \in 1 .. n : vs[i] = us[i]
        /\ \A j \in 1 .. k : vs[n + j] = more[j]
    <2>1. Len(more) = k
      BY DEF k
    <2> QED BY <1>1, <1>2, <2>1, Concatenated DEF vs
  <1>7. /\ ps \in Seq(Int) /\ Len(ps) = n + k
        /\ \A i \in 1 .. n : ps[i] = os[i]
        /\ \A j \in 1 .. k : ps[n + j] = to
    <2>1. /\ ps \in Seq(Int) /\ Len(ps) = n + Len(same)
          /\ \A i \in 1 .. n : ps[i] = os[i]
          /\ \A j \in 1 .. Len(same) : ps[n + j] = same[j]
      <3>. HIDE DEF n
      <3> QED BY <1>1, <1>5, Concatenated DEF ps
    <2>. HIDE DEF ps, n
    <2> QED BY <1>5, <2>1
  <1>0. Len(us) = n
    OBVIOUS
  <1>. HIDE DEF vs, ps, n
  <1>8. \A i \in 1 .. n : os[i] \in 0 .. to - 1
    BY <1>0 DEF SpelledUpTo
  <1>9. \A i \in 1 .. n + k : ps[i] \in 0 .. end - 1
    <2>. SUFFICES ASSUME NEW i \in 1 .. n + k PROVE ps[i] \in 0 .. end - 1
      OBVIOUS
    <2>1. CASE i <= n
      BY <1>1, <1>7, <1>8, <2>1
    <2>2. CASE i > n
      <3>1. i - n \in 1 .. k /\ i = n + (i - n)
        BY <1>1, <1>2, <2>2
      <3>2. ps[i] = to
        BY <1>7, <3>1
      <3> QED BY <1>1, <3>2
    <2> QED BY <1>1, <1>2, <2>1, <2>2
  <1>10. \A i \in 1 .. n + k : LastUnit(vs, ps, i) =>
           SubSeq(t, ps[i] + 1, EndOf(vs, ps, end, i)) = Encode(OfUnits(ScalarAt(vs, ps, i)))
    <2>. SUFFICES ASSUME NEW i \in 1 .. n + k, LastUnit(vs, ps, i)
                  PROVE  SubSeq(t, ps[i] + 1, EndOf(vs, ps, end, i)) =
                           Encode(OfUnits(ScalarAt(vs, ps, i)))
      OBVIOUS
    <2>1. CASE i < n
      <3>0. i \in 1 .. n /\ i + 1 \in 1 .. n /\ i # n /\ i # n + k /\ (i # 1 => i - 1 \in 1 .. n)
        BY <1>1, <1>2, <2>1
      <3>1. /\ ps[i] = os[i] /\ ps[i + 1] = os[i + 1] /\ vs[i] = us[i] /\ i \in 1 .. n
            /\ i # n /\ i # n + k
            /\ i # 1 => ps[i - 1] = os[i - 1] /\ vs[i - 1] = us[i - 1]
        BY <1>6, <1>7, <3>0
      <3>2. /\ LastUnit(us, os, i) /\ EndOf(vs, ps, end, i) = EndOf(us, os, to, i)
            /\ ScalarAt(vs, ps, i) = ScalarAt(us, os, i)
        BY <1>6, <1>0, <3>1 DEF LastUnit, EndOf, ScalarAt
      <3> QED BY <1>0, <3>1, <3>2 DEF SpelledUpTo
    <2>2. CASE i = n
      <3>0. /\ i \in 1 .. n /\ i + 1 = n + 1 /\ 1 \in 1 .. k /\ i # n + k
            /\ i # 1 => i - 1 \in 1 .. n
        BY <1>1, <1>2, <2>2
      <3>1. /\ ps[i] = os[i] /\ ps[i + 1] = to /\ vs[i] = us[i] /\ i \in 1 .. n /\ i # n + k
            /\ i # 1 => ps[i - 1] = os[i - 1] /\ vs[i - 1] = us[i - 1]
        BY <1>6, <1>7, <3>0
      <3>2. /\ LastUnit(us, os, i) /\ EndOf(vs, ps, end, i) = EndOf(us, os, to, i)
            /\ ScalarAt(vs, ps, i) = ScalarAt(us, os, i)
        BY <1>6, <1>0, <2>2, <3>1 DEF LastUnit, EndOf, ScalarAt
      <3> QED BY <1>0, <3>1, <3>2 DEF SpelledUpTo
    <2>3. CASE i > n
      <3>1. i = n + k
        <4>1. CASE k = 1
          BY <1>1, <2>3, <4>1
        <4>2. CASE k = 2
          <5>1. i = n + 1 => ps[i] = to /\ ps[i + 1] = to /\ i # n + k
            BY <1>1, <1>7, <4>2
          <5>2. i # n + 1
            BY <1>6, <5>1 DEF LastUnit
          <5> QED BY <1>1, <2>3, <4>2, <5>2
        <4> QED BY <1>2, <4>1, <4>2
      <3>2. ps[i] = to /\ EndOf(vs, ps, end, i) = end
        BY <1>2, <1>6, <1>7, <3>1 DEF EndOf
      <3>3. OfUnits(ScalarAt(vs, ps, i)) = v
        <4>1. CASE k = 1
          <5>1. vs[i] = more[1] /\ (i = 1 \/ ps[i - 1] # ps[i])
            <6>1. vs[n + 1] = more[1] /\ ps[n + 1] = to
              BY <1>6, <1>7, <4>1
            <6>2. n # 0 => n \in 1 .. n /\ ps[n] # to
              BY <1>1, <1>7, <1>8
            <6>3. i = n + 1 /\ i - 1 = n
              BY <1>1, <3>1, <4>1
            <6> QED BY <1>1, <6>1, <6>2, <6>3
          <5> QED BY <1>3, <4>1, <5>1 DEF ScalarAt
        <4>2. CASE k = 2
          <5>1. /\ vs[n + 1] = more[1] /\ vs[n + 2] = more[2]
                /\ ps[n + 1] = to /\ ps[n + 2] = to
            BY <1>6, <1>7, <4>2
          <5>2. i = n + 2 /\ i - 1 = n + 1 /\ i # 1
            BY <1>1, <3>1, <4>2
          <5>3. ScalarAt(vs, ps, i) = <<more[1], more[2]>>
            BY <5>1, <5>2 DEF ScalarAt
          <5> QED BY <1>3, <4>2, <5>3
        <4> QED BY <1>2, <4>1, <4>2
      <3> QED BY <1>4, <3>2, <3>3
    <2> QED BY <1>1, <1>2, <2>1, <2>2, <2>3
  <1>11. Len(vs) # 0 /\ ps[1] = 0
    <2>1. CASE n = 0
      <3>1. to = 0
        BY <1>0, <2>1 DEF SpelledUpTo
      <3>2. ps[n + 1] = to
        BY <1>2, <1>7
      <3> QED BY <1>2, <1>6, <2>1, <3>1, <3>2
    <2>2. CASE n # 0
      <3>1. os[1] = 0 /\ ps[1] = os[1]
        BY <1>1, <1>7, <1>0, <2>2 DEF SpelledUpTo
      <3> QED BY <1>1, <1>2, <1>6, <2>2, <3>1
    <2> QED BY <2>1, <2>2
  <1>12. SpelledUpTo(t, vs, ps, end)
    BY <1>1, <1>6, <1>7, <1>9, <1>10, <1>11 DEF SpelledUpTo
  <1> QED BY <1>12 DEF vs, ps, same, more, k

LEMMA SpeltInit == Init => SpeltInv
  BY DEF Init, SpeltInv

(* Every step of the lexer keeps the spelling.                             *)
LEMMA SpeltKept == LexInv /\ SpeltInv /\ [Next]_vars => SpeltInv'
  <1>. SUFFICES ASSUME LexInv, SpeltInv, [Next]_vars PROVE SpeltInv'
    OBVIOUS
  <1>1. /\ Len(text) \in Nat /\ text \in Seq(Byte) /\ at \in 0 .. Len(text)
        /\ pc \in {"call", "check"} => units = <<>>
    BY LenProperties DEF LexInv, Typed, Undone
  <1>2. CASE Begin
    BY <1>2 DEF Begin, Lexing, Goto, Answer, SpeltInv
  <1>3. CASE CheckScalar
    BY <1>3 DEF CheckScalar, Lexing, Goto, Answer, SpeltInv
  <1>4. CASE Reserve
    <2>1. /\ pc' = "decode" => at' = 0 /\ units' = <<>> /\ offsets' = <<>>
          /\ text' = text /\ pc' \in {"decode", "done"}
      BY <1>1, <1>4 DEF Reserve, Goto, Answer, Fail, SpeltInv
    <2>2. SpelledUpTo(text, <<>>, <<>>, 0)
      BY <1>1 DEF SpelledUpTo
    <2> QED BY <2>1, <2>2 DEF SpeltInv
  <1>5. CASE DecodeScalar
    <2>. DEFINE next == Utf8Next(text, at)
                scalar == Units(next.value)
    <2>1. at \in 0 .. Len(text) - 1
      BY <1>1, <1>5 DEF DecodeScalar
    <2>2. PICK cuts : Chain(text, cuts, Len(text)) /\ at \in cuts /\ at # Len(text)
      BY <1>1, <1>5, <2>1 DEF DecodeScalar, LexInv, Chained
    <2>3. /\ next.status = "OK"
          /\ LexDecode(text, at) = [failed |-> FALSE, position |-> next.offset,
                                    units |-> scalar]
      BY <1>1, <2>1, <2>2, ChainLeads
    <2>4. next.offset \in at + 1 .. Len(text)
      BY <1>1, <2>1, <2>3, NextIsSound
    <2>5. scalar \in Seq(Int) /\ Len(scalar) \in {1, 2}
      BY <1>1, <2>1, <2>3, UnitsOfScalar
    <2>6. /\ SubSeq(text, at + 1, next.offset) = Encode(next.value)
          /\ next.value \in 0 .. ScalarMax
      BY <1>1, <2>1, <2>3, NextEncodes
    <2>7. SpelledUpTo(text, units, offsets, at)
      BY <1>5 DEF DecodeScalar, SpeltInv
    <2>. DEFINE end == next.offset
                v == next.value
    <2>8. /\ end \in at + 1 .. Len(text) /\ v \in 0 .. ScalarMax
          /\ SubSeq(text, at + 1, end) = Encode(v)
          /\ Units(v) \in Seq(Int) /\ Len(Units(v)) \in {1, 2}
      BY <2>4, <2>5, <2>6
    <2>9. /\ units' = units \o Units(v) /\ at' = end
          /\ offsets' = offsets \o [j \in 1 .. Len(Units(v)) |-> at]
          /\ pc' = "decode" /\ text' = text
      BY <1>5, <2>3 DEF DecodeScalar, Goto, Fail
    <2>. HIDE DEF end, v
    <2>10. SpelledUpTo(text, units \o Units(v),
                       offsets \o [j \in 1 .. Len(Units(v)) |-> at], end)
      BY <1>1, <2>7, <2>8, SpelledGrows
    <2>11. SpelledUpTo(text', units', offsets', at')
      BY <2>9, <2>10
    <2> QED BY <2>9, <2>11 DEF SpeltInv
  <1>6. CASE Decoded
    BY <1>6 DEF Decoded, Goto, SpeltInv
  <1>7. CASE Match
    BY <1>7 DEF Match, Goto, Fail, Answer, SpeltInv
  <1>8. CASE EndOfText
    BY <1>8 DEF EndOfText, Answer, SpeltInv
  <1>9. CASE UNCHANGED vars
    BY <1>9 DEF vars, SpeltInv
  <1> QED BY <1>2, <1>3, <1>4, <1>5, <1>6, <1>7, <1>8, <1>9 DEF Next

(* What the units spell is what the property says of them.                 *)
LEMMA SpeltSpells == SpeltInv => UnitsSpellText
  <1>. SUFFICES ASSUME SpeltInv, pc = "match" PROVE UnitsSpellText
    BY DEF UnitsSpellText
  <1>1. PICK os : SpelledUpTo(text, units, os, at) /\ offsets = Append(os, at)
    BY DEF SpeltInv
  <1>. DEFINE n == Len(units)
  <1>2. os \in Seq(Int) /\ Len(os) = n /\ n \in Nat /\ at \in Int
    BY <1>1, LenProperties DEF SpelledUpTo
  <1>3. (\A i \in 1 .. n : offsets[i] = os[i]) /\ offsets[n + 1] = at
    BY <1>1, <1>2, AppendProperties
  <1>4. \A i \in 1 .. n : os[i] \in 0 .. at - 1
    BY <1>1 DEF SpelledUpTo
  <1>0. Len(units) = n
    OBVIOUS
  <1>. HIDE DEF n
  <1>5. ASSUME NEW i \in 1 .. n, i = n \/ offsets[i + 1] # offsets[i]
        PROVE  /\ LastUnit(units, os, i) /\ offsets[i] = os[i]
               /\ EndOf(units, os, at, i) = offsets[i + 1]
    <2>1. CASE i = n
      BY <1>3, <1>0, <2>1 DEF LastUnit, EndOf
    <2>2. CASE i # n
      <3>1. i + 1 \in 1 .. n
        BY <1>2, <2>2
      <3> QED BY <1>3, <1>5, <1>0, <2>2, <3>1 DEF LastUnit, EndOf
    <2> QED BY <2>1, <2>2
  <1>6. ASSUME NEW i \in 1 .. n
        PROVE  ScalarAt(units, os, i) =
                 IF i = 1 \/ offsets[i - 1] # offsets[i]
                 THEN <<units[i]>> ELSE <<units[i - 1], units[i]>>
    <2>1. i # 1 => i - 1 \in 1 .. n
      BY <1>2
    <2> QED BY <1>3, <2>1 DEF ScalarAt
  <1>7. \A i \in 1 .. n : LastUnit(units, os, i) =>
          SubSeq(text, os[i] + 1, EndOf(units, os, at, i)) = Encode(OfUnits(ScalarAt(units, os, i)))
    BY <1>1, <1>0 DEF SpelledUpTo
  <1>8. ASSUME NEW i \in 1 .. n, i = n \/ offsets[i + 1] # offsets[i]
        PROVE  Bytes(offsets[i], offsets[i + 1]) =
                 Encode(OfUnits(IF i = 1 \/ offsets[i - 1] # offsets[i]
                                THEN <<units[i]>> ELSE <<units[i - 1], units[i]>>))
    BY <1>5, <1>6, <1>7, <1>8, Zenon DEF Bytes
  <1> QED BY <1>8, <1>0, Zenon DEF UnitsSpellText
-----------------------------------------------------------------------------
(* How far the tokens reach, which is where the position is                *)
TiledTo == IF tokens = <<>> THEN 0 ELSE tokens[Len(tokens)].value + tokens[Len(tokens)].length

Covered == status = "OK" => tokens # <<>> /\ TiledTo = Len(text)

TiledInv == Tiled /\ Covered /\ (pc = "match" => offsets[position + 1] = TiledTo)

(* In the lexer's loop there is an offset for every unit, in the text, the *)
(* first is 0, and one more for the end.                                   *)
LEMMA OffsetsOfUnits ==
  ASSUME LexInv, SpeltInv, pc = "match"
  PROVE  /\ \A i \in 0 .. Len(units) : offsets[i + 1] \in Nat
         /\ offsets[1] = 0 /\ offsets[Len(units) + 1] = Len(text)
  <1>1. PICK os : SpelledUpTo(text, units, os, at) /\ offsets = Append(os, at)
    BY DEF SpeltInv
  <1>2. /\ os \in Seq(Int) /\ Len(os) = Len(units) /\ Len(units) \in Nat /\ at \in Nat
        /\ at = Len(text)
    BY <1>1, LenProperties DEF SpelledUpTo, LexInv, Typed, Chained
  <1>3. (\A i \in 1 .. Len(units) : offsets[i] = os[i]) /\ offsets[Len(units) + 1] = at
    BY <1>1, <1>2, AppendProperties
  <1>4. \A i \in 1 .. Len(units) : os[i] \in 0 .. at - 1
    BY <1>1 DEF SpelledUpTo
  <1>5. ASSUME NEW i \in 0 .. Len(units) PROVE offsets[i + 1] \in Nat
    <2>1. CASE i = Len(units)
      BY <1>2, <1>3, <2>1
    <2>2. CASE i # Len(units)
      <3>1. i + 1 \in 1 .. Len(units)
        BY <1>2, <2>2
      <3> QED BY <1>2, <1>3, <1>4, <3>1
    <2> QED BY <2>1, <2>2
  <1>6. offsets[1] = 0
    <2>1. CASE Len(units) = 0
      BY <1>1, <1>3, <2>1 DEF SpelledUpTo
    <2>2. CASE Len(units) # 0
      BY <1>1, <1>2, <1>3, <2>2 DEF SpelledUpTo
    <2> QED BY <2>1, <2>2
  <1> QED BY <1>2, <1>3, <1>5, <1>6

(* One more token, from where the others reach                             *)
LEMMA TiledGrows ==
  ASSUME NEW S, tokens \in Seq(S), Tiled, NEW x, x.value = TiledTo, tokens' = Append(tokens, x)
  PROVE  Tiled' /\ tokens' # <<>> /\ TiledTo' = x.value + x.length
  <1>1. /\ tokens' \in Seq(S \cup {x}) /\ Len(tokens') = Len(tokens) + 1
        /\ \A k \in 1 .. Len(tokens) : tokens'[k] = tokens[k]
        /\ tokens'[Len(tokens) + 1] = x /\ Len(tokens) \in Nat
    BY AppendProperties, SeqMonotonic, LenProperties
  <1>2. DOMAIN tokens' = 1 .. Len(tokens) + 1 /\ DOMAIN tokens = 1 .. Len(tokens)
    BY <1>1, LenProperties
  <1>3. ASSUME NEW k \in DOMAIN tokens'
        PROVE  tokens'[k].value =
                 (IF k = 1 THEN 0 ELSE tokens'[k - 1].value + tokens'[k - 1].length)
    <2>1. CASE k \in 1 .. Len(tokens)
      <3>1. k # 1 => k - 1 \in 1 .. Len(tokens)
        BY <1>1, <2>1
      <3> QED BY <1>1, <1>2, <2>1, <3>1 DEF Tiled
    <2>2. CASE k = Len(tokens) + 1
      <3>1. CASE Len(tokens) = 0
        <4>1. tokens = <<>> /\ k = 1
          BY <1>1, <2>2, <3>1, EmptySeq
        <4> QED BY <1>1, <2>2, <4>1 DEF TiledTo
      <3>2. CASE Len(tokens) # 0
        <4>1. tokens # <<>> /\ k # 1 /\ k - 1 = Len(tokens) /\ Len(tokens) \in 1 .. Len(tokens)
          BY <1>1, <2>2, <3>2, EmptySeq
        <4> QED BY <1>1, <2>2, <4>1 DEF TiledTo
      <3> QED BY <3>1, <3>2
    <2> QED BY <1>1, <1>2, <2>1, <2>2
  <1>4. Tiled'
    BY <1>3 DEF Tiled
  <1>5. tokens' # <<>>
    BY <1>1, EmptySeq
  <1>6. TiledTo' = x.value + x.length
    BY <1>1, <1>5 DEF TiledTo
  <1> QED BY <1>4, <1>5, <1>6

LEMMA TiledInit == Init => TiledInv
  BY DEF Init, TiledInv, Tiled, Covered

(* Every step of the lexer keeps the tokens without gap.                   *)
LEMMA TiledKept == LexInv /\ SpeltInv /\ TiledInv /\ [Next]_vars => TiledInv'
  <1>. SUFFICES ASSUME LexInv, SpeltInv, TiledInv, [Next]_vars PROVE TiledInv'
    OBVIOUS
  <1>1. Len(units) \in Nat /\ position \in 0 .. Len(units) /\ (pc # "done" => status = "none")
    BY LenProperties DEF LexInv, Typed, Undone
  <1>2. ASSUME UNCHANGED <<tokens, text>>, pc' # "match", status' # "OK"
        PROVE  TiledInv'
    BY <1>2 DEF TiledInv, Tiled, Covered
  <1>3. CASE Begin
    BY <1>1, <1>2, <1>3 DEF Begin, Lexing, Goto, Answer
  <1>4. CASE CheckScalar
    <2>1. Utf8Next(text, at).status # "OK" => Utf8Next(text, at).status \in {"ENCODING", "ARGUMENT"}
      <3>1. at \in 0 .. Len(text) - 1 /\ text \in Seq(Byte)
        BY <1>4, LenProperties DEF CheckScalar, LexInv, Typed
      <3> QED BY <3>1, NextIsSound
    <2> QED BY <1>1, <1>2, <1>4, <2>1 DEF CheckScalar, Lexing, Goto, Answer
  <1>5. CASE Reserve
    BY <1>1, <1>2, <1>5 DEF Reserve, Goto, Fail, Answer
  <1>6. CASE DecodeScalar
    BY <1>1, <1>2, <1>6 DEF DecodeScalar, Goto, Fail, Answer
  <1>7. CASE Decoded
    <2>1. LexInv' /\ SpeltInv'
      BY NextPreserves, SpeltKept
    <2>2. pc' = "match"
      BY <1>7 DEF Decoded, Goto
    <2>3. offsets'[1] = 0
      <3>1. (LexInv /\ SpeltInv /\ pc = "match" => offsets[1] = 0)'
        BY OffsetsOfUnits, PTL
      <3> QED BY <2>1, <2>2, <3>1
    <2>4. tokens' = <<>> /\ position' = 0 /\ status' = status /\ pc = "decode"
      BY <1>7 DEF Decoded, Goto, LexInv, Undone
    <2>5. TiledTo' = 0 /\ position' + 1 = 1
      BY <2>4 DEF TiledTo
    <2> QED BY <1>1, <1>7, <2>3, <2>4, <2>5 DEF Decoded, TiledInv, Tiled, Covered
  <1>8. CASE Match
    <2>1. /\ pc = "match" /\ UNCHANGED <<text, at, units, offsets>> /\ position < Len(units)
          /\ \/ pc' = "done" /\ status' \in {"NOMEM", "BADPAT"} /\ UNCHANGED tokens
             \/ /\ tokens' = Append(tokens, Token(LexPatterns[Best].token, position, End(Best)))
                /\ position' = End(Best) /\ Candidates # {} /\ UNCHANGED status
      BY <1>8 DEF Match, Goto, Fail, Answer
    <2>2. CASE pc' = "done" /\ status' \in {"NOMEM", "BADPAT"} /\ UNCHANGED tokens
      BY <1>2, <2>1, <2>2
    <2>3. CASE /\ tokens' = Append(tokens, Token(LexPatterns[Best].token, position, End(Best)))
               /\ position' = End(Best) /\ Candidates # {} /\ UNCHANGED status
      <3>. DEFINE x == Token(LexPatterns[Best].token, position, End(Best))
                  end == End(Best)
      <3>1. end \in position + 1 .. Len(units)
        BY <1>1, <2>3, BestAdvances
      <3>2. /\ offsets[position + 1] \in Nat /\ offsets[end + 1] \in Nat
        BY <1>1, <2>1, <3>1, OffsetsOfUnits
      <3>3. /\ x.value = offsets[position + 1]
            /\ x.length = offsets[end + 1] - offsets[position + 1]
        BY DEF Token
      <3>4. tokens' = Append(tokens, x) /\ position' = end /\ offsets' = offsets
        BY <2>1, <2>3
      <3>. HIDE DEF x, end
      <3>5. PICK S : tokens \in Seq(S)
        BY DEF LexInv, Typed
      <3>6. x.value = TiledTo
        BY <2>1, <3>3 DEF TiledInv
      <3>7. Tiled' /\ tokens' # <<>> /\ TiledTo' = x.value + x.length
        BY <3>4, <3>5, <3>6, TiledGrows DEF TiledInv
      <3>8. TiledTo' = offsets[end + 1]
        BY <3>2, <3>3, <3>7
      <3>9. status' # "OK"
        BY <1>1, <2>1, <2>3
      <3> QED BY <3>4, <3>7, <3>8, <3>9 DEF TiledInv, Covered
    <2> QED BY <2>1, <2>2, <2>3
  <1>9. CASE EndOfText
    <2>. DEFINE x == Token("EOF", Len(units), Len(units))
    <2>1. /\ pc = "match" /\ pc' = "done" /\ position = Len(units) /\ tokens' = Append(tokens, x)
          /\ text' = text
      BY <1>9 DEF EndOfText, Answer
    <2>2. offsets[Len(units) + 1] = Len(text) /\ Len(text) \in Nat
      BY <2>1, OffsetsOfUnits, LenProperties DEF LexInv, Typed
    <2>3. x.value = offsets[Len(units) + 1] /\ x.length = 0
      BY <2>2 DEF Token
    <2>. HIDE DEF x
    <2>4. PICK S : tokens \in Seq(S)
      BY DEF LexInv, Typed
    <2>5. x.value = TiledTo
      BY <2>1, <2>3 DEF TiledInv
    <2>6. Tiled' /\ tokens' # <<>> /\ TiledTo' = x.value + x.length
      BY <2>1, <2>4, <2>5, TiledGrows DEF TiledInv
    <2>7. TiledTo' = Len(text)
      BY <2>2, <2>3, <2>6
    <2> QED BY <2>1, <2>6, <2>7 DEF TiledInv, Covered
  <1>10. CASE UNCHANGED vars
    BY <1>10 DEF vars, TiledInv, Tiled, Covered, TiledTo
  <1> QED BY <1>3, <1>4, <1>5, <1>6, <1>7, <1>8, <1>9, <1>10 DEF Next

(* Both hold throughout.                                                   *)
LEMMA AlwaysSpelt == Spec => [](SpeltInv /\ TiledInv)
  <1>1. Init => SpeltInv /\ TiledInv
    BY SpeltInit, TiledInit
  <1>2. LexInv /\ SpeltInv /\ TiledInv /\ [Next]_vars => (SpeltInv /\ TiledInv)'
    BY SpeltKept, TiledKept
  <1> QED BY <1>1, <1>2, AlwaysLexInv, PTL DEF Spec

(* What maiaCCLexDecode makes of a checked text, UTF-16 units and the byte *)
(* offset of each, spells that text, scalar by scalar: encoding what the   *)
(* unit, or the pair, stands for gives back the bytes it was made of.      *)
THEOREM UnitsSpellTheText == Spec => []UnitsSpellText
  BY SpeltSpells, AlwaysSpelt, PTL

(* The tokens follow each other without gap or overlap from the first byte *)
(* on, and those of an accepted text cover all its bytes.                  *)
THEOREM TheTokensTile == Spec => [](Tiled /\ Covered)
  <1>1. TiledInv => Tiled /\ Covered
    BY DEF TiledInv
  <1> QED BY <1>1, AlwaysSpelt, PTL
=============================================================================
