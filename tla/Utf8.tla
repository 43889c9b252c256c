-------------------------------- MODULE Utf8 --------------------------------
(***************************************************************************)
(* The two UTF-8 decoders of the library: bre_utf8_next (maia_bre.c),      *)
(* which checks patterns and reads inputs, and the loop of maiaCCLexDecode *)
(* (generated/bre-parser.hpp), which gives the lexer UTF-16 code units.    *)
(* No state.                                                               *)
(*                                                                         *)
(* A text is a sequence of bytes; offsets count from 0 as in the C, so the *)
(* byte at offset i is text[i + 1].                                        *)
(***************************************************************************)
EXTENDS Integers, Sequences

Byte         == 0 .. 255
Continuation == 128 .. 191          \* (b & 192) == 128
Surrogates   == 55296 .. 57343
ScalarMax    == 1114111

(* (c << 6) | (b & 63)                                                     *)
Shift(c, b) == 64 * c + (b % 64)

(* The first byte of an encoding of several bytes: the bits it gives, how  *)
(* many bytes follow it, and the smallest scalar of that length.           *)
IsLead(b) == b \in 194 .. 223 \cup 224 .. 239 \cup 240 .. 244
Lead(b) ==
  CASE b \in 194 .. 223 -> [bits |-> b % 32, more |-> 1, min |-> 128]
    [] b \in 224 .. 239 -> [bits |-> b % 16, more |-> 2, min |-> 2048]
    [] OTHER            -> [bits |-> b % 8,  more |-> 3, min |-> 65536]

(* The scalar that a lead byte's bits and the bytes after offset i make    *)
Composed(text, i, bits, more) ==
  IF more = 1 THEN Shift(bits, text[i + 2])
  ELSE IF more = 2 THEN Shift(Shift(bits, text[i + 2]), text[i + 3])
  ELSE Shift(Shift(Shift(bits, text[i + 2]), text[i + 3]), text[i + 4])

Accepted(offset, value) == [status |-> "OK", offset |-> offset, value |-> value]
Refused(status)         == [status |-> status, offset |-> 0, value |-> 0]

(* The encodings of several bytes, once their lead and length are known    *)
(* (and, before it, a slip: the shortest form is not asked for)            *)
NextOverlong(text, i) ==
  LET lead  == Lead(text[i + 1])
      value == Composed(text, i, lead.bits, lead.more)
  IN IF /\ \A j \in 2 .. lead.more + 1 : text[i + j] \in Continuation
        /\ value <= ScalarMax /\ value \notin Surrogates
     THEN Accepted(i + 1 + lead.more, value)
     ELSE Refused("ENCODING")

NextLong(text, i) ==
  LET lead  == Lead(text[i + 1])
      value == Composed(text, i, lead.bits, lead.more)
  IN IF /\ \A j \in 2 .. lead.more + 1 : text[i + j] \in Continuation
        /\ lead.min <= value /\ value <= ScalarMax
        /\ value \notin Surrogates
     THEN Accepted(i + 1 + lead.more, value)
     ELSE Refused("ENCODING")

(* bre_utf8_next: the scalar at offset i of a text                         *)
Utf8Next(text, i) ==
  IF i >= Len(text) THEN Refused("ENCODING")
  ELSE LET c == text[i + 1]
       IN IF c = 0 THEN Refused("ARGUMENT")
          ELSE IF c <= 127 THEN Accepted(i + 1, c)
          ELSE IF ~IsLead(c) \/ Lead(c).more > Len(text) - (i + 1) THEN Refused("ENCODING")
          ELSE NextLong(text, i)
-----------------------------------------------------------------------------
(* One turn of the loop of maiaCCLexDecode: `failed`, or the scalar, the   *)
(* offset after it and the UTF-16 units it becomes.  (UnitsUnbased is a    *)
(* slip: a pair from the scalar itself, not from its distance to 65536.)   *)
UnitsUnbased(value) ==
  IF value > 65535
  THEN <<55296 + value \div 1024, 56320 + (value % 1024)>>
  ELSE <<value>>

Units(value) ==
  IF value > 65535
  THEN <<55296 + (value - 65536) \div 1024, 56320 + ((value - 65536) % 1024)>>
  ELSE <<value>>

LexLeadShort(first) ==
  CASE first \in 194 .. 223 -> [value |-> first % 32, extra |-> 1, minimum |-> 128]
    [] first \in 224 .. 239 -> [value |-> first % 16, extra |-> 2, minimum |-> 2048]
    [] first \in 240 .. 243 -> [value |-> first % 8,  extra |-> 3, minimum |-> 65536]
    [] OTHER                -> [value |-> first,      extra |-> 0, minimum |-> 0]

(* What a first byte says of its scalar (and, before it, a slip: the last  *)
(* lead byte is none)                                                      *)
LexLead(first) ==
  CASE first \in 194 .. 223 -> [value |-> first % 32, extra |-> 1, minimum |-> 128]
    [] first \in 224 .. 239 -> [value |-> first % 16, extra |-> 2, minimum |-> 2048]
    [] first \in 240 .. 244 -> [value |-> first % 8,  extra |-> 3, minimum |-> 65536]
    [] OTHER                -> [value |-> first,      extra |-> 0, minimum |-> 0]

LexFailure == [failed |-> TRUE, position |-> 0, units |-> <<>>]

LexDecode(text, start) ==
  LET first == text[start + 1]
      lead  == LexLead(first)
      after == start + 1 + lead.extra
      value == IF lead.extra = 0 THEN first
               ELSE Composed(text, start, lead.value, lead.extra)
  IN IF \/ first >= 128 /\ lead.extra = 0
        \/ lead.extra > Len(text) - (start + 1)
     THEN LexFailure
     ELSE IF \/ \E j \in 2 .. lead.extra + 1 : text[start + j] < 128 \/ text[start + j] > 191
             \/ value < lead.minimum \/ value > ScalarMax \/ value \in Surrogates
     THEN LexFailure
     ELSE [failed |-> FALSE, position |-> after, units |-> Units(value)]
-----------------------------------------------------------------------------
(* What the encoding is, for reference: the table of well-formed byte      *)
(* sequences, and the encoding of a scalar.                                *)
WellFormed(s) ==
  \/ Len(s) = 1 /\ s[1] < 128
  \/ Len(s) = 2 /\ s[1] \in 194 .. 223 /\ s[2] \in Continuation
  \/ /\ Len(s) = 3 /\ s[3] \in Continuation
     /\ \/ s[1] = 224 /\ s[2] \in 160 .. 191
        \/ s[1] = 237 /\ s[2] \in 128 .. 159
        \/ s[1] \in 225 .. 239 \ {237} /\ s[2] \in Continuation
  \/ /\ Len(s) = 4 /\ s[3] \in Continuation /\ s[4] \in Continuation
     /\ \/ s[1] = 240 /\ s[2] \in 144 .. 191
        \/ s[1] \in 241 .. 243 /\ s[2] \in Continuation
        \/ s[1] = 244 /\ s[2] \in 128 .. 143

Scalars == 0 .. ScalarMax \ Surrogates

Tail6(v, n) == 128 + ((v \div n) % 64)

Encode(v) ==
  IF v < 128 THEN <<v>>
  ELSE IF v < 2048 THEN <<192 + v \div 64, Tail6(v, 1)>>
  ELSE IF v < 65536 THEN <<224 + v \div 4096, Tail6(v, 64), Tail6(v, 1)>>
  ELSE <<240 + v \div 262144, Tail6(v, 4096), Tail6(v, 64), Tail6(v, 1)>>

(* The scalar that UTF-16 units stand for                                  *)
OfUnits(u) ==
  IF Len(u) = 1 THEN u[1] ELSE 65536 + 1024 * (u[1] - 55296) + (u[2] - 56320)
=============================================================================
