------------------------------ MODULE BreLexer ------------------------------
(***************************************************************************)
(* From the bytes of a pattern to the tokens of the parser: the check of   *)
(* maia_bre_compile_utf8 and bre_text_check, then maiaCCLexerTokenize of   *)
(* generated/bre-parser.hpp, which decodes the text a second time, to      *)
(* UTF-16, and cuts it into the longest tokens.                            *)
(*                                                                         *)
(* units, offsets and tokens are the lexer's arrays, position its place in *)
(* units, and `at` the byte offset of the check's and the decoder's loops. *)
(* failed is lexer.failed: 1 for a text that has no tokens, 2 for memory,  *)
(* 3 for a full token array.                                               *)
(***************************************************************************)
EXTENDS Utf8, BreLexTables, FiniteSets

CONSTANTS
  Texts,          \* the patterns a caller may pass
  MaxPattern,     \* limits->max_pattern_bytes
  Capacity,       \* the size of BreCompile's token array
  MemoryMayFail,  \* whether malloc, here or in the engine, may fail
  LexEnd(_, _, _) \* where maia_regex_exec ends a program on units from a
                  \* position, or a negative number

ASSUME CapacityAssumption ==
  MaxPattern \in Nat /\ Capacity \in Nat /\ Capacity > MaxPattern
ASSUME TextAssumption == \A t \in Texts : t \in Seq(Byte)

VARIABLES text, pc, at, units, offsets, position, tokens, failed, status

vars == <<text, pc, at, units, offsets, position, tokens, failed, status>>

Init ==
  /\ text \in Texts
  /\ pc = "call" /\ at = 0
  /\ units = <<>> /\ offsets = <<>> /\ position = 0 /\ tokens = <<>>
  /\ failed = 0 /\ status = "none"

Lexing == <<units, offsets, position, tokens, failed>>

Goto(next)  == pc' = next /\ UNCHANGED status
Answer(r)   == pc' = "done" /\ status' = r

(* What maia_bre_compile_utf8 makes of lexer.failed                        *)
Fail(reason) ==
  /\ failed' = reason
  /\ Answer(IF reason = 2 THEN "NOMEM" ELSE "BADPAT")
-----------------------------------------------------------------------------
Begin ==
  /\ pc = "call"
  /\ IF Len(text) > MaxPattern THEN Answer("LIMIT") ELSE Goto("check")
  /\ UNCHANGED <<text, at, Lexing>>

(* One turn of the loop of bre_text_check                                  *)
CheckScalar ==
  LET next == Utf8Next(text, at)
  IN /\ pc = "check" /\ at < Len(text)
     /\ IF next.status = "OK"
        THEN at' = next.offset /\ Goto("check")
        ELSE Answer(next.status) /\ UNCHANGED at
     /\ UNCHANGED <<text, Lexing>>

(* The lexer's storage for units and offsets                               *)
Reserve ==
  /\ pc = "check" /\ at = Len(text)
  /\ \/ at' = 0 /\ Goto("decode") /\ UNCHANGED failed
     \/ MemoryMayFail /\ Fail(2) /\ UNCHANGED at
  /\ UNCHANGED <<text, units, offsets, position, tokens>>

(* One turn of maiaCCLexDecode: both halves of a pair have its offset      *)
DecodeScalar ==
  LET d == LexDecode(text, at)
  IN /\ pc = "decode" /\ at < Len(text)
     /\ IF d.failed
        THEN Fail(1) /\ UNCHANGED <<at, units, offsets>>
        ELSE /\ units' = units \o d.units
             /\ offsets' = offsets \o [j \in 1 .. Len(d.units) |-> at]
             /\ at' = d.position
             /\ Goto("decode") /\ UNCHANGED failed
     /\ UNCHANGED <<text, position, tokens>>

(* The last offset is the length.                                          *)
Decoded ==
  /\ pc = "decode" /\ at = Len(text)
  /\ offsets' = Append(offsets, at)
  /\ Goto("match")
  /\ UNCHANGED <<text, at, units, position, tokens, failed>>

(* The patterns that match at the position, and the best: longest, and of  *)
(* those the first in the table (BestLast is a slip: the last).            *)
End(k)     == LexEnd(LexPatterns[k].program, units, position)
Candidates == {k \in 1 .. Len(LexPatterns) : End(k) \in position + 1 .. Len(units)}
BestLast   == CHOOSE k \in Candidates :
                \A j \in Candidates : End(j) < End(k) \/ (End(j) = End(k) /\ j <= k)
Best       == CHOOSE k \in Candidates :
                \A j \in Candidates : End(j) < End(k) \/ (End(j) = End(k) /\ k <= j)

Token(type, start, end) ==
  [type |-> type, start |-> start, end |-> end, value |-> offsets[start + 1],
   length |-> offsets[end + 1] - offsets[start + 1]]

FullSoon == Len(tokens) + 2 >= Capacity     \* a slip
Full     == Len(tokens) + 1 >= Capacity

(* One turn of the loop of maiaCCLexerTokenize                             *)
Match ==
  /\ pc = "match" /\ position < Len(units)
  /\ \/ MemoryMayFail /\ Fail(2) /\ UNCHANGED <<tokens, position>>
     \/ Candidates = {} /\ Fail(1) /\ UNCHANGED <<tokens, position>>
     \/ Candidates # {} /\ Full /\ Fail(3) /\ UNCHANGED <<tokens, position>>
     \/ /\ Candidates # {} /\ ~Full
        /\ tokens' = Append(tokens, Token(LexPatterns[Best].token, position, End(Best)))
        /\ position' = End(Best)
        /\ Goto("match") /\ UNCHANGED failed
  /\ UNCHANGED <<text, at, units, offsets>>

EndOfText ==
  /\ pc = "match" /\ position = Len(units)
  /\ tokens' = Append(tokens, Token("EOF", Len(units), Len(units)))
  /\ Answer("OK")
  /\ UNCHANGED <<text, at, units, offsets, position, failed>>

Next ==
  Begin \/ CheckScalar \/ Reserve \/ DecodeScalar \/ Decoded \/ Match \/ EndOfText

Spec == Init /\ [][Next]_vars
-----------------------------------------------------------------------------
Phases   == {"call", "check", "decode", "match", "done"}
Statuses == {"none", "OK", "LIMIT", "ENCODING", "ARGUMENT", "NOMEM", "BADPAT"}

TypeOK ==
  /\ text \in Texts /\ pc \in Phases /\ status \in Statuses /\ failed \in 0 .. 3
  /\ at \in 0 .. Len(text) /\ position \in 0 .. Len(units)
  /\ units \in Seq(0 .. UnitMax) /\ offsets \in Seq(0 .. Len(text))
  /\ \A k \in DOMAIN tokens : tokens[k].end \in tokens[k].start .. Len(units)
  /\ (pc = "done") = (status # "none")

Bytes(from, to) == SubSeq(text, from + 1, to)

(* The bytes up to an offset are whole encodings of scalars other than NUL *)
Whole(to) ==
  \E cuts \in SUBSET (0 .. to) :
    /\ {0, to} \subseteq cuts
    /\ \A a \in cuts \ {to} :
         text[a + 1] # 0 /\ \E b \in cuts : b > a /\ WellFormed(Bytes(a, b))

(* The check accepts exactly the well-formed texts without NUL, as the     *)
(* table of the encoding gives them: neither a longer form, a surrogate, a *)
(* scalar past the last nor a cut encoding passes (BRE_DESIGN.md).         *)
ChecksTheEncoding ==
  /\ pc \in {"decode", "match"} => Whole(Len(text))
  /\ status \in {"ENCODING", "ARGUMENT"} => ~Whole(Len(text))

(* The two decoders agree: a text that passed the check is refused for     *)
(* want of a token only, never by the lexer's own decoding.                *)
CheckedTextDecodes == failed = 1 => at = Len(text)

(* The units spell the decoded bytes, pair by pair.                        *)
UnitsSpellText ==
  pc = "match" =>
    \A i \in 1 .. Len(units) :
      LET last  == i = Len(units) \/ offsets[i + 1] # offsets[i]
          first == i = 1 \/ offsets[i - 1] # offsets[i]
          spelt == IF first THEN <<units[i]>> ELSE <<units[i - 1], units[i]>>
      IN last => Bytes(offsets[i], offsets[i + 1]) = Encode(OfUnits(spelt))

(* Tokens follow each other without gap from the first byte on.            *)
Tiled ==
  \A k \in DOMAIN tokens :
    tokens[k].value = (IF k = 1 THEN 0 ELSE tokens[k - 1].value + tokens[k - 1].length)

(* They cover the bytes of an accepted text, and each but the last is the  *)
(* encoding of one scalar: bre_scalar, which decodes a token again when    *)
(* the pattern is lowered, never finds half a scalar in it, nor two.       *)
TokensTile ==
  /\ Tiled
  /\ \A k \in DOMAIN tokens :
       IF tokens[k].type = "EOF"
       THEN tokens[k].length = 0 /\ tokens[k].value = Len(text)
       ELSE LET token == Bytes(tokens[k].value, tokens[k].value + tokens[k].length)
            IN /\ Utf8Next(token, 0).status = "OK"
               /\ Utf8Next(token, 0).offset = Len(token)

(* The token array is as large as the longest pattern and one more, and    *)
(* the lexer never finds it full.                                          *)
CapacityNeverReached == failed # 3

(* The tokens that depend on what follows: `$` is the anchor exactly at    *)
(* the end and before `\)`, `[` opens a class name exactly before `:`, `.` *)
(* and `=`.                                                                *)
ContextTokens ==
  \A k \in DOMAIN tokens :
    LET rest == Bytes(tokens[k].value, Len(text))
    IN /\ tokens[k].type = "END_DOLLAR" <=>
            rest = <<36>> \/ (Len(rest) > 2 /\ SubSeq(rest, 1, 3) = <<36, 92, 41>>)
       /\ tokens[k].type = "OPEN_SPECIAL" <=>
            Len(rest) > 1 /\ rest[1] = 91 /\ rest[2] \in {46, 58, 61}

(* Every character of a well-formed pattern has a token.                   *)
EveryScalarHasToken == status # "BADPAT"
=============================================================================
