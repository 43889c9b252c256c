---------------------------- MODULE BreLexTables ----------------------------
(***************************************************************************)
(* The generated lexical patterns of basic regular expressions             *)
(* (maiaCCLexPatterns, generated/bre-parser.hpp): programs for the ordered *)
(* engine, in the order the lexer tries them.  skip, generic, preferred    *)
(* and role are 0 in every row, so the rows leave them out.  No state.     *)
(***************************************************************************)
EXTENDS OrderedProgram

I(op, first, second, next) ==
  [op |-> op, first |-> first, second |-> second, next |-> next]

Accept      == I("ACCEPT", 0, 0, 0)
R(from, to) == [first |-> from, last |-> to]

Row(token, code, ranges, entry) ==
  [token |-> token, program |-> [code |-> code, ranges |-> ranges, entry |-> entry]]

(* A token of one character, and one of a range of them                    *)
One(token, unit) == Row(token, <<Accept, I("CHAR", unit, 0, 0)>>, <<R(0, 0)>>, 1)
Any(token, from, to) == Row(token, <<Accept, I("CLASS", 0, 1, 0)>>, <<R(from, to)>>, 1)

EveryUnit ==
  <<R(9, 13), R(32, 32), R(160, 160), R(5760, 5760), R(8192, 8202), R(8232, 8233),
    R(8239, 8239), R(8287, 8287), R(12288, 12288), R(65279, 65279), R(0, 8),
    R(14, 31), R(33, 159), R(161, 5759), R(5761, 8191), R(8203, 8231),
    R(8234, 8238), R(8240, 8286), R(8288, 12287), R(12289, 65278), R(65280, 65535)>>

(* `$` before the end of the text (no unit follows) or before `\)`         *)
EndDollar ==
  Row("END_DOLLAR",
      <<Accept, Accept, I("CHAR", 41, 0, 1), I("CHAR", 92, 0, 2), Accept,
        I("CLASS", 0, 21, 4), I("NEGATIVE", 5, 0, 1), I("SPLIT", 6, 3, 0),
        I("POSITIVE", 7, 0, 0), I("CHAR", 36, 0, 8)>>,
      EveryUnit, 9)

(* `[` before one of `:`, `.` and `=`                                      *)
OpenSpecial ==
  Row("OPEN_SPECIAL",
      <<Accept, Accept, I("CLASS", 0, 3, 1), I("POSITIVE", 2, 0, 0), I("CHAR", 91, 0, 3)>>,
      <<R(58, 58), R(46, 46), R(61, 61)>>, 4)

(* Any other character: a surrogate pair, or one unit outside the ranges.  *)
(* The grammar's class ends in `#x7C#x7Da-z0-9`; the table has 2010 (7DA), *)
(* `-` and `z` where that reads as }, a-z.                                  *)
CharRanges ==
  <<R(48, 57), R(45, 45), R(122, 122), R(0, 0), R(36, 36), R(40, 40), R(41, 41),
    R(42, 42), R(43, 43), R(44, 46), R(58, 58), R(61, 61), R(63, 63), R(91, 91),
    R(92, 92), R(93, 93), R(94, 94), R(123, 123), R(124, 124), R(2010, 2010),
    R(55296, 57343), R(56320, 57343), R(55296, 56319)>>

(* Its program (and, before it, a slip: half a pair is a character)        *)
CharCodeHalves ==
  <<Accept, I("NOT_CLASS", 0, 21, 0), I("CLASS", 21, 1, 0), I("CLASS", 22, 1, 0),
    I("SPLIT", 3, 1, 0)>>

CharCode ==
  <<Accept, I("NOT_CLASS", 0, 21, 0), I("CLASS", 21, 1, 0), I("CLASS", 22, 1, 2),
    I("SPLIT", 3, 1, 0)>>

Char == Row("CHAR", CharCode, CharRanges, 4)

(* maiaCCLexPatterns, the 23 rows that maiaCCLexPatternCount admits        *)
LexPatterns ==
  <<EndDollar, OpenSpecial,
    One("BACKSLASH", 92), One("LPAREN", 40), One("RPAREN", 41), One("LBRACE", 123),
    One("RBRACE", 125), One("OPEN", 91), One("CLOSE", 93), One("CARET", 94),
    One("DOLLAR", 36), One("STAR", 42), One("DOT", 46), One("PLUS", 43),
    One("QUESTION", 63), One("PIPE", 124), One("DASH", 45), One("COLON", 58),
    One("EQUAL", 61), One("COMMA", 44),
    Any("LETTER", 97, 122), Any("DIGIT", 48, 57), Char>>
=============================================================================
