--------------------------- MODULE LegacyProgram ----------------------------
(***************************************************************************)
(* The programs of the legacy text API (regex.c) and their compilation,    *)
(* regex_compile_internal.  No state.                                      *)
(*                                                                         *)
(* A pattern is a sequence of ASCII codes, and does not end in a backslash *)
(* of its own.  A program is a sequence of instructions [op, arg] that     *)
(* ends in END; the arg is a character, a set of characters (the bit table *)
(* of a class), a group number, or the instruction that a closure repeats. *)
(***************************************************************************)
EXTENDS Integers, Sequences, FiniteSets

MAXCHR == 128
MAXTAG == 10

Op(op, arg) == [op |-> op, arg |-> arg]
Bare(op)    == Op(op, 0)

(* *p, and the NUL that ends the pattern                                   *)
At(pattern, p) == IF p > Len(pattern) THEN 0 ELSE pattern[p]

NUL       == 0
Plus      == 43
Star      == 42
Dot       == 46
Dollar    == 36
Bar       == 124
Caret     == 94
Open      == 91
Close     == 93
Dash      == 45
Backslash == 92
LParen    == 40
RParen    == 41
Less      == 60
Greater   == 62
Digits    == 49 .. 57

(* The characters of a bracket from place p on: the set so far and the     *)
(* place of the `]`, or of the NUL if there is none.  A dash between two   *)
(* characters adds those after the first up to the second.                 *)
RECURSIVE Members(_, _, _)
Members(pattern, p, set) ==
  LET c == At(pattern, p)
      d == At(pattern, p + 1)
  IN CASE c \in {NUL, Close} -> [set |-> set, p |-> p]
       [] c = Dash /\ d \notin {NUL, Close} ->
            Members(pattern, p + 2, set \cup (At(pattern, p - 1) + 1 .. d))
       [] OTHER -> Members(pattern, p + 1, set \cup {c})

(* A class: the optional ^, then a first - and a first ] as themselves     *)
Class(pattern, p) ==
  LET negated == At(pattern, p + 1) = Caret
      first   == IF negated THEN p + 2 ELSE p + 1
      dash    == IF At(pattern, first) = Dash THEN first + 1 ELSE first
      body    == IF At(pattern, dash) = Close THEN dash + 1 ELSE dash
      members == Members(pattern, body, {At(pattern, i) : i \in first .. body - 1})
  IN [p |-> members.p,
      set |-> IF negated THEN (0 .. MAXCHR - 1) \ members.set ELSE members.set]
-----------------------------------------------------------------------------
(* The state of one compilation: the place, the instructions so far, the   *)
(* open groups, the next group's number, and the error.                    *)
Compilation ==
  [p |-> 1, nfa |-> <<>>, tagstk |-> <<>>, tagc |-> 1, error |-> "NOERROR"]

Emit(c, i)   == [c EXCEPT !.nfa = Append(@, i)]
Reject(c, e) == [c EXCEPT !.error = e]
Last(c)      == c.nfa[Len(c.nfa)]

(* `*` and `+` close the instruction before them, `+` a copy of it         *)
Unrepeatable == {"BOL", "BOT", "EOT", "BOW", "EOW", "REF", "ALT"}

Repeat(c, plus) ==
  CASE c.p = 1 -> Reject(c, "BADRPT")
    [] c.p > 1 /\ Last(c).op = "CLO" -> c
    [] c.p > 1 /\ Last(c).op \in Unrepeatable -> Reject(c, "BADRPT")
    [] OTHER -> IF plus THEN Emit(c, Op("CLO", Last(c)))
                ELSE [c EXCEPT !.nfa[Len(c.nfa)] = Op("CLO", Last(c))]

OpenGroup(c) ==
  IF c.tagc >= MAXTAG THEN Reject(c, "ESUBREG")
  ELSE [Emit(c, Op("BOT", c.tagc)) EXCEPT !.tagstk = Append(@, c.tagc), !.tagc = @ + 1]

Innermost(c) == c.tagstk[Len(c.tagstk)]

CloseGroup(c) ==
  IF c.tagstk = <<>> THEN Reject(c, "EPAREN")
  ELSE [Emit(c, Op("EOT", Innermost(c))) EXCEPT !.tagstk = SubSeq(@, 1, Len(@) - 1)]

(* A reference to the group being read is refused, and to one not begun;   *)
(* one to a group further out, still open, is not.                         *)
Refer(c, n) ==
  IF (c.tagstk # <<>> /\ Innermost(c) = n) \/ n >= c.tagc
  THEN Reject(c, "ESUBREG")
  ELSE Emit(c, Op("REF", n))

Escaped(c, x) ==
  CASE x = LParen  -> OpenGroup(c)
    [] x = RParen  -> CloseGroup(c)
    [] x = Less    -> Emit(c, Bare("BOW"))
    [] x = Greater -> Emit(c, Bare("EOW"))
    [] x \in Digits -> Refer(c, x - 48)
    [] OTHER       -> Emit(c, Op("CHR", x))

Bracket(c, pattern) ==
  LET class == Class(pattern, c.p)
  IN IF At(pattern, class.p) = NUL THEN Reject(c, "EBRACK")
     ELSE [Emit(c, Op("CCL", class.set)) EXCEPT !.p = class.p]

(* One turn of the loop, up to its p++                                     *)
Turn(c, pattern) ==
  LET x == At(pattern, c.p)
  IN CASE x = Dot  -> Emit(c, Bare("ANY"))
       [] x = Caret /\ c.p = 1 -> Emit(c, Bare("BOL"))
       [] x = Dollar /\ c.p = Len(pattern) -> Emit(c, Bare("EOL"))
       [] x = Open -> Bracket(c, pattern)
       [] x \in {Star, Plus} -> Repeat(c, x = Plus)
       [] x = Bar  -> Emit(c, Bare("ALT"))
       [] x = Backslash -> Escaped([c EXCEPT !.p = @ + 1], At(pattern, c.p + 1))
       [] OTHER    -> Emit(c, Op("CHR", x))

RECURSIVE Loop(_, _)
Loop(c, pattern) ==
  IF c.error # "NOERROR" \/ c.p > Len(pattern) THEN c
  ELSE LET t == Turn(c, pattern) IN Loop([t EXCEPT !.p = @ + 1], pattern)

(* regex_compile_internal: an error, or a program and its group count      *)
Compile(pattern) ==
  LET c == Loop(Compilation, pattern)
  IN [nfa |-> Append(c.nfa, Bare("END")), nsub |-> c.tagc - 1,
      error |-> CASE pattern = <<>> -> "BADPAT"
                  [] c.error = "NOERROR" /\ c.tagstk # <<>> -> "EPAREN"
                  [] OTHER -> c.error]
-----------------------------------------------------------------------------
(* iswordc: digits, letters and the underscore                             *)
Word == 48 .. 57 \cup 65 .. 90 \cup {95} \cup 97 .. 122

Consuming == {"CHR", "ANY", "CCL"}

(* Whether a consuming instruction takes a character.  A class may take    *)
(* the NUL; a closure stops at it whatever it repeats.                     *)
Takes(i, x) ==
  CASE i.op = "CHR" -> x = i.arg
    [] i.op = "ANY" -> x # NUL
    [] i.op = "CCL" -> x \in i.arg
    [] OTHER -> FALSE
TakesMore(i, x) == x # NUL /\ Takes(i, x)
=============================================================================
