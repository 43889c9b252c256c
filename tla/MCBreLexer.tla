----------------------------- MODULE MCBreLexer -----------------------------
(***************************************************************************)
(* Instances of BreLexer for TLC, with the ordered engine's denotation as  *)
(* the engine.                                                             *)
(***************************************************************************)
EXTENDS BreLexer

Engine == INSTANCE OrderedReference

EngineEnd(program, in, start) == Engine!Denotation(program, in, start)

ASSUME TablesAreValid ==
  \A k \in DOMAIN LexPatterns : Validate(LexPatterns[k].program, {})

(* U+07DA, which the class of CHAR leaves out, is the only scalar of one   *)
(* unit, NUL aside, without a token.                                       *)
ASSUME OneScalarWithoutToken ==
  \A u \in 1 .. UnitMax \ Surrogates :
    (u # 2010) <=> \E k \in {Len(LexPatterns)} \cup DOMAIN LexPatterns :
                     EngineEnd(LexPatterns[k].program, <<u>>, 0) = 1

(* A lexer that has answered rests.                                        *)
Rest == pc = "done" /\ UNCHANGED vars

LexOnly == Init /\ [][Next \/ Rest]_vars
-----------------------------------------------------------------------------
UpTo(set, n) == UNION {[1 .. k -> set] : k \in 0 .. n}

(* The bytes at the edges of the encoding's ranges, and the characters     *)
(* that the token table treats apart.                                      *)
Edges == {0, 127, 128, 143, 144, 159, 160, 191, 192, 193, 194, 223, 224, 225,
          236, 237, 238, 239, 240, 241, 243, 244, 245, 255}
Characters == {9, 36, 40, 41, 45, 46, 48, 58, 61, 65, 91, 92, 93, 97, 122, 125}

Twos   == UpTo(Edges \cup Characters, 2)
Threes == [1 .. 3 -> {36, 41, 46, 58, 91, 92}]
          \cup {<<a, b, c>> : a \in {224, 225, 237, 239},
                             b \in {127, 128, 159, 160, 191, 192}, c \in {127, 128, 191, 192}}
          \cup {<<a, b, 97>> : a \in {194, 223}, b \in {128, 154, 191}}
Fours  == [1 .. 4 -> {36, 41, 92}]
          \cup {<<a, b, c, d>> : a \in {240, 243, 244}, b \in {128, 143, 144, 191},
                            c \in {127, 128, 191}, d \in {128, 191, 192}}
          \cup {<<223, 154>> \o t : t \in {<<36, 36>>, <<223, 154>>}}
Fives  == {<<97, 97, 97, 97, 97>>, <<240, 144, 128, 128, 36>>}

AllTexts == Twos \cup Threes \cup Fours \cup Fives

(* Well-formed texts of the characters, and one of the scalar U+07DA       *)
FewTexts == UpTo({36, 92, 97}, 3) \cup {<<223, 154>>}
=============================================================================
