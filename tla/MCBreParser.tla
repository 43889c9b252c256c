----------------------------- MODULE MCBreParser -----------------------------
(***************************************************************************)
(* Instances of BreParser for TLC, and the contract it implements.         *)
(***************************************************************************)
EXTENDS BreParser

Contract == INSTANCE BreParserContract
              WITH tree <- IF verdict = "OK" THEN sink.nodes ELSE <<>>

(* The parser accepts the patterns the grammar derives and no others, and  *)
(* an accepted pattern leaves the grammar's tree in the sink, node by node *)
(* with parents and ends, whatever was tried before.                       *)
ImplementsContract == Contract!Spec

(* The memo is told of no rule that would succeed: a failure remembered    *)
(* holds for whatever caller asks again at that position.                  *)
MemoTellsTheTruth ==
  [][\A m \in memo' \ memo : ~Contract!Parse(tokens, m[1], m[2]).ok]_vars

(* A parser that has answered rests.                                       *)
Rest == verdict # "none" /\ UNCHANGED vars

ParseOnly == Init /\ [][Next \/ Rest]_vars /\ WF_vars(Next)
-----------------------------------------------------------------------------
UpTo(set, n) == UNION {[1 .. k -> set] : k \in 0 .. n}
After(first, rest) == {first \o r \o <<"EOF">> : r \in rest}

Opening(n) == [k \in 1 .. 2 * n |-> IF k % 2 = 1 THEN "BACKSLASH" ELSE "LPAREN"]
Closing(n) == [k \in 1 .. 2 * n |-> IF k % 2 = 1 THEN "BACKSLASH" ELSE "RPAREN"]

Seqs == INSTANCE SequencesExt

(* Patterns put together from at most n blocks of tokens                   *)
Blocks(set, n) == {Seqs!FlattenSeq(s) : s \in UpTo(set, n)}

Open == <<"BACKSLASH", "LPAREN">>
Shut == <<"BACKSLASH", "RPAREN">>

Anything  == After(<<>>, UpTo(TokenTypes \ {"EOF"}, 1))
Groupings == After(<<>>, Blocks({Open, Shut, <<"LETTER">>, <<"STAR">>}, 4))
Anchors   == After(<<>>, UpTo({"CARET", "STAR", "END_DOLLAR", "LETTER"}, 4))
Brackets  == After(<<"OPEN">>, UpTo({"OPEN", "CLOSE", "CARET", "DASH", "LETTER"}, 4))
Specials  == After(<<"OPEN", "OPEN_SPECIAL">>,
                   {r \o <<"CLOSE">> : r \in UpTo({"COLON", "EQUAL", "CLOSE", "LETTER"}, 3)})
Intervals == After(<<"LETTER", "BACKSLASH", "LBRACE">>,
                   Blocks({<<"DIGIT">>, <<"COMMA">>, <<"BACKSLASH", "RBRACE">>}, 4))
Deep      == {Opening(9) \o <<"LETTER">> \o Closing(9) \o <<"EOF">>,
              Opening(10) \o <<"LETTER">> \o Closing(9) \o <<"EOF">>,
              Opening(10) \o <<"LETTER">> \o Closing(2) \o <<"EOF">>}
(* The first has too many nodes for the run, the second too many tokens.   *)
Letters(n) == [k \in 1 .. n |-> "LETTER"]
Long      == {Letters(53) \o <<"EOF">>, Letters(56) \o <<"EOF">>}

AllPatterns == Anything \cup Groupings \cup Anchors \cup Brackets \cup Specials
               \cup Intervals \cup Deep \cup Long
=============================================================================
