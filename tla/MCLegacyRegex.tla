--------------------------- MODULE MCLegacyRegex ----------------------------
(***************************************************************************)
(* Instances of LegacyRegex for TLC, and what the documents say of it.     *)
(***************************************************************************)
EXTENDS LegacyRegex

Meaning == INSTANCE LegacyReference

VARIABLE shared     \* the callers whose search has overlapped with another
                    \* one on the same handle

Overlaps(c) == \E d \in Callers \ {c} : Busy(d) /\ call[d].h = call[c].h

Note == shared' = {c \in Callers : Busy(c)' /\ (Overlaps(c)' \/ (c \in shared /\ Busy(c)))}

CallsInit == Init /\ shared = {}
CallsNext == Next /\ Note

Calls == CallsInit /\ [][CallsNext]_<<vars, shared>>
         /\ \A c \in Callers : WF_vars(Begin(c) \/ Step(c))

Answers(c) == Busy(c) /\ ~Busy(c)'

(* What a call has found, at the step that ends it                         *)
Found(c) == [result |-> call'[c].result, match |-> call'[c].match]

Meant(c) ==
  LET q == call[c]
  IN Meaning!Denotation(Program(q).nfa, Program(q).nsub, q.subject, q.notbol)

(* What a program may read that another call on its handle writes          *)
ReadsHandle == {"REF", "BOL", "BOW", "EOW"}

Apart(c) == \A k \in DOMAIN Program(call[c]).nfa : Program(call[c]).nfa[k].op \notin ReadsHandle

Whole(found) ==
  [result |-> found.result,
   match  |-> [k \in {1} \cap DOMAIN found.match |-> found.match[k]]]

(* A search that shares its handle with no other answers what the program  *)
(* means: no tag of an earlier attempt, of an earlier call or of another   *)
(* handle's call, and no closure given up or resumed at the wrong length,  *)
(* changes a span.  Searches that overlap on one handle overwrite the      *)
(* start of the line and the tags for each other, whatever they search;    *)
(* but what each says of the whole match is right all the same when the    *)
(* program has no reference, no ^ and no word test, and only the spans of  *)
(* its groups may be another's.                                            *)
AnswersWhatIsMeant ==
  [][\A c \in Callers : Answers(c) =>
       /\ c \notin shared => Found(c) = Meant(c)
       /\ Apart(c) => Whole(Found(c)) = Whole(Meant(c))]_<<vars, shared>>

Lost == DOMAIN heap \ {handle[h].compiled : h \in Handles}

CompileResults == {"NOERROR", "BADPAT", "EBRACK", "EPAREN", "ESUBREG", "BADRPT"}

(* Only regcomp on a handle that holds a program loses one: a caller that  *)
(* frees before it compiles, as the example of README.md does, loses none, *)
(* whichever of its calls fail.                                            *)
OnlyRecompilingLoses ==
  [][Lost' # Lost =>
       /\ \E c \in Callers : made'[c] # made[c] /\ call'[c].result \in CompileResults
       /\ \E h \in Handles : /\ handle[h].compiled # Null /\ handle'[h] # handle[h]
                             /\ Lost' = Lost \cup {handle[h].compiled}
     ]_vars

(* A search ends.                                                          *)
SearchesEnd == \A c \in Callers : Busy(c) ~> ~Busy(c)
-----------------------------------------------------------------------------
(* What the documents say, and what fails.                                 *)

(* README.md's table of syntax: each pattern of it compiles.               *)
TableCompiles ==
  [][\A c \in Callers : ~Busy(c) /\ made'[c] > made[c] => call'[c].result # "BADRPT"]_vars

-----------------------------------------------------------------------------
UpTo(set, n) == UNION {[1 .. k -> set] : k \in 0 .. n}

Seqs == INSTANCE SequencesExt
Blocks(set, n) == {Seqs!FlattenSeq(s) : s \in UpTo(set, n)}

a == 97   b == 98   c == 99
G  == <<92, 40>>     \* \(
E  == <<92, 41>>     \* \)

Texts(set, n) == {t \o <<0, 0, 0, 0>> : t \in UpTo(set, n)}

Pieces == {<<a>>, <<b>>, <<Dot>>, <<Star>>, <<Plus>>, <<Caret>>, <<Dollar>>, <<Bar>>,
           G, E, <<92, 49>>, <<92, 60>>, <<92, 62>>, <<Open, a, b, Close>>}
Small  == Blocks(Pieces, 2) \cup Blocks({<<a>>, <<Dot>>, <<Star>>, <<b>>, <<Caret>>}, 4)
Classes == {<<Open>> \o m \o <<Close>> : m \in UpTo({a, c, Dash, Close, Caret}, 3)}
Grouped == {G \o x \o E \o y : x \in {<<a>>, <<a, Star>>, <<Dot, Star>>, G \o <<a>> \o E \o <<b, Star>>},
            y \in {<<>>, <<b>>, <<92, 49>>, <<b, 92, 49>>, <<92, 50>>, <<Dot, Star, b>>, <<Plus>>, E}}
Nested  == {G \o <<a, Star>> \o E \o G \o <<Open, a, b, Close, Star>> \o E \o <<92, 50, 92, 49>>}

AllPatterns == (Small \cup Classes \cup Grouped \cup Nested)
AllTexts    == Texts({a, b}, 3) \cup {<<NullText[1]>>} \cup {<<a, 32, b, 0, 0>>}

FewPatterns == {NullText, G \o <<a, Star>> \o E \o <<b>>, G \o <<a>> \o E \o <<92, 49>>,
                <<Caret, a>>, <<92, 60, a>>, <<Open, a>>}
FewTexts    == {<<a, a, b, 0, 0>>, <<0, 0>>}

Documented == {<<a, Dot, c>>, <<Open, a, b, Close>>, <<Open, Caret, a, Close>>, <<a, Star>>,
               <<a, Plus>>, <<Caret, a>>, <<a, Dollar>>, G \o <<a, b>> \o E \o <<Star>>,
               G \o <<a>> \o E \o <<92, 49>>, <<92, 60, a>>, <<a, 92, 62>>}
BothFlags == BOOLEAN
NoFlags   == {FALSE}

(* Callers are alike, and so are handles; the properties of legacy_handles *)
(* are action properties.                                                  *)
Alike == Permutations(Callers) \cup Permutations(Handles)
=============================================================================
