-------------------------- MODULE LegacyReference ---------------------------
(***************************************************************************)
(* What a program of the legacy API means on a subject, without a search:  *)
(* every closure is given a length, which fixes where each instruction     *)
(* stands, and then all instructions have to hold.  Of the lengths that    *)
(* fit, the answer has the first closure as long as possible, then the     *)
(* second, and so on; and of the starts that fit, the first.               *)
(***************************************************************************)
EXTENDS LegacyProgram

Lowest(set)  == CHOOSE i \in set : \A j \in set : i <= j
Char(s, i) == IF i \in 0 .. Len(s) - 1 THEN s[i + 1] ELSE NUL
TextLength(s) == Lowest({i \in 0 .. Len(s) - 1 : s[i + 1] = NUL})

(* The instructions from the k-th on that one branch is made of            *)
Branch(nfa, k) ==
  SubSeq(nfa, k, Lowest({i \in k .. Len(nfa) : nfa[i].op \in {"END", "ALT"}}) - 1)

First(nfa, notbol) == IF notbol THEN Lowest({k \in DOMAIN nfa : nfa[k].op # "BOL"}) ELSE 1

TagPlace(b, op, n) == Lowest({k \in DOMAIN b : b[k].op = op /\ b[k].arg = n})

(* Where the instructions of branch b stand from a start, given lengths    *)
Places(b, start, lengths) ==
  LET place[k \in 1 .. Len(b) + 1] ==
        IF k = 1 THEN start
        ELSE place[k - 1] +
               CASE b[k - 1].op \in Consuming -> 1
                 [] b[k - 1].op = "CLO" -> lengths[k - 1]
                 [] b[k - 1].op = "REF" ->
                      LET n == b[k - 1].arg
                          e == {j \in 1 .. k - 1 : b[j].op = "EOT" /\ b[j].arg = n}
                      IN IF e = {} THEN 0      \* the group is still open
                         ELSE place[Lowest(e)] - place[TagPlace(b, "BOT", n)]
                 [] OTHER -> 0
  IN place

Fits(b, s, place) ==
  \A k \in DOMAIN b :
    LET at == place[k]
        x  == Char(s, at)
        after == at > 0 /\ Char(s, at - 1) \in Word
    IN CASE b[k].op \in Consuming -> Takes(b[k], x)
         [] b[k].op = "CLO" ->
              \A i \in at .. place[k + 1] - 1 : TakesMore(b[k].arg, Char(s, i))
         [] b[k].op = "BOL" -> at = 0
         [] b[k].op = "EOL" -> x = NUL
         [] b[k].op = "BOW" -> ~after /\ x \in Word
         [] b[k].op = "EOW" -> after /\ x \notin Word
         [] b[k].op = "REF" ->
              LET from == place[TagPlace(b, "BOT", b[k].arg)]
              IN \A i \in 0 .. place[k + 1] - at - 1 : Char(s, from + i) = Char(s, at + i)
         [] OTHER -> TRUE

Closures(b) == {k \in DOMAIN b : b[k].op = "CLO"}

(* The placements of branch b from a start                                 *)
Fitting(b, s, start) ==
  {l \in [Closures(b) -> 0 .. TextLength(s)] : Fits(b, s, Places(b, start, l))}

Preferred(l, m) ==
  l = m \/ \E k \in DOMAIN l : l[k] > m[k] /\ \A j \in DOMAIN l : j < k => l[j] = m[j]

Spans(b, s, start, nsub) ==
  LET fitting == Fitting(b, s, start)
      place   == Places(b, start, CHOOSE l \in fitting : \A m \in fitting : Preferred(l, m))
      Tagged(n) == \E k \in DOMAIN b : b[k].op = "EOT" /\ b[k].arg = n
  IN <<<<start, place[Len(b) + 1]>>>> \o
     [n \in 1 .. nsub |-> IF Tagged(n)
                          THEN <<place[TagPlace(b, "BOT", n)], place[TagPlace(b, "EOT", n)]>>
                          ELSE <<-1, -1>>]

(* The starts that regexec tries: all but the end of a text, which it      *)
(* tries of an empty one only.                                             *)
Tried(s) == {i \in 0 .. TextLength(s) : i < TextLength(s) \/ i = 0}

(* The answer to a search: the spans of the match and of its groups, or    *)
(* none.                                                                   *)
Denotation(nfa, nsub, s, notbol) ==
  LET b == Branch(nfa, First(nfa, notbol))
      starts == {i \in Tried(s) : Fitting(b, s, i) # {}}
  IN IF starts = {} \/ nfa[First(nfa, notbol)].op = "END"
     THEN [result |-> "NOMATCH", match |-> <<>>]
     ELSE [result |-> "NOERROR", match |-> Spans(b, s, Lowest(starts), nsub)]
=============================================================================
