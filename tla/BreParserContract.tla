-------------------------- MODULE BreParserContract --------------------------
(***************************************************************************)
(* What the parser of basic regular expressions promises, as one step: the *)
(* tree that the grammar gives the tokens, when it gives one, and a status *)
(* that says why when there is none.                                       *)
(*                                                                         *)
(* The grammar (grammar/bre.ebnf) is read as ordered choice: the first     *)
(* alternative that applies is taken, and an optional part or a repetition *)
(* takes all it can.  There are no events here, nothing to take back and   *)
(* nothing remembered.                                                     *)
(***************************************************************************)
EXTENDS Integers, Sequences, FiniteSets

CONSTANTS
  Rules,          \* the grammar: the items of each rule by name
  RuleCount,
  MemoMax, MemoryMayFail, NodeLimit

VARIABLES tokens, verdict, tree

(* A parse is where it stopped and the trees it read, in preorder with the *)
(* size of each.                                                           *)
Failure           == [ok |-> FALSE, at |-> 0, trees |-> <<>>]
Success(i, trees) == [ok |-> TRUE, at |-> i, trees |-> trees]

Tree(name, token, below) == <<[name |-> name, token |-> token, size |-> Len(below) + 1]>> \o below

RECURSIVE Parse(_, _, _), ParseItems(_, _, _), ParseItem(_, _, _), First(_, _, _)

(* A rule, from token i of ts                                              *)
Parse(ts, r, i) ==
  LET body == ParseItems(ts, Rules[r].items, i)
  IN IF body.ok THEN Success(body.at, Tree(r, 0, body.trees)) ELSE Failure

(* The items in order, each from where the one before it stopped           *)
ParseItems(ts, items, i) ==
  IF items = <<>> THEN Success(i, <<>>)
  ELSE LET before == ParseItems(ts, SubSeq(items, 1, Len(items) - 1), i)
           last   == ParseItem(ts, items[Len(items)], before.at)
       IN IF before.ok /\ last.ok THEN Success(last.at, before.trees \o last.trees) ELSE Failure

ParseItem(ts, item, i) ==
  LET taken == i < Len(ts) /\ ts[i + 1] \in item.tokens
      token == Tree("none", i, <<>>)
      one   == Parse(ts, item.rules[1], i)
      Again(j) == ParseItem(ts, IF item.op = "plus" THEN [item EXCEPT !.op = "star"] ELSE item, j)
      Then(trees, rest) == Success(rest.at, trees \o rest.trees)
  IN CASE item.op = "call"     -> one
       [] item.op = "choice"   -> First(ts, item.rules, i)
       [] item.op = "take"     -> IF taken THEN Success(i + 1, token) ELSE Failure
       [] item.op = "optional" -> IF one.ok THEN one ELSE Success(i, <<>>)
       [] item.op = "takeAll"  -> IF taken THEN Then(token, Again(i + 1)) ELSE Success(i, <<>>)
       [] item.op \in {"star", "plus"} ->
            IF one.ok /\ one.at > i THEN Then(one.trees, Again(one.at))
            ELSE IF item.op = "star" THEN Success(i, <<>>)
            ELSE Failure

(* The first alternative that applies                                      *)
First(ts, rules, i) ==
  IF rules = <<>> THEN Failure
  ELSE LET one == Parse(ts, Head(rules), i)
       IN IF one.ok THEN one ELSE First(ts, Tail(rules), i)

(* The nodes of the array: each with its parent and where it ends          *)
Nodes(ts) ==
  LET trees  == Parse(ts, "Input", 0).trees
      End(k) == k - 1 + trees[k].size
      Above(k) == {j \in 1 .. k - 1 : End(j) >= k}
  IN [k \in DOMAIN trees |->
        [kind |-> IF trees[k].name = "none" THEN "terminal" ELSE "rule",
         name |-> trees[k].name, token |-> trees[k].token, end |-> End(k),
         parent |-> IF Above(k) = {} THEN -1
                    ELSE (CHOOSE j \in Above(k) : \A l \in Above(k) : l <= j) - 1]]
-----------------------------------------------------------------------------
(* A pattern that opens ten groups may be refused for that before it is    *)
(* found to be malformed, and so may one with too many tokens for the      *)
(* memo or for the nodes (four a token, and those of the calls).           *)
Openings(ts) ==
  {i \in 1 .. Len(ts) - 1 : ts[i] = "BACKSLASH" /\ ts[i + 1] = "LPAREN"}

TooLarge(ts) ==
  \/ RuleCount > MemoMax \div (Len(ts) + 1)
  \/ NodeLimit < 4 * Len(ts) + 48

Verdict(ts) ==
  LET whole == Parse(ts, "Input", 0)
  IN IF ~whole.ok \/ whole.at < Len(ts) THEN "BADPAT"
     ELSE IF \E k \in DOMAIN whole.trees : whole.trees[k].name = "DepthOverflow" THEN "LIMIT"
     ELSE "OK"

Allowed(status, ts) ==
  \/ status = "LIMIT" /\ TooLarge(ts)
  \/ status = "NOMEM" /\ MemoryMayFail
  \/ status = Verdict(ts)
  \/ status = "LIMIT" /\ Verdict(ts) = "BADPAT" /\ Cardinality(Openings(ts)) >= 10

Init == verdict = "none" /\ tree = <<>>

Next ==
  /\ verdict = "none"
  /\ verdict' \in {"OK", "BADPAT", "LIMIT", "NOMEM"}
  /\ Allowed(verdict', tokens)
  /\ tree' = IF verdict' = "OK" THEN Nodes(tokens) ELSE <<>>
  /\ UNCHANGED tokens

Spec == Init /\ [][Next]_<<tokens, verdict, tree>>
=============================================================================
