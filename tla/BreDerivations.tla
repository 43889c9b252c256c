---------------------------- MODULE BreDerivations ----------------------------
(***************************************************************************)
(* What the grammar of basic regular expressions gives a sequence of       *)
(* tokens, as a set of facts that is closed under the rules: which rule    *)
(* reads which tokens into which trees, and which rule fails where.  The   *)
(* grammar is read as ordered choice, as the rule functions of the         *)
(* generated parser are: the first alternative that applies is taken, and  *)
(* an optional part or a loop takes all it can.  There is no position, no  *)
(* event, nothing to take back and nothing remembered here.                *)
(*                                                                         *)
(* D is three sets.  D.parts: a rule that has started somewhere has come   *)
(* to an item, having read these trees.  D.ends: a rule has read these     *)
(* trees and stopped there.  D.fails: a rule fails there.  The facts that  *)
(* are in every closed D are those that the rules force, no others.        *)
(***************************************************************************)
EXTENDS BreGrammar

(* Trees in preorder, each node with its size                              *)
Leaf(i)    == <<[kind |-> "terminal", name |-> "none", token |-> i, size |-> 1]>>
Tree(r, w) == <<[kind |-> "rule", name |-> r, token |-> 0, size |-> Len(w) + 1]>> \o w

(* Rule r started at s and is at its item i, where it has read the trees w *)
(* up to token p; n is 1 when a loop that is item i has gone round.        *)
Part(r, s, i, n, p, w) ==
  [rule |-> r, start |-> s, item |-> i, taken |-> n, at |-> p, trees |-> w]

Whole(r, s, p, w) == [rule |-> r, start |-> s, at |-> p, trees |-> w]

Onward(x, p, w) == Part(x.rule, x.start, x.item + 1, 0, p, w)
Again(x, n, p, w) == Part(x.rule, x.start, x.item, n, p, w)

Failed(D, r, i) == <<r, i>> \in D.fails
-----------------------------------------------------------------------------
(* What the item c of the rule does from the part x                        *)
Reads(ts, c, x) == x.at < Len(ts) /\ ts[x.at + 1] \in c.tokens

Takes(D, ts, c, x) ==
  IF Reads(ts, c, x) THEN Onward(x, x.at + 1, x.trees \o Leaf(x.at)) \in D.parts
  ELSE Failed(D, x.rule, x.start)

TakesAll(D, ts, c, x) ==
  IF Reads(ts, c, x) THEN Again(x, x.taken, x.at + 1, x.trees \o Leaf(x.at)) \in D.parts
  ELSE Onward(x, x.at, x.trees) \in D.parts

(* It goes on with what rule r reads there ...                             *)
Follows(D, r, x) ==
  \A e \in D.ends :
    e.rule = r /\ e.start = x.at => Onward(x, e.at, x.trees \o e.trees) \in D.parts

Calls(D, c, x) ==
  /\ Follows(D, c.rules[1], x)
  /\ Failed(D, c.rules[1], x.at) => Failed(D, x.rule, x.start)

Tries(D, c, x) ==
  /\ Follows(D, c.rules[1], x)
  /\ Failed(D, c.rules[1], x.at) => Onward(x, x.at, x.trees) \in D.parts

(* ... with what the first alternative that applies reads ...              *)
Chooses(D, c, x) ==
  /\ \A a \in 1 .. Len(c.rules) :
       (\A b \in 1 .. a - 1 : Failed(D, c.rules[b], x.at)) => Follows(D, c.rules[a], x)
  /\ (\A a \in 1 .. Len(c.rules) : Failed(D, c.rules[a], x.at)) => Failed(D, x.rule, x.start)

(* ... or round again while the body reads tokens.  A "plus" that has not  *)
(* gone round fails when it cannot.                                        *)
Loops(D, c, x) ==
  LET unmet == c.op = "plus" /\ x.taken = 0
  IN /\ \A e \in D.ends :
          e.rule = c.rules[1] /\ e.start = x.at =>
            IF e.at # x.at THEN Again(x, 1, e.at, x.trees \o e.trees) \in D.parts
            ELSE IF unmet THEN Failed(D, x.rule, x.start)
            ELSE Onward(x, e.at, x.trees \o e.trees) \in D.parts
     /\ Failed(D, c.rules[1], x.at) =>
          IF unmet THEN Failed(D, x.rule, x.start) ELSE Onward(x, x.at, x.trees) \in D.parts
-----------------------------------------------------------------------------
(* Every rule can start anywhere, and what the items lead to is there; a   *)
(* rule through with its items has read the tree of their trees.           *)
Starts(D, ts) ==
  \A r \in RuleNames : \A i \in 0 .. Len(ts) : Part(r, i, 1, 0, i, <<>>) \in D.parts

GoesOn(D, ts, x) ==
  LET items == Rules[x.rule].items
      c     == items[x.item]
  IN IF x.item > Len(items)
     THEN Whole(x.rule, x.start, x.at, Tree(x.rule, x.trees)) \in D.ends
     ELSE /\ c.op = "take" => Takes(D, ts, c, x)
          /\ c.op = "takeAll" => TakesAll(D, ts, c, x)
          /\ c.op = "call" => Calls(D, c, x)
          /\ c.op = "optional" => Tries(D, c, x)
          /\ c.op = "choice" => Chooses(D, c, x)
          /\ c.op \in {"star", "plus"} => Loops(D, c, x)

Closed(D, ts) == Starts(D, ts) /\ \A x \in D.parts : GoesOn(D, ts, x)
=============================================================================
