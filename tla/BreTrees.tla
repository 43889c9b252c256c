------------------------------ MODULE BreTrees ------------------------------
(***************************************************************************)
(* Syntax trees of basic regular expressions, as the repository's model    *)
(* test builds them (scripts/test-bre-model.mjs), and the parse tree that  *)
(* the grammar in grammar/bre.ebnf gives the text of each.                 *)
(***************************************************************************)
EXTENDS BreLower

Lit(c)          == [tag |-> "literal", value |-> c]
Dot             == [tag |-> "any"]
Set(negative, ranges) == [tag |-> "class", negative |-> negative, ranges |-> ranges]
Caret           == [tag |-> "begin"]
Dollar          == [tag |-> "end"]
Ref(k)          == [tag |-> "reference", id |-> k]
Cat(items)      == [tag |-> "sequence", items |-> items]
Grp(items)      == [tag |-> "group", child |-> Cat(items)]
Rep(x, min, max) == [tag |-> "repeat", child |-> x, min |-> min, max |-> max]
Star(x)         == Rep(x, 0, Unbounded)

Node0(name, kids) == [name |-> name, value |-> 0, kids |-> kids]
Token(value)    == [name |-> "terminal", value |-> value, kids |-> <<>>]
Tokens(values)  == [k \in DOMAIN values |-> Token(values[k])]
Digits(n)       ==
  LET decimal == IF n < 10 THEN <<n>> ELSE IF n < 100 THEN <<n \div 10, n % 10>>
                 ELSE <<n \div 100, (n \div 10) % 10, n % 10>>
  IN [k \in DOMAIN decimal |-> 48 + decimal[k]]
Number(n)       == Node0("Number", Tokens(Digits(n)))
Backslash       == 92

Quantifier(min, max) ==
  LET open  == Tokens(<<Backslash, 123>>)
      close == Tokens(<<Backslash, 125>>)
      comma == <<Token(44)>>
  IN Node0("Quantifier",
       <<IF min = 0 /\ max = Unbounded THEN Node0("StarRepeat", Tokens(<<STAR>>))
         ELSE IF max = Unbounded
         THEN Node0("OpenRepeat", open \o <<Number(min)>> \o comma \o close)
         ELSE IF max = min THEN Node0("ExactRepeat", open \o <<Number(min)>> \o close)
         ELSE Node0("BoundedRepeat",
                open \o <<Number(min)>> \o comma \o <<Number(max)>> \o close)>>)

ClassElement(r) ==
  LET Scalar0(v) == Node0("ClassScalar", Tokens(<<v>>))
  IN Node0("ClassElement",
       <<IF r[1] = r[2] THEN Scalar0(r[1])
         ELSE Node0("Range", <<Scalar0(r[1]), Token(DASH), Scalar0(r[2])>>)>>)

RECURSIVE SequenceTree(_), AtomTree(_)

PieceTree(ast) ==
  CASE ast.tag = "begin" -> Node0("BeginAnchor", Tokens(<<94>>))
    [] ast.tag = "end"   -> Node0("EndAnchor", Tokens(<<36>>))
    [] ast.tag = "repeat" ->
         Node0("Piece", <<Node0("Atom", <<AtomTree(ast.child)>>), Quantifier(ast.min, ast.max)>>)
    [] OTHER -> Node0("Piece", <<Node0("Atom", <<AtomTree(ast)>>)>>)

SequenceTree(ast) ==
  Node0("Sequence", [k \in DOMAIN ast.items |-> PieceTree(ast.items[k])])

AtomTree(ast) ==
  CASE ast.tag = "literal"   -> Node0("Literal", Tokens(<<ast.value>>))
    [] ast.tag = "any"       -> Node0("Any", Tokens(<<46>>))
    [] ast.tag = "reference" -> Node0("Reference", Tokens(<<Backslash, 48 + ast.id>>))
    [] ast.tag = "tree"      -> ast.tree
    [] ast.tag = "class"     ->
         Node0("Class",
           <<Node0("ClassOpen", Tokens(<<91>>))>>
           \o (IF ast.negative THEN <<Node0("Negation", Tokens(<<94>>))>> ELSE <<>>)
           \o [k \in DOMAIN ast.ranges |-> ClassElement(ast.ranges[k])]
           \o Tokens(<<CLOSE>>))
    [] ast.tag = "group"     ->
         Node0("Group",
           <<Node0("GroupOpen", Tokens(<<Backslash, 40>>)), SequenceTree(ast.child),
             Node0("GroupClose", Tokens(<<Backslash, 41>>))>>)

(* The array of nodes the parser's events build, from number `at` on.      *)
RECURSIVE Flat(_, _, _)

Flat(tree, parent, at) ==
  LET below == FoldLeft(LAMBDA s, kid : s \o Flat(kid, at, at + 1 + Len(s)),
                        <<>>, tree.kids)
  IN <<[name |-> tree.name, value |-> tree.value, parent |-> parent,
        end |-> at + 1 + Len(below)]>> \o below

Parsed(ast) ==
  Flat(Node0("Input", <<IF ast.tag = "tree" THEN ast.tree ELSE SequenceTree(ast), Token(0)>>),
       NONE, 0)

(* The length of the text: every token of it but the last is one byte.     *)
TextLength(nodes) ==
  Cardinality({k \in DOMAIN nodes : nodes[k].name = "terminal"}) - 1
=============================================================================
