------------------------------ MODULE BreGrammar ------------------------------
(***************************************************************************)
(* The rules of basic regular expressions as the generated parser holds    *)
(* them (generated/bre-parser.hpp): one function per rule there, one       *)
(* definition per rule here.  No state; BreParser runs them.               *)
(*                                                                         *)
(* A rule is the items its function works through, in order.  Alternatives *)
(* that are single tokens have no effect until one is taken and begin with *)
(* different tokens, so they are one item, the set of them.  `stem` is the *)
(* rule's name without the depth, as bre_numbered reads it.                *)
(***************************************************************************)
EXTENDS Naturals, Sequences

Item(op, rules, tokens) == [op |-> op, rules |-> rules, tokens |-> tokens]

Take(tokens)    == Item("take", <<>>, tokens)     \* expectToken of one of them
TakeAll(tokens) == Item("takeAll", <<>>, tokens)  \* while (matchToken) {}
Call(r)         == Item("call", <<r>>, {})
Optional(r)     == Item("optional", <<r>>, {})
Star(r)         == Item("star", <<r>>, {})
Plus(r)         == Item("plus", <<r>>, {})
Choice(rs)      == Item("choice", rs, {})         \* the first that succeeds

Rule(stem, items) == [stem |-> stem, items |-> items]

SequenceRule(piece) ==
  Rule("Sequence", <<Optional("BeginAnchor"), Optional("InitialStarPiece"), Star(piece),
                     Optional("EndAnchor")>>)

PieceRule(atom) == Rule("Piece", <<Call(atom), Optional("Quantifier")>>)

AtomRule(group) ==
  Rule("Atom", <<Choice(<<group, "Class", "Any", "Reference", "Escape",
                          "UnsupportedEscape", "Literal">>)>>)

GroupRule(sequence) ==
  Rule("Group", <<Call("GroupOpen"), Call(sequence), Call("GroupClose")>>)

(* The tokens that every scalar of a bracket expression may be             *)
Plain ==
  {"LETTER", "DIGIT", "CHAR", "PLUS", "QUESTION", "PIPE", "LPAREN", "RPAREN", "LBRACE",
   "RBRACE", "DASH", "COLON", "COMMA", "CARET", "DOLLAR", "END_DOLLAR", "STAR",
   "BACKSLASH", "OPEN"}

TokenTypes == Plain \cup {"EQUAL", "DOT", "CLOSE", "OPEN_SPECIAL", "EOF"}
-----------------------------------------------------------------------------
Input == Rule("Input", <<Call("Sequence0"), Take({"EOF"})>>)

Sequence0 == SequenceRule("Piece0")
Piece0    == PieceRule("Atom0")
Atom0     == AtomRule("Group0")
\* variant with a fault: the group does not count
Group0Flat == GroupRule("Sequence0")
Group0    == GroupRule("Sequence1")
Sequence1 == SequenceRule("Piece1")
Piece1    == PieceRule("Atom1")
Atom1     == AtomRule("Group1")
Group1    == GroupRule("Sequence2")
Sequence2 == SequenceRule("Piece2")
Piece2    == PieceRule("Atom2")
Atom2     == AtomRule("Group2")
Group2    == GroupRule("Sequence3")
Sequence3 == SequenceRule("Piece3")
Piece3    == PieceRule("Atom3")
Atom3     == AtomRule("Group3")
Group3    == GroupRule("Sequence4")
Sequence4 == SequenceRule("Piece4")
Piece4    == PieceRule("Atom4")
Atom4     == AtomRule("Group4")
Group4    == GroupRule("Sequence5")
Sequence5 == SequenceRule("Piece5")
Piece5    == PieceRule("Atom5")
Atom5     == AtomRule("Group5")
Group5    == GroupRule("Sequence6")
Sequence6 == SequenceRule("Piece6")
Piece6    == PieceRule("Atom6")
Atom6     == AtomRule("Group6")
Group6    == GroupRule("Sequence7")
Sequence7 == SequenceRule("Piece7")
Piece7    == PieceRule("Atom7")
Atom7     == AtomRule("Group7")
Group7    == GroupRule("Sequence8")
Sequence8 == SequenceRule("Piece8")
Piece8    == PieceRule("Atom8")
Atom8     == AtomRule("Group8")
Group8    == GroupRule("Sequence9")
Sequence9 == SequenceRule("Piece9")
Piece9    == PieceRule("Atom9")
Atom9     == AtomRule("DepthOverflow")
-----------------------------------------------------------------------------
DepthOverflow == Rule("DepthOverflow", <<Call("GroupOpen")>>)
BeginAnchor   == Rule("BeginAnchor", <<Take({"CARET"})>>)
EndAnchor     == Rule("EndAnchor", <<Take({"END_DOLLAR"})>>)
InitialStarPiece == Rule("InitialStarPiece", <<Call("InitialStar"), Optional("Quantifier")>>)
InitialStar   == Rule("InitialStar", <<Take({"STAR"})>>)
GroupOpen     == Rule("GroupOpen", <<Take({"BACKSLASH"}), Take({"LPAREN"})>>)
GroupClose    == Rule("GroupClose", <<Take({"BACKSLASH"}), Take({"RPAREN"})>>)
Any           == Rule("Any", <<Take({"DOT"})>>)
Reference     == Rule("Reference", <<Take({"BACKSLASH"}), Take({"DIGIT"})>>)

Escape ==
  Rule("Escape",
    <<Take({"BACKSLASH"}),
      Take({"BACKSLASH", "DOT", "CARET", "DOLLAR", "END_DOLLAR", "OPEN", "OPEN_SPECIAL",
            "CLOSE", "STAR"})>>)

UnsupportedEscape ==
  Rule("UnsupportedEscape",
    <<Take({"BACKSLASH"}),
      Take({"PLUS", "QUESTION", "PIPE", "LETTER", "CHAR", "DASH", "COLON", "EQUAL",
            "COMMA"})>>)

Literal ==
  Rule("Literal",
    <<Take({"LETTER", "DIGIT", "CHAR", "PLUS", "QUESTION", "PIPE", "LPAREN", "RPAREN",
            "LBRACE", "RBRACE", "DASH", "COLON", "EQUAL", "COMMA", "CARET", "DOLLAR",
            "CLOSE"})>>)
-----------------------------------------------------------------------------
Quantifier ==
  Rule("Quantifier",
    <<Choice(<<"StarRepeat", "ExactRepeat", "OpenRepeat", "BoundedRepeat">>)>>)

StarRepeat    == Rule("StarRepeat", <<Take({"STAR"})>>)

ExactRepeat ==
  Rule("ExactRepeat",
    <<Take({"BACKSLASH"}), Take({"LBRACE"}), Call("Number"),
      Take({"BACKSLASH"}), Take({"RBRACE"})>>)

OpenRepeat ==
  Rule("OpenRepeat",
    <<Take({"BACKSLASH"}), Take({"LBRACE"}), Call("Number"), Take({"COMMA"}),
      Take({"BACKSLASH"}), Take({"RBRACE"})>>)

BoundedRepeat ==
  Rule("BoundedRepeat",
    <<Take({"BACKSLASH"}), Take({"LBRACE"}), Call("Number"), Take({"COMMA"}),
      Call("Number"), Take({"BACKSLASH"}), Take({"RBRACE"})>>)

Number        == Rule("Number", <<Take({"DIGIT"}), TakeAll({"DIGIT"})>>)
-----------------------------------------------------------------------------
Class ==
  Rule("Class",
    <<Call("ClassOpen"), Optional("Negation"),
      Choice(<<"InitialCloseRange", "InitialClose", "ClassElement">>),
      Star("ClassElement"), Take({"CLOSE"})>>)

ClassOpen     == Rule("ClassOpen", <<Take({"OPEN", "OPEN_SPECIAL"})>>)
Negation      == Rule("Negation", <<Take({"CARET"})>>)

InitialCloseRange ==
  Rule("InitialCloseRange", <<Take({"CLOSE"}), Take({"DASH"}), Call("ClassScalar")>>)

InitialClose  == Rule("InitialClose", <<Take({"CLOSE"})>>)

ClassElement ==
  Rule("ClassElement",
    <<Choice(<<"NamedClass", "Collating", "Equivalence", "Range", "ClassScalar">>)>>)

NamedClass ==
  Rule("NamedClass",
    <<Take({"OPEN_SPECIAL"}), Take({"COLON"}), Call("ClassName"), Take({"COLON"}),
      Take({"CLOSE"})>>)

ClassName     == Rule("ClassName", <<Take({"LETTER"}), TakeAll({"LETTER"})>>)

Collating ==
  Rule("Collating",
    <<Take({"OPEN_SPECIAL"}), Take({"DOT"}), Plus("CollatingScalar"), Take({"DOT"}),
      Take({"CLOSE"})>>)

Equivalence ==
  Rule("Equivalence",
    <<Take({"OPEN_SPECIAL"}), Take({"EQUAL"}), Plus("EquivalenceScalar"), Take({"EQUAL"}),
      Take({"CLOSE"})>>)

CollatingScalar   == Rule("CollatingScalar", <<Take(Plain \cup {"EQUAL"})>>)
EquivalenceScalar == Rule("EquivalenceScalar", <<Take(Plain \cup {"DOT"})>>)
Range             == Rule("Range", <<Call("ClassScalar"), Take({"DASH"}), Call("ClassScalar")>>)
ClassScalar       == Rule("ClassScalar", <<Take(Plain \cup {"DOT", "EQUAL"})>>)
-----------------------------------------------------------------------------
(* The rules by name; the memo of failures has a row for each.             *)
RuleNames ==
  {"Input", "Sequence0", "Piece0", "Atom0", "Group0", "Sequence1", "Piece1",
   "Atom1", "Group1", "Sequence2", "Piece2", "Atom2", "Group2", "Sequence3",
   "Piece3", "Atom3", "Group3", "Sequence4", "Piece4", "Atom4", "Group4",
   "Sequence5", "Piece5", "Atom5", "Group5", "Sequence6", "Piece6", "Atom6",
   "Group6", "Sequence7", "Piece7", "Atom7", "Group7", "Sequence8", "Piece8",
   "Atom8", "Group8", "Sequence9", "Piece9", "Atom9", "DepthOverflow",
   "BeginAnchor", "EndAnchor", "InitialStarPiece", "InitialStar", "GroupOpen",
   "GroupClose", "Any", "Reference", "Escape", "UnsupportedEscape", "Literal",
   "Quantifier", "StarRepeat", "ExactRepeat", "OpenRepeat", "BoundedRepeat",
   "Number", "Class", "ClassOpen", "Negation", "InitialCloseRange",
   "InitialClose", "ClassElement", "NamedClass", "ClassName", "Collating",
   "Equivalence", "CollatingScalar", "EquivalenceScalar", "Range",
   "ClassScalar"}

Rules ==
  [r \in RuleNames |->
     CASE r = "Input"              -> Input
       [] r = "Sequence0"          -> Sequence0
       [] r = "Piece0"             -> Piece0
       [] r = "Atom0"              -> Atom0
       [] r = "Group0"             -> Group0
       [] r = "Sequence1"          -> Sequence1
       [] r = "Piece1"             -> Piece1
       [] r = "Atom1"              -> Atom1
       [] r = "Group1"             -> Group1
       [] r = "Sequence2"          -> Sequence2
       [] r = "Piece2"             -> Piece2
       [] r = "Atom2"              -> Atom2
       [] r = "Group2"             -> Group2
       [] r = "Sequence3"          -> Sequence3
       [] r = "Piece3"             -> Piece3
       [] r = "Atom3"              -> Atom3
       [] r = "Group3"             -> Group3
       [] r = "Sequence4"          -> Sequence4
       [] r = "Piece4"             -> Piece4
       [] r = "Atom4"              -> Atom4
       [] r = "Group4"             -> Group4
       [] r = "Sequence5"          -> Sequence5
       [] r = "Piece5"             -> Piece5
       [] r = "Atom5"              -> Atom5
       [] r = "Group5"             -> Group5
       [] r = "Sequence6"          -> Sequence6
       [] r = "Piece6"             -> Piece6
       [] r = "Atom6"              -> Atom6
       [] r = "Group6"             -> Group6
       [] r = "Sequence7"          -> Sequence7
       [] r = "Piece7"             -> Piece7
       [] r = "Atom7"              -> Atom7
       [] r = "Group7"             -> Group7
       [] r = "Sequence8"          -> Sequence8
       [] r = "Piece8"             -> Piece8
       [] r = "Atom8"              -> Atom8
       [] r = "Group8"             -> Group8
       [] r = "Sequence9"          -> Sequence9
       [] r = "Piece9"             -> Piece9
       [] r = "Atom9"              -> Atom9
       [] r = "DepthOverflow"      -> DepthOverflow
       [] r = "BeginAnchor"        -> BeginAnchor
       [] r = "EndAnchor"          -> EndAnchor
       [] r = "InitialStarPiece"   -> InitialStarPiece
       [] r = "InitialStar"        -> InitialStar
       [] r = "GroupOpen"          -> GroupOpen
       [] r = "GroupClose"         -> GroupClose
       [] r = "Any"                -> Any
       [] r = "Reference"          -> Reference
       [] r = "Escape"             -> Escape
       [] r = "UnsupportedEscape"  -> UnsupportedEscape
       [] r = "Literal"            -> Literal
       [] r = "Quantifier"         -> Quantifier
       [] r = "StarRepeat"         -> StarRepeat
       [] r = "ExactRepeat"        -> ExactRepeat
       [] r = "OpenRepeat"         -> OpenRepeat
       [] r = "BoundedRepeat"      -> BoundedRepeat
       [] r = "Number"             -> Number
       [] r = "Class"              -> Class
       [] r = "ClassOpen"          -> ClassOpen
       [] r = "Negation"           -> Negation
       [] r = "InitialCloseRange"  -> InitialCloseRange
       [] r = "InitialClose"       -> InitialClose
       [] r = "ClassElement"       -> ClassElement
       [] r = "NamedClass"         -> NamedClass
       [] r = "ClassName"          -> ClassName
       [] r = "Collating"          -> Collating
       [] r = "Equivalence"        -> Equivalence
       [] r = "CollatingScalar"    -> CollatingScalar
       [] r = "EquivalenceScalar"  -> EquivalenceScalar
       [] r = "Range"              -> Range
       [] r = "ClassScalar"        -> ClassScalar]

RuleCount == 72
=============================================================================
