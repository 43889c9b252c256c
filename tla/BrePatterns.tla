---------------------------- MODULE BrePatterns ----------------------------
(***************************************************************************)
(* The patterns that the runs compile and match.                           *)
(***************************************************************************)
EXTENDS BreTrees

(* A compilation of the pattern `ast`                                      *)
SourceOf(ast) ==
  LET nodes == Parsed(ast)
  IN [nulls |-> {}, length |-> TextLength(nodes), limits |-> DefaultLimits,
      text |-> "OK", parse |-> "OK", nodes |-> nodes, ast |-> ast]

A == 97
B == 98
AB == <<<<A, B>>>>

(* The factors of the model test's trees, alone and in pairs               *)
Factors ==
  {Star(Dot), Star(Grp(<<Lit(A), Lit(B), Star(Lit(A))>>)), Lit(A), Lit(B),
   Star(Lit(A)), Rep(Lit(A), 0, 2), Rep(Lit(A), 1, 2), Grp(<<Star(Lit(A))>>),
   Star(Grp(<<Star(Lit(A))>>)), Rep(Grp(<<Star(Lit(A))>>), 2, 2),
   Star(Grp(<<Lit(A), Star(Grp(<<Lit(B)>>))>>)),
   Star(Grp(<<Grp(<<Star(Lit(A))>>), Star(Lit(B))>>))}

Singles == {Cat(<<f>>) : f \in Factors}
Pairs   == {Cat(<<f, g>>) : f \in Factors, g \in Factors}

Referring ==
  {Cat(<<Grp(<<f>>), Ref(1)>>) : f \in Factors}
  \cup {Cat(<<Grp(<<Star(Lit(A))>>), Grp(<<Star(Lit(A))>>), Ref(2), Ref(1)>>)}

(* Anchors, classes and every kind of quantifier, inside and outside groups*)
Others ==
  {Cat(<<Caret, Set(FALSE, AB), Dollar>>),
   Cat(<<Grp(<<Caret, Star(Lit(A))>>), Star(Set(TRUE, <<<<A, A>>>>)), Dollar>>),
   Cat(<<Star(Grp(<<Caret, Star(Lit(A)), Dollar>>))>>),
   Cat(<<Rep(Grp(<<Rep(Lit(A), 0, 1)>>), 2, 3), Ref(1)>>),
   Cat(<<Rep(Grp(<<Star(Lit(A))>>), 1, Unbounded), Rep(Ref(1), 0, 1)>>),
   Cat(<<Rep(Grp(<<Lit(A)>>), 0, 0), Lit(B)>>),
   Cat(<<>>)}

Samples ==
  {Cat(<<Star(Grp(<<Star(Lit(A))>>))>>), Cat(<<Grp(<<Rep(Dot, 1, 2)>>), Ref(1)>>),
   Cat(<<Star(Grp(<<Grp(<<Star(Set(FALSE, AB))>>), Star(Lit(B))>>))>>)}
-----------------------------------------------------------------------------
(* What only a parse tree can say: escapes, a star that comes first, and   *)
(* the elements of a class other than scalars and ranges of them.          *)
Raw(tree) == [tag |-> "tree", tree |-> tree]

Escaped(v)     == Raw(Node0("Escape", Tokens(<<Backslash, v>>)))
Unsupported(v) == Raw(Node0("UnsupportedEscape", Tokens(<<Backslash, v>>)))

Bracketed(elements) ==
  Raw(Node0("Class",
        <<Node0("ClassOpen", Tokens(<<91>>))>> \o elements \o Tokens(<<CLOSE>>)))

ClassNamed(name) ==
  Node0("ClassElement",
    <<Node0("NamedClass",
        Tokens(<<91, 58>>)
        \o <<[name |-> "ClassName", value |-> name, kids |-> Tokens(<<0>>)]>>
        \o Tokens(<<58, CLOSE>>))>>)

CollatingElement(name) ==
  Node0("ClassElement", <<Node0(name, Tokens(<<91, 46, 97, 46, CLOSE>>))>>)

FirstClose == Node0("InitialClose", Tokens(<<CLOSE>>))

FirstCloseTo(v) ==
  Node0("InitialCloseRange",
        Tokens(<<CLOSE, DASH>>) \o <<Node0("ClassScalar", Tokens(<<v>>))>>)

Lone(v) == ClassElement(<<v, v>>)

Brackets ==
  {Cat(<<Bracketed(e)>>) :
     e \in {<<ClassNamed(n)>> : n \in {"alpha", "punct", "unknown"}}
          \cup {<<CollatingElement(n)>> : n \in {"Collating", "Equivalence"}}
          \cup {<<FirstClose, Lone(A)>>, <<FirstCloseTo(A)>>, <<FirstCloseTo(A - 10)>>,
                <<Lone(DASH), Lone(A)>>, <<Lone(A), Lone(DASH)>>,
                <<Lone(A), Lone(DASH), Lone(B)>>,
                <<Lone(DASH), Lone(DASH), Lone(A)>>,
                <<ClassElement(<<A, B>>), Lone(DASH), ClassElement(<<B, A>>)>>}}

Intervals == {Cat(<<Rep(Lit(A), r[1], r[2])>>) :
                r \in {<<2, 1>>, <<255, 255>>, <<3, 255>>, <<99, Unbounded>>, <<256, 256>>}}

Nested(n) ==
  LET group[k \in 1 .. n] == Grp(IF k = 1 THEN <<Lit(A)>> ELSE <<group[k - 1], Dot>>)
  IN Cat(<<group[n]>>)

(* Three instructions to two bytes of text, and no pattern has more: what  *)
(* the room for the code must allow for                                    *)
Dense(n) == Cat([k \in 1 .. n |-> Star(Lit(A))])

References ==
  {Cat(<<Ref(1), Grp(<<Lit(A)>>)>>), Cat(<<Grp(<<Lit(A), Ref(1)>>)>>),
   Cat(<<Grp(<<Lit(A)>>), Ref(2)>>), Cat(<<Grp(<<Lit(A)>>), Ref(0)>>),
   Cat(<<Grp(<<Grp(<<Lit(A)>>), Ref(2)>>), Ref(1)>>),
   Cat(<<Star(Grp(<<Star(Grp(<<Lit(B)>>)), Ref(2)>>)), Star(Ref(1))>>)}

Escapes ==
  {Cat(<<Escaped(46), Star(Escaped(STAR))>>), Cat(<<Lit(A), Unsupported(43)>>),
   Cat(<<Grp(<<Unsupported(63)>>), Ref(2)>>)}

(* The grammar's own rule for * and *\{2\} at the start of a sequence       *)
StarFirst ==
  {Raw(Node0("Sequence",
     <<Node0("InitialStarPiece", <<Node0("InitialStar", Tokens(<<STAR>>))>> \o q)>>)) :
     q \in {<<>>, <<Quantifier(2, 2)>>}}
=============================================================================
