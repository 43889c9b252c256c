------------------------------ MODULE MCBreSession ------------------------------
(***************************************************************************)
(* Instances of BreSession for TLC: the patterns and the calls of each     *)
(* run, and the contract the executor is shown to implement.               *)
(***************************************************************************)
EXTENDS BreSession, BrePatterns

C == INSTANCE BreContract WITH output <- IF status = "none" THEN <<>> ELSE output

(* The executor answers each call as the contract says: with the leftmost, *)
(* longest, first ranked match of the pattern's denotation, with captures  *)
(* to match, or with a refusal the arguments or budgets account for.       *)
ImplementsContract == C!Spec

Compiling == INSTANCE BreCompileContract

(* Compilation accepts exactly the patterns of the profile, and refuses    *)
(* the others for a defect they have, whatever node is lowered first.      *)
CompilesByContract == Compiling!Spec

(* A match of the pattern `ast`                                            *)
Question(ast, in) ==
  [nulls |-> {}, ast |-> ast, input |-> in, start_byte |-> 0, mode |-> "SEARCH",
   limits |-> DefaultLimits, capacity |-> MaxCaptures + 1]

Ascii(values) ==
  [k \in DOMAIN values |-> [value |-> values[k], width |-> 1, status |-> "OK"]]

Words(n) == UNION {[1 .. k -> {A, B}] : k \in 0 .. n}

MatchSources == {SourceOf(ast) : ast \in Singles \cup Pairs \cup Referring \cup Others}

(* Calls with room for everything: the answer must be the denotation.      *)
MatchQuestions(s) ==
  {Question(s.ast, Ascii(w)) :
     w \in IF s.ast \in Pairs THEN {<<A, A>>, <<A, A, B>>, <<A, B, A>>} ELSE Words(3)}
  \cup {[Question(s.ast, Ascii(<<A, B, A>>)) EXCEPT !.start_byte = n, !.mode = mode] :
          mode \in IF s.ast \in Others THEN {"SEARCH", "ANCHORED"} ELSE {}, n \in 0 .. 3}

With(field, n) == [DefaultLimits EXCEPT ![field] = n]

(* Budgets around what the calls need                                      *)
Budgets ==
  {With("max_steps", n) : n \in 0 .. 80}
  \cup {With("max_frames", n) : n \in 1 .. 4}
  \cup {With("max_workspace_bytes", BaseBytes + n) :
          n \in {0, 23, 24, 63, 64, 150, 300, 399, 400, 500, 700, 900, 1200, 1600, 2400}}
  \cup {With("max_repeat", 1), With("max_captures", 10), With("max_input_bytes", 1),
        With("max_instructions", 4), With("max_parse_depth", 1)}

Bad(width, s) == [value |-> 0, width |-> width, status |-> s]
Wide == [value |-> 233, width |-> 2, status |-> "OK"]

(* Budgets around what a compilation needs                                 *)
Tight ==
  {With("max_steps", n) : n \in 0 .. 70}
  \cup {With("max_instructions", n) : n \in 1 .. 9}
  \cup {With("max_ranges", n) : n \in 1 .. 2}
  \cup {With("max_workspace_bytes", ScratchBytes - n) : n \in 0 .. 1}
  \cup {With("max_pattern_bytes", n) : n \in {1, 1025}}
  \cup {With("max_captures", 1), With("max_parse_depth", 1), With("max_repeat", 1)}

Patterns ==
  Singles \cup Referring \cup Others \cup Samples \cup Brackets \cup Intervals
  \cup References \cup Escapes \cup StarFirst \cup {Nested(3), Dense(20)}

Sample ==
  Cat(<<Star(Grp(<<Grp(<<Star(Set(FALSE, <<<<A, A>>, <<B, B>>, <<B, B>>>>))>>), Lit(B)>>)),
        Rep(Ref(2), 1, 2)>>)

(* Every pattern with the default budgets, and what else there is to pass  *)
Cases ==
  (Patterns \X {"none"} \X {DefaultLimits})
  \cup ({Sample} \X {"none"} \X Tight)
  \cup ({Sample} \X {"pattern", "output", "text", "parse"} \X {DefaultLimits})

RefusableSources ==
  UNION {{[s EXCEPT !.limits = x[3],
                    !.nulls = {x[2]} \cap {"pattern", "output"},
                    !.text = t, !.parse = e] :
            t \in IF x[2] = "text" THEN {"ENCODING", "ARGUMENT"} ELSE {"OK"},
            e \in IF x[2] = "parse" THEN {"BADPAT", "NOMEM", "LIMIT"} ELSE {"OK"},
            s \in {SourceOf(x[1])}} : x \in Cases}

RefusableQuestions(s) ==
  LET base == Question(s.ast, Ascii(<<A, A>>))
  IN IF s \notin {SourceOf(ast) : ast \in Samples} THEN {}
     ELSE {[base EXCEPT !.limits = l] : l \in Budgets}
     \cup {[base EXCEPT !.nulls = {n}] : n \in {"program", "input", "output"}}
     \cup {[base EXCEPT !.capacity = n] : n \in {0, 1, 11}}
     \cup {[base EXCEPT !.mode = "NEITHER"]}
     \cup {[base EXCEPT !.input = in, !.start_byte = n] : n \in 0 .. 4,
             in \in {<<Wide, Wide>>, <<Bad(1, "ENCODING")>>,
                     Ascii(<<A>>) \o <<Bad(1, "ARGUMENT")>>}}
=============================================================================
