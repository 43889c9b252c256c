# A verification development for maiaregex

TLA+ models of maiaregex, TLC runs over small instances of them, and TLAPS
proofs of the properties that matter most. Every definition is translated from
the C and C++ sources; `PROJECT.json` maps each one to the lines it stands for.

## 1. The system

| component | files | state it keeps | operations |
|---|---|---|---|
| ordered engine | `maia_regex.c`, `maia_regex.h` | per call: frame stack, memo (dense array or hash table), cycle epoch, step count | `maia_regex_validate`, `maia_regex_exec` |
| BRE executor | `maia_bre.c`, `maia_bre_history.h`, `maia_bre_internal.h` | per call: decoded input, current and best state, backtrack stack, arena of scope histories with reference counts and a free list, priority buffers, step and workspace accounts | `maia_bre_exec_utf8` |
| BRE lowering | `maia_bre_compile.cpp` | per call: syntax nodes, program under construction | `maia_bre_compile_utf8`, `bre_lower` |
| BRE parse events | `maia_bre_compile.cpp` 10-56 | the node array, its count, the innermost open node, two marks of failure | `bre_start`, `bre_terminal`, `bre_end`, `bre_checkpoint`, `bre_restore` |
| BRE lexer and parser | `generated/bre-parser.hpp` (from `grammar/bre.ebnf`) | UTF-16 units, token array, parser position, memo of failed rules | `maiaCCLexerTokenize`, `maiaCC_parse` |
| UTF-8 decoder | `maia_bre.c` 17-31 | none | `bre_utf8_next`, `bre_text_check` |
| BRE handles | `maia_bre.h`, `maia_bre.c` 6-33 | a program, immutable after compilation | `maia_bre_info`, `maia_bre_free`, limits |
| legacy engine | `regex.c`, `regex.h` | `regex_t`: byte code, tags of groups, start of line | `regcomp`, `regexec`, `regerror`, `regfree` |
| C transpile of the BRE compiler | `generated/bre-compiler.c`, `generated/bre-prefix.hpp`, `generated/bre-unprefix.hpp` | as lowering and parser | as lowering and parser |
| JavaScript parser, scripts, tests | `generated/bre-parser.cjs`, `scripts/`, `tests/`, `test_*` | none at run time | |

Interactions. A BRE pattern goes through a pipeline inside one call of
`maia_bre_compile_utf8`: `bre_text_check` looks at its bytes; the lexer decodes
them a second time and cuts them into tokens by running 23 small programs on
the **ordered engine**; the parser reads the tokens and tells the event sink
what it tries, and takes back what it abandons; the lowering walks the nodes the
sink kept and lays the program. The program is immutable and is all that
`maia_bre_exec_utf8` and the handles see. Within the ordered engine the search
calls `maia_regex_memo_slot` once per turn and writes through the pointer it
gets until the turn ends. The legacy engine stands alone; it writes its match
state into the `regex_t` that its caller passes as const.

Nothing persists and no component starts a thread, so crash recovery and lost
messages do not arise. What is hard here is this:

* a depth-first search with an explicit stack, a memo and cycle cutting, whose
  results may depend on the active frames (ordered engine);
* growth of stack, table, arena and buffers under byte, frame and step budgets
  with every allocation able to fail half way (ordered engine, BRE executor);
* reference-counted histories whose slots are reused while other histories
  point into them by index (BRE executor);
* choice of captures by comparing whole histories, not by first success (BRE
  executor);
* nested counted repetition with empty iterations (BRE lowering and executor);
* speculative parsing whose events must be rolled back, with a memo of failures
  that holds for whoever asks next (BRE parser and events);
* two decoders of one text that have to agree, and a token array sized by bytes
  and filled by UTF-16 units (lexer);
* a match state kept in a shared handle (legacy engine).

What makes each component correct:

* *ordered engine*: it returns what the memo-free recursive search returns, or
  refuses a resource; it ends on every program; a stored result holds in every
  context; nothing leaks and no size wraps;
* *BRE executor*: the reported match starts at the first start that has one,
  is longest there, and its captures are the best history's; accounts equal
  what is allocated; the arena neither leaks nor dangles;
* *BRE lowering*: the program denotes the pattern; targets and group ranges are
  inside the program; failure leaves `*output` alone;
* *BRE parser and events*: it accepts what the grammar derives, and the nodes
  left are those of the derivation, whatever was tried before; the node array
  is large enough for every pattern let through;
* *UTF-8 decoder and lexer*: exactly the well-formed texts pass, the second
  decoder refuses none of them, and the tokens are the scalars, one by one;
* *legacy engine*: it answers what the byte code means, whatever tags earlier
  attempts and calls left behind; calls that overlap on one handle disturb each
  other in group spans and in what references, `^` and word tests find, and in
  nothing else.

## 2. Modules

The ordered engine:

* `OrderedProgram` — programs, `maia_regex_validate`, the test of one unit.
* `OrderedExec` — `maia_regex_exec` as a state machine, with its properties.
  A turn of the C loop is three steps: `Turn` (step budget and `memo_slot`),
  one dispatch action for the branch of the code that is taken (`CutCycle`,
  `Reuse`, `Accept`, `EnterSplit`, ... `Done`), and `Descend` if the branch
  asked for a child frame. Every allocation may fail; `heap` is the set of
  blocks the call owns; `frames`, `memo`, `last`, `epoch`, `steps`, `result`
  are the variables of the C function. Of the sparse table only the occupied
  cells (`keys`) and the capacity (`slots`) are kept.
* `OrderedReference` — the recursive oracle of
  `test_regex_program_reference.c`, extended to classes.
* `OrderedContract` — what a caller may rely on, as one step per call.
* `MemoMap` — what the search relies on in its sparse memo: it asks for the slot
  of a cell, is given a pointer to that slot and no other, and reads or writes
  through it before it asks again.
* `MemoTable` — `maia_regex_memo_slot`: probing, growth with one step per old
  slot, insertion. The mixing hash is an arbitrary function of the key.
* `MCOrderedExec`, `MCMemoTable` — instances for TLC.
* `OrderedExecProofs`, `MemoTableProofs` — theorems; `Numbers` — facts about
  natural numbers that all the proofs share.

Two implementations are stacked: `MemoTable` implements `MemoMap`, the search
of `OrderedExec` uses its memo as `MemoMap` allows (`UsesMemoMap`; both are
proved), and `OrderedExec` implements `OrderedContract` (checked).

From bytes to a tree:

* `Utf8` — `bre_utf8_next`, `bre_text_check`'s step and the loop body of
  `maiaCCLexDecode`, over sequences of bytes; the well-formed sequences of the
  encoding as a set, which none of the code mentions.
* `BreLexTables` — the lexer's 23 patterns as programs of the ordered engine.
* `BreLexer` — the check, then `maiaCCLexerTokenize`: decoding step by step,
  token by token, each allocation able to fail. The engine is a constant
  `LexEnd(program, units, start)`; `MCBreLexer` gives it the denotation of
  `OrderedReference`, which the engine's own runs show it to compute. What may
  differ there, the engine's refusals, are the steps for a lack of memory.
* `BreGrammar` — the rule functions of the parser as data: one definition per
  function, the items it works through in order. The depth in the names of the
  rules of a group (`group_1` .. `group_9`) is the definition's parameter.
* `BreEvents` — the event sink as operators on a record. A checkpoint packs
  count and active node into one number, as the code does.
* `BreParser` — one interpreter for all rule functions: a C call is a frame of
  `stack`. Entering a rule asks the memo of failures, a failing rule restores
  position and events and is remembered, and the caller goes on or fails too.
  `Answer` is what the caller makes of the outcome.
* `BreParserContract` — the tree that the grammar, read as ordered choice,
  gives the tokens; as one step.
* `BreDerivations` — the same grammar as facts closed under its rules: which rule
  reads which tokens into which trees, and which rule fails where.
* `MCBreLexer`, `MCBreParser` — instances for TLC.
* `BreLexerProofs`, `BreParserProofs` — theorems.

The BRE library:

* `BreProgram` — instructions, programs, limits, the test of one unit.
* `BreHistory` — `maia_bre_history.h`: the arena with its reference counts and
  free list, tagging, ranking by heap sort, as operators on the record that
  stands for `BreRun`. Every operator that allocates takes the set of blocks
  whose allocation fails in that step.
* `BreExec` — `maia_bre_exec_utf8` as a state machine: entry checks, one step
  per decoded piece, one step per instruction executed, with its own action for
  every way an instruction can go (`Fork`, `MustIterate`, `MustExit`,
  `LoopFails`, ...), and the clean-up. `Fork` is the whole of line 119: tag,
  push and, when either fails, the share given back.
* `BreLower` — what `bre_lower` does to each kind of node, as operators on the
  record `c` that stands for `BreCompile`.
* `BreCompile` — `maia_bre_compile_utf8` as a state machine: refusals in their
  order, allocations, the numbering pass, one step per node of the backward
  pass, publication. Its inputs are event arrays as the parser emits them.
* `BreSession` — both, one after the other: a compiled program is matched.
* `BreTrees`, `BrePatterns` — syntax trees, the event array the grammar gives
  for each, and the patterns the runs use.
* `BreReference` — the path oracle of `scripts/test-bre-model.mjs`, extended to
  classes, anchors and references.
* `BreContract`, `BreCompileContract` — what a caller of each function may rely
  on, as one step per call.
* `MCBreSession` — instances for TLC.
* `BrePaths` — what a program matches, without a search: each instruction as a
  relation between a place on a path and the next, and the paths these make.
* `BreCompileProofs`, `BreExecProofs`, `BreMatchProofs` — theorems about
  sessions: a program that the lowering has published, then calls of the
  executor on it. The first is about the program, the second about the memory
  and the captures of a call, the third about its answer.

The composition is shown against a specification that knows neither programs
nor histories: `BreContract` looks only at the syntax tree. A wrong link laid by
the lowering and a wrong choice made by the executor both show up as a capture
that the tree's denotation does not have.

The legacy engine:

* `LegacyProgram` — `regex_compile_internal`: from pattern to instructions.
* `LegacyRegex` — `regcomp`, `regexec` and `regfree` as called by several
  callers. `regexec` goes one instruction at a time, because the start of the
  line and the tags that it writes lie in the handle, where a call on the same
  handle writes as well. What is kept there are pointers, each with the subject
  it points into: of two overlapping calls one may meet pointers into the text
  of the other, or a begin in one text and an end in another, and where the code
  then reads or subtracts what C does not define, the answer is `undefined`.
* `LegacyReference` — what a program means, without a search: give every
  closure a length, see whether all instructions then hold, take the longest
  first closure, then the longest second one, and so on.
* `MCLegacyRegex` — instances for TLC.

Operators with a comment that names them a slip or a variant with a fault
(`CachedAlways`, `HalfFullIfFull`, `GiveUpHere`, `NextOverlong`, ...) are wrong
forms of a definition that follows them. Nothing refers to them; each is what
one of the properties is known to refute when it replaces the definition.

## 3. Runs

| run | what it asks | instance |
|---|---|---|
| `ordered_search` | does the search agree with the recursive reference, with a stack that is one path; is a reported end derivable in every closed relation; are empty cycles cut, and recursion through an assertion rejected, as the reference does; does the search end | all programs *branch, any, ACCEPT* with all targets on `""`, `a`, `b`; all programs *split, assertion, split, ACCEPT* with all targets on `""`; loops over a letter with assertions about it |
| `ordered_cache` | is every stored result what a fresh search finds, with the active frames and without; is the sparse memo used as a map | the programs of `test_regex_program.c`, among them the cycle-context ones, sparse memo |
| `ordered_bounds` | with budgets, failing allocations, malformed arguments and a small `size_t`, is the verdict one the contract allows, is nothing leaked, does no size wrap | each limit from 1 past what the programs need; each argument check alone; `SizeMax` 48 with frames of 4 bytes and entries of 3 |
| `memo_table` | is the table a map through collisions, growth and failure; is the pointer it gives to the slot of the key asked for | 5 cells, 2 to 8 slots, four hashes that collide, neighbour and wrap |
| `bre_lex` | does the check accept UTF-8 and nothing else, does the second decoder agree, are the tokens the scalars of the text; do the tokens of context appear only where the context is | about 2,000 texts of at most 4 bytes over the edges of the encoding and the characters the table treats apart; two of 5 bytes, one too many |
| `bre_lex_gap` | has every scalar a token (it has not: see Findings) | texts of three characters, and U+07DA |
| `bre_parse` | does the parser accept what the grammar derives and leave the grammar's tree; is the memo true; are the arrays large enough; does it answer | sequences of each construct up to 4 blocks, groups 9 and 10 deep; `NodeLimit` 208 and `MemoMax` 3960, which leave the deep groups room and two long patterns none |
| `bre_match` | is a match what the tree denotes, with its captures; do histories nest and captures stay intervals | 176 trees: those of the model test, references, anchors, classes; all words over two letters up to length 3 (pairs: three words) |
| `bre_budget` | is a program published exactly for patterns without a defect, linked within itself; with any budget and any failing allocation, is the answer right or refused with the output untouched; are counts and accounts exact | all patterns, legal and defective, with the default budgets, among them twenty stars in a row, for which a code block without the factor in `2 * length + 16` is too small; failing allocations; one nested pattern with every budget around what its compilation needs (steps 0..70, instructions 1..9) and with each refusal of check and parser; matches of three nested patterns with steps 0..80, frames 1..4, fifteen workspace sizes |
| `legacy_match` | is what `regexec` answers what the byte code means, spans included; does it answer | 1,150 patterns, 845 of which compile, and 17 texts, with and without `REG_NOTBOL` |
| `legacy_handles` | who loses a program; do calls on other handles disturb an answer; what of an answer do overlapping calls on the same handle disturb | two callers, two handles, three calls each, in any order; searches on one handle overlap, on one text or on two; patterns with a group, a reference, `^` and a word test; callers and handles are symmetric |
| `legacy_table` | do the patterns of `src/README.md`'s table compile (one does not: see Findings) | the table's patterns |

`ImplementsContract`, `ImplementsMap` and `UsesMemoMap` are refinements: the
abstract specification is a PROPERTY under the mapping given in the module.

Bounds. The constants that stand for machine sizes are `IntMax`, `SizeMax`,
`IntBytes`, `FrameBytes`, `EntryBytes` (ordered engine), `UIntMax`,
`SizeMax`, `NodeBytes`, `PriorityBytes`, `BaseBytes`, `UnitBytes`,
`StateBytes`, `ScratchBytes` (BRE, with their values on a 64-bit build),
`NodeLimit` and `MemoMax` (parser; 8192 and `SIZE_MAX` in the code) and
`MaxPattern` and `Capacity` (lexer; 1024 bytes and 1025 tokens). The
initial capacities of the code (64 frames, 16 table slots, 32 records, 16
priorities, 4 states) are the constants `InitialFrames`, `InitialSlots`,
`InitialNodes`, `InitialPriorities`, `InitialStates`. Runs about growth set
them to 1 or 2 so that every block grows several times in short calls; the code
has no other dependence on them. The one bound that a guard of a model adds is
`MaxCalls` of `LegacyRegex`, the calls a caller makes; all other state spaces
are finite because every call is.

Why the instances are enough. Three instructions with all targets already give
self-loops, mutual loops, assertions inside loops and loops inside assertions;
the four-instruction programs add a branch on each side of an assertion. The
reuse of a cut result takes a cell that is reached twice under different
ancestors, which `CycleContext` was written for. For the BRE executor the
choice between histories takes two paths of equal length, which words of three
letters over nested stars give in dozens of ways, and reuse of an arena slot
takes two backtracks. The lexer's decisions depend on at most four bytes of a
scalar and on the two tokens before; the parser's on one token ahead and on
where the enclosing rule began, so four blocks reach every item of every rule,
first try and retry. A wrong length of a closure in the legacy engine takes two
closures, or a closure and a reference. `UIntMax` is 2^30 rather than
2^32 - 1 and `SizeMax` 2^31 - 1, the largest TLC computes with; in the BRE runs
no value comes near either.

Deadlock. A call that has returned stops in the ordered engine, the memo
table and the legacy engine, so their runs do not check for deadlock; that a
call cannot get stuck follows there from `Terminates` and `SearchesEnd`. The
BRE runs do check for it: the step `Rest` is enabled only when a call has been
answered, so a call that could neither go on nor return would be reported.

Fairness. The code is sequential and blocks nowhere, so a call that has begun
goes on: `OrderedExec` and `BreParser` assume `WF_vars(Next)`, `LegacyRegex`
assumes weak fairness of each caller's own steps. `MemoTable` and the other BRE
specifications assume none and state no liveness; BRE calls end because each
turn pays a step out of `max_steps` and deadlock is excluded. (Checking
weak fairness of their next-state relation is what TLC cannot do in reasonable
time: it evaluates ENABLED by trying all the disjuncts of all the operators
below.)

Findings. Two runs end in a violation on purpose:

* `bre_lex_gap`: U+07DA has no token. The text `#x7C#x7Da-z0-9` of
  `grammar/bre.ebnf:98` was read as U+7DA, `-` and `z`, so the class of CHAR
  excludes the unit 2010, and a pattern with that character is answered BADPAT.
  An ASSUME of `MCBreLexer` shows that it is the only unit without a token.
* `legacy_table`: `\(ab\)*`, which `src/README.md:343` gives as an example of a
  repeated group, is answered `REG_BADRPT`.

What the models of the legacy engine show besides, without a document that says
otherwise: the second branch of `|` is never tried (its operand bytes are zero,
which read as the end of the program); the scan for a start stops at the
terminating NUL before trying it, so `$` alone finds nothing in a non-empty
text; in an empty text it reads the byte after the NUL; a negated class outside
a closure accepts the NUL; `REG_NOTBOL` skips a leading `^` rather than failing
on it; `regcomp` on a handle that holds a program loses it. Searches that
overlap on one handle disturb each other: a span of a group may come from the
other call, a reference may compare with its text, `^` may fail where the text
begins, and a word test may read the byte before it. `src/README.md:10` tells
callers to use a handle each. `AnswersWhatIsMeant` says how far the disturbance
goes: without a reference, a `^` or a word test in the program, whether there
is a match and where it begins and ends are right even then.

## 4. Proofs

The theorems assume what the modules assume of their constants and nothing
else: any program, input, start, limits and sizes, any text, any sequence of
tokens, any outcome of any allocation.

*`OrderedExecProofs`*
* `TypeCorrect`; `VisitingCorrect` — a cell is VISITING exactly while one frame
  works on it, so the ancestor scan of line 189 always stops at that frame and
  the branch `!active` of line 193 is never taken; `SlotsPersist` — a value, or
  a working frame, has its slot in the table.
* `PathCorrect` — the stack is one path through the program, from its entry and
  `start`, with the assertion depth of each frame.
* `StackFits`, `TableStaysHalfEmpty`, `EveryBlockFreed` — the depth of the
  stack, the load of the table, the sizes of the blocks, and that all of them
  are freed.
* `VerdictsAreDecided` — a reported end holds, and a reported failure is a
  failure, in every model of the program (see below).
* `StoredIsDecided` — so are all results in the memo, whatever was active or cut
  when they were stored (the proof's counterpart of `CachedIsContextFree`, which
  compares with the recursive reference).
* `Soundness`, `Completeness` — what the verdict means in the terms of the runs: a
  reported end belongs to every relation closed under the program's rules; and
  without negative assertions a call that reports none has a closed relation in
  which the entry has none.
* `StoredResultsPersist` — a stored result is never overwritten by another one.
* `MemoIsMap` — the search implements `MemoMap`.

*`MemoTableProofs`*
* `TableIsMap` — `MemoTable` implements `MemoMap`; `NoProbeGoesRound`,
  `AlwaysProbed`.

*`BreCompileProofs`, `BreExecProofs`, `BreMatchProofs`*
* `ProgramsAreLinked` — a program that the compiler publishes hangs together: no
  jump leaves it, each of its instructions can be entered and can come to
  ACCEPT, which is the last one and its only end, each loop closes on its own
  head, no two scopes have the same rank, and no loop has its bounds in the wrong
  order.
* `ReferencesExact` — the count of a history record is the number of states and
  records that refer to it, the free list has the others, each once, and a call
  that returns leaves no reference behind.
* `AccountsAreExact` — what a call accounts for is what it has allocated, within
  its budgets, and stack and arena stay within their blocks.
* `SpansAreOrdered` — the captures of every state are intervals of what it
  matched, so no length of a reference or of a capture is negative.
* `ExecutorFindsLeftmostLongest` — OK is answered only with a longest path of
  the program (`BrePaths`) from the leftmost start that has a complete one, and
  with the spans of the groups on that path; NOMATCH only if no path from a
  start that was to be tried is complete.

*`BreLexerProofs`*
* `TheCheckIsTheEncoding`, `TheDecodersAgree`, `TheTokensFit`.
* `UnitsSpellTheText` — UTF-16 units and byte offsets spell the text scalar by
  scalar; `TheTokensTile` — the tokens follow each other without gap or overlap,
  and those of an accepted text cover all of it.

*`BreParserProofs`*
* `EventsCover` — the terminals in the sink are the tokens before the position;
  `OpenNodes` — the open nodes are the calls in progress.
* `LimitsHold` — rule calls nest at most 44 deep, and there are never more nodes
  than four for each token taken, one for each call in progress and four.
* `NeverOverflows` — so an array longer than `4 * Len(tokens) + 48` never
  overflows: `BreCompile` has 8192 nodes for at most 1025 tokens.
* `ParsesByTheGrammar` — the status says of the tokens what the grammar gives
  them (`BreDerivations`). After OK the rule `Input` reads all tokens into the
  trees that the nodes are; after BADPAT it fails or can stop before the last
  token; LIMIT is for an overflow, the memo's size or a `DepthOverflow`.
* `MemoFailsByTheGrammar` — what is remembered as a failure is one, whoever asks.

The arguments. None of the properties is inductive alone.

*Ordered engine, the bookkeeping.* `IInv` adds to `TypeOK` that working frames
are distinct, that a VISITING cell has a working frame and conversely
(`VisitingIsActive`), that keys hold for cells in use, and what is known between
`Turn`, dispatch and `Descend` about the frame at the top. Distinct working
frames need VISITING, since a second frame on a cell only starts when the cell
is UNVISITED; and VISITING needs distinct frames, since `Finish` of one would
otherwise release the other. `PathInv` adds the relation between each frame and
the one below it according to its phase. `ResultsPersist` follows from `IInv`:
`Finish` writes a cell that is VISITING, the others write one that is UNVISITED.
`UsesMemoMap` maps the pointer to the cell of the top frame between `Turn` and
the dispatch: `Turn` asks for its slot, each dispatch action writes that cell or
none, and the cells that hold a value or a working frame have slots. In
`MemoTable` the pointer is to the slot of the key asked for because each of the
three ways to get one (found, inserted, inserted after a growth) ends where a
probe for that key in the current table ends.

*Ordered engine, the verdict.* What a program with assertions means needs care:
a negative assertion about a pair (instruction, position) that depends on itself
has no least relation to refer to. A *model* of a program is a pair (T, F): T,
the matches, is closed under the rules, where a negative assertion may pass only
if its body is in F; and F, the failures, contains every unfounded set of pairs,
one whose members all need another member in order to match. Models are closed
under intersection, so there is a least one, the program's well-founded meaning;
all triples and all pairs are a model, so the statement is never empty. The
engine answers only what all models agree on: where the least model decides
neither way, no answer is right, and the theorem says that none is given (the
code refuses such a search as recursion through an assertion).

`DecidedInv` says, for every model at once (`Earned`), that the answer in hand
(`AnswerIn`), every stored value (`MemoIn`) and what each frame has passed or
given up (`PremisesIn`) are so. The hard case is a cut. A pair whose search ran
into one of its ancestors is answered -1, but it need not be in F: it is only
lost as long as the ancestors are at work (`Lost`). That is why the engine stores
such a -1 only if no cut has happened since the frame was entered, which is what
the cycle epoch tells. The invariant therefore also orders the stack by assertion
depth and epoch (`OrderInv`): a cut raises the epoch, and a branch of a frame
entered before it may from then on be lost rather than failed (`Gone`). When the
lowest frame of an assertion depth fails, nothing is left to wait for: the pairs
lost with it are an unfounded set, and in F. A success instead ends all frames of
its depth as successes (`Winning`), so that what they held lost no longer matters.
`Soundness` follows because a closed relation with all failures is a model
(`ClosedIsModel`), `Completeness` because without negative assertions the least
closed relation with its complement is one (`LeastModel`).

*BRE compiler.* While the second pass walks the tree backwards, the code is a
set of *pieces*, one for each node that has code and still awaits its parent: the
instruction a piece is entered by and the one it is left by, whose `next` is not
set yet. `Threaded` says of code and pieces, for every set of instructions that
no jump leaves: a set with a piece's entry has its end too, and one with all
entries has everything; and likewise for every set that no jump enters, from the
ends back to the entries. That is reachability without a fold, and each of the
few things the code does keeps it: a new instruction is a piece (`AddThreads`), a
link makes one piece of two (`MergeThreads`), REPEAT and REPEAT_END go round a
piece (`LoopThreads`), OPEN and CLOSE around one or around nothing
(`BracketInto`, `EmptyBracketInto`). `Weaving` says which nodes the pieces stand
for: those behind the walk whose parents are not (`Pending`). Joining the
children of a node (`JoinJoins`) is then a chain of links between pieces that the
tree keeps apart. Scopes get the number of their node as rank, and the walk goes
down, so all ranks so far are above it (`Ranked`). ACCEPT takes what piece is
left, and one piece that is threaded is a program with every instruction between
its entry and ACCEPT (`ProgramOfThreads`). `Entered` and `Leading`, which the run
computes, are recursive functions that grow for as many rounds as there are
instructions; a chain of growing sets among n elements has stopped by then
(`ChainStops`), so they are the least closed sets.

The proof needs two things that the other theorems do not. `TreesAssumption`: the
source is a tree in preorder, and there are neither groups nor other nodes with
an instruction below a node that has one, nor below a terminal; the grammar
nests nothing there. `WidthAssumption`: `UINT_MAX` is at least 65535, as in any C,
so that no bound of a loop (at most 255) is mistaken for "unbounded". And it
needs the code's own checks that a quantifier is not empty and has a number
(lines 96 and 145), which no tree of the grammar can fail.

*BRE executor.* Reference counts: `HistoryOK(run, R)` says that each record's
count is what the counter R says of the states plus the number of records that
point to it, that free records have none and are listed once; every operator of
`BreHistory` is shown to keep it with the R that its share makes (`Sound`'s
lemmas for retain, drop with its chain of releases, tag, push). `SharesInv` says
for each place in the call who holds a share: the stack, `best`, `current`.

Accounts and captures need to know something of the program: `CompileOK` follows
the lowering over any tree in preorder (that is all `SourcesAssumption` asks),
that the groups which an OPEN clears and a REF reads are among the nine that a
state has room for. `ExecInv` then says that `used` is the sum of the
blocks, that each block is as long as its capacity, and that starts and ends of
groups are in order: `CLOSE` writes an end at the current position, and the
position never goes back within a state.

Longest match. `MatchInv` reads the search off the variables of the code: the
states on the stack and the current one are the frontier of a search through the
places of `BrePaths` (`Bare` is a state without its history, and `Tracked` says
that the two agree on what a place is). `Frontier` says that there is a set of
places, the outset among them, of which each is on the frontier or is settled:
all that can follow it is in the set, and if it is a complete path it is no
longer than the best. One step of the code takes one state off the frontier and
puts all that can follow it there (`Succeeds`, one lemma for each instruction,
`MovesBy` for "all"): none for a mismatch, two for a fork. When the stack is
empty the set is closed under the moves, so every path is in it (`ReachesWithin`).
`Steered` carries the other half from one candidate to the next: no earlier start
has a complete path. The lemmas about tags and pushes come from the accounts and
reference counts: that a state keeps its place while its history changes needs
`SharesInv`. What this does not say is which of several longest paths is
answered; that is the ranking of histories, which the runs compare with the
oracle's.

*Bounds.* The frames below the top are distinct cells, so there are no more of
them than cells (a pigeonhole); a block's size was found at most
`SizeMax \div n` before it was multiplied with `n`, and `Numbers` reads that
division backwards; `heap` is followed through every return.

*Memo table.* On the way from a key's hash to its slot there is never a hole,
and no key is in two slots. So the probe ends at the slot of a key that is
there, and of one that is not at a hole where it may be put: filling a hole
breaks no way (`PutKeeps`). The ways of all keys go through all slots
(`EverySlotProbed`) and at most half of these are occupied, so there is a hole.
While the table grows, the new one holds exactly the entries below `index`
(`Growing`); at the swap it therefore holds them all. The refinement steps
follow: `Insert` and `Swap` add a key without a value, storing changes the value
of the key asked for, everything else leaves the map as it is.

*Lexer.* A text is checked along a chain of well-formed sequences, and both
decoders step along any such chain (each decodes exactly the
table of well-formed sequences, by cases of the first byte). Units are at most
as many as bytes, tokens at most as many as units. The units read so far spell
the bytes before the cursor (`SpeltInv`): arithmetic on surrogates turns a pair
back into its scalar and a scalar into its bytes. The last token ends at the
offset of the unit the lexer is at (`TiledInv`).

*Parser.* A restore brings back an earlier state of the sink, so the invariant
says of every mark that a call holds what the properties say of the sink: below
its count the terminals are the tokens before the position it was taken at, and
the active node it names is there and belongs to the call.

`LimitsHold` is a fact of the grammar. Each rule has a level above that of its
callers (`Level`): the rules that unroll the groups form a chain, so no call is
deeper than its rule's level. Each item of a rule has an `Allowance`, the number
of nodes the call may own when it comes to the item, over four for each token
taken: every item that repeats leaves it unchanged, and a rule called by an item
leaves at most what the next item allows more (`Sized`; `EveryRuleFits` goes
through the 71 rules one by one). `LimitsInv` relates every call on the
stack to this, and every call to the one that waits for it: what a call may
own is added to what its caller had, and a failed call gives it back.

`ParsesByTheGrammar` is about any set D of facts closed under the rules: parts
(a rule that started here has come to this item with these trees), ends (it has
read these trees up to there) and fails. Each rule concludes facts from facts,
never from their absence: that an alternative is passed over needs the *fact*
that it fails. So closed sets are closed under intersection and the least one is
what the grammar derives; the set of all facts is closed too, so the theorem is
never empty, and what holds in every closed set holds in the least. Ordered
choice, greedy loops and the failure of an unmet "plus" are in these rules; the
position, the marks and the memo are not.

`TreeInv` reads the sink as trees (`Forest`: a node's size is the distance to its
`end`) and says of every call in progress that the nodes from its own to its
mark are the trees of a part in D (`Told`), that the alternatives it has passed
fail there (`Tried`), that what has just been returned to it is an end or a
failure in D (`Learned`), and that the memo holds failures of D. A restore only
drops nodes above the marks of the calls that stay (`RestoreLeaves`,
`ToldAgain`), and `end` of a rule closes its own node around the trees it has
read (`EndLeaves`), which needs `OpenNodesAreCalls`. Not proved is that the least
closed set gives each rule one outcome at a place, which is induction over
derivations; the runs' `ImplementsContract` compares with a function.

Only model-checked, over the instances above:

* what compares with a reference search, since that is a RECURSIVE operator and
  nothing can be proved here of what a recursion over data computes:
  `ImplementsContract` of the ordered engine (and with it the priority of the
  first branch), of the executor (and with it the choice among longest paths,
  and that a program's paths are those of the pattern) and of the parser (whose
  theorem says the same of closed sets of facts in place of a function),
  `CompilesByContract`,
  `CachedIsContextFree`, `MemoTellsTheTruth`, `AnswersWhatIsMeant`,
  `ContextTokens`, and that a token is exactly one scalar (in the proofs the
  engine that cuts tokens is an arbitrary function);
* `ScopesNest`, which needs to know in which scopes each instruction of a
  compiled program lies;
* `OnlyRecompilingLoses` and all of the legacy engine;
* liveness (`Terminates`, `Answers`, `SearchesEnd`), out of the provers' reach.

## 5. Not modelled

* *The seams*: the executor's input is a sequence of decoded pieces, each
  with the decoder's outcome, not bytes; the compiler's input is the event
  array that the grammar gives a tree, not the parser's sink; the parser's is
  tokens, not the lexer's array. What each stage promises the next is what the
  runs of the stage before it show.
* *Contextual tokens*: the generated lexer and parser can match tokens by
  context; the grammar declares none and no rule reaches that code.
* *Legacy engine*: `regerror`, which formats; spans copied into an array
  shorter than ten; bytes above 127. Patterns that end in a backslash of their
  own are left out (the code reads past their NUL), and so are references to a
  group that is still open (they read the tag of an earlier attempt).
* *Handles*: `maia_bre_info` copies fields and `maia_bre_free` releases one
  block; no step could disturb either.
* *Generated C of the compiler*: `generated/bre-compiler.c` and its headers are
  produced from `maia_bre_compile.cpp` and the parser, which are modelled;
  nothing is gained by a second model of the same text. `bre-parser.cjs` and
  the scripts have no part at run time.
* In the executor, a loop count of `UINT_MAX`, a REPEAT that can neither be
  entered nor left and an unknown opcode have no action: the compiler refuses a
  minimum above the maximum and emits only the opcodes of the header, and the
  limits the code enforces keep a count below 256. The guards on a loop stack
  deeper than ten and on `history_order` are modelled and cannot fire: nine
  groups and one quantified atom nest ten deep, and each serial is paid for with
  a step of the same type.

## 6. What could come next

1. One composition from bytes to answer: the parser's sink as the input of
   `BreCompile`, the lexer's tokens as the parser's, bytes in `BreExec`.
2. `ScopesNest`, from a static scoping of the programs the lowering lays.
3. Proofs for the legacy engine's handles.
