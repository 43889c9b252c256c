----------------------------- MODULE BreSession -----------------------------
(***************************************************************************)
(* A caller's use of the library (maia_bre.h): compile a pattern, and      *)
(* match with the program that comes of it.                                *)
(***************************************************************************)
EXTENDS BreExec

CONSTANTS
  Sources, ScratchBytes, MemoryMayFail,
  Questions(_)   \* the matches a caller may ask of a compiled source

ASSUME SessionAssumption == ScratchBytes \in Nat /\ MemoryMayFail \in BOOLEAN

(* A tree is in preorder: the descendants of node k - 1 come after it.     *)
ASSUME SourcesAssumption ==
  \A s \in Sources :
    /\ s.limits \in [DOMAIN Ceilings -> Nat]
    /\ Len(s.nodes) \in Nat /\ DOMAIN s.nodes = 1 .. Len(s.nodes)
    /\ \A k \in DOMAIN s.nodes : s.nodes[k].end \in k .. Len(s.nodes)

(* Limits and sizes are unsigned; a decoding ends well or one of two ways  *)
(* ill (bre_utf8_next).                                                    *)
ASSUME QuestionsAssumption ==
  \A s \in Sources : \A q \in Questions(s) :
    /\ q.limits \in [DOMAIN Ceilings -> Nat] /\ {q.start_byte, q.capacity} \subseteq Nat
    /\ Len(q.input) \in Nat /\ DOMAIN q.input = 1 .. Len(q.input)
    /\ \A k \in DOMAIN q.input :
         q.input[k].width \in Nat /\ q.input[k].status \in {"OK", "ENCODING", "ARGUMENT"}

VARIABLES source, stage, c, at, compiled, answer

compiling == <<source, stage, c, at, compiled, answer>>

Compiler == INSTANCE BreCompile

(* The nodes of a source are a tree in preorder: the parent of a node is   *)
(* before it and ends after it, and a node ends within what it is below.   *)
(* Below a terminal or a node with an instruction of its own there is no   *)
(* other of them, and no group.                                            *)
IsTree(s) ==
  LET nodes == 0 .. Len(s.nodes) - 1
      Parent(k) == Compiler!Tree(s, k).parent
      End(k)    == Compiler!Tree(s, k).end
  IN /\ Len(s.nodes) > 0 /\ Parent(0) = NONE
     /\ \A k \in nodes \ {0} : Parent(k) \in 0 .. k - 1 /\ Compiler!Within(s, Parent(k), k)
     /\ \A a, k \in nodes : Compiler!Within(s, a, k) =>
          /\ End(k) <= End(a)
          /\ Compiler!Name(s, a) \in Compiler!Own \cup {"terminal"} =>
               Compiler!Name(s, k) \notin Compiler!Own \cup {"Group"}
     /\ \A k \in nodes : Compiler!Name(s, k) = "terminal" => Compiler!Tree(s, k).value \in Int

ASSUME TreesAssumption == \A s \in Sources : IsTree(s)

(* The least UINT_MAX that C allows                                        *)
ASSUME WidthAssumption == UIntMax >= 65535

SessionInit == Compiler!Init /\ Init

Compile == Compiler!Next /\ UNCHANGED vars

(* The question q of a program: the arguments of one call.  `ast` is what  *)
(* the pattern means, for the contract.                                    *)
Asked(p, q) ==
  [program |-> p, input |-> q.input, start_byte |-> q.start_byte, mode |-> q.mode,
   limits |-> q.limits, capacity |-> q.capacity, nulls |-> q.nulls, ast |-> q.ast]

Ask ==
  /\ pc = "idle" /\ answer = "OK"
  /\ \E q \in Questions(source) : Call(Asked(compiled, q))
  /\ UNCHANGED compiling

Match == Next /\ UNCHANGED compiling

(* A caller need not ask (again) once the library has answered: with this  *)
(* step, a call that could not go on would be a deadlock.                  *)
Rest ==
  /\ stage = "done" /\ pc \in {"idle", "done"}
  /\ UNCHANGED vars /\ UNCHANGED compiling

SessionNext == Compile \/ Ask \/ Match \/ Rest

Session == SessionInit /\ [][SessionNext]_<<vars, compiling>>

(* A program handed to a caller hangs together: every jump stays in it,    *)
(* all of it can be entered, its only end is its last instruction and is   *)
(* reachable from everywhere, a loop closes on its own head, two groups or *)
(* loops never share a rank, and the bounds of a loop are in order.        *)
(* (bre_lower, bre_emit and bre_quantity; BRE_COMPILE_PROGRAM)             *)
ProgramsLinked == Compiler!Linked
=============================================================================
