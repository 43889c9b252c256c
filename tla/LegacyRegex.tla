---------------------------- MODULE LegacyRegex -----------------------------
(***************************************************************************)
(* regcomp, regexec and regfree of the legacy text API (regex.c), called   *)
(* by several callers.  regexec is stepped instruction by instruction,     *)
(* because it keeps the start of the line (bol) and the tags of its groups *)
(* in the compiled program, which another call on the same handle writes   *)
(* as well: regexec takes the handle as const, so its calls may overlap.   *)
(*                                                                         *)
(* A subject is the bytes from `string` on: a text, its NUL, and what the  *)
(* caller's memory holds after it.  A call's own place in it is an offset; *)
(* a pointer kept in the program says which subject it points into, for a  *)
(* call may meet one that another call has left.  Calls that search equal  *)
(* subjects search the same string.                                        *)
(***************************************************************************)
EXTENDS LegacyProgram, TLC

CONSTANTS
  Callers, Handles,
  Patterns,       \* what may be compiled; NullText is a null pointer
  Subjects,       \* what may be searched, likewise
  Flags,          \* the values of REG_NOTBOL in use, a set of BOOLEANs
  Programs,       \* the memory for compiled programs: a set of numbers > 0
  MaxCalls,       \* how many calls a caller makes
  MemoryMayFail   \* whether malloc may fail while there is room

VARIABLES
  handle,   \* Handle -> [compiled, nsub]: a regex_t; compiled is 0 or a program
  heap,     \* the programs allocated: number -> [nfa, nsub, bol, bopat, eopat]
  call,     \* Caller -> the call in progress, or the last one
  made      \* Caller -> the number of calls made

vars == <<handle, heap, call, made>>

NullText == <<-1>>
Null     == 0

Pointer(subject, at) == [into |-> subject, at |-> at]
NullPointer == Pointer(NullText, -1)
Untagged    == [n \in 0 .. MAXTAG - 1 |-> NullPointer]

Resting == [pc |-> "idle", h |-> Null, subject |-> NullText, notbol |-> FALSE,
            start |-> 0, at |-> 0, ap |-> 0, stack |-> <<>>,
            result |-> "none", match |-> <<>>]

Init ==
  /\ handle = [h \in Handles |-> [compiled |-> Null, nsub |-> 0]]
  /\ heap = <<>>
  /\ call = [c \in Callers |-> Resting]
  /\ made = [c \in Callers |-> 0]

Busy(c) == call[c].pc # "idle"
Users(h) == {c \in Callers : Busy(c) /\ call[c].h = h}

(* What callers do: one call at a time, a bounded number of them, and no   *)
(* compiling or freeing of a handle in use.                                *)
May(c) == ~Busy(c) /\ made[c] < MaxCalls /\ made' = [made EXCEPT ![c] = @ + 1]

Say(c, r)  == call' = [call EXCEPT ![c] = [Resting EXCEPT !.result = r]]
Set(h, p, n) == handle' = [handle EXCEPT ![h] = [compiled |-> p, nsub |-> n]]
-----------------------------------------------------------------------------
(* regcomp.  A null pattern and a lack of memory leave the handle as it    *)
(* was; a pattern that does not compile clears it, and one that does       *)
(* replaces what it held.  Nothing frees what the handle held.             *)
ClearedOnError(h) == Set(h, Null, 0)

Free == Programs \ DOMAIN heap

Regcomp(c) ==
  \E h \in Handles, pattern \in Patterns :
    LET made_of == Compile(pattern)
        new == CHOOSE p \in Free : \A q \in Free : p <= q
    IN /\ May(c) /\ Users(h) = {}
       /\ \/ /\ pattern = NullText
             /\ Say(c, "BADPAT") /\ UNCHANGED <<handle, heap>>
          \/ /\ pattern # NullText /\ (MemoryMayFail \/ Free = {})
             /\ Say(c, "ESPACE") /\ UNCHANGED <<handle, heap>>
          \/ /\ pattern # NullText /\ Free # {}
             /\ Say(c, made_of.error)
             /\ IF made_of.error = "NOERROR"
                THEN /\ Set(h, new, made_of.nsub)
                     /\ heap' = (new :> [nfa |-> made_of.nfa, nsub |-> made_of.nsub,
                                         bol |-> NullPointer, bopat |-> Untagged,
                                         eopat |-> Untagged]) @@ heap
                ELSE ClearedOnError(h) /\ UNCHANGED heap

(* regfree, of a handle with or without a program (and, before it, a slip: *)
(* the pointer is dropped and the program is not).                         *)
RegfreeForgetting(c) ==
  \E h \in Handles :
    /\ May(c) /\ Users(h) = {}
    /\ Set(h, Null, 0) /\ UNCHANGED heap
    /\ Say(c, "freed")

Regfree(c) ==
  \E h \in Handles :
    /\ May(c) /\ Users(h) = {}
    /\ Set(h, Null, 0)
    /\ heap' = [p \in DOMAIN heap \ {handle[h].compiled} |-> heap[p]]
    /\ Say(c, "freed")
-----------------------------------------------------------------------------
(* regexec                                                                 *)
Text(q, i)  == q.subject[i + 1]
ProgramStatic(q) == heap[CHOOSE p \in DOMAIN heap : \A r \in DOMAIN heap : p <= r]
Program(q)  == heap[handle[q.h].compiled]   \* (a slip: one for all handles)
Item(q)     == Program(q).nfa[q.ap]
Length(subject) == CHOOSE n \in 0 .. Len(subject) :
                     subject[n + 1] = NUL /\ \A i \in 1 .. n : subject[i] # NUL

(* The first instruction that is no BOL, when REG_NOTBOL skips those       *)
FirstItem(nfa, notbol) ==
  IF notbol
  THEN CHOOSE k \in DOMAIN nfa : nfa[k].op # "BOL" /\ \A j \in 1 .. k - 1 : nfa[j].op = "BOL"
  ELSE 1

Proceed(c, q) == call' = [call EXCEPT ![c] = q]
Answer(c, q, result, match) ==
  Proceed(c, [q EXCEPT !.pc = "idle", !.result = result, !.match = match,
                       !.at = 0, !.ap = 0, !.stack = <<>>])

Attempt(q, start) ==
  [q EXCEPT !.pc = "match", !.start = start, !.at = start, !.stack = <<>>,
            !.ap = FirstItem(Program(q).nfa, q.notbol)]

(* A call sets bol and clears the tags; its first attempt starts at the    *)
(* first place of the character that the program begins with, if it begins *)
(* with one.                                                               *)
Places(q, x) == {i \in 0 .. Length(q.subject) - 1 : Text(q, i) = x}
Least(set)   == CHOOSE i \in set : \A j \in set : i <= j

Enter(c) ==
  \E h \in Handles, subject \in Subjects, notbol \in Flags :
    LET q == [Resting EXCEPT !.h = h, !.subject = subject, !.notbol = notbol]
    IN /\ May(c)
       /\ UNCHANGED handle
       /\ IF handle[h].compiled = Null \/ subject = NullText
          THEN Answer(c, q, "BADPAT", <<>>) /\ UNCHANGED heap
          ELSE /\ Proceed(c, [q EXCEPT !.pc = "enter"])
               /\ heap' = [heap EXCEPT ![handle[h].compiled].bol = Pointer(subject, 0),
                                       ![handle[h].compiled].bopat = Untagged,
                                       ![handle[h].compiled].eopat = Untagged]

Begin(c) ==
  LET q   == call[c]
      one == Program(q).nfa[FirstItem(Program(q).nfa, q.notbol)]
  IN /\ q.pc = "enter"
     /\ CASE one.op = "END" -> Answer(c, q, "NOMATCH", <<>>)
          [] one.op = "CHR" ->
               IF Places(q, one.arg) = {} THEN Answer(c, q, "NOMATCH", <<>>)
               ELSE Proceed(c, Attempt(q, Least(Places(q, one.arg))))
          [] OTHER -> Proceed(c, Attempt(q, 0))
     /\ UNCHANGED <<handle, heap, made>>

(* A failed attempt: the next start, unless the program begins with ^ or   *)
(* the text ends there.  (NextStartStays is a slip.)                       *)
NextStartStays(c, q) ==
  IF Program(q).nfa[FirstItem(Program(q).nfa, q.notbol)].op = "BOL"
     \/ Text(q, q.start + 1) = NUL
  THEN Answer(c, q, "NOMATCH", <<>>)
  ELSE Proceed(c, Attempt(q, q.start))

NextStart(c, q) ==
  IF Program(q).nfa[FirstItem(Program(q).nfa, q.notbol)].op = "BOL"
     \/ Text(q, q.start + 1) = NUL
  THEN Answer(c, q, "NOMATCH", <<>>)
  ELSE Proceed(c, Attempt(q, q.start + 1))

(* A mismatch: the innermost closure that can give back a character does   *)
(* so; the ones inside it are done.  (The slip asks only the last closure   *)
(* entered.)                                                               *)
Longer(q) == {k \in DOMAIN q.stack : q.stack[k].lp > q.stack[k].are}

MismatchInnermost(c, q) ==
  LET k == Len(q.stack)
  IN IF k \notin Longer(q) THEN NextStart(c, q)
     ELSE Proceed(c, [q EXCEPT !.stack[k].lp = @ - 1,
                               !.at = q.stack[k].lp - 1, !.ap = q.stack[k].ap])

Mismatch(c, q) ==
  IF Longer(q) = {} THEN NextStart(c, q)
  ELSE LET k == CHOOSE k \in Longer(q) : \A j \in Longer(q) : j <= k
           f == [q.stack[k] EXCEPT !.lp = @ - 1]
       IN Proceed(c, [q EXCEPT !.stack = Append(SubSeq(@, 1, k - 1), f),
                               !.at = f.lp, !.ap = f.ap])

Go(c, q, at) == Proceed(c, [q EXCEPT !.at = at, !.ap = @ + 1])

Consume(c, q) ==
  /\ Item(q).op \in Consuming
  /\ IF Takes(Item(q), Text(q, q.at)) THEN Go(c, q, q.at + 1) ELSE Mismatch(c, q)
  /\ UNCHANGED heap

(* The word tests read the character before their place, unless that place *)
(* is bol.  Where bol has become that of another subject, ^ holds nowhere, *)
(* and at the start of the subject they read what is before it.            *)
Here(q)  == Pointer(q.subject, q.at)
AtBol(q) == Here(q) = Program(q).bol

ReadsBefore(q) == Item(q).op \in {"BOW", "EOW"} /\ q.at = 0 /\ ~AtBol(q)

AfterWord(q) == ~AtBol(q) /\ Text(q, q.at - 1) \in Word
OnWord(q)    == Text(q, q.at) \in Word

Holds(q) ==
  CASE Item(q).op = "BOL" -> AtBol(q)
    [] Item(q).op = "EOL" -> Text(q, q.at) = NUL
    [] Item(q).op = "BOW" -> ~AfterWord(q) /\ OnWord(q)
    [] Item(q).op = "EOW" -> AfterWord(q) /\ ~OnWord(q)

Test(c, q) ==
  /\ Item(q).op \in {"BOL", "EOL", "BOW", "EOW"}
  /\ IF ReadsBefore(q) THEN Answer(c, q, "undefined", <<>>)
     ELSE IF Holds(q) THEN Go(c, q, q.at) ELSE Mismatch(c, q)
  /\ UNCHANGED heap

Tag(c, q) ==
  LET p == handle[q.h].compiled
      n == Item(q).arg
  IN /\ \/ /\ Item(q).op = "BOT"
           /\ heap' = [heap EXCEPT ![p].bopat[n] = Here(q)]
        \/ /\ Item(q).op = "EOT"
           /\ heap' = [heap EXCEPT ![p].eopat[n] = Here(q)]
     /\ Go(c, q, q.at)

(* A reference reads the tags as they are, set in this attempt or not, and *)
(* in this call or not.  Only another call on the handle can leave a null  *)
(* begin with an end that is not null, or ends in two subjects: what then  *)
(* is read is undefined.                                                   *)
Refers(c, q) ==
  LET b == Program(q).bopat[Item(q).arg]
      e == Program(q).eopat[Item(q).arg]
      Repeats == \A i \in b.at .. e.at - 1 : b.into[i + 1] = Text(q, q.at + i - b.at)
  IN /\ Item(q).op = "REF"
     /\ IF e # NullPointer /\ b.into # e.into THEN Answer(c, q, "undefined", <<>>)
        ELSE IF e = NullPointer \/ Repeats
             THEN Go(c, q, IF e.at > b.at THEN q.at + e.at - b.at ELSE q.at)
             ELSE Mismatch(c, q)
     /\ UNCHANGED heap

(* A closure takes all it can, and gives back later                        *)
Closure(c, q) ==
  LET far == CHOOSE n \in q.at .. Len(q.subject) - 1 :
               /\ \A i \in q.at .. n - 1 : TakesMore(Item(q).arg, Text(q, i))
               /\ ~TakesMore(Item(q).arg, Text(q, n))
  IN /\ Item(q).op = "CLO"
     /\ Proceed(c, [q EXCEPT !.stack = Append(@, [are |-> q.at, lp |-> far, ap |-> q.ap + 1]),
                             !.at = far, !.ap = @ + 1])
     /\ UNCHANGED heap

(* The end of the program.  An alternation ends it too: its first branch   *)
(* is the two zero bytes that follow the opcode, which read as END.        *)
Elsewhere == -2    \* a difference of pointers into two subjects: any number

Groups(q) ==
  [i \in 1 .. handle[q.h].nsub |->
    LET b == Program(q).bopat[i]
        e == Program(q).eopat[i]
        Offset(tag) == IF tag.into = q.subject THEN tag.at ELSE Elsewhere
    IN IF NullPointer \in {b, e} THEN <<-1, -1>> ELSE <<Offset(b), Offset(e)>>]

(* (The slip measures the match from bol, which may be another call's.)    *)
SuccessFromBol(c, q) ==
  LET Offset(at) == IF Program(q).bol.into = q.subject THEN at ELSE Elsewhere
  IN /\ Item(q).op \in {"END", "ALT"}
     /\ Answer(c, q, "NOERROR", <<<<Offset(q.start), Offset(q.at)>>>> \o Groups(q))
     /\ UNCHANGED heap

Success(c, q) ==
  /\ Item(q).op \in {"END", "ALT"}
  /\ Answer(c, q, "NOERROR", <<<<q.start, q.at>>>> \o Groups(q))
  /\ UNCHANGED heap

Step(c) ==
  /\ call[c].pc = "match"
  /\ LET q == call[c]
     IN \/ Consume(c, q) \/ Test(c, q) \/ Tag(c, q) \/ Refers(c, q)
        \/ Closure(c, q) \/ Success(c, q)
  /\ UNCHANGED <<handle, made>>

Next == \E c \in Callers : Regcomp(c) \/ Regfree(c) \/ Enter(c) \/ Begin(c) \/ Step(c)
=============================================================================
