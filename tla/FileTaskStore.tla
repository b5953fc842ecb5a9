------------------------------ MODULE FileTaskStore ----------------------------
(***************************************************************************)
(* FileTaskStore: the tasks in memory, a JSON-lines file beside them.      *)
(*                                                                         *)
(* A writing method holds write_mutex_ from beginning to end: it changes   *)
(* the map, appends a line, perhaps rewrites the file, and on failure puts *)
(* the old value back.  The process may crash between any two of these     *)
(* steps; the next one loads the file.                                     *)
(*                                                                         *)
(* The file is a sequence of lines.  Every line but the last ends in a     *)
(* newline; `open' says that the last one does not, and then the next      *)
(* append runs into it and makes one line of both that is not JSON.  A     *)
(* rewrite goes through a temporary file and rename and is one line here,  *)
(* because nobody can see a part of it.                                    *)
(***************************************************************************)
EXTENDS TaskStates, Naturals, Sequences, FiniteSets

CONSTANTS
    kMinCompactThreshold,
    MaxLines,       \* bound: lines in the file when a call begins
    MaxMishaps,     \* bound: failures and crashes in one behaviour
    Disks,          \* the disks there are, each the set of what may go wrong on it
    LegacyTasks,    \* the contents of a file in the old format at the first start
    None            \* no call under way

\* open_fails: the file cannot be opened for append.  compact_fails: WriteAtomic returns
\* false.  torn_write: an append stops halfway, by a crash or by an error.  load_fails: the
\* file exists and cannot be opened for reading.  unterminated: a file in the old format
\* is not one line with a newline at its end, so what is appended runs into it.
FaultKinds == {"open_fails", "compact_fails", "torn_write", "load_fails", "unterminated"}

ASSUME FileAssumption ==
    /\ IsFiniteSet(Ids)
    /\ kMinCompactThreshold \in Nat /\ MaxLines \in Nat /\ MaxMishaps \in Nat
    /\ Disks \subseteq SUBSET FaultKinds
    /\ LegacyTasks \subseteq [Ids -> States \cup {Absent}]

VARIABLES
    disk,         \* the disk of this behaviour
    file, open,   \* the lines; whether the last one lacks its newline
    tasks,        \* tasks_, in memory
    pending,      \* pending_records_
    call,         \* the method under way: id, old and new state, where it stands
    up,           \* the process runs
    mishaps,      \* failures and crashes so far
    promised      \* history: id -> the states a caller has to reckon with

vars == <<disk, file, open, tasks, pending, call, up, mishaps, promised>>

Maps == [Ids -> States \cup {Absent}]

\* A line is the record or the removal of one task, the result of a rewrite, the old
\* format, or not JSON.
Lines ==
    [kind : {"record"}, id : Ids, state : States] \cup [kind : {"removed"}, id : Ids]
      \cup [kind : {"rewrite", "legacy"}, tasks : Maps] \cup [kind : {"junk"}]

Calls == [id : Ids, old : States \cup {Absent}, new : States \cup {Absent},
          at : {"append", "compact", "return", "rollback"}]

ASSUME NoneAssumption == None \notin Calls

(* Every variable keeps to the values its C++ counterpart can take; a removal is never  *)
(* written as the record of a task.                                                     *)
TypeOK ==
    /\ disk \in Disks
    /\ file \in Seq(Lines) /\ open \in BOOLEAN
    /\ tasks \in Maps
    /\ pending \in Nat
    /\ call \in Calls \cup {None}
    /\ up \in BOOLEAN /\ mishaps \in Nat
    /\ promised \in [Ids -> SUBSET (States \cup {Absent})]

--------------------------------------------------------------------------------
(* Loading *)

Junk == [kind |-> "junk"]

\* A line that does not parse is forgiven only as the last one, without a newline.
CorruptMutant(f, o) == \E i \in 1 .. Len(f) : f[i].kind = "junk"

Corrupt(f, o) == \E i \in 1 .. Len(f) : f[i].kind = "junk" /\ ~(i = Len(f) /\ o)

Names(line, id) ==
    \/ line.kind \in {"rewrite", "legacy"}
    \/ line.kind \in {"record", "removed"} /\ line.id = id

Value(line, id) ==
    CASE line.kind = "record" -> line.state
      [] line.kind = "removed" -> Absent
      [] OTHER -> line.tasks[id]

\* The lines are applied in order, so the last one that names a task has the say.
Latest(f, id) ==
    LET named == {i \in 1 .. Len(f) : Names(f[i], id)} IN
    IF named = {} THEN Absent ELSE Value(f[CHOOSE i \in named : \A j \in named : j <= i], id)

\* LoadTasks and LoadRecords.  The file itself is left as it is.
LoadRecords(f, o) == [id \in Ids |-> IF Corrupt(f, o) THEN Absent ELSE Latest(f, id)]

Live(t) == Cardinality({id \in Ids : t[id] # Absent})

\* The number of lines before the first bad one, or of all of them.
Readable(f) ==
    LET bad == {i \in 1 .. Len(f) : f[i].kind = "junk"} IN
    IF bad = {} THEN Len(f) ELSE (CHOOSE i \in bad : \A j \in bad : i <= j) - 1

\* pending_records_ after loading: one for every record with a state, until a bad line.
LoadedRecords(f) ==
    LET good == 1 .. Readable(f)
        rewrites == {i \in good : f[i].kind = "rewrite"} IN
    Cardinality({i \in good : f[i].kind = "record"})
      + (IF rewrites = {} THEN 0 ELSE Live(f[1].tasks))

Durable == LoadRecords(file, open)

--------------------------------------------------------------------------------
Init ==
    /\ disk \in Disks
    /\ \/ file = <<>> /\ open = FALSE /\ promised = [id \in Ids |-> {Absent}]
       \/ \E t \in LegacyTasks : /\ file = <<[kind |-> "legacy", tasks |-> t]>>
                                 /\ open = ("unterminated" \in disk)
                                 /\ promised = [id \in Ids |-> {t[id]}]
    /\ tasks = [id \in Ids |-> Absent]
    /\ pending = 0 /\ call = None /\ up = FALSE /\ mishaps = 0

Mishap == mishaps < MaxMishaps /\ mishaps' = mishaps + 1

\* The constructor.
Start ==
    /\ ~up
    /\ tasks' = LoadRecords(file, open)
    /\ pending' = LoadedRecords(file)
    /\ up' = TRUE
    /\ UNCHANGED <<file, open, call, mishaps, promised>>

\* LoadTasks cannot open the file, backs it up if it can, and goes on with no tasks.
StartUnread ==
    /\ ~up /\ file # <<>> /\ "load_fails" \in disk
    /\ up' = TRUE /\ Mishap
    /\ UNCHANGED <<file, open, tasks, pending, call, promised>>

--------------------------------------------------------------------------------
(* A writing method *)

\* The test and the change of the map, under data_mutex_.  RemoveTask changes it last.
Begin(id, new) ==
    /\ up /\ call = None /\ Len(file) < MaxLines
    /\ new \in Changes(tasks[id])
    /\ tasks' = IF new = Absent THEN tasks ELSE [tasks EXCEPT ![id] = new]
    /\ call' = [id |-> id, old |-> tasks[id], new |-> new, at |-> "append"]
    /\ UNCHANGED <<file, open, pending, up, mishaps, promised>>

GoTo(place) == call' = [call EXCEPT !.at = place]

Line(c) == IF c.new = Absent THEN [kind |-> "removed", id |-> c.id]
                             ELSE [kind |-> "record", id |-> c.id, state |-> c.new]

\* Text is added at the end of the file, behind whatever is there.
Extend(line, o) ==
    /\ file' = IF open /\ file # <<>> THEN [file EXCEPT ![Len(file)] = Junk] ELSE Append(file, line)
    /\ open' = o

\* The rewrite is due; AppendRemoval never asks.
CompactDue == call.new # Absent /\ pending + 1 > kMinCompactThreshold + 2 * Live(tasks)

\* AppendRecord and AppendRemoval, up to the flush.
AppendRecord ==
    /\ call # None /\ call.at = "append"
    /\ Extend(Line(call), FALSE)
    /\ pending' = pending + 1
    /\ GoTo(IF CompactDue THEN "compact" ELSE "return")
    /\ UNCHANGED <<tasks, up, mishaps, promised>>

AppendFails ==
    /\ call # None /\ call.at = "append"
    /\ \/ "open_fails" \in disk /\ UNCHANGED <<file, open>>
       \/ "torn_write" \in disk /\ Extend(Junk, TRUE)
    /\ GoTo("rollback") /\ Mishap
    /\ UNCHANGED <<tasks, pending, up, promised>>

\* The file holds one record for every live task.
RewrittenMutant == [tasks EXCEPT ![call.id] = call.old]

Rewritten == tasks

CompactLocked ==
    /\ call # None /\ call.at = "compact"
    /\ file' = <<[kind |-> "rewrite", tasks |-> Rewritten]>> /\ open' = FALSE
    /\ pending' = 0
    /\ GoTo("return")
    /\ UNCHANGED <<tasks, up, mishaps, promised>>

CompactFails ==
    /\ call # None /\ call.at = "compact" /\ "compact_fails" \in disk
    /\ GoTo("rollback") /\ Mishap
    /\ UNCHANGED <<file, open, tasks, pending, up, promised>>

\* The method returns true; RemoveTask erases the task first.
Return ==
    /\ call # None /\ call.at = "return"
    /\ tasks' = [tasks EXCEPT ![call.id] = call.new]
    /\ promised' = [promised EXCEPT ![call.id] = {call.new}]
    /\ call' = None
    /\ UNCHANGED <<file, open, pending, up, mishaps>>

\* The method puts the old value back and throws.
RolledBackMutant == tasks

RolledBack == [tasks EXCEPT ![call.id] = call.old]

Rollback ==
    /\ call # None /\ call.at = "rollback"
    /\ tasks' = RolledBack
    /\ promised' = [promised EXCEPT ![call.id] = @ \cup {call.new}]
    /\ call' = None
    /\ UNCHANGED <<file, open, pending, up, mishaps>>

--------------------------------------------------------------------------------
(* The end of the process *)

Stops ==
    /\ up' = FALSE /\ call' = None /\ pending' = 0
    /\ tasks' = [id \in Ids |-> Absent]

\* The destructor: Flush, whose result it ignores.
Destroy ==
    /\ up /\ call = None
    /\ \/ file' = <<[kind |-> "rewrite", tasks |-> tasks]>> /\ open' = FALSE
       \/ "compact_fails" \in disk /\ UNCHANGED <<file, open>>
    /\ Stops
    /\ UNCHANGED <<mishaps, promised>>

\* A crash between two steps.  A call under way may or may not have had its effect.
Crash ==
    /\ up
    /\ promised' = IF call = None THEN promised
                   ELSE [promised EXCEPT ![call.id] = @ \cup {call.new}]
    /\ Stops /\ Mishap
    /\ UNCHANGED <<file, open>>

\* A crash in the middle of an append leaves a part of the line, or all but the newline.
CrashInAppend ==
    /\ up /\ call # None /\ call.at = "append" /\ "torn_write" \in disk
    /\ \E line \in {Junk, Line(call)} : Extend(line, TRUE)
    /\ promised' = [promised EXCEPT ![call.id] = @ \cup {call.new}]
    /\ Stops /\ Mishap

--------------------------------------------------------------------------------
Steps ==
    \/ Start \/ StartUnread
    \/ \E id \in Ids : \E new \in States \cup {Absent} : Begin(id, new)
    \/ AppendRecord \/ AppendFails \/ CompactLocked \/ CompactFails
    \/ Return \/ Rollback
    \/ Destroy \/ Crash \/ CrashInAppend

Next == Steps /\ UNCHANGED disk

Spec == Init /\ [][Next]_vars

--------------------------------------------------------------------------------
(* Properties *)

\* Every task, in memory and after the next start, is in a state the caller was told of,
\* or in one that a call that failed or was cut off would have made.
NothingLost ==
    \A id \in Ids :
        LET reckoned == promised[id] \cup (IF call # None /\ call.id = id THEN {call.new} ELSE {}) IN
        /\ up => tasks[id] \in reckoned
        /\ Durable[id] \in reckoned

\* What the store copes with, besides crashes between two steps.
Handled == {"open_fails", "compact_fails"}

(* What a caller was told of is neither lost nor undone, whatever crashes come between  *)
(* and however often opening and rewriting the file fail.                               *)
AckedSurvives == disk \subseteq Handled => NothingLost

(* A line cut off by a crash or an error costs nothing but itself, as long as nothing    *)
(* is appended behind it: it is the last line, and the next start passes over it.  (What *)
(* is appended behind an old file without a newline takes that file with it.)            *)
TornTailForgiven == "unterminated" \notin disk /\ mishaps <= 1 /\ open => NothingLost

(* The disks on which the store keeps all of its promises: only opening can fail.        *)
OnlyOpening == disk \subseteq {"open_fails"}

(* On such a disk memory and file agree between calls: a call that failed and was rolled *)
(* back has left nothing in the file that the next start would bring back.               *)
RollbackIsComplete == OnlyOpening /\ up /\ call = None => Durable = tasks

(* A call that returned survives every crash, and one that failed leaves nothing behind. *)
CallsAreAtomic == TypeOK /\ AckedSurvives /\ RollbackIsComplete

(* Once a caller knows that a task has ended, no call and no restart gives it another    *)
(* status.                                                                               *)
EndedStaysEnded ==
    [][disk \subseteq Handled => \A id \in Ids :
          (\A s \in promised[id] : s # Absent /\ Terminal(s)) =>
              \A n \in promised'[id] : n = Absent \/ \E s \in promised[id] : n.status = s.status]_vars

(* What the file holds for the abstract store; on any other disk it promises nothing.    *)
Promises == IF OnlyOpening THEN Durable ELSE [id \in Ids |-> Absent]
Store == INSTANCE TaskStore WITH tasks <- Promises

(* Where only opening can fail, the file behaves as the abstract store: each call takes  *)
(* effect in one step, crashes, rewrites and rollbacks change nothing.                   *)
ImplementsStore == Store!Spec

(* On such a disk a task that has ended in the file keeps its status there.              *)
EndedOnDisk == Store!TerminalIsFinal
================================================================================
