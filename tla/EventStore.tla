------------------------------- MODULE EventStore ------------------------------
(***************************************************************************)
(* The event stores of the HTTP server: EventStore, in memory, and         *)
(* FileEventStore, which keeps one file of events and one file with the    *)
(* next number (the cursor) per session.                                   *)
(*                                                                         *)
(* A log is the sequence of the numbers of the events it retains; what an  *)
(* event says is left out.  A store is a record: file tells which of the   *)
(* two it is, log the log of each session, cursor and count what the file  *)
(* of the cursor says (cursor 0: there is none), and next the one counter  *)
(* of the store in memory, which all sessions share.  The locks make each  *)
(* method one step; a method of the file store that throws half-way is a   *)
(* step as well.                                                           *)
(***************************************************************************)
EXTENDS Integers, Sequences, FiniteSets

CONSTANTS
    Owners,      \* sessions, and the owner of events of no session
    MaxEvents    \* kMaxEventsPerSession

ASSUME EventStoreAssumption == MaxEvents \in Nat \ {0}

Stores == [file : BOOLEAN, log : [Owners -> Seq(Nat)], cursor : [Owners -> Nat],
           count : [Owners -> Nat], next : Nat]

EmptyStore(file) ==
    [file |-> file, log |-> [o \in Owners |-> <<>>], cursor |-> [o \in Owners |-> 0],
     count |-> [o \in Owners |-> 0], next |-> 1]

Greatest(log) ==
    IF log = <<>> THEN 0 ELSE CHOOSE n \in {log[i] : i \in DOMAIN log} :
                                  \A i \in DOMAIN log : log[i] <= n

\* LoadAppendCursor; a missing or unreadable cursor is replaced by a scan of the events.
Cursor(st, o) == IF st.cursor[o] = 0 THEN Greatest(st.log[o]) + 1 ELSE st.cursor[o]

NextId(st, o) == IF st.file THEN Cursor(st, o) ELSE st.next

\* Only the newest events are retained.
Trimmed(log) ==
    IF Len(log) > MaxEvents THEN SubSeq(log, Len(log) - MaxEvents + 1, Len(log)) ELSE log

\* The events the file store believes to have with one more, and whether it trims for them: when
\* an earlier cursor was not stored it may have more than it counts, and trims later.
Tally(st, o) == 1 + IF st.cursor[o] = 0 THEN Len(st.log[o]) ELSE st.count[o]

Trims(st, o) == ~st.file \/ Tally(st, o) > MaxEvents

\* A log with the next event.
Grown(st, o) == Append(st.log[o], NextId(st, o))

Kept(st, o) == IF Trims(st, o) THEN Trimmed(Grown(st, o)) ELSE Grown(st, o)

TallyKept(st, o) == IF Trims(st, o) THEN Len(Kept(st, o)) ELSE Tally(st, o)

AppendedMutant(st, o) ==
    LET n == NextId(st, o) IN
    IF st.file THEN [st EXCEPT !.log[o] = Kept(st, o), !.cursor[o] = n, !.count[o] = TallyKept(st, o)]
    ELSE [st EXCEPT !.log[o] = Kept(st, o), !.next = n + 1]

\* Append returns NextId(st, o) and leaves this store.
Appended(st, o) ==
    LET n == NextId(st, o) IN
    IF st.file THEN [st EXCEPT !.log[o] = Kept(st, o), !.cursor[o] = n + 1, !.count[o] = TallyKept(st, o)]
    ELSE [st EXCEPT !.log[o] = Kept(st, o), !.next = n + 1]

\* What FileEventStore::Append leaves when it throws, or the process dies: nothing is written
\* yet, or the event is there and the file is not trimmed, or only the cursor is not stored.
AppendFails(st, o) ==
    IF st.file THEN {st, [st EXCEPT !.log[o] = Grown(st, o)], [st EXCEPT !.log[o] = Kept(st, o)]} ELSE {}

\* The places in the log of the events behind a number.
GetEventsSince(st, o, last) == {i \in DOMAIN st.log[o] : st.log[o][i] > last}

\* Clear; the counter in memory goes on, the cursor file goes with the events.
Clear(st, o) == [st EXCEPT !.log[o] = <<>>, !.cursor[o] = IF st.file THEN 0 ELSE @]

\* FileEventStore::Clear throws before the events are removed, or between them and the cursor.
ClearFails(st, o) == IF st.file THEN {st, [st EXCEPT !.log[o] = <<>>]} ELSE {}
================================================================================
