--------------------------- MODULE FileTaskStoreProofs -------------------------
(***************************************************************************)
(* FileTaskStore for any tasks, any number of mishaps and any file: what   *)
(* loading returns, that nothing acknowledged is lost, and that the file   *)
(* implements the abstract store.                                          *)
(***************************************************************************)
EXTENDS FileTaskStore, SequenceTheorems, FiniteSetTheorems, WellFoundedInduction, TLAPS

--------------------------------------------------------------------------------
(* What loading returns *)

(* The first of a set of numbers. *)
LEMMA FirstExists ==
    ASSUME NEW S \in SUBSET Nat, S # {}
    PROVE  \E m \in S : \A j \in S : m <= j
<1> DEFINE Less == {p \in Nat \X Nat : p[1] < p[2]}
<1>1. IsWellFoundedOn(Less, Nat)
    BY NatLessThanWellFounded DEF OpToRel
<1> HIDE DEF Less
<1>2. PICK m \in S : \A j \in S : ~(<<j, m>> \in Less)
    BY <1>1, WFMin, Zenon
<1>3. ASSUME NEW j \in S PROVE m <= j
  <2>1. m \in Nat /\ j \in Nat /\ ~(<<j, m>> \in Less)
      BY <1>2
  <2> QED BY <2>1 DEF Less
<1> QED BY <1>3

(* The last of a set of line numbers. *)
LEMMA LastExists ==
    ASSUME NEW n \in Nat, NEW S \in SUBSET (1 .. n), S # {}
    PROVE  \E m \in S : \A j \in S : j <= m
<1> DEFINE T == {n - i : i \in S}
<1>1. T \in SUBSET Nat /\ T # {}
  <2>1. \A i \in S : n - i \in Nat
      OBVIOUS
  <2>2. PICK i \in S : TRUE
      OBVIOUS
  <2>3. n - i \in T
      BY <2>2
  <2> QED BY <2>1, <2>3
<1> HIDE DEF T
<1>2. PICK x \in T : \A y \in T : x <= y
    BY <1>1, FirstExists
<1> USE DEF T
<1>3. PICK m \in S : x = n - m
    OBVIOUS
<1>4. ASSUME NEW j \in S PROVE j <= m
  <2>1. n - j \in T
      OBVIOUS
  <2> QED BY <1>2, <1>3, <2>1
<1> QED BY <1>4

(* The numbers of the lines that name a task, and the last of them. *)
NamedIn(f, id) == {i \in 1 .. Len(f) : Names(f[i], id)}

LastOf(S) == CHOOSE i \in S : \A j \in S : j <= i

(* Latest in terms of these. *)
LEMMA LatestIs ==
    ASSUME NEW f, NEW id
    PROVE  Latest(f, id) = IF NamedIn(f, id) = {} THEN Absent
                           ELSE Value(f[LastOf(NamedIn(f, id))], id)
BY DEF Latest, NamedIn, LastOf

(* Some line is the last. *)
LEMMA LastOfIn ==
    ASSUME NEW n \in Nat, NEW S \in SUBSET (1 .. n), S # {}
    PROVE  LastOf(S) \in S /\ \A j \in S : j <= LastOf(S)
BY LastExists DEF LastOf

(* A line that names a task has a state for it, or says that it is gone. *)
LEMMA ValueType ==
    ASSUME NEW line \in Lines, NEW id \in Ids, Names(line, id)
    PROVE  Value(line, id) \in States \cup {Absent}
BY DEF Lines, Names, Value, Maps

(* Loading yields a state for every task. *)
LEMMA LatestType ==
    ASSUME NEW f \in Seq(Lines), NEW id \in Ids
    PROVE  Latest(f, id) \in States \cup {Absent}
<1>1. Len(f) \in Nat /\ NamedIn(f, id) \in SUBSET (1 .. Len(f))
    BY LenProperties DEF NamedIn
<1>2. CASE NamedIn(f, id) # {}
  <2>1. LastOf(NamedIn(f, id)) \in NamedIn(f, id)
      BY <1>1, <1>2, LastOfIn
  <2>2. f[LastOf(NamedIn(f, id))] \in Lines /\ Names(f[LastOf(NamedIn(f, id))], id)
      BY <2>1, ElementOfSeq DEF NamedIn
  <2>3. Value(f[LastOf(NamedIn(f, id))], id) \in States \cup {Absent}
      BY <2>2, ValueType
  <2> QED BY <1>2, <2>3, LatestIs
<1> QED BY <1>2, LatestIs

(* A line at the end has the say on what it names and leaves the rest alone. *)
LEMMA LatestAppend ==
    ASSUME NEW f \in Seq(Lines), NEW line \in Lines, NEW id \in Ids
    PROVE  Latest(Append(f, line), id) = IF Names(line, id) THEN Value(line, id) ELSE Latest(f, id)
<1> DEFINE g == Append(f, line)
<1>1. /\ Len(f) \in Nat /\ g \in Seq(Lines) /\ Len(g) = Len(f) + 1 /\ g[Len(f) + 1] = line
      /\ \A i \in 1 .. Len(f) : g[i] = f[i]
    BY LenProperties, AppendProperties
<1> HIDE DEF g
<1>2. NamedIn(f, id) \in SUBSET (1 .. Len(f)) /\ NamedIn(g, id) \in SUBSET (1 .. Len(f) + 1)
    BY <1>1 DEF NamedIn
<1>3. CASE Names(line, id)
  <2>1. Len(f) + 1 \in NamedIn(g, id)
      BY <1>1, <1>3 DEF NamedIn
  <2>2. LastOf(NamedIn(g, id)) \in NamedIn(g, id) /\ Len(f) + 1 <= LastOf(NamedIn(g, id))
    <3>1. Len(f) + 1 \in Nat /\ NamedIn(g, id) # {}
        BY <1>1, <2>1
    <3> QED BY <1>2, <2>1, <3>1, LastOfIn
  <2>3. LastOf(NamedIn(g, id)) = Len(f) + 1
      BY <1>1, <1>2, <2>2
  <2> QED BY <1>1, <1>3, <2>1, <2>3, LatestIs DEF g
<1>4. CASE ~Names(line, id)
  <2>1. NamedIn(g, id) = NamedIn(f, id)
      BY <1>1, <1>4 DEF NamedIn
  <2>2. CASE NamedIn(f, id) = {}
      BY <1>4, <2>1, <2>2, LatestIs DEF g
  <2>3. CASE NamedIn(f, id) # {}
    <3>1. LastOf(NamedIn(f, id)) \in 1 .. Len(f)
        BY <1>1, <1>2, <2>3, LastOfIn
    <3>2. g[LastOf(NamedIn(f, id))] = f[LastOf(NamedIn(f, id))]
        BY <1>1, <3>1
    <3> QED BY <1>4, <2>1, <3>2, LatestIs DEF g
  <2> QED BY <2>2, <2>3
<1> QED BY <1>3, <1>4

(* A rewrite, and a file in the old format, is read back as it was written. *)
LEMMA LatestRewrite ==
    ASSUME NEW t \in Maps, NEW id \in Ids, NEW k \in {"rewrite", "legacy"}
    PROVE  Latest(<<[kind |-> k, tasks |-> t]>>, id) = t[id]
<1> DEFINE line == [kind |-> k, tasks |-> t]
<1>1. line \in Lines /\ Names(line, id) /\ Value(line, id) = t[id]
    BY DEF Lines, Names, Value
<1>2. <<>> \in Seq(Lines) /\ Append(<<>>, line) = <<line>>
    OBVIOUS
<1>3. Latest(Append(<<>>, line), id) = Value(line, id)
    BY <1>1, <1>2, LatestAppend
<1> QED BY <1>1, <1>2, <1>3

--------------------------------------------------------------------------------
(* Types *)

(* Loading yields a map, for a corrupt file the empty one. *)
LEMMA LoadType ==
    ASSUME NEW f \in Seq(Lines), NEW o
    PROVE  LoadRecords(f, o) \in Maps
BY LatestType DEF LoadRecords, Maps

(* The number of live tasks, and of records found in a file, is a number. *)
LEMMA CountType ==
    ASSUME NEW f \in Seq(Lines)
    PROVE  LoadedRecords(f) \in Nat /\ \A t : Live(t) \in Nat
<1>1. ASSUME NEW t PROVE Live(t) \in Nat
  <2>1. {id \in Ids : t[id] # Absent} \subseteq Ids
      OBVIOUS
  <2> QED BY <2>1, FileAssumption, FS_Subset, FS_CardinalityType DEF Live
<1>2. Cardinality({i \in 1 .. Readable(f) : f[i].kind = "record"}) \in Nat
  <2>1. Readable(f) \in Int
    <3> DEFINE bad == {i \in 1 .. Len(f) : f[i].kind = "junk"}
    <3>1. Len(f) \in Nat /\ bad \subseteq 1 .. Len(f)
        BY LenProperties
    <3>2. CASE bad = {}
        BY <3>1, <3>2 DEF Readable
    <3>3. CASE bad # {}
      <4>1. \E i \in bad : \A j \in bad : i <= j
        <5>1. bad \in SUBSET Nat
            BY <3>1
        <5> HIDE DEF bad
        <5> QED BY <3>3, <5>1, FirstExists
      <4>2. (CHOOSE i \in bad : \A j \in bad : i <= j) \in bad
        <5> HIDE DEF bad
        <5> QED BY <4>1
      <4> QED BY <3>1, <3>3, <4>2 DEF Readable
    <3> QED BY <3>2, <3>3
  <2>2. IsFiniteSet(1 .. Readable(f))
      BY <2>1, FS_Interval
  <2>3. IsFiniteSet({i \in 1 .. Readable(f) : f[i].kind = "record"})
      BY <2>2, FS_Subset
  <2> QED BY <2>3, FS_CardinalityType
<1>3. Live(f[1].tasks) \in Nat
    BY <1>1
<1> HIDE DEF Live
<1>4. LoadedRecords(f) \in Nat
    BY <1>2, <1>3 DEF LoadedRecords
<1> QED BY <1>1, <1>4

(* Text added at the end leaves a sequence of lines. *)
LEMMA ExtendType ==
    ASSUME file \in Seq(Lines), NEW line \in Lines, NEW o, Extend(line, o)
    PROVE  file' \in Seq(Lines) /\ open' = o
<1>1. Junk \in Lines
    BY DEF Junk, Lines
<1>2. CASE open /\ file # <<>>
  <2>1. Len(file) \in 1 .. Len(file)
      BY <1>2, EmptySeq, LenProperties
  <2> QED BY <1>1, <1>2, <2>1, ExceptSeq DEF Extend
<1>3. CASE ~(open /\ file # <<>>)
    BY <1>3, AppendProperties DEF Extend
<1> QED BY <1>2, <1>3

(* The line of a call, and a rewrite, are lines. *)
LEMMA LineTypes ==
    /\ \A c \in Calls : Line(c) \in Lines
    /\ \A t \in Maps : [kind |-> "rewrite", tasks |-> t] \in Lines
    /\ Junk \in Lines
<1>1. ASSUME NEW c \in Calls PROVE Line(c) \in Lines
  <2>1. c.id \in Ids /\ c.new \in States \cup {Absent}
      BY DEF Calls
  <2>2. CASE c.new = Absent
      BY <2>1, <2>2 DEF Line, Lines
  <2>3. CASE c.new # Absent
      BY <2>1, <2>3 DEF Line, Lines
  <2> QED BY <2>2, <2>3
<1>2. \A t \in Maps : [kind |-> "rewrite", tasks |-> t] \in Lines
    BY DEF Lines
<1>3. Junk \in Lines
    BY DEF Junk, Lines
<1> QED BY <1>1, <1>2, <1>3

(* A call under way is a record with the fields of Calls. *)
LEMMA CallFields ==
    ASSUME NEW c \in Calls
    PROVE  /\ c.id \in Ids /\ c.old \in States \cup {Absent} /\ c.new \in States \cup {Absent}
           /\ c.at \in {"append", "compact", "return", "rollback"}
           /\ \A place \in {"append", "compact", "return", "rollback"} :
                 /\ [c EXCEPT !.at = place] \in Calls
                 /\ [c EXCEPT !.at = place].id = c.id /\ [c EXCEPT !.at = place].new = c.new
                 /\ [c EXCEPT !.at = place].old = c.old /\ [c EXCEPT !.at = place].at = place
BY DEF Calls

(* A call that goes on stays the same call. *)
LEMMA GoToMeans ==
    ASSUME call \in Calls, NEW place \in {"append", "compact", "return", "rollback"}, GoTo(place)
    PROVE  /\ call' # None /\ call'.id = call.id /\ call'.old = call.old /\ call'.new = call.new
           /\ call'.at = place
<1>1. /\ call' \in Calls /\ call'.id = call.id /\ call'.old = call.old /\ call'.new = call.new
      /\ call'.at = place
    BY DEF GoTo, Calls
<1> QED BY <1>1, NoneAssumption

(* The start of a call and each of its steps keep a call a call. *)
LEMMA CallType ==
    ASSUME call \in Calls \cup {None}, tasks \in Maps, [Next]_vars
    PROVE  call' \in Calls \cup {None}
<1>1. ASSUME NEW id \in Ids, NEW new \in States \cup {Absent}, Begin(id, new)
      PROVE  call' \in Calls
    BY <1>1 DEF Begin, Calls, Maps
<1>2. ASSUME NEW place \in {"append", "compact", "return", "rollback"}, call # None, GoTo(place)
      PROVE  call' \in Calls
    BY <1>2, CallFields DEF GoTo
<1>3. CASE AppendRecord \/ AppendFails \/ CompactLocked \/ CompactFails
    BY <1>2, <1>3 DEF AppendRecord, AppendFails, CompactLocked, CompactFails
<1>4. CASE UNCHANGED call
    BY <1>4
<1>5. CASE call' = None
    BY <1>5
<1> QED
    BY <1>1, <1>3, <1>4, <1>5
       DEF Next, Steps, vars, Start, StartUnread, Return, Rollback, Destroy, Crash, CrashInAppend, Stops

(* Every variable of FileTaskStore keeps to its type. *)
THEOREM TypeCorrect == Spec => []TypeOK
<1>1. Init => TypeOK
  <2> SUFFICES ASSUME Init PROVE TypeOK
      OBVIOUS
  <2>1. file \in Seq(Lines)
    <3>1. <<>> \in Seq(Lines)
        OBVIOUS
    <3>2. \A t \in LegacyTasks : <<[kind |-> "legacy", tasks |-> t]>> \in Seq(Lines)
        BY FileAssumption DEF Lines, Maps
    <3> QED BY <3>1, <3>2 DEF Init
  <2>2. promised \in [Ids -> SUBSET (States \cup {Absent})]
    <3>1. CASE promised = [id \in Ids |-> {Absent}]
        BY <3>1
    <3>2. ASSUME NEW t \in LegacyTasks, promised = [id \in Ids |-> {t[id]}]
          PROVE  promised \in [Ids -> SUBSET (States \cup {Absent})]
      <4>1. t \in Maps
          BY FileAssumption DEF Maps
      <4> QED BY <3>2, <4>1 DEF Maps
    <3> QED BY <3>1, <3>2 DEF Init
  <2>3. tasks \in Maps /\ disk \in Disks /\ pending \in Nat /\ mishaps \in Nat
      BY DEF Init, Maps
  <2>4. open \in BOOLEAN /\ up \in BOOLEAN
    <3>1. ("unterminated" \in disk) \in BOOLEAN
        OBVIOUS
    <3>2. open = FALSE \/ open = ("unterminated" \in disk)
        BY Zenon DEF Init
    <3>3. up = FALSE
        BY DEF Init
    <3> QED BY <3>1, <3>2, <3>3, Zenon
  <2>5. call \in Calls \cup {None}
      BY DEF Init
  <2> QED BY <2>1, <2>2, <2>3, <2>4, <2>5 DEF TypeOK
<1>2. TypeOK /\ [Next]_vars => TypeOK'
  <2> SUFFICES ASSUME TypeOK, [Next]_vars PROVE TypeOK'
      OBVIOUS
  <2>a. /\ disk \in Disks /\ file \in Seq(Lines) /\ open \in BOOLEAN /\ tasks \in Maps /\ pending \in Nat
        /\ call \in Calls \cup {None} /\ up \in BOOLEAN /\ mishaps \in Nat
        /\ promised \in [Ids -> SUBSET (States \cup {Absent})]
      BY DEF TypeOK
  <2> USE DEF Next, Steps, vars
  <2>1. disk' \in Disks
      BY <2>a
  <2>2. call' \in Calls \cup {None}
      BY <2>a, CallType
  <2>3. file' \in Seq(Lines) /\ open' \in BOOLEAN
    <3>1. ASSUME NEW line \in Lines, NEW o \in BOOLEAN, Extend(line, o)
          PROVE  file' \in Seq(Lines) /\ open' \in BOOLEAN
        BY <2>a, <3>1, ExtendType
    <3>2. CASE AppendRecord
        BY <2>a, <3>1, <3>2, LineTypes DEF AppendRecord
    <3>3. CASE AppendFails
        BY <2>a, <3>1, <3>3, LineTypes DEF AppendFails
    <3>4. CASE CrashInAppend
        BY <2>a, <3>1, <3>4, LineTypes DEF CrashInAppend
    <3>5. CASE file' = <<[kind |-> "rewrite", tasks |-> tasks]>> /\ open' = FALSE
      <4>1. [kind |-> "rewrite", tasks |-> tasks] \in Lines
          BY <2>a, LineTypes
      <4>2. <<[kind |-> "rewrite", tasks |-> tasks]>> \in Seq(Lines)
          BY <4>1
      <4> QED BY <3>5, <4>2
    <3>6. CASE UNCHANGED <<file, open>>
        BY <2>a, <3>6
    <3> QED BY <3>2, <3>3, <3>4, <3>5, <3>6
               DEF Start, StartUnread, Begin, CompactLocked, Rewritten, CompactFails, Return,
                   Rollback, Destroy, Crash
  <2>4. tasks' \in Maps
    <3>1. CASE Start
        BY <2>a, <3>1, LoadType DEF Start
    <3>2. ASSUME NEW id \in Ids, NEW new \in States \cup {Absent}, Begin(id, new)
          PROVE  tasks' \in Maps
        BY <2>a, <3>2 DEF Begin, Maps
    <3>3. CASE Return \/ Rollback
      <4>1. call.id \in Ids /\ call.old \in States \cup {Absent} /\ call.new \in States \cup {Absent}
        <5>1. call \in Calls
            BY <2>a, <3>3 DEF Return, Rollback
        <5> QED BY <5>1, CallFields
      <4>2. \A s \in States \cup {Absent} : [tasks EXCEPT ![call.id] = s] \in Maps
          BY <2>a, <4>1 DEF Maps
      <4> QED BY <3>3, <4>1, <4>2 DEF Return, Rollback, RolledBack
    <3>4. CASE UNCHANGED tasks
        BY <2>a, <3>4
    <3>5. CASE tasks' = [id \in Ids |-> Absent]
        BY <3>5 DEF Maps
    <3> QED BY <3>1, <3>2, <3>3, <3>4, <3>5
               DEF StartUnread, AppendRecord, AppendFails, CompactLocked, CompactFails, Destroy,
                   Crash, CrashInAppend, Stops
  <2>5. pending' \in Nat
    <3>1. CASE Start
        BY <2>a, <3>1, CountType DEF Start
    <3>2. CASE pending' = 0 \/ pending' = pending \/ pending' = pending + 1
        BY <2>a, <3>2
    <3> QED BY <3>1, <3>2
               DEF StartUnread, Begin, AppendRecord, AppendFails, CompactLocked, CompactFails,
                   Return, Rollback, Destroy, Crash, CrashInAppend, Stops
  <2>6. up' \in BOOLEAN
      BY <2>a, Zenon
         DEF Start, StartUnread, Begin, AppendRecord, AppendFails, CompactLocked, CompactFails,
             Return, Rollback, Destroy, Crash, CrashInAppend, Stops
  <2>7. mishaps' \in Nat
    <3>1. mishaps' = mishaps \/ mishaps' = mishaps + 1
        BY DEF Start, StartUnread, Begin, AppendRecord, AppendFails, CompactLocked, CompactFails,
               Return, Rollback, Destroy, Crash, CrashInAppend, Mishap
    <3> QED BY <2>a, <3>1
  <2>8. promised' \in [Ids -> SUBSET (States \cup {Absent})]
    <3>1. CASE Return
      <4>1. call.id \in Ids /\ {call.new} \in SUBSET (States \cup {Absent})
        <5>1. call \in Calls
            BY <2>a, <3>1 DEF Return
        <5>2. call.id \in Ids /\ call.new \in States \cup {Absent}
            BY <5>1, CallFields
        <5> QED BY <5>2
      <4>2. promised' = [promised EXCEPT ![call.id] = {call.new}]
          BY <3>1 DEF Return
      <4> QED BY <2>a, <4>1, <4>2
    <3>2. CASE call # None /\ promised' = [promised EXCEPT ![call.id] = @ \cup {call.new}]
      <4>1. call.id \in Ids /\ promised[call.id] \cup {call.new} \in SUBSET (States \cup {Absent})
        <5>1. call \in Calls
            BY <2>a, <3>2
        <5>2. call.id \in Ids /\ call.new \in States \cup {Absent}
            BY <5>1, CallFields
        <5> QED BY <2>a, <5>2
      <4> QED BY <2>a, <3>2, <4>1
    <3>3. CASE promised' = promised
        BY <2>a, <3>3
    <3> QED BY <3>1, <3>2, <3>3
               DEF Start, StartUnread, Begin, AppendRecord, AppendFails, CompactLocked, CompactFails,
                   Rollback, Destroy, Crash, CrashInAppend
  <2> QED BY <2>1, <2>2, <2>3, <2>4, <2>5, <2>6, <2>7, <2>8 DEF TypeOK
<1> QED BY <1>1, <1>2, PTL DEF Spec

--------------------------------------------------------------------------------
(* What a step does to the file *)

(* Every line is whole. *)
Clean == ~open /\ \A i \in 1 .. Len(file) : file[i].kind # "junk"

(* A file of whole lines is read to the end. *)
LEMMA CleanDurable ==
    ASSUME Clean, NEW id \in Ids
    PROVE  Durable[id] = Latest(file, id)
<1>1. ~Corrupt(file, open)
    BY DEF Clean, Corrupt
<1> QED BY <1>1 DEF Durable, LoadRecords

(* The line of a call names its task and no other, and gives it the new state. *)
LEMMA LineMeans ==
    ASSUME NEW c \in Calls
    PROVE  /\ Line(c).kind # "junk"
           /\ \A id : Names(Line(c), id) <=> id = c.id
           /\ Value(Line(c), c.id) = c.new
<1>1. CASE c.new = Absent
    BY <1>1 DEF Line, Names, Value
<1>2. CASE c.new # Absent
    BY <1>2 DEF Line, Names, Value
<1> QED BY <1>1, <1>2

(* AppendRecord changes the task of the call in the file, and nothing else. *)
LEMMA AppendMeans ==
    ASSUME file \in Seq(Lines), call \in Calls, Clean, Extend(Line(call), FALSE)
    PROVE  Clean' /\ \A id \in Ids : Durable'[id] = IF id = call.id THEN call.new ELSE Durable[id]
<1>1. file' = Append(file, Line(call)) /\ open' = FALSE
    BY DEF Extend, Clean
<1>2. Line(call) \in Lines /\ Line(call).kind # "junk"
    BY LineTypes, LineMeans
<1>3. Clean'
  <2>1. /\ Len(file) \in Nat /\ Len(file') = Len(file) + 1 /\ file'[Len(file) + 1] = Line(call)
        /\ \A i \in 1 .. Len(file) : file'[i] = file[i]
      BY <1>1, <1>2, LenProperties, AppendProperties
  <2> QED BY <1>1, <1>2, <2>1 DEF Clean
<1>4. ASSUME NEW id \in Ids
      PROVE  Durable'[id] = IF id = call.id THEN call.new ELSE Durable[id]
  <2>1. Durable'[id] = Latest(file', id)
      BY <1>3, CleanDurable DEF Durable, LoadRecords, Corrupt, Clean
  <2>2. Durable[id] = Latest(file, id)
      BY CleanDurable
  <2>3. Latest(file', id) = IF Names(Line(call), id) THEN Value(Line(call), id) ELSE Latest(file, id)
      BY <1>1, <1>2, LatestAppend
  <2> QED BY <2>1, <2>2, <2>3, LineMeans
<1> QED BY <1>3, <1>4

(* A rewrite puts into the file what is in memory. *)
LEMMA RewriteMeans ==
    ASSUME tasks \in Maps, file' = <<[kind |-> "rewrite", tasks |-> tasks]>>, open' = FALSE
    PROVE  Clean' /\ \A id \in Ids : Durable'[id] = tasks[id]
<1>1. Clean'
    BY DEF Clean
<1>2. ASSUME NEW id \in Ids PROVE Durable'[id] = tasks[id]
  <2>1. Durable'[id] = Latest(file', id)
      BY <1>1 DEF Durable, LoadRecords, Corrupt, Clean
  <2>2. Latest(file', id) = tasks[id]
      BY LatestRewrite
  <2> QED BY <2>1, <2>2
<1> QED BY <1>1, <1>2

(* At the first start the file says what was promised of it. *)
LEMMA InitMeans ==
    ASSUME Init, "unterminated" \notin disk
    PROVE  Clean /\ \A id \in Ids : promised[id] = {Durable[id]}
<1>1. CASE file = <<>> /\ open = FALSE /\ promised = [id \in Ids |-> {Absent}]
  <2>1. Clean
      BY <1>1 DEF Clean
  <2>2. ASSUME NEW id \in Ids PROVE Durable[id] = Absent
    <3>1. NamedIn(file, id) = {}
        BY <1>1 DEF NamedIn
    <3> QED BY <2>1, <3>1, CleanDurable, LatestIs
  <2> QED BY <1>1, <2>1, <2>2
<1>2. ASSUME NEW t \in LegacyTasks, file = <<[kind |-> "legacy", tasks |-> t]>>,
             open = ("unterminated" \in disk), promised = [id \in Ids |-> {t[id]}]
      PROVE  Clean /\ \A id \in Ids : promised[id] = {Durable[id]}
  <2>1. ~open
    <3>1. ~("unterminated" \in disk)
        OBVIOUS
    <3> QED BY <1>2, <3>1, Zenon
  <2>2. Clean
      BY <1>2, <2>1 DEF Clean
  <2>3. t \in Maps
      BY FileAssumption DEF Maps
  <2>4. ASSUME NEW id \in Ids PROVE Durable[id] = t[id]
    <3>1. Latest(file, id) = t[id]
        BY <1>2, <2>3, LatestRewrite
    <3> QED BY <2>2, <3>1, CleanDurable
  <2> QED BY <1>2, <2>2, <2>4
<1> QED BY <1>1, <1>2, Zenon DEF Init

(* What a step is meant to do to the tasks in the file: an append is the change of the call, a  *)
(* rewrite brings the file to what is in memory, a failure leaves them alone.                   *)
FileFollows ==
    /\ AppendRecord =>
          \A id \in Ids : Durable'[id] = IF id = call.id THEN call.new ELSE Durable[id]
    /\ CompactLocked => \A id \in Ids : Durable'[id] = tasks[id]
    /\ Destroy => \/ Durable' = Durable
                  \/ \A id \in Ids : Durable'[id] = tasks[id]
    /\ UNCHANGED <<file, open>> => Durable' = Durable
    /\ AppendFails => Durable' = Durable
    /\ ~CrashInAppend

(* In a file of whole lines each step that does not fail does what it is meant to do. *)
LEMMA CleanFollows ==
    ASSUME TypeOK, Clean, AppendFails => UNCHANGED <<file, open>>, ~CrashInAppend, [Next]_vars
    PROVE  Clean' /\ FileFollows
<1>1. ASSUME UNCHANGED <<file, open>> PROVE Clean' /\ Durable' = Durable
    BY <1>1 DEF Clean, Durable, LoadRecords, Corrupt
<1>2. ASSUME AppendRecord
      PROVE  Clean' /\ \A id \in Ids : Durable'[id] = IF id = call.id THEN call.new ELSE Durable[id]
  <2>1. call \in Calls /\ file \in Seq(Lines) /\ Extend(Line(call), FALSE)
      BY <1>2 DEF AppendRecord, TypeOK
  <2> QED BY <2>1, AppendMeans
<1>3. tasks \in Maps
    BY DEF TypeOK
<1>4. ASSUME CompactLocked PROVE Clean' /\ \A id \in Ids : Durable'[id] = tasks[id]
    BY <1>3, <1>4, RewriteMeans DEF CompactLocked, Rewritten
<1>5. ASSUME Destroy PROVE Clean' /\ (Durable' = Durable \/ \A id \in Ids : Durable'[id] = tasks[id])
    BY <1>1, <1>3, <1>5, RewriteMeans DEF Destroy
<1>6. ASSUME ~AppendRecord, ~CompactLocked, ~Destroy PROVE UNCHANGED <<file, open>>
    BY <1>6 DEF Next, Steps, vars, Start, StartUnread, Begin, CompactFails, Return, Rollback, Crash
<1> QED BY <1>1, <1>2, <1>4, <1>5, <1>6 DEF FileFollows

--------------------------------------------------------------------------------
(* Nothing acknowledged is lost *)

(* Every task but the one of the call is in a state its caller was told of, in the file and in *)
(* memory; where the call stands says how far the file and memory have come with its task.     *)
IdleKept(id) == Durable[id] \in promised[id] /\ (up => tasks[id] \in promised[id])

CallKept ==
    /\ call.new \in Changes(call.old)
    /\ call.old \in promised[call.id]
    /\ tasks[call.id] = IF call.new = Absent THEN call.old ELSE call.new
    /\ call.at = "append" => Durable[call.id] \in promised[call.id]
    /\ call.at = "compact" => call.new # Absent
    /\ call.at \in {"compact", "return"} => Durable[call.id] = call.new
    /\ call.at = "rollback" => Durable[call.id] \in promised[call.id] \cup {call.new}

Accounted ==
    /\ call # None => up /\ CallKept
    /\ \A id \in Ids : (call = None \/ id # call.id) => IdleKept(id)

Kept == Clean /\ Accounted

(* In every such state each task is in a state that its caller has to reckon with. *)
LEMMA AccountedLosesNothing ==
    ASSUME TypeOK, Accounted
    PROVE  NothingLost
<1> SUFFICES ASSUME NEW id \in Ids
             PROVE  LET reckoned == promised[id] \cup (IF call # None /\ call.id = id THEN {call.new} ELSE {}) IN
                    /\ up => tasks[id] \in reckoned
                    /\ Durable[id] \in reckoned
    BY DEF NothingLost
<1>1. CASE call = None \/ id # call.id
    BY <1>1 DEF Accounted, IdleKept
<1>2. CASE call # None /\ id = call.id
  <2>1. call.at \in {"append", "compact", "return", "rollback"}
      BY <1>2, CallFields DEF TypeOK
  <2> QED BY <1>2, <2>1 DEF Accounted, CallKept
<1> QED BY <1>1, <1>2

KeptWhereHandled == disk \subseteq Handled => Kept

(* A step that does to the file what it is meant to do keeps the account. *)
LEMMA AccountedStep ==
    ASSUME TypeOK, Accounted, FileFollows, ~StartUnread, [Next]_vars
    PROVE  Accounted'
<1>1. Accounted
    OBVIOUS
<1>2. tasks \in Maps /\ promised \in [Ids -> SUBSET (States \cup {Absent})] /\ call \in Calls \cup {None}
    BY DEF TypeOK
<1>3. call # None => call \in Calls /\ call.id \in Ids /\ call.old \in States \cup {Absent}
                    /\ call.new \in States \cup {Absent}
    BY <1>2, CallFields
<1>4. FileFollows
    OBVIOUS
<1> USE DEF Accounted, FileFollows, IdleKept, CallKept
<1>5. CASE Start
  <2>1. call = None /\ call' = None /\ tasks' = Durable /\ Durable' = Durable /\ promised' = promised
      BY <1>1, <1>4, <1>5 DEF Start, Durable
  <2> QED BY <1>1, <1>4, <2>1
<1>7. ASSUME NEW id \in Ids, NEW new \in States \cup {Absent}, Begin(id, new)
      PROVE  Accounted'
  <2>1. /\ call = None /\ up /\ up' = up /\ Durable' = Durable /\ promised' = promised
        /\ new \in Changes(tasks[id])
        /\ call' = [id |-> id, old |-> tasks[id], new |-> new, at |-> "append"]
        /\ tasks' = IF new = Absent THEN tasks ELSE [tasks EXCEPT ![id] = new]
      BY <1>4, <1>7 DEF Begin
  <2>2. call' # None
    <3>1. call' \in Calls
        BY <1>2, <2>1 DEF Calls, Maps
    <3> QED BY <3>1, NoneAssumption
  <2>3. /\ call'.id = id /\ call'.old = tasks[id] /\ call'.new = new /\ call'.at = "append"
        /\ tasks'[id] = IF new = Absent THEN tasks[id] ELSE new
        /\ \A j \in Ids : j # id => tasks'[j] = tasks[j]
      BY <1>2, <2>1 DEF Maps
  <2> QED BY <1>1, <1>4, <2>1, <2>2, <2>3
<1>8. ASSUME NEW place \in {"append", "compact", "return", "rollback"}, call # None, GoTo(place)
      PROVE  /\ call' # None /\ call'.id = call.id /\ call'.old = call.old /\ call'.new = call.new
             /\ call'.at = place
    BY <1>3, <1>8, GoToMeans
<1>9. CASE AppendRecord
  <2>1. /\ call # None /\ GoTo(IF CompactDue THEN "compact" ELSE "return")
        /\ UNCHANGED <<tasks, up, promised>>
      BY <1>9 DEF AppendRecord
  <2>2. CASE CompactDue
    <3>1. call.new # Absent /\ GoTo("compact")
        BY <2>1, <2>2 DEF CompactDue
    <3> QED BY <1>1, <1>3, <1>4, <1>8, <1>9, <2>1, <3>1
  <2>3. CASE ~CompactDue
    <3>1. GoTo("return")
        BY <2>1, <2>3
    <3> QED BY <1>1, <1>3, <1>4, <1>8, <1>9, <2>1, <3>1
  <2> QED BY <2>2, <2>3
<1>10. CASE AppendFails
  <2>1. /\ call # None /\ call.at = "append" /\ GoTo("rollback") /\ Durable' = Durable
        /\ UNCHANGED <<tasks, up, promised>>
      BY <1>4, <1>10 DEF AppendFails
  <2> QED BY <1>1, <1>3, <1>4, <1>8, <2>1
<1>11. CASE CompactLocked
  <2>1. /\ call # None /\ call.at = "compact" /\ GoTo("return") /\ UNCHANGED <<tasks, up, promised>>
      BY <1>11 DEF CompactLocked
  <2> QED BY <1>1, <1>3, <1>4, <1>8, <1>11, <2>1
<1>12. CASE CompactFails
  <2>1. /\ call # None /\ call.at = "compact" /\ GoTo("rollback") /\ Durable' = Durable
        /\ UNCHANGED <<tasks, up, promised>>
      BY <1>4, <1>12 DEF CompactFails
  <2> QED BY <1>1, <1>3, <1>4, <1>8, <2>1
<1>13. CASE Return
  <2>1. /\ call # None /\ call.at = "return" /\ call' = None /\ up' = up /\ Durable' = Durable
        /\ promised' = [promised EXCEPT ![call.id] = {call.new}]
        /\ tasks' = [tasks EXCEPT ![call.id] = call.new]
      BY <1>4, <1>13 DEF Return
  <2>2. /\ promised'[call.id] = {call.new} /\ tasks'[call.id] = call.new
        /\ \A j \in Ids : j # call.id => tasks'[j] = tasks[j] /\ promised'[j] = promised[j]
      BY <1>2, <1>3, <2>1 DEF Maps
  <2> QED BY <1>1, <1>3, <1>4, <2>1, <2>2
<1>14. CASE Rollback
  <2>1. /\ call # None /\ call.at = "rollback" /\ call' = None /\ up' = up /\ Durable' = Durable
        /\ promised' = [promised EXCEPT ![call.id] = @ \cup {call.new}]
        /\ tasks' = [tasks EXCEPT ![call.id] = call.old]
      BY <1>4, <1>14 DEF Rollback, RolledBack
  <2>2. /\ promised'[call.id] = promised[call.id] \cup {call.new} /\ tasks'[call.id] = call.old
        /\ \A j \in Ids : j # call.id => tasks'[j] = tasks[j] /\ promised'[j] = promised[j]
      BY <1>2, <1>3, <2>1 DEF Maps
  <2> QED BY <1>1, <1>3, <1>4, <2>1, <2>2
<1>15. CASE Destroy
  <2>1. up /\ call = None /\ call' = None /\ up' = FALSE /\ promised' = promised
      BY <1>15 DEF Destroy, Stops
  <2> QED BY <1>1, <1>4, <1>15, <2>1
<1>16. CASE Crash
  <2>1. call' = None /\ up' = FALSE /\ Durable' = Durable
      BY <1>4, <1>16 DEF Crash, Stops
  <2>2. CASE call = None
    <3>1. promised' = promised
        BY <1>16, <2>2 DEF Crash
    <3> QED BY <1>1, <1>4, <2>1, <2>2, <3>1
  <2>3. CASE call # None
    <3>1. promised' = [promised EXCEPT ![call.id] = @ \cup {call.new}]
        BY <1>16, <2>3 DEF Crash
    <3>2. /\ promised'[call.id] = promised[call.id] \cup {call.new}
          /\ \A j \in Ids : j # call.id => promised'[j] = promised[j]
        BY <1>2, <1>3, <2>3, <3>1
    <3>3. call.at \in {"append", "compact", "return", "rollback"}
        BY <1>3, <2>3, CallFields
    <3>4. Durable[call.id] \in promised[call.id] \cup {call.new}
        BY <1>1, <2>3, <3>3
    <3> QED BY <1>1, <1>3, <1>4, <2>1, <2>3, <3>2, <3>4
  <2> QED BY <2>2, <2>3
<1>17. CASE UNCHANGED vars
  <2>1. UNCHANGED <<file, open, call, up, tasks, promised>>
      BY <1>17 DEF vars
  <2> QED BY <1>1, <1>4, <2>1
<1> QED BY <1>4, <1>5, <1>7, <1>9, <1>10, <1>11, <1>12, <1>13, <1>14, <1>15, <1>16, <1>17
           DEF Next, Steps

(* On a disk that the store copes with nothing is cut off. *)
LEMMA NothingTorn ==
    ASSUME disk \subseteq Handled
    PROVE  (AppendFails => UNCHANGED <<file, open>>) /\ ~CrashInAppend
BY DEF AppendFails, CrashInAppend, Handled

(* The account is kept there throughout. *)
LEMMA KeptAlways == Spec => [](TypeOK /\ KeptWhereHandled)
<1>1. Init => KeptWhereHandled
  <2> SUFFICES ASSUME Init, disk \subseteq Handled PROVE Kept
      BY DEF KeptWhereHandled
  <2>1. Clean /\ \A id \in Ids : promised[id] = {Durable[id]}
      BY InitMeans DEF Handled
  <2>2. call = None /\ up = FALSE
      BY DEF Init
  <2> QED BY <2>1, <2>2 DEF Kept, Accounted, IdleKept
<1>2. TypeOK /\ KeptWhereHandled /\ [Next]_vars => KeptWhereHandled'
  <2> SUFFICES ASSUME TypeOK, KeptWhereHandled, [Next]_vars, (disk \subseteq Handled)' PROVE Kept'
      BY DEF KeptWhereHandled
  <2>1. disk \subseteq Handled /\ Clean /\ Accounted
      BY DEF Next, vars, Kept, KeptWhereHandled, Handled
  <2>2. Clean' /\ FileFollows
      BY <2>1, NothingTorn, CleanFollows
  <2>3. ~StartUnread
      BY <2>1 DEF StartUnread, Handled
  <2>4. Accounted'
      BY <2>1, <2>2, <2>3, AccountedStep
  <2> QED BY <2>2, <2>4 DEF Kept
<1> QED BY <1>1, <1>2, TypeCorrect, PTL DEF Spec

(* Nothing the caller was told of is lost or undone, for any tasks, any number of crashes       *)
(* between two steps and of failures to open or to rewrite the file.                            *)
THEOREM AckedSurvivesCorrect == Spec => []AckedSurvives
<1>1. TypeOK /\ KeptWhereHandled => AckedSurvives
    BY AccountedLosesNothing DEF AckedSurvives, KeptWhereHandled, Kept
<1> QED BY <1>1, KeptAlways, PTL

(* A line that is not JSON at the end of a file of whole lines, without a newline, is passed   *)
(* over when the file is read.                                                                 *)
LEMMA TornLineForgiven ==
    ASSUME file \in Seq(Lines), Clean, NEW line \in Lines, Extend(line, TRUE)
    PROVE  /\ ~Corrupt(file', open')
           /\ \A id \in Ids : Durable'[id] = IF Names(line, id) THEN Value(line, id) ELSE Durable[id]
<1>1. file' = Append(file, line) /\ open' = TRUE
    BY DEF Extend, Clean
<1>2. /\ Len(file) \in Nat /\ Len(file') = Len(file) + 1
      /\ \A i \in 1 .. Len(file) : file'[i] = file[i] /\ file[i].kind # "junk"
    BY <1>1, LenProperties, AppendProperties DEF Clean
<1>3. ~Corrupt(file', open')
    BY <1>1, <1>2 DEF Corrupt
<1>4. ASSUME NEW id \in Ids
      PROVE  Durable'[id] = IF Names(line, id) THEN Value(line, id) ELSE Durable[id]
  <2>1. Durable'[id] = Latest(file', id)
      BY <1>3 DEF Durable, LoadRecords
  <2>2. Durable[id] = Latest(file, id)
      BY CleanDurable
  <2> QED BY <1>1, <2>1, <2>2, LatestAppend
<1> QED BY <1>3, <1>4

(* Before the first mishap every line is whole; after it the file may end in a torn line, and  *)
(* until something is appended behind that line the account is kept all the same.              *)
TornKept ==
    "unterminated" \notin disk =>
        /\ mishaps = 0 => Clean
        /\ mishaps = 0 \/ (mishaps = 1 /\ open) => Accounted

(* This holds throughout. *)
LEMMA TornAlways == Spec => [](TypeOK /\ TornKept)
<1>1. Init => TornKept
  <2> SUFFICES ASSUME Init, "unterminated" \notin disk PROVE Clean /\ Accounted
      BY DEF TornKept
  <2>1. Clean /\ \A id \in Ids : promised[id] = {Durable[id]}
      BY InitMeans
  <2>2. call = None /\ up = FALSE
      BY DEF Init
  <2> QED BY <2>1, <2>2 DEF Accounted, IdleKept
<1>2. TypeOK /\ TornKept /\ [Next]_vars => TornKept'
  <2> SUFFICES ASSUME TypeOK, TornKept, [Next]_vars PROVE TornKept'
      OBVIOUS
  <2> SUFFICES ASSUME "unterminated" \notin disk, mishaps' = 0 \/ (mishaps' = 1 /\ open')
               PROVE  (mishaps' = 0 => Clean') /\ Accounted'
      BY DEF Next, vars, TornKept
  <2>1. /\ mishaps \in Nat /\ open \in BOOLEAN /\ file \in Seq(Lines) /\ call \in Calls \cup {None}
        /\ promised \in [Ids -> SUBSET (States \cup {Absent})]
      BY DEF TypeOK
  <2>2. /\ mishaps' = mishaps \/ mishaps' = mishaps + 1
        /\ mishaps' = mishaps => ~StartUnread /\ ~AppendFails /\ ~CrashInAppend
    <3>1. ASSUME StartUnread \/ AppendFails \/ CompactFails \/ Crash \/ CrashInAppend
          PROVE  mishaps' = mishaps + 1
        BY <3>1, Zenon DEF StartUnread, AppendFails, CompactFails, Crash, CrashInAppend, Mishap
    <3>2. ASSUME ~(StartUnread \/ AppendFails \/ CompactFails \/ Crash \/ CrashInAppend)
          PROVE  mishaps' = mishaps
        BY <3>2 DEF Next, Steps, vars, Start, Begin, AppendRecord, CompactLocked, Return, Rollback, Destroy
    <3> QED BY <2>1, <3>1, <3>2
  <2>3. CASE mishaps' = 0
    <3>1. mishaps = 0 /\ Clean /\ Accounted
        BY <2>1, <2>2, <2>3 DEF TornKept
    <3>2. ~StartUnread /\ ~AppendFails /\ ~CrashInAppend
        BY <2>2, <2>3, <3>1
    <3>3. Clean' /\ FileFollows
        BY <3>1, <3>2, CleanFollows
    <3> QED BY <3>1, <3>2, <3>3, AccountedStep
  <2>4. CASE mishaps' = 1 /\ open' /\ mishaps = 0
    <3>1. Clean /\ Accounted /\ ~open
        BY <2>4 DEF TornKept, Clean
    <3>2. AppendFails \/ CrashInAppend
        BY <2>4, <3>1
           DEF Next, Steps, vars, Start, StartUnread, Begin, AppendRecord, CompactLocked, CompactFails,
               Return, Rollback, Destroy, Crash, Mishap, Extend
    <3>3. CASE AppendFails
      <4>1. Extend(Junk, TRUE) /\ Junk \in Lines /\ \A id : ~Names(Junk, id)
          BY <2>4, <3>1, <3>3, LineTypes DEF AppendFails, Junk, Names
      <4>2. \A id \in Ids : Durable'[id] = Durable[id]
          BY <2>1, <3>1, <4>1, TornLineForgiven
      <4>3. Durable' = Durable
          BY <4>2 DEF Durable, LoadRecords
      <4>4. ~StartUnread /\ ~AppendRecord /\ ~CompactLocked /\ ~Destroy /\ ~CrashInAppend
        <5>1. call # None /\ call.at = "append" /\ GoTo("rollback")
            BY <3>3 DEF AppendFails
        <5>2. call' # None /\ call'.at = "rollback"
            BY <2>1, <5>1, GoToMeans
        <5> QED BY <2>4, <5>1, <5>2 DEF Extend, StartUnread, AppendRecord, CompactLocked, Destroy, CrashInAppend, Stops
      <4>5. FileFollows
          BY <4>3, <4>4 DEF FileFollows
      <4> QED BY <2>4, <3>1, <4>4, <4>5, AccountedStep
    <3>4. CASE CrashInAppend
      <4>1. /\ up' = FALSE /\ call' = None /\ call # None /\ call.at = "append" /\ call \in Calls
            /\ promised' = [promised EXCEPT ![call.id] = @ \cup {call.new}]
          BY <2>1, <3>4 DEF CrashInAppend, Stops
      <4>2. PICK line \in {Junk, Line(call)} : Extend(line, TRUE)
          BY <3>4 DEF CrashInAppend
      <4>3. line \in Lines /\ \A id : Names(line, id) => id = call.id /\ Value(line, id) = call.new
          BY <4>1, <4>2, LineTypes, LineMeans DEF Junk, Names
      <4>4. \A id \in Ids : Durable'[id] = IF Names(line, id) THEN Value(line, id) ELSE Durable[id]
          BY <2>1, <3>1, <4>2, <4>3, TornLineForgiven
      <4>5. call.id \in Ids /\ Durable[call.id] \in promised[call.id]
          BY <3>1, <4>1, CallFields DEF Accounted, CallKept
      <4>6. \A id \in Ids : promised'[id] = IF id = call.id THEN promised[id] \cup {call.new} ELSE promised[id]
          BY <2>1, <4>1, <4>5
      <4>7. \A id \in Ids : Durable[id] \in promised[id]
          BY <3>1, <4>1, <4>5 DEF Accounted, IdleKept
      <4>8. \A id \in Ids : Durable'[id] \in promised'[id]
        <5>1. ASSUME NEW id \in Ids, Names(line, id)
              PROVE  Durable'[id] \in promised'[id]
            <6>1. id = call.id /\ Value(line, id) = call.new
                BY <4>3, <5>1
            <6>2. Durable'[id] = Value(line, id) /\ promised'[id] = promised[id] \cup {call.new}
                BY <4>4, <4>6, <5>1, <6>1, Zenon
            <6> QED BY <6>1, <6>2
        <5>2. ASSUME NEW id \in Ids, ~Names(line, id)
              PROVE  Durable'[id] \in promised'[id]
            <6>1. Durable'[id] = Durable[id]
                BY <4>4, <5>2, Zenon
            <6>2. promised'[id] = promised[id] \cup {call.new} \/ promised'[id] = promised[id]
                BY <4>6, Zenon
            <6>3. Durable[id] \in promised[id]
                BY <4>7
            <6> QED BY <6>1, <6>2, <6>3
        <5> QED BY <5>1, <5>2, Zenon
      <4> QED BY <2>4, <4>1, <4>8 DEF Accounted, IdleKept
    <3> QED BY <2>4, <3>2, <3>3, <3>4
  <2>5. CASE mishaps' = 1 /\ open' /\ mishaps = 1
    <3>1. ~StartUnread /\ ~AppendFails /\ ~CrashInAppend
        BY <2>2, <2>5
    <3>2. ~AppendRecord /\ ~CompactLocked /\ (Destroy => UNCHANGED <<file, open>>)
        BY <2>5 DEF AppendRecord, CompactLocked, Destroy, Extend
    <3>3. UNCHANGED <<file, open>>
        BY <3>1, <3>2 DEF Next, Steps, vars, Start, Begin, CompactFails, Return, Rollback, Crash
    <3>4. Durable' = Durable
        BY <3>3 DEF Durable, LoadRecords, Corrupt
    <3>5. FileFollows
        BY <3>1, <3>2, <3>4 DEF FileFollows
    <3>6. Accounted
        BY <2>5, <3>3 DEF TornKept
    <3> QED BY <2>5, <3>1, <3>5, <3>6, AccountedStep
  <2> QED BY <2>1, <2>2, <2>3, <2>4, <2>5
<1> QED BY <1>1, <1>2, TypeCorrect, PTL DEF Spec

(* An append that was cut off, by an error or by a crash, costs nothing but its own line until *)
(* something is appended behind it.                                                            *)
THEOREM TornTailForgivenCorrect == Spec => []TornTailForgiven
<1>1. TypeOK /\ TornKept => TornTailForgiven
  <2> SUFFICES ASSUME TypeOK, TornKept, "unterminated" \notin disk, mishaps <= 1, open PROVE NothingLost
      BY DEF TornTailForgiven
  <2>1. mishaps = 0 \/ mishaps = 1
      BY DEF TypeOK
  <2>2. Accounted
      BY <2>1 DEF TornKept
  <2> QED BY <2>2, AccountedLosesNothing
<1> QED BY <1>1, TornAlways, PTL

(* No call gives a task that has ended another status. *)
LEMMA EndedByCalls ==
    ASSUME NEW s \in States, Terminal(s), NEW new \in Changes(s)
    PROVE  new = Absent \/ new.status = s.status
<1>1. s # Absent /\ s.status \in Statuses /\ s.attr \in Attrs
    BY StatesAssumption DEF States
<1>2. s.status # "InputRequired"
    BY DEF Terminal
<1>3. new \in SetTaskStatus(s) \/ new \in SetTaskOwner(s) \/ new \in BindTaskTool(s) \/ new \in RemoveTask(s)
    BY <1>1, <1>2 DEF Changes, UpdateTask, CancelTask, FailTask, ParkTaskForInput, AdvanceTaskWithInput
<1>4. CASE new \in SetTaskStatus(s)
    BY <1>4 DEF SetTaskStatus, Becomes, States
<1>5. CASE new \in SetTaskOwner(s) \/ new \in BindTaskTool(s)
    BY <1>5 DEF SetTaskOwner, BindTaskTool, States
<1>6. CASE new \in RemoveTask(s)
    BY <1>6 DEF RemoveTask
<1> QED BY <1>3, <1>4, <1>5, <1>6

(* Once a caller knows that a task has ended, nothing makes another status possible for it:     *)
(* what may become of it is what the call under way would make of a state the caller knows of.  *)
THEOREM EndedStaysEndedCorrect == Spec => EndedStaysEnded
<1> DEFINE Ended == disk \subseteq Handled => \A id \in Ids :
                       (\A s \in promised[id] : s # Absent /\ Terminal(s)) =>
                           \A n \in promised'[id] : n = Absent \/ \E s \in promised[id] : n.status = s.status
<1>1. TypeOK /\ KeptWhereHandled /\ [Next]_vars => [Ended]_vars
  <2> SUFFICES ASSUME TypeOK, KeptWhereHandled, [Next]_vars, disk \subseteq Handled, NEW id \in Ids,
                      \A s \in promised[id] : s # Absent /\ Terminal(s), NEW n \in promised'[id]
               PROVE  n = Absent \/ \E s \in promised[id] : n.status = s.status
      OBVIOUS
  <2>1. Kept /\ promised \in [Ids -> SUBSET (States \cup {Absent})]
      BY DEF KeptWhereHandled, TypeOK
  <2>2. \/ promised' = promised
        \/ call # None /\ promised' = [promised EXCEPT ![call.id] = {call.new}]
        \/ call # None /\ promised' = [promised EXCEPT ![call.id] = @ \cup {call.new}]
      BY DEF Next, Steps, vars, Start, StartUnread, Begin, AppendRecord, AppendFails, CompactLocked,
             CompactFails, Return, Rollback, Destroy, Crash, CrashInAppend
  <2>3. n \in promised[id] \/ (call # None /\ id = call.id /\ n = call.new)
      BY <2>1, <2>2
  <2>4. CASE call # None /\ id = call.id /\ n = call.new
    <3>1. n \in Changes(call.old) /\ call.old \in promised[id]
        BY <2>1, <2>4 DEF Kept, Accounted, CallKept
    <3>2. call.old \in States /\ Terminal(call.old)
        BY <2>1, <3>1
    <3>3. n = Absent \/ n.status = call.old.status
        BY <3>1, <3>2, EndedByCalls
    <3> QED BY <3>1, <3>3
  <2> QED BY <2>3, <2>4
<1> QED BY <1>1, KeptAlways, PTL DEF Spec, EndedStaysEnded

--------------------------------------------------------------------------------
(* On a disk on which only opening can fail, the file is the abstract store *)

(* The file and memory agree on every task but the one of the call; on that one the file has   *)
(* the old state until the line is appended, and the new one from then on.                     *)
CallAgrees ==
    /\ call.new \in Changes(call.old)
    /\ tasks[call.id] = IF call.new = Absent THEN call.old ELSE call.new
    /\ call.at \in {"append", "rollback"} => Durable[call.id] = call.old
    /\ call.at \in {"compact", "return"} => Durable[call.id] = call.new
    /\ call.at = "compact" => call.new # Absent

Agrees ==
    /\ Clean
    /\ call # None => up /\ CallAgrees
    /\ up => \A id \in Ids : (call = None \/ id # call.id) => Durable[id] = tasks[id]

(* What a step does to the tasks in the file. *)
NothingChanges == \A id \in Ids : Durable'[id] = Durable[id]

CallTakesEffect ==
    /\ call # None /\ Durable[call.id] = call.old
    /\ \A id \in Ids : Durable'[id] = IF id = call.id THEN call.new ELSE Durable[id]

(* Every step keeps the agreement, and either leaves the tasks in the file alone or is the one *)
(* in which the call takes effect there.                                                       *)
LEMMA AgreesStep ==
    ASSUME TypeOK, Agrees, OnlyOpening, [Next]_vars
    PROVE  Agrees' /\ (NothingChanges \/ CallTakesEffect)
<1>1. disk \subseteq Handled /\ Clean /\ ~("compact_fails" \in disk)
    BY DEF Agrees, Handled, OnlyOpening
<1>2. tasks \in Maps /\ call \in Calls \cup {None}
    BY DEF TypeOK
<1>3. call # None => call \in Calls /\ call.id \in Ids
    BY <1>2, CallFields
<1>4. /\ Clean'
      /\ AppendRecord =>
            \A id \in Ids : Durable'[id] = IF id = call.id THEN call.new ELSE Durable[id]
      /\ CompactLocked => \A id \in Ids : Durable'[id] = tasks[id]
      /\ Destroy => \/ Durable' = Durable
                    \/ \A id \in Ids : Durable'[id] = tasks[id]
      /\ UNCHANGED <<file, open>> => Durable' = Durable
      /\ AppendFails => Durable' = Durable
      /\ ~CrashInAppend
    BY <1>1, NothingTorn, CleanFollows DEF FileFollows
<1> USE DEF Agrees, CallAgrees, NothingChanges, CallTakesEffect
<1>5. CASE Start
  <2>1. call = None /\ call' = None /\ tasks' = Durable /\ Durable' = Durable
      BY <1>4, <1>5 DEF Start, Durable
  <2> QED BY <1>4, <2>1
<1>6. CASE StartUnread
    BY <1>1, <1>6 DEF StartUnread, Handled
<1>7. ASSUME NEW id \in Ids, NEW new \in States \cup {Absent}, Begin(id, new)
      PROVE  Agrees' /\ NothingChanges
  <2>1. /\ call = None /\ up /\ up' = up /\ Durable' = Durable /\ new \in Changes(tasks[id])
        /\ call' = [id |-> id, old |-> tasks[id], new |-> new, at |-> "append"]
        /\ tasks' = IF new = Absent THEN tasks ELSE [tasks EXCEPT ![id] = new]
      BY <1>4, <1>7 DEF Begin
  <2>2. /\ call'.id = id /\ call'.old = tasks[id] /\ call'.new = new /\ call'.at = "append"
        /\ tasks'[id] = IF new = Absent THEN tasks[id] ELSE new
        /\ \A j \in Ids : j # id => tasks'[j] = tasks[j]
      BY <1>2, <2>1 DEF Maps
  <2>3. Durable[id] = tasks[id]
      BY <2>1
  <2>4. CallAgrees'
      BY <2>1, <2>2, <2>3
  <2>5. \A j \in Ids : j # id => Durable'[j] = tasks'[j]
      BY <2>1, <2>2
  <2>6. up' /\ call' # None
    <3>1. call' \in Calls
        BY <1>2, <2>1 DEF Calls, Maps
    <3> QED BY <2>1, <3>1, NoneAssumption
  <2>7. Agrees'
      BY <1>4, <2>2, <2>4, <2>5, <2>6
  <2>8. NothingChanges
      BY <2>1
  <2> QED BY <2>7, <2>8
<1>8. ASSUME NEW place \in {"append", "compact", "return", "rollback"}, call # None, GoTo(place)
      PROVE  /\ call' # None /\ call'.id = call.id /\ call'.old = call.old /\ call'.new = call.new
             /\ call'.at = place
    BY <1>3, <1>8, GoToMeans
<1>9. CASE AppendRecord
  <2>1. /\ call # None /\ call.at = "append" /\ GoTo(IF CompactDue THEN "compact" ELSE "return")
        /\ UNCHANGED <<tasks, up>>
      BY <1>9 DEF AppendRecord
  <2>2. CallTakesEffect
      BY <1>4, <1>9, <2>1
  <2>3. CallAgrees' => Agrees'
    <3>1. call' # None /\ call'.id = call.id
        BY <1>3, <1>8, <2>1
    <3>2. up'
        BY <2>1
    <3>3. \A id \in Ids : id # call.id => Durable'[id] = tasks'[id]
        BY <1>4, <1>9, <2>1
    <3> QED BY <1>4, <3>1, <3>2, <3>3
  <2>4. CASE CompactDue
    <3>1. call.new # Absent /\ GoTo("compact")
        BY <2>1, <2>4 DEF CompactDue
    <3>2. CallAgrees'
        BY <1>3, <1>4, <1>8, <1>9, <2>1, <3>1
    <3> QED BY <2>2, <2>3, <3>2
  <2>5. CASE ~CompactDue
    <3>1. GoTo("return")
        BY <2>1, <2>5
    <3>2. CallAgrees'
        BY <1>3, <1>4, <1>8, <1>9, <2>1, <3>1
    <3> QED BY <2>2, <2>3, <3>2
  <2> QED BY <2>4, <2>5
<1>10. CASE AppendFails
  <2>1. /\ call # None /\ call.at = "append" /\ GoTo("rollback") /\ Durable' = Durable
        /\ UNCHANGED <<tasks, up>>
      BY <1>4, <1>10 DEF AppendFails
  <2>2. CallAgrees'
      BY <1>3, <1>8, <2>1
  <2>3. call' # None /\ call'.id = call.id /\ up'
      BY <1>3, <1>8, <2>1
  <2>4. Agrees'
      BY <1>4, <2>1, <2>2, <2>3
  <2>5. NothingChanges
      BY <2>1
  <2> QED BY <2>4, <2>5
<1>11. CASE CompactLocked
  <2>1. /\ call # None /\ call.at = "compact" /\ GoTo("return") /\ UNCHANGED <<tasks, up>>
      BY <1>11 DEF CompactLocked
  <2>2. CallAgrees'
      BY <1>3, <1>4, <1>8, <1>11, <2>1
  <2> QED BY <1>3, <1>4, <1>8, <1>11, <2>1, <2>2
<1>12. CASE CompactFails
    BY <1>1, <1>12 DEF CompactFails
<1>13. CASE Return
  <2>1. /\ call # None /\ call.at = "return" /\ call' = None /\ Durable' = Durable
        /\ tasks' = [tasks EXCEPT ![call.id] = call.new]
      BY <1>4, <1>13 DEF Return
  <2>2. tasks'[call.id] = call.new /\ \A j \in Ids : j # call.id => tasks'[j] = tasks[j]
      BY <1>2, <1>3, <2>1 DEF Maps
  <2> QED BY <1>3, <1>4, <2>1, <2>2
<1>14. CASE Rollback
  <2>1. /\ call # None /\ call.at = "rollback" /\ call' = None /\ Durable' = Durable
        /\ tasks' = [tasks EXCEPT ![call.id] = call.old]
      BY <1>4, <1>14 DEF Rollback, RolledBack
  <2>2. tasks'[call.id] = call.old /\ \A j \in Ids : j # call.id => tasks'[j] = tasks[j]
      BY <1>2, <1>3, <2>1 DEF Maps
  <2> QED BY <1>3, <1>4, <2>1, <2>2
<1>15. CASE Destroy
  <2>1. up /\ call = None /\ call' = None /\ up' = FALSE
      BY <1>15 DEF Destroy, Stops
  <2> QED BY <1>4, <1>15, <2>1
<1>16. CASE Crash
  <2>1. call' = None /\ up' = FALSE /\ Durable' = Durable
      BY <1>4, <1>16 DEF Crash, Stops
  <2> QED BY <1>4, <2>1
<1>17. CASE UNCHANGED vars
  <2>1. UNCHANGED <<file, open, call, up, tasks>>
      BY <1>17 DEF vars
  <2> QED BY <1>4, <2>1
<1> QED BY <1>4, <1>5, <1>6, <1>7, <1>9, <1>10, <1>11, <1>12, <1>13, <1>14, <1>15, <1>16, <1>17
           DEF Next, Steps

(* The disk of a behaviour stays what it is. *)
LEMMA SameDisk == ASSUME [Next]_vars PROVE OnlyOpening' <=> OnlyOpening
BY DEF Next, vars, OnlyOpening

AgreesWhereOpened == OnlyOpening => Agrees

(* The agreement holds throughout. *)
LEMMA AgreesAlways == Spec => [](TypeOK /\ AgreesWhereOpened)
<1>1. Init => AgreesWhereOpened
  <2> SUFFICES ASSUME Init, OnlyOpening PROVE Agrees
      BY DEF AgreesWhereOpened
  <2>1. disk \subseteq Handled
      BY DEF OnlyOpening, Handled
  <2>2. Clean
      BY <2>1, InitMeans DEF Handled
  <2>3. call = None /\ up = FALSE
      BY DEF Init
  <2> QED BY <2>2, <2>3 DEF Agrees
<1>2. TypeOK /\ AgreesWhereOpened /\ [Next]_vars => AgreesWhereOpened'
    BY SameDisk, AgreesStep DEF AgreesWhereOpened
<1> QED BY <1>1, <1>2, TypeCorrect, PTL DEF Spec

(* Between calls memory and file agree where only opening can fail: a rolled back call has     *)
(* left nothing in the file.                                                                   *)
THEOREM RollbackIsCompleteCorrect == Spec => []RollbackIsComplete
<1>1. TypeOK /\ AgreesWhereOpened => RollbackIsComplete
  <2> SUFFICES ASSUME TypeOK, Agrees, up, call = None PROVE Durable = tasks
      BY DEF RollbackIsComplete, AgreesWhereOpened
  <2>1. Durable \in Maps /\ tasks \in Maps
      BY LoadType DEF TypeOK, Durable
  <2>2. \A id \in Ids : Durable[id] = tasks[id]
      BY DEF Agrees
  <2> QED BY <2>1, <2>2 DEF Maps
<1> QED BY <1>1, AgreesAlways, PTL

(* A call that returned survives and a call that failed leaves nothing, as far as the disk     *)
(* allows.                                                                                     *)
THEOREM CallsAreAtomicCorrect == Spec => []CallsAreAtomic
BY TypeCorrect, AckedSurvivesCorrect, RollbackIsCompleteCorrect, PTL DEF CallsAreAtomic

(* The abstract store has the same task states and the same changes. *)
LEMMA SameStates ==
    /\ Store!States = States
    /\ \A s : Store!Changes(s) = Changes(s)
BY DEF Store!States, States, Store!Statuses, Statuses, Store!Changes, Changes, Store!CreateTask,
       CreateTask, Store!UpdateTask, UpdateTask, Store!CancelTask, CancelTask, Store!SetTaskStatus,
       SetTaskStatus, Store!FailTask, FailTask, Store!SetTaskOwner, SetTaskOwner,
       Store!BindTaskTool, BindTaskTool, Store!AdvanceTaskWithInput, AdvanceTaskWithInput,
       Store!ParkTaskForInput, ParkTaskForInput, Store!RemoveTask, RemoveTask, Store!Becomes,
       Becomes, Store!Terminal, Terminal

(* What the file promises is a map of tasks. *)
LEMMA PromisesType == ASSUME TypeOK PROVE Promises \in Maps
BY LoadType DEF TypeOK, Durable, Promises, Maps

(* The file of FileTaskStore, seen through the loader, is the abstract task store: its steps   *)
(* are those of a map on which every call that succeeds acts once, and at once.                *)
THEOREM ImplementsStoreCorrect == Spec => ImplementsStore
<1>1. TypeOK => Store!Init
    BY PromisesType, SameStates DEF Store!Init, Maps
<1>2. TypeOK /\ TypeOK' /\ AgreesWhereOpened /\ [Next]_vars => [Store!Next]_Promises
  <2> SUFFICES ASSUME TypeOK, TypeOK', AgreesWhereOpened, [Next]_vars PROVE [Store!Next]_Promises
      OBVIOUS
  <2>1. CASE ~OnlyOpening
    <3>1. Promises' = Promises
        BY <2>1, SameDisk DEF Promises
    <3> QED BY <3>1
  <2>2. CASE OnlyOpening
    <3>1. Agrees /\ Promises = Durable /\ Promises' = Durable'
        BY <2>2, SameDisk DEF Promises, AgreesWhereOpened
    <3>2. Durable \in Maps /\ Durable' \in Maps
        BY LoadType DEF TypeOK, Durable
    <3>3. NothingChanges \/ CallTakesEffect
        BY <2>2, <3>1, AgreesStep
    <3>4. CASE NothingChanges
      <4>1. Durable' = Durable
          BY <3>2, <3>4 DEF NothingChanges, Maps
      <4> QED BY <3>1, <4>1
    <3>5. CASE CallTakesEffect
      <4>1. call \in Calls
          BY <3>5 DEF TypeOK, CallTakesEffect
      <4>2. call.id \in Ids /\ call.new \in Store!States \cup {Absent}
          BY <4>1, CallFields, SameStates
      <4>3. call.new \in Store!Changes(Promises[call.id])
          BY <3>1, <3>5, SameStates DEF CallTakesEffect, Agrees, CallAgrees
      <4>4. Promises' = [Promises EXCEPT ![call.id] = call.new]
          BY <3>1, <3>2, <3>5 DEF CallTakesEffect, Maps
      <4> QED BY <4>2, <4>3, <4>4 DEF Store!Next, Store!Change
    <3> QED BY <3>3, <3>4, <3>5
  <2> QED BY <2>1, <2>2
<1> QED BY <1>1, <1>2, AgreesAlways, PTL DEF Spec, ImplementsStore, Store!Spec

(* A task that has ended in the file keeps its status there, whatever crashes and restarts come. *)
THEOREM EndedOnDiskCorrect == Spec => EndedOnDisk
<1> DEFINE Final == \A id \in Ids :
                       Promises[id] # Absent /\ Store!Terminal(Promises[id]) =>
                           Promises'[id] = Absent \/ Promises'[id].status = Promises[id].status
<1>1. TypeOK /\ [Store!Next]_Promises => [Final]_Promises
  <2> SUFFICES ASSUME TypeOK, Store!Next, NEW id \in Ids, Promises[id] # Absent, Store!Terminal(Promises[id])
               PROVE  Promises'[id] = Absent \/ Promises'[id].status = Promises[id].status
      OBVIOUS
  <2>1. Promises \in Maps
      BY PromisesType
  <2>2. Promises[id] \in States /\ Terminal(Promises[id])
      BY <2>1 DEF Maps, Store!Terminal, Terminal
  <2>3. PICK i \in Ids : \E new \in Store!States \cup {Absent} : Store!Change(i, new)
      BY DEF Store!Next
  <2>4. PICK new : new \in Changes(Promises[i]) /\ Promises' = [Promises EXCEPT ![i] = new]
      BY <2>3, SameStates DEF Store!Change
  <2>5. CASE i = id
    <3>1. Promises'[id] = new
        BY <2>1, <2>4, <2>5 DEF Maps
    <3> QED BY <2>2, <2>4, <2>5, <3>1, EndedByCalls
  <2>6. CASE i # id
      BY <2>1, <2>4, <2>6 DEF Maps
  <2> QED BY <2>5, <2>6
<1> QED BY <1>1, ImplementsStoreCorrect, TypeCorrect, PTL
       DEF ImplementsStore, Store!Spec, EndedOnDisk, Store!TerminalIsFinal
================================================================================
