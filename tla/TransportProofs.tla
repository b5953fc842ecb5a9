---------------------------- MODULE TransportProofs ---------------------------
(***************************************************************************)
(* The streamable HTTP server transport for any sessions, POSTs, streams,  *)
(* ids and limits: the numbers of events go up, an event stream misses     *)
(* nothing, and sessions keep apart.  Then the MessageChannel between a    *)
(* transport and its reader, for any threads and any limit: no message is  *)
(* lost or reordered and no sleeper is forgotten.                          *)
(***************************************************************************)
EXTENDS HttpStreams, MessageChannel, SequenceTheorems, FiniteSetTheorems, TLAPS

--------------------------------------------------------------------------------
(* Logs of numbers *)

(* The numbers of a log go up; with slack one may be there twice. *)
Ascends(log, slack) ==
    \A i, j \in DOMAIN log : i < j => log[i] < log[j] \/ (slack /\ log[i] = log[j])

(* They lie below n; with slack they may also be n. *)
Below(log, n, slack) == \A i \in DOMAIN log : log[i] < n \/ (slack /\ log[i] = n)

(* A log is a sequence: its places are 1 to its length, and a number is at each. *)
LEMMA LogPlaces ==
    ASSUME NEW log \in Seq(Nat)
    PROVE  Len(log) \in Nat /\ DOMAIN log = 1 .. Len(log) /\ \A i \in DOMAIN log : log[i] \in Nat
BY LenProperties, ElementOfSeq

(* What is left of a log when its first d events are taken off. *)
LEMMA WithoutFirst ==
    ASSUME NEW log \in Seq(Nat), NEW d \in 0 .. Len(log)
    PROVE  /\ SubSeq(log, d + 1, Len(log)) \in Seq(Nat)
           /\ Len(SubSeq(log, d + 1, Len(log))) = Len(log) - d
           /\ \A i \in 1 .. Len(log) - d : SubSeq(log, d + 1, Len(log))[i] = log[i + d]
<1>1. Len(log) \in Nat /\ d \in Nat
    BY LogPlaces
<1>2. d + 1 \in 1 .. Len(log) + 1 /\ Len(log) \in (d + 1) - 1 .. Len(log)
    BY <1>1
<1>3. /\ SubSeq(log, d + 1, Len(log)) \in Seq(Nat)
      /\ Len(SubSeq(log, d + 1, Len(log))) = IF d + 1 <= Len(log) THEN Len(log) - (d + 1) + 1 ELSE 0
      /\ \A i \in 1 .. Len(log) - (d + 1) + 1 : SubSeq(log, d + 1, Len(log))[i] = log[d + 1 + i - 1]
    BY <1>2, SubSeqProperties
<1>4. Len(SubSeq(log, d + 1, Len(log))) = Len(log) - d
    BY <1>1, <1>3
<1>5. ASSUME NEW i \in 1 .. Len(log) - d
      PROVE  SubSeq(log, d + 1, Len(log))[i] = log[i + d]
  <2>1. d + 1 + i - 1 = i + d /\ i \in 1 .. Len(log) - (d + 1) + 1
      BY <1>1
  <2> QED BY <1>3, <2>1
<1> QED BY <1>3, <1>4, <1>5

(* Trimming takes a number of events off the front of a log. *)
LEMMA TrimmedMeans ==
    ASSUME NEW log \in Seq(Nat)
    PROVE  /\ Trimmed(log) \in Seq(Nat)
           /\ \E d \in 0 .. Len(log) :
                 /\ Len(Trimmed(log)) = Len(log) - d
                 /\ \A i \in DOMAIN Trimmed(log) : i + d \in DOMAIN log /\ Trimmed(log)[i] = log[i + d]
<1>1. Len(log) \in Nat /\ DOMAIN log = 1 .. Len(log)
    BY LogPlaces
<1>2. CASE Len(log) > MaxEvents
  <2> DEFINE d == Len(log) - MaxEvents
             s == SubSeq(log, d + 1, Len(log))
  <2>1. d \in 0 .. Len(log)
      BY <1>1, <1>2, EventStoreAssumption
  <2>2. /\ s \in Seq(Nat) /\ Len(s) = Len(log) - d
        /\ \A i \in 1 .. Len(log) - d : s[i] = log[i + d]
    <3> HIDE DEF d
    <3> QED BY <2>1, WithoutFirst
  <2>3. Trimmed(log) = s
      BY <1>2 DEF Trimmed
  <2> HIDE DEF d, s
  <2>4. DOMAIN s = 1 .. Len(log) - d
      BY <2>2, LogPlaces
  <2>5. \A i \in DOMAIN s : i + d \in DOMAIN log /\ s[i] = log[i + d]
      BY <1>1, <2>1, <2>2, <2>4, SMTT(30)
  <2> QED BY <2>1, <2>2, <2>3, <2>5
<1>3. CASE ~(Len(log) > MaxEvents)
  <2>1. Trimmed(log) = log
      BY <1>3 DEF Trimmed
  <2>2. 0 \in 0 .. Len(log) /\ Len(log) = Len(log) - 0 /\ \A i \in DOMAIN log : i + 0 = i
      BY <1>1
  <2> QED BY <2>1, <2>2
<1> QED BY <1>2, <1>3

(* What goes up, or lies below a number, still does when the log is trimmed. *)
LEMMA TrimmedKeeps ==
    ASSUME NEW log \in Seq(Nat), NEW slack \in BOOLEAN
    PROVE  /\ Ascends(log, slack) => Ascends(Trimmed(log), slack)
           /\ \A n \in Nat : Below(log, n, slack) => Below(Trimmed(log), n, slack)
<1>1. PICK d \in 0 .. Len(log) :
              \A i \in DOMAIN Trimmed(log) : i + d \in DOMAIN log /\ Trimmed(log)[i] = log[i + d]
    BY TrimmedMeans
<1>2. Len(log) \in Nat /\ Trimmed(log) \in Seq(Nat)
    BY LogPlaces, TrimmedMeans
<1>3. \A i, j \in DOMAIN Trimmed(log) : i < j => i + d < j + d
    BY <1>1, <1>2, LogPlaces
<1> QED BY <1>1, <1>3 DEF Ascends, Below

(* A number at the end of a log that is not below any other. *)
LEMMA AppendGoesUp ==
    ASSUME NEW log \in Seq(Nat), NEW n \in Nat, NEW slack \in BOOLEAN,
           Ascends(log, slack), Below(log, n, slack)
    PROVE  /\ Append(log, n) \in Seq(Nat) /\ DOMAIN Append(log, n) = 1 .. Len(log) + 1
           /\ Append(log, n)[Len(log) + 1] = n /\ \A i \in DOMAIN log : Append(log, n)[i] = log[i]
           /\ Ascends(Append(log, n), slack) /\ Below(Append(log, n), n, TRUE)
           /\ Below(Append(log, n), n + 1, slack)
<1> DEFINE new == Append(log, n)
<1>1. /\ new \in Seq(Nat) /\ Len(new) = Len(log) + 1 /\ new[Len(log) + 1] = n
      /\ \A i \in 1 .. Len(log) : new[i] = log[i]
    BY AppendProperties
<1> HIDE DEF new
<1>2. /\ Len(log) \in Nat /\ DOMAIN log = 1 .. Len(log) /\ DOMAIN new = 1 .. Len(log) + 1
      /\ \A i \in DOMAIN log : log[i] \in Nat
    BY <1>1, LogPlaces
<1> DEFINE last == Len(log) + 1
<1>3. /\ last \in Nat
      /\ \A i \in DOMAIN new : i \in DOMAIN log \/ i = last
      /\ \A i \in DOMAIN log : i \in Nat /\ i < last
    BY <1>2
<1>4. new[last] = n /\ \A i \in DOMAIN log : new[i] = log[i]
    BY <1>1, <1>2
<1> HIDE DEF last
<1>5. \A i \in DOMAIN log : log[i] \in Nat /\ (log[i] < n \/ (slack /\ log[i] = n))
    BY <1>2 DEF Below
<1>6. Ascends(new, slack)
  <2> SUFFICES ASSUME NEW i \in DOMAIN new, NEW j \in DOMAIN new, i < j
               PROVE  new[i] < new[j] \/ (slack /\ new[i] = new[j])
      BY DEF Ascends
  <2>1. i \in DOMAIN log
      BY <1>2, <1>3
  <2>2. CASE j \in DOMAIN log
      BY <2>1, <2>2, <1>4 DEF Ascends
  <2>3. CASE j = last
      BY <2>1, <2>3, <1>4, <1>5
  <2> QED BY <2>2, <2>3, <1>3
<1>7. \A i \in DOMAIN new : new[i] \in Nat /\ (new[i] < n \/ new[i] = n)
    BY <1>3, <1>4, <1>5
<1>8. Below(new, n, TRUE)
    BY <1>7 DEF Below
<1>9. \A i \in DOMAIN new : new[i] < n + 1
    BY <1>7
<1>10. Below(new, n + 1, slack)
    BY <1>9 DEF Below
<1> QED BY <1>1, <1>2, <1>6, <1>8, <1>10 DEF new

(* The greatest number of a log that goes up is its last. *)
LEMMA GreatestIs ==
    ASSUME NEW log \in Seq(Nat), NEW slack \in BOOLEAN, Ascends(log, slack)
    PROVE  Greatest(log) \in Nat /\ Below(log, Greatest(log) + 1, slack)
<1>1. Len(log) \in Nat /\ DOMAIN log = 1 .. Len(log) /\ \A i \in DOMAIN log : log[i] \in Nat
    BY LogPlaces
<1>2. CASE log = <<>>
  <2>1. DOMAIN log = {}
      BY <1>2
  <2> QED BY <1>2, <2>1 DEF Greatest, Below
<1>3. CASE log # <<>>
  <2> DEFINE S == {log[i] : i \in DOMAIN log}
             g == CHOOSE n \in S : \A i \in DOMAIN log : log[i] <= n
  <2>1. Len(log) \in DOMAIN log
      BY <1>1, <1>3, EmptySeq
  <2>2. \A i \in DOMAIN log : log[i] <= log[Len(log)]
      BY <1>1, <2>1 DEF Ascends
  <2>3. \E n \in S : \A i \in DOMAIN log : log[i] <= n
      BY <2>1, <2>2
  <2>4. g \in S /\ \A i \in DOMAIN log : log[i] <= g
      BY <2>3
  <2>5. g \in Nat
      BY <1>1, <2>4
  <2>6. Greatest(log) = g
      BY <1>3 DEF Greatest
  <2> HIDE DEF g
  <2>7. \A i \in DOMAIN log : log[i] < g + 1
      BY <1>1, <2>4, <2>5
  <2> QED BY <2>5, <2>6, <2>7 DEF Below
<1> QED BY <1>2, <1>3

--------------------------------------------------------------------------------
(* The event stores *)

(* The numbers of each log go up and lie below the one that the next event gets. *)
Numbered(st, slack) ==
    \A o \in Owners : Ascends(st.log[o], slack) /\ Below(st.log[o], NextId(st, o), slack)

(* The parts of a store. *)
LEMMA StoreParts ==
    ASSUME NEW st \in Stores
    PROVE  /\ st.file \in BOOLEAN /\ st.log \in [Owners -> Seq(Nat)] /\ st.cursor \in [Owners -> Nat]
           /\ st.count \in [Owners -> Nat] /\ st.next \in Nat
           /\ \A log \in [Owners -> Seq(Nat)], cursor, count \in [Owners -> Nat], n \in Nat :
                 [file |-> st.file, log |-> log, cursor |-> cursor, count |-> count, next |-> n] \in Stores
BY DEF Stores

(* The next number is a number, whether or not there is a cursor. *)
LEMMA NextIdType ==
    ASSUME NEW st \in Stores, NEW slack \in BOOLEAN, Numbered(st, slack), NEW o \in Owners
    PROVE  NextId(st, o) \in Nat
<1>1. st.log[o] \in Seq(Nat) /\ st.cursor[o] \in Nat /\ st.next \in Nat
    BY StoreParts
<1>2. Greatest(st.log[o]) \in Nat
    BY <1>1, GreatestIs DEF Numbered
<1> QED BY <1>1, <1>2 DEF NextId, Cursor

(* A store differs from another only in the log and the cursor of one owner. *)
Touches(st, o, new) ==
    /\ new.file = st.file /\ st.next <= new.next
    /\ \A p \in Owners \ {o} : new.log[p] = st.log[p] /\ new.cursor[p] = st.cursor[p]

(* Then the others are numbered as they were. *)
LEMMA OneLog ==
    ASSUME NEW st \in Stores, NEW slack \in BOOLEAN, Numbered(st, slack), NEW o \in Owners,
           NEW new \in Stores, Touches(st, o, new), NEW late \in BOOLEAN, slack => late,
           Ascends(new.log[o], late), Below(new.log[o], NextId(new, o), late)
    PROVE  Numbered(new, late)
<1>1. /\ st.log \in [Owners -> Seq(Nat)] /\ st.cursor \in [Owners -> Nat] /\ st.file \in BOOLEAN
      /\ st.next \in Nat /\ new.next \in Nat
    BY StoreParts
<1>2. ASSUME NEW p \in Owners \ {o}
      PROVE  Ascends(new.log[p], late) /\ Below(new.log[p], NextId(new, p), late)
  <2>1. Ascends(st.log[p], slack) /\ Below(st.log[p], NextId(st, p), slack) /\ st.log[p] \in Seq(Nat)
      BY <1>1 DEF Numbered
  <2>2. Ascends(st.log[p], late) /\ Below(st.log[p], NextId(st, p), late)
      BY <2>1 DEF Ascends, Below
  <2>3. CASE st.file
    <3>1. NextId(new, p) = NextId(st, p)
        BY <2>3 DEF NextId, Cursor, Touches
    <3> QED BY <2>2, <3>1 DEF Touches
  <2>4. CASE ~st.file
    <3>1. Below(st.log[p], st.next, slack) /\ NextId(new, p) = new.next
        BY <2>1, <2>4 DEF NextId, Touches
    <3>2. \A i \in DOMAIN st.log[p] : st.log[p][i] \in Nat
        BY <2>1, LogPlaces
    <3>3. st.next = new.next \/ st.next < new.next
        BY <1>1 DEF Touches
    <3>4. Below(st.log[p], new.next, late)
        BY <1>1, <3>1, <3>2, <3>3 DEF Below
    <3> QED BY <2>2, <3>1, <3>4 DEF Touches
  <2> QED BY <2>3, <2>4
<1> QED BY <1>2 DEF Numbered

(* A store in which the log, the cursor and the count of an owner, and the counter, are changed. *)
Changed(st, o, log, n, c, next) ==
    [file |-> st.file, log |-> [st.log EXCEPT ![o] = log],
     cursor |-> [st.cursor EXCEPT ![o] = n], count |-> [st.count EXCEPT ![o] = c], next |-> next]

LEMMA ChangedStore ==
    ASSUME NEW st \in Stores, NEW o \in Owners, NEW log \in Seq(Nat), NEW n \in Nat, NEW c \in Nat,
           NEW next \in Nat, st.next <= next, NEW new, new = Changed(st, o, log, n, c, next)
    PROVE  /\ new \in Stores /\ Touches(st, o, new)
           /\ new.log[o] = log /\ new.cursor[o] = n /\ new.next = next /\ new.file = st.file
<1> DEFINE logs == [st.log EXCEPT ![o] = log]
           cursors == [st.cursor EXCEPT ![o] = n]
           counts == [st.count EXCEPT ![o] = c]
<1>1. /\ st.log \in [Owners -> Seq(Nat)] /\ st.cursor \in [Owners -> Nat] /\ st.next \in Nat
      /\ st.count \in [Owners -> Nat] /\ st.file \in BOOLEAN
    BY StoreParts
<1>2. /\ logs \in [Owners -> Seq(Nat)] /\ cursors \in [Owners -> Nat] /\ counts \in [Owners -> Nat]
      /\ logs[o] = log /\ cursors[o] = n
      /\ \A p \in Owners \ {o} : logs[p] = st.log[p] /\ cursors[p] = st.cursor[p]
    BY <1>1
<1>3. new = [file |-> st.file, log |-> logs, cursor |-> cursors, count |-> counts, next |-> next]
    BY DEF Changed
<1> HIDE DEF logs, cursors, counts
<1>4. /\ new.file = st.file /\ new.log = logs /\ new.cursor = cursors /\ new.next = next
      /\ new \in Stores
    BY <1>1, <1>2, <1>3 DEF Stores
<1> QED BY <1>2, <1>4 DEF Touches

(* What the store keeps of a log with one more event: all of it, or the newest. *)
LEMMA KeptMeans ==
    ASSUME NEW st \in Stores, NEW o \in Owners, Grown(st, o) \in Seq(Nat)
    PROVE  /\ Kept(st, o) \in {Grown(st, o), Trimmed(Grown(st, o))} /\ Kept(st, o) \in Seq(Nat)
           /\ TallyKept(st, o) \in Nat
<1>1. Kept(st, o) \in {Grown(st, o), Trimmed(Grown(st, o))}
    BY DEF Kept
<1>2. Trimmed(Grown(st, o)) \in Seq(Nat)
    BY TrimmedMeans
<1>3. Kept(st, o) \in Seq(Nat)
    BY <1>1, <1>2
<1>4. Len(Kept(st, o)) \in Nat
    BY <1>3, LogPlaces
<1>5. Tally(st, o) \in Nat
  <2>1. st.log[o] \in Seq(Nat) /\ st.count[o] \in Nat
      BY StoreParts
  <2>2. Len(st.log[o]) \in Nat
      BY <2>1, LogPlaces
  <2> QED BY <2>1, <2>2 DEF Tally
<1> QED BY <1>1, <1>3, <1>4, <1>5 DEF TallyKept

(* An event is put at the end of its log with the next number, and the log may be trimmed. *)
LEMMA AppendedMeans ==
    ASSUME NEW st \in Stores, NEW slack \in BOOLEAN, Numbered(st, slack), NEW o \in Owners
    PROVE  /\ Appended(st, o) \in Stores /\ Numbered(Appended(st, o), slack)
           /\ \E kept \in {Grown(st, o), Trimmed(Grown(st, o))} : Appended(st, o).log[o] = kept
           /\ \A p \in Owners \ {o} : Appended(st, o).log[p] = st.log[p]
<1> DEFINE n == NextId(st, o)
           long == Grown(st, o)
           log == Kept(st, o)
           new == Appended(st, o)
           cursor == IF st.file THEN n + 1 ELSE st.cursor[o]
           count == IF st.file THEN TallyKept(st, o) ELSE st.count[o]
           next == IF st.file THEN st.next ELSE n + 1
<1>1. /\ st.log \in [Owners -> Seq(Nat)] /\ st.cursor \in [Owners -> Nat] /\ st.next \in Nat
      /\ st.count \in [Owners -> Nat] /\ st.file \in BOOLEAN
    BY StoreParts
<1>2. n \in Nat /\ st.log[o] \in Seq(Nat) /\ Ascends(st.log[o], slack) /\ Below(st.log[o], n, slack)
    BY <1>1, NextIdType DEF Numbered
<1>3. long \in Seq(Nat) /\ Ascends(long, slack) /\ Below(long, n + 1, slack)
    BY <1>2, AppendGoesUp, ZenonT(30) DEF Grown
<1>4. /\ log \in {long, Trimmed(long)} /\ log \in Seq(Nat) /\ Ascends(log, slack)
      /\ Below(log, n + 1, slack)
  <2>1. log \in {long, Trimmed(long)} /\ log \in Seq(Nat)
      BY <1>3, KeptMeans
  <2>2. n + 1 \in Nat
      BY <1>2
  <2> HIDE DEF n, long, log
  <2> QED BY <1>3, <2>1, <2>2, TrimmedMeans, TrimmedKeeps
<1>5. cursor \in Nat /\ count \in Nat /\ next \in Nat /\ st.next <= next
  <2>1. ~st.file => n = st.next
      BY DEF NextId
  <2>2. TallyKept(st, o) \in Nat
      BY <1>3, KeptMeans
  <2> HIDE DEF n
  <2> QED BY <1>1, <1>2, <2>1, <2>2
<1>6. new = Changed(st, o, log, cursor, count, next)
    BY <1>1 DEF Appended, Stores, Changed
<1>7. /\ new \in Stores /\ Touches(st, o, new)
      /\ new.log[o] = log /\ new.cursor[o] = cursor /\ new.next = next /\ new.file = st.file
  <2> HIDE DEF n, log, cursor, count, next, new
  <2> QED BY <1>4, <1>5, <1>6, ChangedStore
<1>8. NextId(new, o) = n + 1
    BY <1>2, <1>7 DEF NextId, Cursor
<1> HIDE DEF n, long, log, new, cursor, count, next
<1>9. Numbered(new, slack)
    BY <1>4, <1>7, <1>8, OneLog
<1> QED BY <1>4, <1>7, <1>9 DEF new, log, long, Touches

(* A write of the file store that fails leaves every number in its place, or the last one twice. *)
LEMMA AppendFailsMeans ==
    ASSUME NEW st \in Stores, NEW slack \in BOOLEAN, Numbered(st, slack), NEW o \in Owners,
           NEW new \in AppendFails(st, o)
    PROVE  new \in Stores /\ Numbered(new, TRUE)
<1> DEFINE n == NextId(st, o)
           log == Grown(st, o)
<1>1. /\ st.log \in [Owners -> Seq(Nat)] /\ st.cursor \in [Owners -> Nat] /\ st.next \in Nat
      /\ st.count \in [Owners -> Nat] /\ st.file \in BOOLEAN
    BY StoreParts
<1>2. n \in Nat /\ st.log[o] \in Seq(Nat) /\ Ascends(st.log[o], slack) /\ Below(st.log[o], n, slack)
    BY <1>1, NextIdType DEF Numbered
<1>3. log \in Seq(Nat) /\ Ascends(log, TRUE) /\ Below(log, n, TRUE)
  <2>1. log \in Seq(Nat) /\ Ascends(log, slack) /\ Below(log, n, TRUE)
      BY <1>2, AppendGoesUp, ZenonT(30) DEF Grown
  <2> QED BY <2>1 DEF Ascends
<1>4. Kept(st, o) \in Seq(Nat) /\ Ascends(Kept(st, o), TRUE) /\ Below(Kept(st, o), n, TRUE)
  <2>1. Kept(st, o) \in {log, Trimmed(log)} /\ Kept(st, o) \in Seq(Nat)
      BY <1>3, KeptMeans
  <2> HIDE DEF n, log
  <2> QED BY <1>2, <1>3, <2>1, TrimmedMeans, TrimmedKeeps
<1>5. ASSUME NEW l \in Seq(Nat), Ascends(l, TRUE), Below(l, n, TRUE), st.file,
             NEW s, s = [st EXCEPT !.log[o] = l]
      PROVE  s \in Stores /\ Numbered(s, TRUE)
  <2>1. s = Changed(st, o, l, st.cursor[o], st.count[o], st.next)
      BY <1>1, <1>5 DEF Stores, Changed
  <2>2. /\ s \in Stores /\ Touches(st, o, s) /\ s.log[o] = l /\ s.cursor[o] = st.cursor[o]
        /\ s.file = st.file
    <3>1. st.cursor[o] \in Nat /\ st.count[o] \in Nat /\ st.next <= st.next
        BY <1>1
    <3> QED BY <1>1, <2>1, <3>1, ChangedStore
  <2>3. Below(l, NextId(s, o), TRUE)
    <3>1. CASE st.cursor[o] = 0
      <4>1. NextId(s, o) = Greatest(l) + 1
          BY <1>5, <2>2, <3>1 DEF NextId, Cursor
      <4> QED BY <1>5, <4>1, GreatestIs
    <3>2. CASE st.cursor[o] # 0
      <4>1. NextId(s, o) = NextId(st, o)
          BY <1>5, <2>2, <3>2 DEF NextId, Cursor
      <4> QED BY <1>5, <4>1
    <3> QED BY <3>1, <3>2
  <2> HIDE DEF n
  <2> QED BY <1>5, <2>2, <2>3, OneLog
<1>6. Numbered(st, TRUE)
    BY DEF Numbered, Ascends, Below
<1>7. st.file /\ (new = st \/ new = [st EXCEPT !.log[o] = log] \/ new = [st EXCEPT !.log[o] = Kept(st, o)])
    BY DEF AppendFails
<1> HIDE DEF n, log
<1> QED BY <1>3, <1>4, <1>5, <1>6, <1>7

(* Clearing empties the log of a session, and leaves the others. *)
LEMMA ClearMeans ==
    ASSUME NEW st \in Stores, NEW slack \in BOOLEAN, Numbered(st, slack), NEW o \in Owners
    PROVE  /\ Clear(st, o) \in Stores /\ Numbered(Clear(st, o), slack)
           /\ Clear(st, o).log[o] = <<>> /\ \A p \in Owners \ {o} : Clear(st, o).log[p] = st.log[p]
           /\ \A new \in ClearFails(st, o) : new \in Stores /\ Numbered(new, TRUE)
<1>1. /\ st.log \in [Owners -> Seq(Nat)] /\ st.cursor \in [Owners -> Nat] /\ st.next \in Nat
      /\ st.count \in [Owners -> Nat] /\ st.file \in BOOLEAN
    BY StoreParts
<1>2. <<>> \in Seq(Nat) /\ \A n, s : Ascends(<<>>, s) /\ Below(<<>>, n, s)
    BY DEF Ascends, Below
<1>3. ASSUME NEW n \in Nat, NEW s, s = [st EXCEPT !.log[o] = <<>>, !.cursor[o] = n]
      PROVE  /\ s \in Stores /\ Numbered(s, slack)
             /\ s.log[o] = <<>> /\ \A p \in Owners \ {o} : s.log[p] = st.log[p]
  <2> DEFINE empty == <<>>
  <2>1. s = Changed(st, o, empty, n, st.count[o], st.next)
    <3>1. s = Changed(st, o, <<>>, n, st.count[o], st.next)
        BY <1>1, <1>3 DEF Stores, Changed
    <3> QED BY <3>1
  <2>2. s \in Stores /\ Touches(st, o, s) /\ s.log[o] = empty
    <3>1. st.next <= st.next /\ st.next \in Nat /\ st.count[o] \in Nat /\ empty \in Seq(Nat)
        BY <1>1
    <3> HIDE DEF empty
    <3> QED BY <2>1, <3>1, ChangedStore
  <2>3. Numbered(s, slack)
      BY <1>2, <2>2, OneLog
  <2> QED BY <2>2, <2>3 DEF Touches
<1>4. Clear(st, o) = [st EXCEPT !.log[o] = <<>>, !.cursor[o] = IF st.file THEN 0 ELSE st.cursor[o]]
    BY <1>1 DEF Clear, Stores
<1>5. (IF st.file THEN 0 ELSE st.cursor[o]) \in Nat
    BY <1>1
<1>6. ASSUME NEW new \in ClearFails(st, o) PROVE new \in Stores /\ Numbered(new, TRUE)
  <2>1. CASE new = st
      BY <2>1 DEF Numbered, Ascends, Below
  <2>2. CASE new = [st EXCEPT !.log[o] = <<>>]
    <3>1. new = [st EXCEPT !.log[o] = <<>>, !.cursor[o] = st.cursor[o]]
        BY <1>1, <2>2 DEF Stores
    <3>2. st.cursor[o] \in Nat
        BY <1>1
    <3>3. new \in Stores /\ Numbered(new, slack)
        BY <1>3, <3>1, <3>2
    <3> QED BY <3>3 DEF Numbered, Ascends, Below
  <2> QED BY <1>6, <2>1, <2>2 DEF ClearFails
<1> QED BY <1>3, <1>4, <1>5, <1>6

--------------------------------------------------------------------------------
(* What a replay holds *)

(* The newest numbers of a log behind one. *)
NewestOf(log, from, fits) ==
    {log[i] : i \in Newest(fits, {j \in DOMAIN log : log[j] > from})}

(* Trimming pushes no event into the newest that was not there, and appending only the new one. *)
LEMMA NewestAppended ==
    ASSUME NEW log \in Seq(Nat), NEW n \in Nat, NEW from \in Nat, NEW fits \in Nat,
           NEW new \in {Append(log, n), Trimmed(Append(log, n))}
    PROVE  NewestOf(new, from, fits) \subseteq NewestOf(log, from, fits) \cup {n}
<1> DEFINE long == Append(log, n)
           since == {j \in DOMAIN log : log[j] > from}
           after == {j \in DOMAIN new : new[j] > from}
<1>1. /\ long \in Seq(Nat) /\ Len(long) = Len(log) + 1 /\ long[Len(log) + 1] = n
      /\ \A i \in 1 .. Len(log) : long[i] = log[i]
    BY AppendProperties
<1> HIDE DEF long
<1>2. PICK d \in 0 .. Len(long) :
              /\ Len(new) = Len(long) - d
              /\ \A i \in DOMAIN new : i + d \in DOMAIN long /\ new[i] = long[i + d]
  <2>1. CASE new = Trimmed(long)
      BY <1>1, <2>1, TrimmedMeans
  <2>2. CASE new = long
    <3>1. Len(long) \in Nat /\ DOMAIN long = 1 .. Len(long)
        BY <1>1, LogPlaces
    <3>2. 0 \in 0 .. Len(long) /\ Len(long) = Len(long) - 0 /\ \A i \in DOMAIN long : i + 0 = i
        BY <3>1
    <3> QED BY <2>2, <3>2
  <2> QED BY <2>1, <2>2 DEF long
<1>3. new \in Seq(Nat)
    BY <1>1, TrimmedMeans DEF long
<1>4. /\ Len(log) \in Nat /\ DOMAIN log = 1 .. Len(log) /\ DOMAIN long = 1 .. Len(log) + 1
      /\ d \in Nat /\ DOMAIN new = 1 .. Len(log) + 1 - d
    BY <1>1, <1>2, <1>3, LogPlaces
<1>5. ASSUME NEW i \in Newest(fits, after)
      PROVE  new[i] \in NewestOf(log, from, fits) \cup {n}
  <2>1. i \in DOMAIN new /\ new[i] > from /\ Cardinality({j \in after : j > i}) < fits
      BY <1>5 DEF Newest
  <2>2. CASE i + d = Len(log) + 1
      BY <1>1, <1>2, <2>1, <2>2
  <2>3. CASE i + d # Len(log) + 1
    <3> DEFINE A == {j \in since : j > i + d}
               B == {j \in after : j > i}
               f == [j \in A |-> j - d]
    <3>1. i \in Nat /\ i + d \in DOMAIN log /\ new[i] = log[i + d]
      <4>1. i \in Nat /\ i + d \in 1 .. Len(log) + 1 /\ new[i] = long[i + d]
          BY <1>2, <1>4, <2>1
      <4>2. i + d \in 1 .. Len(log)
          BY <1>4, <2>3, <4>1
      <4> QED BY <1>1, <1>4, <4>1, <4>2
    <3>2. i + d \in since
        BY <2>1, <3>1
    <3>3. ASSUME NEW j \in A
          PROVE  j - d \in B
      <4>1. j \in 1 .. Len(log) /\ j > i + d /\ log[j] > from
          BY <1>4
      <4>2. j - d \in DOMAIN new /\ j - d > i /\ (j - d) + d = j
        <5>1. i \in Nat /\ d \in Nat /\ Len(log) \in Nat /\ j \in Nat /\ j <= Len(log) /\ j > i + d
            BY <1>4, <3>1, <4>1
        <5>2. j - d \in 1 .. Len(log) + 1 - d /\ j - d > i /\ (j - d) + d = j
            BY <5>1
        <5> QED BY <1>4, <5>2
      <4>3. new[j - d] = log[j]
          BY <1>1, <1>2, <4>1, <4>2
      <4> QED BY <4>1, <4>2, <4>3
    <3>4. f \in [A -> B] /\ \A x, y \in A : x # y => f[x] # f[y]
      <4>1. A \subseteq Int
          BY <1>4
      <4> QED BY <1>4, <3>3, <4>1, SMTT(30)
    <3>5. IsFiniteSet(A) /\ IsFiniteSet(B) /\ Cardinality(A) \in Nat /\ Cardinality(B) \in Nat
      <4>1. A \subseteq 1 .. Len(log) /\ B \subseteq 1 .. Len(log) + 1 - d
          BY <1>4
      <4>2. IsFiniteSet(1 .. Len(log)) /\ IsFiniteSet(1 .. Len(log) + 1 - d)
          BY <1>4, FS_Interval
      <4> HIDE DEF A, B
      <4> QED BY <4>1, <4>2, FS_Subset, FS_CardinalityType
    <3> HIDE DEF A, B, f
    <3>6. Cardinality(A) <= Cardinality(B)
        BY <3>4, <3>5, FS_PigeonHole
    <3>7. Cardinality(A) < fits
        BY <2>1, <3>5, <3>6 DEF B
    <3>8. i + d \in Newest(fits, since)
        BY <3>2, <3>7 DEF Newest, A
    <3> QED BY <3>1, <3>8 DEF NewestOf
  <2> QED BY <2>2, <2>3
<1> QED BY <1>5 DEF NewestOf, long

(* What is owed to a stream of session s that comes with Last-Event-ID from, when so many events fit. *)
Due(st, s, from, fits) == {st.log[s][i] : i \in Newest(fits, GetEventsSince(st, s, from))}

(* Nothing is owed when nothing fits. *)
LEMMA NothingFits ==
    ASSUME NEW st \in Stores, NEW s \in Owners, NEW from \in Nat
    PROVE  Due(st, s, from, 0) = {}
<1> SUFFICES ASSUME NEW i \in Newest(0, GetEventsSince(st, s, from)) PROVE FALSE
    BY DEF Due
<1> DEFINE later == {j \in GetEventsSince(st, s, from) : j > i}
<1>1. st.log[s] \in Seq(Nat)
    BY StoreParts
<1>2. PICK last \in Nat : later \subseteq 1 .. last
    BY <1>1, LogPlaces DEF GetEventsSince
<1>3. IsFiniteSet(1 .. last)
    BY FS_Interval
<1>4. Cardinality(later) < 0
    BY DEF Newest
<1> HIDE DEF later
<1>5. Cardinality(later) \in Nat
    BY <1>2, <1>3, FS_Subset, FS_CardinalityType
<1> QED BY <1>4, <1>5

(* An event that is appended adds itself to what is owed to the streams of its owner. *)
LEMMA DueAppended ==
    ASSUME NEW st \in Stores, NEW slack \in BOOLEAN, Numbered(st, slack), NEW o \in Owners,
           NEW s \in Owners, NEW from \in Nat, NEW fits \in Nat
    PROVE  /\ Due(Appended(st, o), s, from, fits) \subseteq Due(st, s, from, fits) \cup {NextId(st, o)}
           /\ s # o => Due(Appended(st, o), s, from, fits) = Due(st, s, from, fits)
<1>1. st.log[s] \in Seq(Nat) /\ NextId(st, o) \in Nat
    BY StoreParts, NextIdType
<1>2. \A t : Due(t, s, from, fits) = NewestOf(t.log[s], from, fits)
    BY DEF Due, NewestOf, GetEventsSince
<1>3. CASE s # o
  <2>1. Appended(st, o).log[s] = st.log[s]
      BY <1>3, AppendedMeans
  <2> QED BY <1>2, <2>1
<1>4. CASE s = o
  <2>1. PICK new \in {Append(st.log[s], NextId(st, o)), Trimmed(Append(st.log[s], NextId(st, o)))} :
            Appended(st, o).log[s] = new
      BY <1>4, AppendedMeans DEF Grown
  <2>2. NewestOf(new, from, fits) \subseteq NewestOf(st.log[s], from, fits) \cup {NextId(st, o)}
      BY <1>1, NewestAppended
  <2>3. /\ Due(Appended(st, o), s, from, fits) = NewestOf(new, from, fits)
        /\ Due(st, s, from, fits) = NewestOf(st.log[s], from, fits)
      BY <1>2, <2>1
  <2> QED BY <1>4, <2>2, <2>3
<1> QED BY <1>3, <1>4

(* Nothing is owed any more when the events are cleared, and no more to other sessions. *)
LEMMA DueCleared ==
    ASSUME NEW st \in Stores, NEW slack \in BOOLEAN, Numbered(st, slack), NEW o \in Owners,
           NEW s \in Owners, NEW from \in Nat, NEW fits \in Nat
    PROVE  Due(Clear(st, o), s, from, fits) \subseteq Due(st, s, from, fits)
<1>1. CASE s # o
  <2>1. Clear(st, o).log[s] = st.log[s]
      BY <1>1, ClearMeans
  <2> QED BY <2>1 DEF Due, GetEventsSince
<1>2. CASE s = o
  <2>1. Clear(st, o).log[s] = <<>>
      BY <1>2, ClearMeans
  <2>2. DOMAIN Clear(st, o).log[s] = {}
      BY <2>1
  <2> QED BY <2>2 DEF Due, GetEventsSince, Newest
<1> QED BY <1>1, <1>2

--------------------------------------------------------------------------------
(* Events and event streams *)

(* The variables of events and streams keep to their types. *)
EventsTyped ==
    /\ mode \in {"stateless", "memory", "durable"} /\ scene \in Scene
    /\ failed \in BOOLEAN /\ events \in Stores
    /\ \A c \in casting : c \in [owner : Owners, id : Nat, filtered : BOOLEAN]
    /\ stream \in [Streams -> [at : {"none", "opening", "open"}, session : Owners, deaf : BOOLEAN,
                               from : Nat, fits : Nat, got : SUBSET Nat, gap : SUBSET Nat]]

(* The numbers of the events of s that are still to be broadcast. *)
Coming(s) == {c.id : c \in {d \in casting : d.owner = s}}

Replaying(x) == stream[x].at # "none" /\ stream[x].fits > 0 /\ mode # "stateless"

(* What is owed to an event stream has been sent, fell into the gap, or is coming; what comes *)
(* before the stream is registered falls into the gap.                                        *)
Informed(x) ==
    Replaying(x) =>
        /\ ~stream[x].deaf
        /\ stream[x].at = "opening" => Coming(stream[x].session) \subseteq stream[x].gap
        /\ ~failed => Due(events, stream[x].session, stream[x].from, stream[x].fits)
                         \subseteq stream[x].got \cup stream[x].gap \cup Coming(stream[x].session)

EventsInv == EventsTyped /\ Numbered(events, failed) /\ \A x \in Streams : Informed(x)

(* The parts of a stream and of a scene. *)
LEMMA EventParts ==
    ASSUME EventsTyped
    PROVE  /\ \A x \in Streams :
                 /\ stream[x].at \in {"none", "opening", "open"} /\ stream[x].session \in Owners
                 /\ stream[x].deaf \in BOOLEAN /\ stream[x].from \in Nat /\ stream[x].fits \in Nat
                 /\ stream[x].got \subseteq Nat /\ stream[x].gap \subseteq Nat
           /\ scene.who \subseteq Streams /\ scene.notes \in Nat /\ scene.failures \in Nat
           /\ \A c \in casting : c.owner \in Owners /\ c.id \in Nat /\ c.filtered \in BOOLEAN
BY DEF EventsTyped, Scene

(* A step that leaves the events and the streams alone. *)
LEMMA EventsKept ==
    ASSUME EventsInv, UNCHANGED <<mode, store, stream>>, scene' \in Scene
    PROVE  EventsInv'
<1>1. /\ mode' = mode /\ events' = events /\ casting' = casting /\ failed' = failed
      /\ stream' = stream
    BY DEF store
<1>2. EventsTyped' /\ Numbered(events, failed)'
    BY <1>1 DEF EventsInv, EventsTyped, Numbered
<1>3. ASSUME NEW x \in Streams PROVE Informed(x)'
    BY <1>1 DEF EventsInv, Informed, Replaying, Coming
<1> QED BY <1>2, <1>3 DEF EventsInv

(* A step that leaves the store alone and gives each stream what keeps it informed. *)
LEMMA StreamsStep ==
    ASSUME EventsInv, UNCHANGED <<mode, scene, events, failed>>, casting' \subseteq casting,
           EventsTyped', \A x \in Streams : Informed(x)'
    PROVE  EventsInv'
BY DEF EventsInv, Numbered

(* The replay tells a stream all that is owed to it. *)
LEMMA HandleGetEvents ==
    ASSUME EventsInv, NEW g \in Gets, NEW s \in Owners, NEW from \in 0 .. MaxEvents,
           NEW fits \in 0 .. Window, HandleGet(g, s, from, fits)
    PROVE  EventsInv'
<1> DEFINE got == IF mode = "stateless" THEN {} ELSE Replay(s, from, fits)
           gap == {c.id : c \in {d \in casting : d.owner = s}}
           new == [at |-> "opening", session |-> s, deaf |-> FALSE, from |-> from,
                   fits |-> fits, got |-> got, gap |-> gap]
<1>1. /\ mode' = mode /\ scene' = scene /\ events' = events /\ failed' = failed /\ casting' = casting
      /\ stream' = [stream EXCEPT ![g] = new]
    BY DEF HandleGet, store
<1>2. g \in Streams /\ from \in Nat /\ fits \in Nat
    BY EventStoreAssumption, HttpStreamsAssumption DEF Streams
<1>3. got \subseteq Nat /\ gap \subseteq Nat
  <2>1. gap \subseteq Nat
      BY EventParts DEF EventsInv
  <2>2. Replay(s, from, fits) \subseteq Nat
    <3>1. events.log[s] \in Seq(Nat)
        BY StoreParts DEF EventsInv, EventsTyped
    <3>2. \A i \in GetEventsSince(events, s, from) : events.log[s][i] \in Nat
        BY <3>1, LogPlaces DEF GetEventsSince
    <3> QED BY <3>2 DEF Replay, Numbers, Newest
  <2> QED BY <2>1, <2>2
<1>4. /\ stream'[g] = new /\ \A x \in Streams \ {g} : stream'[x] = stream[x]
      /\ stream \in [Streams -> [at : {"none", "opening", "open"}, session : Owners,
             deaf : BOOLEAN, from : Nat, fits : Nat, got : SUBSET Nat, gap : SUBSET Nat]]
    BY <1>1, <1>2 DEF EventsInv, EventsTyped
<1>5. EventsTyped'
  <2>1. new \in [at : {"none", "opening", "open"}, session : Owners, deaf : BOOLEAN,
                 from : Nat, fits : Nat, got : SUBSET Nat, gap : SUBSET Nat]
    <3> HIDE DEF got, gap
    <3> QED BY <1>2, <1>3
  <2> HIDE DEF new
  <2> QED BY <1>1, <1>4, <2>1 DEF EventsInv, EventsTyped
<1>6. ASSUME NEW x \in Streams PROVE Informed(x)'
  <2>1. CASE x = g
    <3>1. Replaying(g)' => got = Due(events, s, from, fits)
        BY <1>1, <1>4 DEF Replaying, Replay, Numbers, Due
    <3>2. /\ stream'[g].at = "opening" /\ stream'[g].session = s /\ stream'[g].from = from
          /\ stream'[g].fits = fits /\ stream'[g].deaf = FALSE /\ stream'[g].got = got /\ stream'[g].gap = gap
        BY <1>4
    <3>3. Coming(s)' = gap
        BY <1>1 DEF Coming
    <3> HIDE DEF got, gap, new
    <3> QED BY <1>1, <2>1, <3>1, <3>2, <3>3 DEF Informed
  <2>2. CASE x # g
    <3>1. stream'[x] = stream[x]
        BY <1>4, <2>2
    <3> QED BY <1>1, <3>1 DEF EventsInv, Informed, Replaying, Coming
  <2> QED BY <2>1, <2>2
<1> QED BY <1>1, <1>5, <1>6, StreamsStep

(* A broadcast gives the event to the streams it is meant for. *)
LEMMA BroadcastEvents ==
    ASSUME EventsInv, NEW c \in casting, Broadcast(c)
    PROVE  EventsInv'
<1>1. /\ mode' = mode /\ scene' = scene /\ events' = events /\ failed' = failed
      /\ casting' = casting \ {c}
      /\ stream' = [x \in Streams |-> IF stream[x].at = "open" /\ Accepts(x, c)
                                      THEN [stream[x] EXCEPT !.got = @ \cup {c.id}] ELSE stream[x]]
    BY DEF Broadcast
<1>2. c.owner \in Owners /\ c.id \in Nat /\ c.filtered \in BOOLEAN
    BY EventParts DEF EventsInv
<1>3. ASSUME NEW x \in Streams
      PROVE  /\ stream'[x] \in [at : {"none", "opening", "open"}, session : Owners,
                    deaf : BOOLEAN, from : Nat, fits : Nat, got : SUBSET Nat, gap : SUBSET Nat]
             /\ stream'[x].at = stream[x].at /\ stream'[x].session = stream[x].session
             /\ stream'[x].deaf = stream[x].deaf /\ stream'[x].from = stream[x].from
             /\ stream'[x].fits = stream[x].fits
             /\ stream'[x].gap = stream[x].gap /\ stream[x].got \subseteq stream'[x].got
             /\ stream[x].at = "open" /\ Accepts(x, c) => c.id \in stream'[x].got
  <2>1. stream[x] \in [at : {"none", "opening", "open"}, session : Owners,
                    deaf : BOOLEAN, from : Nat, fits : Nat, got : SUBSET Nat, gap : SUBSET Nat]
      BY DEF EventsInv, EventsTyped
  <2>2. CASE stream[x].at = "open" /\ Accepts(x, c)
    <3>1. stream'[x] = [stream[x] EXCEPT !.got = @ \cup {c.id}]
        BY <1>1, <2>2
    <3> QED BY <1>2, <2>1, <3>1
  <2>3. CASE ~(stream[x].at = "open" /\ Accepts(x, c))
    <3>1. stream'[x] = stream[x]
        BY <1>1, <2>3
    <3> QED BY <2>1, <2>3, <3>1
  <2> QED BY <2>2, <2>3
<1>4. EventsTyped'
    BY <1>1, <1>3 DEF EventsInv, EventsTyped
<1>5. ASSUME NEW x \in Streams, Replaying(x)' PROVE Informed(x)'
  <2>0. PICK s \in Owners : s = stream[x].session
      BY EventParts DEF EventsInv
  <2>1. Replaying(x) /\ Informed(x)
      BY <1>1, <1>3, <1>5 DEF Replaying, EventsInv
  <2>2. Coming(s)' \subseteq Coming(s) /\ Coming(s) \subseteq Coming(s)' \cup {c.id}
      BY <1>1 DEF Coming
  <2>3. c.owner # s => Coming(s)' = Coming(s)
      BY <1>1 DEF Coming
  <2>4. c.owner = s => c.id \in Coming(s)
      BY DEF Coming
  <2>5. ASSUME c.owner = s PROVE c.id \in stream'[x].got \cup stream'[x].gap
    <3>1. CASE stream[x].at = "opening"
        BY <1>3, <2>0, <2>1, <2>4, <2>5, <3>1 DEF Informed
    <3>2. CASE stream[x].at = "open"
      <4>1. Accepts(x, c)
          BY <2>0, <2>1, <2>5 DEF Accepts, Informed
      <4> QED BY <1>3, <3>2, <4>1
    <3> QED BY <2>1, <3>1, <3>2, EventParts DEF EventsInv, Replaying
  <2>6. stream'[x].session = s
      BY <1>3, <2>0
  <2>7. ~stream'[x].deaf
      BY <1>3, <2>1 DEF Informed
  <2>8. stream'[x].at = "opening" => Coming(s)' \subseteq stream'[x].gap
      BY <1>3, <2>0, <2>1, <2>2 DEF Informed
  <2>9. ~failed' => Due(events', s, stream'[x].from, stream'[x].fits) \subseteq stream'[x].got \cup stream'[x].gap \cup Coming(s)'
    <3>1. ~failed => Due(events, s, stream[x].from, stream[x].fits) \subseteq stream[x].got \cup stream[x].gap \cup Coming(s)
        BY <2>0, <2>1 DEF Informed
    <3>2. Due(events', s, stream'[x].from, stream'[x].fits) = Due(events, s, stream[x].from, stream[x].fits)
        BY <1>1, <1>3
    <3> QED BY <1>1, <1>3, <2>2, <2>3, <2>5, <3>1, <3>2
  <2>10. Due(events, stream[x].session, stream[x].from, stream[x].fits)' = Due(events', s, stream'[x].from, stream'[x].fits)
      BY <2>6
  <2>11. Coming(stream[x].session)' = Coming(s)'
      BY <2>6 DEF Coming
  <2> QED BY <2>6, <2>7, <2>8, <2>9, <2>10, <2>11 DEF Informed
<1>6. \A x \in Streams : Informed(x)'
    BY <1>5 DEF Informed
<1> QED BY <1>1, <1>4, <1>6, StreamsStep

(* A scene with one failure less. *)
LEMMA SceneSpent ==
    ASSUME NEW old \in Scene, old.failures > 0, NEW n \in Nat, NEW new,
           new = [old EXCEPT !.failures = @ - 1, !.notes = n]
    PROVE  new \in Scene
<1>1. new = [who |-> old.who, notes |-> n, failures |-> old.failures - 1]
    BY DEF Scene
<1>2. old.who \subseteq Streams /\ old.failures - 1 \in Nat
    BY DEF Scene
<1> QED BY <1>1, <1>2 DEF Scene

(* An event that is appended is on its way, and is in the gap of the streams being opened. *)
LEMMA AppendEventEvents ==
    ASSUME EventsInv, NEW o \in Owners, NEW filtered \in BOOLEAN, NEW n \in Nat,
           mode' = mode, AppendEvent(o, filtered, n)
    PROVE  EventsInv'
<1>1. /\ scene.who \subseteq Streams /\ scene.notes \in Nat /\ scene.failures \in Nat
      /\ scene \in Scene /\ events \in Stores /\ failed \in BOOLEAN /\ Numbered(events, failed)
    BY EventParts DEF EventsInv, EventsTyped
<1>2. CASE mode = "stateless" /\ UNCHANGED <<events, failed, stream>>
           /\ casting' = casting \cup {[owner |-> o, id |-> 0, filtered |-> filtered]}
           /\ scene' = [scene EXCEPT !.notes = n]
  <2>1. scene' \in Scene
      BY <1>1, <1>2 DEF Scene
  <2>2. EventsTyped' /\ Numbered(events, failed)'
      BY <1>2, <2>1 DEF EventsInv, EventsTyped, Numbered
  <2>3. \A x \in Streams : Informed(x)'
      BY <1>2 DEF Informed, Replaying
  <2> QED BY <2>2, <2>3 DEF EventsInv
<1>3. CASE /\ mode # "stateless" /\ events' = Appended(events, o)
           /\ casting' = casting \cup {[owner |-> o, id |-> NextId(events, o), filtered |-> filtered]}
           /\ stream' = [x \in Streams |->
                        IF stream[x].at = "opening"
                        THEN [stream[x] EXCEPT !.gap = @ \cup {NextId(events, o)}] ELSE stream[x]]
           /\ scene' = [scene EXCEPT !.notes = n] /\ UNCHANGED failed
  <2>1. PICK id \in Nat : id = NextId(events, o)
      BY <1>1, NextIdType
  <2>2. scene' \in Scene
      BY <1>1, <1>3 DEF Scene
  <2>3. events' \in Stores /\ Numbered(events', failed)
      BY <1>1, <1>3, AppendedMeans
  <2>4. casting' = casting \cup {[owner |-> o, id |-> id, filtered |-> filtered]}
      BY <1>3, <2>1
  <2>5. ASSUME NEW x \in Streams
        PROVE  /\ stream'[x] \in [at : {"none", "opening", "open"}, session : Owners,
                    deaf : BOOLEAN, from : Nat, fits : Nat, got : SUBSET Nat, gap : SUBSET Nat]
               /\ stream'[x].at = stream[x].at /\ stream'[x].session = stream[x].session
               /\ stream'[x].deaf = stream[x].deaf /\ stream'[x].from = stream[x].from
               /\ stream'[x].fits = stream[x].fits
               /\ stream'[x].got = stream[x].got /\ stream[x].gap \subseteq stream'[x].gap
               /\ stream[x].at = "opening" => id \in stream'[x].gap
    <3>1. stream[x] \in [at : {"none", "opening", "open"}, session : Owners,
                    deaf : BOOLEAN, from : Nat, fits : Nat, got : SUBSET Nat, gap : SUBSET Nat]
        BY DEF EventsInv, EventsTyped
    <3>2. CASE stream[x].at = "opening"
      <4>1. stream'[x] = [stream[x] EXCEPT !.gap = @ \cup {id}]
          BY <1>3, <2>1, <3>2
      <4> QED BY <3>1, <4>1
    <3>3. CASE stream[x].at # "opening"
      <4>1. stream'[x] = stream[x]
          BY <1>3, <3>3
      <4> QED BY <3>1, <3>3, <4>1
    <3> QED BY <3>2, <3>3
  <2>6. EventsTyped'
    <3>1. \A c \in casting' : c \in [owner : Owners, id : Nat, filtered : BOOLEAN]
        BY <2>4 DEF EventsInv, EventsTyped
    <3>2. stream' \in [Streams -> [at : {"none", "opening", "open"}, session : Owners,
              deaf : BOOLEAN, from : Nat, fits : Nat, got : SUBSET Nat, gap : SUBSET Nat]]
      <4>1. stream' = [x \in Streams |-> stream'[x]]
          BY <1>3
      <4> QED BY <2>5, <4>1
    <3> QED BY <1>3, <2>2, <2>3, <3>1, <3>2 DEF EventsInv, EventsTyped
  <2>7. ASSUME NEW x \in Streams, Replaying(x)' PROVE Informed(x)'
    <3>1. PICK s \in Owners : s = stream[x].session
        BY EventParts DEF EventsInv
    <3>2. PICK from, fits \in Nat : from = stream[x].from /\ fits = stream[x].fits
        BY EventParts DEF EventsInv
    <3>3. Replaying(x) /\ Informed(x)
        BY <1>3, <2>5, <2>7 DEF Replaying, EventsInv
    <3>4. /\ Coming(s) \subseteq Coming(s)' /\ Coming(s)' \subseteq Coming(s) \cup {id}
          /\ s = o => id \in Coming(s)'
      <4> DEFINE new == [owner |-> o, id |-> id, filtered |-> filtered]
      <4>1. new.owner = o /\ new.id = id /\ casting' = casting \cup {new}
          BY <2>4
      <4> HIDE DEF new
      <4> QED BY <4>1 DEF Coming
    <3>5. /\ Due(events', s, from, fits) \subseteq Due(events, s, from, fits) \cup {id}
          /\ s # o => Due(events', s, from, fits) = Due(events, s, from, fits)
        BY <1>1, <1>3, <2>1, DueAppended
    <3>6. stream'[x].session = s /\ stream'[x].from = from /\ stream'[x].fits = fits
        BY <2>5, <3>1, <3>2
    <3>7. /\ Due(events, stream[x].session, stream[x].from, stream[x].fits)' = Due(events', s, from, fits)
          /\ Coming(stream[x].session)' = Coming(s)'
        BY <3>6 DEF Coming
    <3>8. /\ ~stream[x].deaf
          /\ stream[x].at = "opening" => Coming(s) \subseteq stream[x].gap
          /\ ~failed => Due(events, s, from, fits) \subseteq stream[x].got \cup stream[x].gap \cup Coming(s)
        BY <3>1, <3>2, <3>3 DEF Informed
    <3>9. ~failed => Due(events', s, from, fits) \subseteq stream'[x].got \cup stream'[x].gap \cup Coming(s)'
      <4>1. CASE s = o
          BY <2>5, <3>4, <3>5, <3>8, <4>1
      <4>2. CASE s # o
          BY <2>5, <3>4, <3>5, <3>8, <4>2
      <4> QED BY <4>1, <4>2
    <3> QED BY <1>3, <2>5, <3>4, <3>6, <3>7, <3>8, <3>9 DEF Informed
  <2>8. \A x \in Streams : Informed(x)'
      BY <2>7 DEF Informed
  <2> QED BY <1>3, <2>3, <2>6, <2>8 DEF EventsInv
<1>4. CASE mode # "stateless" /\ Throws(n) /\ events' \in AppendFails(events, o)
           /\ UNCHANGED <<casting, stream>>
  <2>1. failed' = TRUE /\ scene' = [scene EXCEPT !.failures = @ - 1, !.notes = n]
        /\ scene.failures > 0
      BY <1>4 DEF Throws
  <2>2. scene' \in Scene
      BY <1>1, <2>1, SceneSpent
  <2>3. events' \in Stores /\ Numbered(events', TRUE)
      BY <1>1, <1>4, AppendFailsMeans
  <2>4. EventsTyped' /\ Numbered(events, failed)'
      BY <1>4, <2>1, <2>2, <2>3 DEF EventsInv, EventsTyped
  <2>5. \A x \in Streams : Informed(x)'
      BY <1>4, <2>1 DEF EventsInv, Informed, Replaying, Coming
  <2> QED BY <2>4, <2>5 DEF EventsInv
<1> QED BY <1>2, <1>3, <1>4 DEF AppendEvent

(* DELETE clears the events of a session, or fails to. *)
LEMMA DeleteEvents ==
    ASSUME EventsInv, NEW s \in Sessions, Delete(s)
    PROVE  EventsInv'
<1>1. /\ s \in Owners /\ scene \in Scene /\ events \in Stores /\ failed \in BOOLEAN
      /\ Numbered(events, failed) /\ scene.notes \in Nat
    BY EventParts, HttpStreamsAssumption DEF EventsInv, EventsTyped
<1>2. mode' = mode /\ casting' = casting /\ stream' = stream
    BY DEF Delete
<1>3. CASE events' = Clear(events, s) /\ UNCHANGED <<failed, scene>>
  <2>1. events' \in Stores /\ Numbered(events', failed)
      BY <1>1, <1>3, ClearMeans
  <2>2. EventsTyped' /\ Numbered(events, failed)'
      BY <1>2, <1>3, <2>1 DEF EventsInv, EventsTyped
  <2>3. ASSUME NEW x \in Streams PROVE Informed(x)'
    <3>1. PICK o \in Owners, from \in Nat, fits \in Nat :
              o = stream[x].session /\ from = stream[x].from /\ fits = stream[x].fits
        BY EventParts DEF EventsInv
    <3>2. Due(events', o, from, fits) \subseteq Due(events, o, from, fits)
        BY <1>1, <1>3, DueCleared
    <3>3. /\ Due(events, stream[x].session, stream[x].from, stream[x].fits)' = Due(events', o, from, fits)
          /\ Due(events, stream[x].session, stream[x].from, stream[x].fits) = Due(events, o, from, fits)
          /\ Coming(stream[x].session)' = Coming(stream[x].session)
        BY <1>2, <3>1 DEF Coming
    <3> QED BY <1>2, <1>3, <3>2, <3>3 DEF EventsInv, Informed, Replaying
  <2> QED BY <2>2, <2>3 DEF EventsInv
<1>4. CASE Throws(scene.notes) /\ events' \in ClearFails(events, s)
  <2>1. failed' = TRUE /\ scene' = [scene EXCEPT !.failures = @ - 1, !.notes = scene.notes]
        /\ scene.failures > 0
      BY <1>4 DEF Throws
  <2>2. scene' \in Scene
      BY <1>1, <2>1, SceneSpent
  <2>3. events' \in Stores /\ Numbered(events', TRUE)
      BY <1>1, <1>4, ClearMeans
  <2>4. EventsTyped' /\ Numbered(events, failed)'
      BY <1>2, <2>1, <2>2, <2>3 DEF EventsInv, EventsTyped
  <2>5. \A x \in Streams : Informed(x)'
      BY <1>2, <2>1 DEF EventsInv, Informed, Replaying, Coming
  <2> QED BY <2>4, <2>5 DEF EventsInv
<1> QED BY <1>3, <1>4 DEF Delete

(* A stream is registered, or goes away. *)
LEMMA StreamEvents ==
    ASSUME EventsInv, NEW x \in Streams, Opened(x) \/ Dropped(x)
    PROVE  EventsInv'
<1>1. /\ mode' = mode /\ scene' = scene /\ events' = events /\ failed' = failed /\ casting' = casting
    BY DEF Opened, Dropped, store
<1>2. /\ stream \in [Streams -> [at : {"none", "opening", "open"}, session : Owners,
             deaf : BOOLEAN, from : Nat, fits : Nat, got : SUBSET Nat, gap : SUBSET Nat]]
    BY DEF EventsInv, EventsTyped
<1>3. stream' = [stream EXCEPT ![x] = [stream[x] EXCEPT !.at = "open"]] \/ stream' = [stream EXCEPT ![x] = Shut]
    BY <1>2 DEF Opened, Dropped
<1>4. /\ stream'[x] = [stream[x] EXCEPT !.at = "open"] \/ stream'[x] = Shut
      /\ \A y \in Streams \ {x} : stream'[y] = stream[y]
      /\ stream' \in [Streams -> [at : {"none", "opening", "open"}, session : Owners,
             deaf : BOOLEAN, from : Nat, fits : Nat, got : SUBSET Nat, gap : SUBSET Nat]]
  <2>1. Shut \in [at : {"none", "opening", "open"}, session : Owners,
             deaf : BOOLEAN, from : Nat, fits : Nat, got : SUBSET Nat, gap : SUBSET Nat]
      BY HttpStreamsAssumption DEF Shut
  <2>2. [stream[x] EXCEPT !.at = "open"] \in [at : {"none", "opening", "open"}, session : Owners,
             deaf : BOOLEAN, from : Nat, fits : Nat, got : SUBSET Nat, gap : SUBSET Nat]
      BY <1>2
  <2> QED BY <1>2, <1>3, <2>1, <2>2
<1>5. EventsTyped'
    BY <1>1, <1>4 DEF EventsInv, EventsTyped
<1>6. ASSUME NEW y \in Streams PROVE Informed(y)'
  <2>1. CASE y = x /\ stream'[x] = Shut
      BY <2>1 DEF Informed, Replaying, Shut
  <2>2. CASE y = x /\ stream'[x] = [stream[x] EXCEPT !.at = "open"]
    <3>1. /\ stream'[x].at = "open" /\ stream'[x].session = stream[x].session
          /\ stream'[x].from = stream[x].from /\ stream'[x].fits = stream[x].fits
          /\ stream'[x].deaf = stream[x].deaf
          /\ stream'[x].got = stream[x].got /\ stream'[x].gap = stream[x].gap
        BY <1>2, <2>2
    <3>2. stream[x].at # "none"
        BY <1>2, <2>2, <3>1, <1>3 DEF Opened, Dropped, Shut
    <3> QED BY <1>1, <2>2, <3>1, <3>2 DEF EventsInv, Informed, Replaying, Coming
  <2>3. CASE y # x
    <3>1. stream'[y] = stream[y]
        BY <1>4, <2>3
    <3> QED BY <1>1, <3>1 DEF EventsInv, Informed, Replaying, Coming
  <2> QED BY <1>4, <2>1, <2>2, <2>3
<1> QED BY <1>1, <1>5, <1>6, StreamsStep

(* A listening POST becomes a stream without a replay. *)
LEMMA TakeAnswerEvents ==
    ASSUME EventsInv, NEW p \in Posts, TakeAnswer(p), Key(p)[1] \in Owners
    PROVE  EventsInv'
<1>1. /\ mode' = mode /\ scene' = scene /\ events' = events /\ failed' = failed /\ casting' = casting
    BY DEF TakeAnswer, store
<1> DEFINE new == [Shut EXCEPT !.at = "opening", !.session = Key(p)[1],
                               !.deaf = post[p].kind = "quiet"]
<1>2. CASE stream' = stream
  <2>1. scene' \in Scene
      BY <1>1 DEF EventsInv, EventsTyped
  <2> QED BY <1>1, <1>2, <2>1, EventsKept DEF store
<1>3. CASE stream' = [stream EXCEPT ![p] = new]
  <2>1. /\ stream \in [Streams -> [at : {"none", "opening", "open"}, session : Owners,
             deaf : BOOLEAN, from : Nat, fits : Nat, got : SUBSET Nat, gap : SUBSET Nat]]
        /\ p \in Streams
      BY DEF EventsInv, EventsTyped, Streams
  <2>2. /\ new \in [at : {"none", "opening", "open"}, session : Owners,
             deaf : BOOLEAN, from : Nat, fits : Nat, got : SUBSET Nat, gap : SUBSET Nat]
        /\ new.fits = 0
    <3>1. (post[p].kind = "quiet") \in BOOLEAN
        OBVIOUS
    <3> QED BY <3>1 DEF Shut
  <2> HIDE DEF new
  <2>3. stream'[p] = new /\ \A y \in Streams \ {p} : stream'[y] = stream[y]
      BY <1>3, <2>1
  <2>4. EventsTyped'
      BY <1>1, <1>3, <2>1, <2>2 DEF EventsInv, EventsTyped
  <2>5. ASSUME NEW y \in Streams PROVE Informed(y)'
    <3>1. CASE y = p
        BY <2>2, <2>3, <3>1 DEF Informed, Replaying
    <3>2. CASE y # p
      <4>1. stream'[y] = stream[y]
          BY <2>3, <3>2
      <4> QED BY <1>1, <4>1 DEF EventsInv, Informed, Replaying, Coming
    <3> QED BY <3>1, <3>2
  <2> QED BY <1>1, <2>4, <2>5, StreamsStep
<1> QED BY <1>2, <1>3 DEF TakeAnswer

--------------------------------------------------------------------------------
(* POSTs and the tables of their requests *)

Stations == {"away", "resolved", "admitted", "registered", "waiting", "expired"}
Records == [at : Stations, key : Keys \cup {NoKey}, kind : Kinds, answer : Keys \cup {NoKey, Closed}]

(* The variables of the requests keep to their types. *)
RequestsTyped ==
    /\ post \in [Posts -> Records] /\ pending \in [Keys -> Posts \cup {Nobody}]
    /\ held \subseteq Keys /\ filters \subseteq Keys /\ route \in [Tokens -> Keys \cup {NoKey}]
    /\ frames \in [Keys -> SUBSET Owners] /\ inflight \in Nat /\ asked \subseteq Posts \X Keys
    /\ deleting \subseteq Sessions

(* The POSTs that are counted. *)
Busy == {p \in Posts : post[p].at \in Between}

(* A POST that is counted holds a request of this key open. *)
Open(k) == \E p \in Busy : Key(p) = k /\ post[p].kind # "plain"

(* A POST that has not come is away, one that is not registered has no answer, and an answer *)
(* is one of no session or of the session of the POST.                                       *)
Fits(p, who) ==
    /\ p \in who => post[p].at = "away"
    /\ post[p].at # "away" => Key(p) \in Keys
    /\ post[p].at \in {"away", "resolved", "admitted"} => post[p].answer = NoKey
    /\ post[p].answer[1] \in {NoSession, Key(p)[1]}

(* The promises that are entered are those of POSTs that have no answer. *)
Promised(k) ==
    pending[k] # Nobody =>
        pending[k] \in Busy /\ Key(pending[k]) = k /\ post[pending[k]].answer = NoKey

(* The tables of held-open requests hold what belongs to such a request. *)
TablesHold ==
    /\ \A k \in held \cup filters : Open(k)
    /\ \A k \in Keys : frames[k] # {} => Open(k)
    /\ \A k \in Keys : frames[k] \subseteq {NoSession, k[1]}
    /\ \A t \in Tokens : route[t] # NoKey => Open(route[t])

(* The count is right. *)
Counts ==
    IsFiniteSet(Busy) /\ inflight = IF mode = "stateless" THEN Cardinality(Busy) ELSE 0

RequestsInv ==
    /\ RequestsTyped /\ TablesHold /\ Counts
    /\ \A p \in Posts : Fits(p, scene.who)
    /\ \A k \in Keys : Promised(k)

(* The parts of a key. *)
LEMMA KeyParts ==
    ASSUME NEW k \in Keys
    PROVE  k[1] \in Owners /\ k[2] \in Ids /\ k = <<k[1], k[2]>>
BY DEF Keys

(* The parts of a POST. *)
LEMMA PostParts ==
    ASSUME RequestsTyped, NEW p \in Posts
    PROVE  /\ post[p].at \in Stations /\ post[p].key \in Keys \cup {NoKey} /\ post[p].kind \in Kinds
           /\ post[p].answer \in Keys \cup {NoKey, Closed}
BY DEF RequestsTyped, Records

(* One POST gets another record. *)
LEMMA OnePost ==
    ASSUME RequestsTyped, NEW p \in Posts, NEW r \in Records, post' = [post EXCEPT ![p] = r]
    PROVE  /\ post' \in [Posts -> Records] /\ post'[p] = r
           /\ \A q \in Posts \ {p} : post'[q] = post[q]
BY DEF RequestsTyped

(* When the POSTs that are counted stay the same, so do the keys that are held open. *)
LEMMA BusyKept ==
    ASSUME Busy' = Busy,
           \A q \in Busy : post'[q].key = post[q].key /\ post'[q].kind = post[q].kind
    PROVE  \A k : Open(k) <=> Open(k)'
<1>1. ASSUME NEW k PROVE Open(k) <=> Open(k)'
  <2>1. Open(k)' <=> \E p \in Busy' : post'[p].key = k /\ post'[p].kind # "plain"
      BY DEF Open, Key
  <2> QED BY <2>1 DEF Open, Key
<1> QED BY <1>1

(* A POST moves on without being registered or given up. *)
LEMMA PostMoves ==
    ASSUME RequestsInv, NEW p \in Posts, NEW r \in Records, post' = [post EXCEPT ![p] = r],
           UNCHANGED <<mode, tables, inflight, deleting>>, asked' \subseteq Posts \X Keys,
           scene'.who \subseteq scene.who, Fits(p, scene.who)',
           r.at \in Between <=> post[p].at \in Between,
           p \in Busy => r.key = Key(p) /\ r.kind = post[p].kind /\ r.answer = post[p].answer
    PROVE  RequestsInv'
<1>1. /\ post' \in [Posts -> Records] /\ post'[p] = r /\ \A q \in Posts \ {p} : post'[q] = post[q]
    BY OnePost DEF RequestsInv
<1>2. /\ mode' = mode /\ pending' = pending /\ held' = held /\ filters' = filters /\ route' = route
      /\ frames' = frames /\ inflight' = inflight /\ deleting' = deleting
    BY DEF tables
<1>3. Busy' = Busy
    BY <1>1 DEF Busy
<1>4. \A q \in Busy : /\ post'[q].key = post[q].key /\ post'[q].kind = post[q].kind
                      /\ post'[q].answer = post[q].answer
    BY <1>1 DEF Busy, Key
<1>5. RequestsTyped'
    BY <1>1, <1>2 DEF RequestsInv, RequestsTyped
<1>6. \A k : Open(k) <=> Open(k)'
    BY <1>3, <1>4, BusyKept
<1>7. TablesHold'
    BY <1>2, <1>6 DEF RequestsInv, TablesHold
<1>8. Counts'
    BY <1>2, <1>3 DEF RequestsInv, Counts
<1>9. ASSUME NEW q \in Posts PROVE Fits(q, scene.who)'
    BY <1>1 DEF RequestsInv, Fits, Key
<1>10. ASSUME NEW k \in Keys PROVE Promised(k)'
  <2>1. Promised(k)
      BY DEF RequestsInv
  <2> QED BY <1>2, <1>3, <1>4, <2>1 DEF Promised, Key
<1> QED BY <1>5, <1>7, <1>8, <1>9, <1>10 DEF RequestsInv

(* A step that leaves the requests alone. *)
LEMMA RequestsKept ==
    ASSUME RequestsInv, UNCHANGED <<mode, post, tables, inflight>>, asked' \subseteq asked,
           deleting' \subseteq Sessions, scene'.who \subseteq scene.who
    PROVE  RequestsInv'
<1>1. /\ mode' = mode /\ post' = post /\ pending' = pending /\ held' = held /\ filters' = filters
      /\ route' = route /\ frames' = frames /\ inflight' = inflight
    BY DEF tables
<1>2. Busy' = Busy
    BY <1>1 DEF Busy
<1>3. \A k : Open(k) <=> Open(k)'
    BY <1>1, <1>2, BusyKept
<1>4. RequestsTyped' /\ TablesHold' /\ Counts'
    BY <1>1, <1>2, <1>3 DEF RequestsInv, RequestsTyped, TablesHold, Counts
<1>5. \A p \in Posts : Fits(p, scene.who)'
    BY <1>1 DEF RequestsInv, Fits, Key
<1>6. \A k \in Keys : Promised(k)'
    BY <1>1, <1>2 DEF RequestsInv, Promised, Key
<1> QED BY <1>4, <1>5, <1>6 DEF RequestsInv

(* A POST arrives. *)
LEMMA ArriveRequests ==
    ASSUME RequestsInv, NEW p \in Posts, NEW s \in Owners, NEW i \in Ids, NEW kind \in Kinds,
           scene \in Scene, Arrive(p, s, i, kind)
    PROVE  RequestsInv'
<1> DEFINE r == [at |-> "resolved", key |-> <<s, i>>, kind |-> kind, answer |-> NoKey]
<1>1. /\ p \in scene.who /\ scene' = [scene EXCEPT !.who = @ \ {p}]
      /\ post' = [post EXCEPT ![p] = r]
      /\ mode' = mode /\ tables' = tables /\ inflight' = inflight /\ asked' = asked
      /\ deleting' = deleting
    BY DEF Arrive, Enters, Comes
<1>2. <<s, i>> \in Keys /\ r \in Records
    BY DEF Keys, Records, Stations
<1>3. scene'.who = scene.who \ {p}
    BY <1>1 DEF Scene
<1>4. post[p].at = "away"
    BY <1>1 DEF RequestsInv, Fits
<1>5. post'[p] = r
    BY <1>1, <1>2, OnePost DEF RequestsInv
<1>6. Fits(p, scene.who)'
    BY <1>2, <1>3, <1>5 DEF Fits, Key, NoKey
<1>7. r.at \in Between <=> post[p].at \in Between
    BY <1>4 DEF Between
<1>8. p \notin Busy
    BY <1>4 DEF Busy, Between
<1> HIDE DEF r
<1> QED BY <1>1, <1>2, <1>3, <1>6, <1>7, <1>8, PostMoves DEF RequestsInv, RequestsTyped

(* A POST that does not register is done, is admitted, is sent, or runs out of time. *)
LEMMA MoveRequests ==
    ASSUME RequestsInv, NEW p \in Posts, Refuse(p) \/ Admit(p) \/ Forward(p) \/ Expire(p)
    PROVE  RequestsInv'
<1>1. /\ mode' = mode /\ scene' = scene /\ tables' = tables /\ inflight' = inflight
      /\ deleting' = deleting
    BY DEF Refuse, Admit, Forward, Expire
<1>2. /\ post[p] \in Records /\ post \in [Posts -> Records] /\ asked \subseteq Posts \X Keys
      /\ Fits(p, scene.who)
    BY DEF RequestsInv, RequestsTyped
<1>3. CASE Refuse(p)
  <2>1. post[p].at = "resolved" /\ post' = [post EXCEPT ![p] = Away] /\ asked' = asked
      BY <1>3 DEF Refuse, Finish
  <2>2. Away \in Records /\ Away.at = "away" /\ Away.answer = NoKey
      BY DEF Away, Records, Stations, Kinds
  <2>3. post'[p] = Away
      BY <2>1, <2>2, OnePost DEF RequestsInv
  <2>4. Fits(p, scene.who)'
      BY <1>1, <2>2, <2>3 DEF Fits, NoKey
  <2>5. (Away.at \in Between <=> post[p].at \in Between) /\ p \notin Busy
      BY <2>1, <2>2 DEF Between, Busy
  <2> QED BY <1>1, <1>2, <2>1, <2>2, <2>4, <2>5, PostMoves
<1>4. ASSUME NEW place \in Stations, post' = [post EXCEPT ![p].at = place],
             asked' \subseteq Posts \X Keys, post[p].at # "away",
             place \in Between <=> post[p].at \in Between,
             place = "admitted" => post[p].at = "resolved", place \notin {"away", "resolved"}
      PROVE  RequestsInv'
  <2> DEFINE r == [post[p] EXCEPT !.at = place]
  <2>1. /\ post' = [post EXCEPT ![p] = r] /\ r \in Records /\ r.at = place /\ r.key = post[p].key
        /\ r.kind = post[p].kind /\ r.answer = post[p].answer
      BY <1>2, <1>4 DEF Records
  <2> HIDE DEF r
  <2>2. post'[p] = r
      BY <2>1, OnePost DEF RequestsInv
  <2>3. Fits(p, scene.who)'
      BY <1>1, <1>2, <1>4, <2>1, <2>2 DEF Fits, Key
  <2> QED BY <1>1, <1>4, <2>1, <2>3, PostMoves DEF Key
<1>5. CASE Admit(p)
  <2>1. post[p].at = "resolved" /\ post' = [post EXCEPT ![p].at = "admitted"] /\ asked' = asked
      BY <1>5 DEF Admit
  <2> QED BY <1>2, <1>4, <2>1 DEF Stations, Between
<1>6. CASE Forward(p)
  <2>1. /\ post[p].at = "registered" /\ post' = [post EXCEPT ![p].at = "waiting"]
        /\ asked' = asked \cup {<<p, Key(p)>>}
      BY <1>6 DEF Forward
  <2>2. asked' \subseteq Posts \X Keys
      BY <1>2, <2>1 DEF Fits
  <2> QED BY <1>2, <1>4, <2>1, <2>2 DEF Stations, Between
<1>7. CASE Expire(p)
  <2>1. post[p].at = "waiting" /\ post' = [post EXCEPT ![p].at = "expired"] /\ asked' = asked
      BY <1>7 DEF Expire
  <2> QED BY <1>2, <1>4, <2>1 DEF Stations, Between
<1> QED BY <1>3, <1>5, <1>6, <1>7

(* A POST is registered: its promise is entered, and with it what holds its request open. *)
LEMMA RegisterRequests ==
    ASSUME RequestsInv, NEW p \in Posts, Register(p)
    PROVE  RequestsInv'
<1> DEFINE r == [post[p] EXCEPT !.at = "registered"]
<1>1. /\ post[p].at = "admitted" /\ mode' = mode /\ scene' = scene /\ asked' = asked
      /\ deleting' = deleting /\ frames' = frames
      /\ inflight' = inflight + Counted(p) /\ pending' = [pending EXCEPT ![Key(p)] = p]
      /\ held' = IF post[p].kind # "plain" THEN held \cup {Key(p)} ELSE held
      /\ filters' = IF post[p].kind = "listen" THEN filters \cup {Key(p)} ELSE filters
      /\ \/ route' = route
         \/ post[p].kind = "held" /\ \E t \in Tokens : route' = [route EXCEPT ![t] = Key(p)]
    BY DEF Register
<1>2. /\ post \in [Posts -> Records] /\ Key(p) \in Keys /\ post[p].answer = NoKey
      /\ Fits(p, scene.who) /\ TablesHold /\ Counts /\ RequestsTyped /\ post[p] \in Records
    BY <1>1 DEF RequestsInv, RequestsTyped, Fits
<1>3. /\ post' = [post EXCEPT ![p] = r] /\ r \in Records /\ r.at = "registered" /\ r.key = post[p].key
      /\ r.kind = post[p].kind /\ r.answer = NoKey
    BY <1>2 DEF Records, Stations, Register
<1> HIDE DEF r
<1>4. /\ post' \in [Posts -> Records] /\ post'[p] = r /\ \A q \in Posts \ {p} : post'[q] = post[q]
    BY <1>2, <1>3, OnePost
<1>5. p \notin Busy /\ Busy' = Busy \cup {p}
    BY <1>1, <1>3, <1>4 DEF Busy, Between
<1>6. \A q \in Busy : post'[q] = post[q]
    BY <1>4, <1>5 DEF Busy
<1>7. /\ \A k : Open(k) => Open(k)'
      /\ \A k : k = Key(p) /\ post[p].kind # "plain" => Open(k)'
    BY <1>3, <1>4, <1>5, <1>6 DEF Open, Key
<1>8. RequestsTyped'
  <2>1. pending' \in [Keys -> Posts \cup {Nobody}] /\ route' \in [Tokens -> Keys \cup {NoKey}]
      BY <1>1, <1>2 DEF RequestsTyped
  <2>2. inflight' \in Nat
      BY <1>1, <1>2 DEF RequestsTyped, Counted
  <2> QED BY <1>1, <1>2, <1>4, <2>1, <2>2 DEF RequestsTyped
<1>9. TablesHold'
  <2>1. \A k \in held' \cup filters' : Open(k)'
      BY <1>1, <1>2, <1>7 DEF TablesHold
  <2>2. ASSUME NEW t \in Tokens, NEW k, k = route'[t], k # NoKey PROVE Open(k)'
    <3>1. route'[t] = route[t] \/ (post[p].kind # "plain" /\ route'[t] = Key(p))
        BY <1>1, <1>2 DEF RequestsTyped
    <3> QED BY <1>2, <1>7, <2>2, <3>1 DEF TablesHold
  <2>3. \A t \in Tokens : route'[t] # NoKey => Open(route[t])'
      BY <2>2 DEF Open
  <2>4. (\A k \in Keys : frames[k] # {} => Open(k))' /\ (\A k \in Keys : frames[k] \subseteq {NoSession, k[1]})'
      BY <1>1, <1>2, <1>7 DEF TablesHold
  <2> QED BY <2>1, <2>3, <2>4 DEF TablesHold
<1>10. Counts'
  <2>1. /\ IsFiniteSet(Busy') /\ Cardinality(Busy') = Cardinality(Busy) + 1
      BY <1>2, <1>5, FS_AddElement DEF Counts
  <2> QED BY <1>1, <1>2, <2>1 DEF Counts, Counted
<1>11. ASSUME NEW q \in Posts PROVE Fits(q, scene.who)'
  <2>1. CASE q = p
      BY <1>1, <1>2, <1>3, <1>4, <2>1 DEF Fits, Key
  <2>2. CASE q # p
      BY <1>1, <1>4, <2>2 DEF RequestsInv, Fits, Key
  <2> QED BY <2>1, <2>2
<1>12. ASSUME NEW k \in Keys PROVE Promised(k)'
  <2>1. CASE k = Key(p)
    <3>1. pending'[k] = p
        BY <1>1, <1>2, <2>1 DEF RequestsTyped
    <3> QED BY <1>3, <1>4, <1>5, <2>1, <3>1 DEF Promised, Key
  <2>2. CASE k # Key(p)
    <3>1. pending'[k] = pending[k]
        BY <1>1, <1>2, <2>2 DEF RequestsTyped
    <3>2. Promised(k)
        BY DEF RequestsInv
    <3> QED BY <1>5, <1>6, <3>1, <3>2 DEF Promised, Key
  <2> QED BY <2>1, <2>2
<1> QED BY <1>8, <1>9, <1>10, <1>11, <1>12 DEF RequestsInv

(* A POST that is registered leaves, and takes along what its request holds open. *)
LEMMA LeaveRequests ==
    ASSUME RequestsInv, NEW p \in Busy, Finish(p), inflight' = inflight - Counted(p),
           UNCHANGED <<mode, scene, asked, deleting>>,
           pending' \in [Keys -> Posts \cup {Nobody}],
           \A k \in Keys : pending'[k] # p /\ pending'[k] \in {pending[k], Nobody},
           \/ post[p].kind = "plain" /\ UNCHANGED <<held, filters, route, frames>>
           \/ EraseStreamState(Key(p))
    PROVE  RequestsInv'
<1>1. /\ mode' = mode /\ scene' = scene /\ asked' = asked /\ deleting' = deleting
      /\ post' = [post EXCEPT ![p] = Away]
    BY DEF Finish
<1>2. /\ p \in Posts /\ post[p].at \in Between
    BY DEF Busy
<1>3. /\ RequestsTyped /\ TablesHold /\ Counts /\ Fits(p, scene.who)
    BY <1>2 DEF RequestsInv
<1>4. Away \in Records /\ Away.at = "away" /\ Away.key = NoKey /\ Away.answer = NoKey
    BY DEF Away, Records, Stations, Kinds
<1>5. PICK key \in Keys : key = Key(p)
    BY <1>2, <1>3 DEF Fits, Between
<1>6. /\ post' \in [Posts -> Records] /\ post'[p] = Away /\ \A q \in Posts \ {p} : post'[q] = post[q]
    BY <1>1, <1>2, <1>3, <1>4, OnePost
<1>7. Busy' = Busy \ {p} /\ \A q \in Busy \ {p} : q \in Posts /\ post'[q] = post[q]
    BY <1>4, <1>6 DEF Busy, Between
<1>8. \A k : Open(k) /\ (k = key => post[p].kind = "plain") => Open(k)'
    BY <1>5, <1>7 DEF Open, Key
<1>9. /\ inflight \in Nat /\ IsFiniteSet(Busy) /\ Cardinality(Busy) \in Nat
      /\ IsFiniteSet(Busy') /\ Cardinality(Busy') = Cardinality(Busy) - 1 /\ Cardinality(Busy') \in Nat
  <2>1. IsFiniteSet(Busy) /\ inflight \in Nat
      BY <1>3 DEF Counts, RequestsTyped
  <2> QED BY <1>7, <2>1, FS_RemoveElement, FS_CardinalityType
<1>10. Counts' /\ inflight' \in Nat
    BY <1>1, <1>3, <1>9 DEF Counts, Counted
<1>11. ASSUME post[p].kind = "plain" /\ UNCHANGED <<held, filters, route, frames>>
       PROVE  RequestsTyped' /\ TablesHold'
  <2>1. RequestsTyped'
      BY <1>1, <1>3, <1>6, <1>10, <1>11 DEF RequestsTyped
  <2>2. TablesHold'
    <3>1. \A k \in held' \cup filters' : Open(k)'
        BY <1>3, <1>8, <1>11 DEF TablesHold
    <3>2. \A t \in Tokens : route'[t] # NoKey => Open(route[t])'
      <4>1. ASSUME NEW t \in Tokens, NEW k, k = route[t], k # NoKey PROVE Open(k)'
          BY <1>3, <1>8, <1>11, <4>1 DEF TablesHold
      <4> QED BY <1>11, <4>1 DEF Open
    <3> QED BY <1>3, <1>8, <1>11, <3>1, <3>2 DEF TablesHold
  <2> QED BY <2>1, <2>2
<1>12. ASSUME EraseStreamState(Key(p))
       PROVE  RequestsTyped' /\ TablesHold'
  <2>1. /\ held' = held \ {key} /\ filters' = filters \ {key}
        /\ frames' = [frames EXCEPT ![key] = {}]
        /\ route' = [t \in Tokens |-> IF route[t] = key THEN NoKey ELSE route[t]]
      BY <1>5, <1>12 DEF EraseStreamState
  <2>2. /\ frames' \in [Keys -> SUBSET Owners] /\ frames'[key] = {}
        /\ \A k \in Keys \ {key} : frames'[k] = frames[k]
      BY <1>3, <2>1 DEF RequestsTyped
  <2>3. RequestsTyped'
      BY <1>1, <1>3, <1>6, <1>10, <2>1, <2>2 DEF RequestsTyped
  <2>4. TablesHold'
    <3>1. \A k \in held' \cup filters' : Open(k)'
        BY <1>3, <1>8, <2>1 DEF TablesHold
    <3>2. \A t \in Tokens : route'[t] # NoKey => Open(route[t])'
      <4>1. ASSUME NEW t \in Tokens, NEW k, k = route'[t], k # NoKey PROVE Open(k)'
        <5>1. route[t] = k /\ k # key
            BY <2>1, <4>1
        <5> QED BY <1>3, <1>8, <4>1, <5>1 DEF TablesHold
      <4> QED BY <4>1 DEF Open
    <3>3. \A k \in Keys : frames'[k] # {} => Open(k)'
        BY <1>3, <1>8, <2>2 DEF TablesHold
    <3>4. \A k \in Keys : frames'[k] \subseteq {NoSession, k[1]}
        BY <1>3, <2>2 DEF TablesHold
    <3> QED BY <3>1, <3>2, <3>3, <3>4 DEF TablesHold
  <2> QED BY <2>3, <2>4
<1>13. ASSUME NEW q \in Posts PROVE Fits(q, scene.who)'
  <2>1. CASE q = p
      BY <1>4, <1>6, <2>1 DEF Fits, Key, NoKey
  <2>2. CASE q # p
      BY <1>1, <1>6, <2>2 DEF RequestsInv, Fits, Key
  <2> QED BY <2>1, <2>2
<1>14. ASSUME NEW k \in Keys PROVE Promised(k)'
  <2>1. Promised(k) /\ pending'[k] # p /\ pending'[k] \in {pending[k], Nobody}
      BY DEF RequestsInv
  <2> QED BY <1>7, <2>1 DEF Promised, Key
<1> QED BY <1>10, <1>11, <1>12, <1>13, <1>14 DEF RequestsInv

(* A POST is given up: it could not be sent, or its time is over. *)
LEMMA GiveUpRequests ==
    ASSUME RequestsInv, NEW p \in Posts, SendFails(p) \/ Expired(p)
    PROVE  RequestsInv'
<1>1. p \in Busy /\ GiveUp(p)
    BY DEF SendFails, Expired, Busy, Between
<1>2. /\ Finish(p) /\ inflight' = inflight - Counted(p) /\ EraseStreamState(Key(p))
      /\ UNCHANGED <<mode, scene, asked, deleting>> /\ pending' = [pending EXCEPT ![Key(p)] = Nobody]
    BY <1>1 DEF GiveUp
<1>3. pending \in [Keys -> Posts \cup {Nobody}] /\ \A k \in Keys : pending[k] = p => k = Key(p)
    BY HttpStreamsAssumption DEF RequestsInv, RequestsTyped, Promised
<1>4. pending' \in [Keys -> Posts \cup {Nobody}]
    BY <1>2, <1>3
<1>5. \A k \in Keys : pending'[k] # p /\ pending'[k] \in {pending[k], Nobody}
    BY <1>2, <1>3, HttpStreamsAssumption
<1> QED BY <1>1, <1>2, <1>4, <1>5, LeaveRequests

(* A POST takes its answer. *)
LEMMA TakeAnswerRequests ==
    ASSUME RequestsInv, NEW p \in Posts, TakeAnswer(p)
    PROVE  RequestsInv'
<1>1. p \in Busy /\ post[p].answer # NoKey
    BY DEF TakeAnswer, Busy, Between
<1>2. /\ Finish(p) /\ inflight' = inflight - Counted(p) /\ pending' = pending
      /\ UNCHANGED <<mode, scene, asked, deleting>>
      /\ \/ post[p].kind = "plain" /\ UNCHANGED <<held, filters, route, frames>>
         \/ EraseStreamState(Key(p))
    BY DEF TakeAnswer
<1>3. pending' \in [Keys -> Posts \cup {Nobody}]
    BY <1>2 DEF RequestsInv, RequestsTyped
<1>4. \A k \in Keys : pending'[k] # p /\ pending'[k] \in {pending[k], Nobody}
    BY <1>1, <1>2, HttpStreamsAssumption DEF RequestsInv, Promised
<1> QED BY <1>1, <1>2, <1>3, <1>4, LeaveRequests

(* Some POSTs that are registered get answers, and their promises go. *)
LEMMA AnsweredRequests ==
    ASSUME RequestsInv, UNCHANGED <<mode, inflight>>, scene'.who \subseteq scene.who,
           asked' \subseteq asked, deleting' \subseteq Sessions,
           post' \in [Posts -> Records], pending' \in [Keys -> Posts \cup {Nobody}],
           \A k \in Keys : pending'[k] \in {pending[k], Nobody},
           \A q \in Posts : /\ post'[q].at = post[q].at /\ post'[q].key = post[q].key
                            /\ post'[q].kind = post[q].kind
                            /\ \/ post'[q].answer = post[q].answer
                               \/ /\ q \in Busy /\ post'[q].answer[1] \in {NoSession, Key(q)[1]}
                                  /\ \A k \in Keys : pending'[k] # q,
           held' \subseteq held, filters' \subseteq filters,
           route' \in [Tokens -> Keys \cup {NoKey}], frames' \in [Keys -> SUBSET Owners],
           \A t \in Tokens : route'[t] \in {route[t], NoKey},
           \A k \in Keys : frames'[k] \in {frames[k], {}}
    PROVE  RequestsInv'
<1>1. mode' = mode /\ inflight' = inflight /\ RequestsTyped /\ TablesHold /\ Counts
    BY DEF RequestsInv
<1>2. Busy' = Busy
    BY DEF Busy
<1>3. \A k : Open(k) <=> Open(k)'
    BY <1>2, BusyKept DEF Busy
<1>4. RequestsTyped' /\ Counts'
    BY <1>1, <1>2 DEF RequestsTyped, Counts
<1>5. TablesHold'
  <2>1. \A t \in Tokens : route'[t] # NoKey => Open(route[t])'
    <3>1. ASSUME NEW t \in Tokens, NEW k, k = route'[t], k # NoKey PROVE Open(k)'
        BY <1>1, <1>3, <3>1 DEF TablesHold
    <3> QED BY <3>1 DEF Open
  <2>2. \A k \in held' \cup filters' : Open(k)'
      BY <1>1, <1>3 DEF TablesHold
  <2>3. \A k \in Keys : (frames'[k] # {} => Open(k)') /\ frames'[k] \subseteq {NoSession, k[1]}
      BY <1>1, <1>3 DEF TablesHold
  <2> QED BY <2>1, <2>2, <2>3 DEF TablesHold
<1>6. ASSUME NEW q \in Posts PROVE Fits(q, scene.who)'
  <2>1. Fits(q, scene.who) /\ Key(q)' = Key(q)
      BY DEF RequestsInv, Key
  <2>2. q \in Busy => post[q].at \notin {"away", "resolved", "admitted"}
      BY DEF Busy, Between
  <2> QED BY <2>1, <2>2 DEF Fits
<1>7. ASSUME NEW k \in Keys, pending'[k] # Nobody
      PROVE  pending'[k] \in Busy' /\ Key(pending[k])' = k /\ post'[pending'[k]].answer = NoKey
  <2>1. pending'[k] = pending[k] /\ Promised(k) /\ pending[k] \in Posts
      BY <1>1, <1>7 DEF RequestsInv, RequestsTyped
  <2>2. PICK q \in Posts : q = pending[k]
      BY <2>1
  <2>3. post'[q].answer = post[q].answer /\ post'[q].key = post[q].key
      BY <2>1, <2>2
  <2> QED BY <1>2, <1>7, <2>1, <2>2, <2>3 DEF Promised, Key
<1>8. \A k \in Keys : Promised(k)'
    BY <1>7 DEF Promised
<1> QED BY <1>4, <1>5, <1>6, <1>8 DEF RequestsInv

(* An answer of the session handler settles a POST of its session, or of none. *)
LEMMA RespondRequests ==
    ASSUME RequestsInv, EventsTyped, NEW p \in Posts, NEW k \in Keys, Respond(p, k)
    PROVE  RequestsInv'
<1>1. /\ mode' = mode /\ inflight' = inflight /\ asked' = asked \ {<<p, k>>}
      /\ deleting' = deleting /\ held' = held /\ filters' = filters /\ route' = route
      /\ frames' = frames
    BY DEF Respond
<1>2. /\ post \in [Posts -> Records] /\ pending \in [Keys -> Posts \cup {Nobody}]
      /\ deleting \subseteq Sessions /\ scene \in Scene
      /\ route \in [Tokens -> Keys \cup {NoKey}] /\ frames \in [Keys -> SUBSET Owners]
    BY DEF RequestsInv, RequestsTyped, EventsTyped
<1>3. CASE \E m \in Matches(k[1], k[2]) : /\ post' = [post EXCEPT ![pending[m]].answer = k]
                                         /\ pending' = [pending EXCEPT ![m] = Nobody]
                                         /\ UNCHANGED <<store, stream, scene>>
  <2>1. PICK m \in Matches(k[1], k[2]) : /\ post' = [post EXCEPT ![pending[m]].answer = k]
                                         /\ pending' = [pending EXCEPT ![m] = Nobody]
                                         /\ scene' = scene
      BY <1>3
  <2>2. m \in Keys /\ pending[m] # Nobody /\ k[1] \in {NoSession, m[1]}
    <3>1. CASE pending[<<k[1], k[2]>>] # Nobody
        BY <3>1, KeyParts DEF Matches
    <3>2. CASE pending[<<k[1], k[2]>>] = Nobody
      <4> DEFINE C == {j \in Keys : pending[j] # Nobody /\ EndsWith(j[2], k[2])}
      <4>1. m \in IF k[1] = NoSession /\ Cardinality(C) = 1 THEN C ELSE {}
          BY <2>1, <3>2 DEF Matches
      <4>2. k[1] = NoSession /\ m \in C
        <5> HIDE DEF C
        <5> QED BY <4>1
      <4> QED BY <4>2
    <3> QED BY <3>1, <3>2
  <2>3. PICK q \in Posts : q = pending[m]
      BY <1>2, <2>2
  <2>4. q \in Busy /\ Key(q) = m
      BY <2>2, <2>3 DEF RequestsInv, Promised
  <2> DEFINE r == [post[q] EXCEPT !.answer = k]
  <2>5. /\ post' = [post EXCEPT ![q] = r] /\ r \in Records /\ r.at = post[q].at /\ r.key = post[q].key
        /\ r.kind = post[q].kind /\ r.answer = k
      BY <1>2, <2>1, <2>3 DEF Records
  <2> HIDE DEF r
  <2>6. /\ post' \in [Posts -> Records] /\ post'[q] = r /\ \A o \in Posts \ {q} : post'[o] = post[o]
      BY <2>5, OnePost DEF RequestsInv
  <2>7. \A j \in Keys : pending[j] = q => j = m
      BY <2>4, HttpStreamsAssumption DEF RequestsInv, Promised
  <2>8. /\ pending' \in [Keys -> Posts \cup {Nobody}]
        /\ \A j \in Keys : pending'[j] \in {pending[j], Nobody}
        /\ \A j \in Keys : pending'[j] # q
      BY <1>2, <2>1, <2>2, <2>7, HttpStreamsAssumption
  <2>9. \A o \in Posts : /\ post'[o].at = post[o].at /\ post'[o].key = post[o].key
                         /\ post'[o].kind = post[o].kind
                         /\ \/ post'[o].answer = post[o].answer
                            \/ /\ o \in Busy /\ post'[o].answer[1] \in {NoSession, Key(o)[1]}
                               /\ \A j \in Keys : pending'[j] # o
      BY <2>2, <2>4, <2>5, <2>6, <2>8
  <2> QED BY <1>1, <1>2, <2>1, <2>6, <2>8, <2>9, AnsweredRequests
<1>4. CASE AppendEvent(k[1], FALSE, scene.notes) /\ UNCHANGED <<post, pending>>
  <2>1. scene'.who = scene.who
      BY <1>2, <1>4 DEF AppendEvent, Throws, Scene
  <2> QED BY <1>1, <1>2, <1>4, <2>1, RequestsKept DEF tables
<1> QED BY <1>3, <1>4 DEF Respond

(* A notification rides on held-open requests of its session only. *)
LEMMA NotifyRequests ==
    ASSUME RequestsInv, EventsTyped, NEW s \in Owners,
           NEW kind \in {"progress", "message", "list", "request"}, Notify(kind, s)
    PROVE  RequestsInv'
<1>1. /\ mode' = mode /\ post' = post /\ inflight' = inflight /\ asked' = asked
      /\ deleting' = deleting /\ held' = held /\ filters' = filters /\ route' = route
      /\ pending' = pending
    BY DEF Notify
<1>2. scene'.who = scene.who
    BY DEF Notify, AppendEvent, Throws, Scene, EventsTyped
<1>3. CASE frames' = frames
  <2>1. deleting' \subseteq Sessions
      BY <1>1 DEF RequestsInv, RequestsTyped
  <2> QED BY <1>1, <1>2, <1>3, <2>1, RequestsKept DEF tables
<1>4. CASE frames' = [k \in Keys |-> frames[k] \cup IF k \in Carriers(kind, s) THEN {s} ELSE {}]
  <2>1. \A k \in Carriers(kind, s) : k \in held /\ s \in {NoSession, k[1]}
      BY DEF Carriers, Belongs
  <2>2. Busy' = Busy /\ RequestsTyped /\ TablesHold /\ Counts
      BY <1>1 DEF Busy, RequestsInv
  <2>3. \A k : Open(k) <=> Open(k)'
      BY <1>1, <2>2, BusyKept
  <2>4. RequestsTyped' /\ Counts'
      BY <1>1, <1>4, <2>2 DEF RequestsTyped, Counts
  <2>5. TablesHold'
    <3>1. \A k \in Keys : (frames'[k] # {} => Open(k)') /\ frames'[k] \subseteq {NoSession, k[1]}
      <4>1. ASSUME NEW k \in Keys
            PROVE  (frames'[k] # {} => Open(k)') /\ frames'[k] \subseteq {NoSession, k[1]}
        <5>1. CASE k \in Carriers(kind, s)
          <6>1. frames'[k] = frames[k] \cup {s}
              BY <1>4, <5>1
          <6> QED BY <2>1, <2>2, <2>3, <5>1, <6>1 DEF TablesHold
        <5>2. CASE k \notin Carriers(kind, s)
          <6>1. frames'[k] = frames[k]
              BY <1>4, <5>2
          <6> QED BY <2>2, <2>3, <6>1 DEF TablesHold
        <5> QED BY <5>1, <5>2
      <4> QED BY <4>1
    <3>2. \A k \in held' \cup filters' : Open(k)'
        BY <1>1, <2>2, <2>3 DEF TablesHold
    <3>3. \A t \in Tokens : route'[t] # NoKey => Open(route[t])'
      <4>1. ASSUME NEW t \in Tokens, NEW k, k = route[t], k # NoKey PROVE Open(k)'
          BY <2>2, <2>3, <4>1 DEF TablesHold
      <4> QED BY <1>1, <4>1 DEF Open
    <3> QED BY <3>1, <3>2, <3>3 DEF TablesHold
  <2>6. \A q \in Posts : Fits(q, scene.who)'
      BY <1>1, <1>2 DEF RequestsInv, Fits, Key
  <2>7. \A k \in Keys : Promised(k)'
      BY <1>1, <2>2 DEF RequestsInv, Promised, Key
  <2> QED BY <2>2, <2>4, <2>5, <2>6, <2>7 DEF RequestsInv
<1> QED BY <1>3, <1>4 DEF Notify

(* DELETE settles the requests of its session and empties the tables of them. *)
LEMMA DeletePendingRequests ==
    ASSUME RequestsInv, NEW s \in Sessions, DeletePending(s)
    PROVE  RequestsInv'
<1> DEFINE own == {k \in Keys : k[1] = s}
<1>1. /\ mode' = mode /\ scene' = scene /\ inflight' = inflight /\ asked' = asked
      /\ deleting' = deleting \ {s}
      /\ post' = [p \in Posts |-> IF \E k \in own : pending[k] = p
                                  THEN [post[p] EXCEPT !.answer = Closed] ELSE post[p]]
      /\ pending' = [k \in Keys |-> IF k \in own THEN Nobody ELSE pending[k]]
      /\ held' = held \ own /\ filters' = filters \ own
      /\ frames' = [k \in Keys |-> IF k \in own THEN {} ELSE frames[k]]
      /\ route' = [t \in Tokens |-> IF route[t] \in own THEN NoKey ELSE route[t]]
    BY DEF DeletePending
<1>2. /\ post \in [Posts -> Records] /\ pending \in [Keys -> Posts \cup {Nobody}]
      /\ deleting \subseteq Sessions
      /\ route \in [Tokens -> Keys \cup {NoKey}] /\ frames \in [Keys -> SUBSET Owners]
    BY DEF RequestsInv, RequestsTyped
<1> HIDE DEF own
<1>3. /\ pending' \in [Keys -> Posts \cup {Nobody}]
      /\ \A k \in Keys : pending'[k] \in {pending[k], Nobody}
      /\ route' \in [Tokens -> Keys \cup {NoKey}] /\ frames' \in [Keys -> SUBSET Owners]
      /\ \A t \in Tokens : route'[t] \in {route[t], NoKey}
      /\ \A k \in Keys : frames'[k] \in {frames[k], {}}
    BY <1>1, <1>2
<1>4. ASSUME NEW q \in Posts
      PROVE  /\ post'[q] \in Records
             /\ post'[q].at = post[q].at /\ post'[q].key = post[q].key /\ post'[q].kind = post[q].kind
             /\ \/ post'[q].answer = post[q].answer
                \/ /\ q \in Busy /\ post'[q].answer[1] \in {NoSession, Key(q)[1]}
                   /\ \A k \in Keys : pending'[k] # q
  <2>1. CASE \E k \in own : pending[k] = q
    <3>1. PICK m \in own : pending[m] = q
        BY <2>1
    <3>2. q \in Busy /\ Key(q) = m
        BY <3>1, HttpStreamsAssumption DEF RequestsInv, Promised, own
    <3>3. \A k \in Keys : pending'[k] # q
        BY <1>1, <3>1, <3>2, HttpStreamsAssumption DEF RequestsInv, Promised, own
    <3>4. post'[q] = [post[q] EXCEPT !.answer = Closed] /\ post[q] \in Records
        BY <1>1, <1>2, <2>1
    <3>5. /\ post'[q] \in Records /\ post'[q].at = post[q].at /\ post'[q].key = post[q].key
          /\ post'[q].kind = post[q].kind /\ post'[q].answer = Closed
        BY <3>4 DEF Records
    <3> QED BY <3>2, <3>3, <3>5 DEF Closed
  <2>2. CASE ~\E k \in own : pending[k] = q
      BY <1>1, <1>2, <2>2
  <2> QED BY <2>1, <2>2
<1>5. post' \in [Posts -> Records]
    BY <1>1, <1>4
<1> QED BY <1>1, <1>2, <1>3, <1>4, <1>5, AnsweredRequests

--------------------------------------------------------------------------------
(* Sessions *)

SessionsTyped ==
    /\ sessions \in [Sessions -> {"none", "live", "idle"}]
    /\ stored \in [Sessions -> {"none", "live", "idle"}] /\ used \subseteq Sessions

(* Whatever becomes of a session, the tables of sessions keep to their types. *)
LEMMA ResolveSessions ==
    ASSUME SessionsTyped, NEW s \in Owners,
           Resolve(s) \/ ResolveFails \/ (s \in Sessions /\ Create(s))
    PROVE  SessionsTyped'
<1>1. CASE Resolve(s)
    BY <1>1 DEF SessionsTyped, Resolve, Touch
<1>2. ASSUME NEW t \in Sessions, Create(t) PROVE SessionsTyped'
  <2>1. sessions' \in [Sessions -> {"none", "live", "idle"}]
      BY <1>2 DEF SessionsTyped, Create, Swept
  <2>2. stored' \in [Sessions -> {"none", "live", "idle"}]
      BY <1>2 DEF SessionsTyped, Create, Swept
  <2>3. used' \subseteq Sessions
      BY <1>2 DEF SessionsTyped, Create
  <2> QED BY <2>1, <2>2, <2>3 DEF SessionsTyped
<1>3. CASE ResolveFails
    BY <1>3 DEF SessionsTyped, ResolveFails, TouchFails, CreateFails, Swept
<1> QED BY <1>1, <1>2, <1>3

--------------------------------------------------------------------------------
(* The invariant *)

Inv == EventsInv /\ RequestsInv /\ SessionsTyped

LEMMA InitInv ==
    ASSUME Init
    PROVE  Inv
<1>1. EventsInv
  <2>1. /\ Shut \in [at : {"none", "opening", "open"}, session : Owners, deaf : BOOLEAN,
                     from : Nat, fits : Nat, got : SUBSET Nat, gap : SUBSET Nat]
        /\ Shut.at = "none"
      BY HttpStreamsAssumption DEF Shut
  <2>2. scene \in Scene
      BY HttpStreamsAssumption DEF Init, Scene, Streams
  <2>3. events \in Stores /\ \A o \in Owners : events.log[o] = <<>>
      BY DEF Init, EmptyStore, Stores
  <2>4. EventsTyped
      BY <2>1, <2>2, <2>3 DEF Init, EventsTyped
  <2>5. Numbered(events, failed)
      BY <2>3 DEF Numbered, Ascends, Below
  <2>6. \A x \in Streams : Informed(x)
      BY <2>1 DEF Init, Informed, Replaying
  <2> QED BY <2>4, <2>5, <2>6 DEF EventsInv
<1>2. RequestsInv
  <2>1. Away \in Records /\ Away.at = "away" /\ Away.answer = NoKey /\ Away.key = NoKey
      BY DEF Away, Records, Stations, Kinds
  <2>2. RequestsTyped
      BY <2>1 DEF Init, RequestsTyped
  <2>3. Busy = {}
      BY <2>1 DEF Init, Busy, Between
  <2>4. TablesHold
      BY DEF Init, TablesHold
  <2>5. Counts
      BY <2>3, FS_EmptySet DEF Init, Counts
  <2>6. \A p \in Posts : Fits(p, scene.who)
      BY <2>1 DEF Init, Fits, NoKey
  <2>7. \A k \in Keys : Promised(k)
      BY DEF Init, Promised
  <2> QED BY <2>2, <2>4, <2>5, <2>6, <2>7 DEF RequestsInv
<1>3. SessionsTyped
    BY DEF Init, SessionsTyped
<1> QED BY <1>1, <1>2, <1>3 DEF Inv

(* A step of the session handler, of DELETE, or of the clock. *)
LEMMA SessionStep ==
    ASSUME Inv, NEW s \in Sessions, GoesIdle(s) \/ Delete(s) \/ DeletePending(s)
    PROVE  Inv'
<1>1. /\ EventsInv /\ RequestsInv /\ SessionsTyped /\ scene \in Scene /\ s \in Owners
      /\ deleting \subseteq Sessions
    BY HttpStreamsAssumption DEF Inv, EventsInv, EventsTyped, RequestsInv, RequestsTyped
<1>2. CASE GoesIdle(s)
  <2>1. /\ mode' = mode /\ scene' = scene /\ used' = used /\ post' = post /\ tables' = tables
        /\ inflight' = inflight /\ asked' = asked /\ store' = store /\ stream' = stream
        /\ deleting' = deleting
      BY <1>2 DEF GoesIdle
  <2>2. EventsInv'
      BY <1>1, <2>1, EventsKept
  <2>3. RequestsInv'
      BY <1>1, <2>1, RequestsKept
  <2>4. SessionsTyped'
      BY <1>1, <1>2 DEF GoesIdle, SessionsTyped
  <2> QED BY <2>2, <2>3, <2>4 DEF Inv
<1>3. CASE Delete(s)
  <2>1. /\ mode' = mode /\ post' = post /\ tables' = tables /\ inflight' = inflight /\ asked' = asked
        /\ used' = used /\ deleting' \subseteq Sessions
        /\ sessions' = [sessions EXCEPT ![s] = "none"] /\ stored' = [stored EXCEPT ![s] = "none"]
      BY <1>1, <1>3 DEF Delete
  <2>2. scene'.who = scene.who
      BY <1>1, <1>3 DEF Delete, Throws, Scene
  <2>3. EventsInv'
      BY <1>1, <1>3, DeleteEvents
  <2>4. RequestsInv'
      BY <1>1, <2>1, <2>2, RequestsKept
  <2>5. SessionsTyped'
      BY <1>1, <2>1 DEF SessionsTyped
  <2> QED BY <2>3, <2>4, <2>5 DEF Inv
<1>4. CASE DeletePending(s)
  <2>1. /\ mode' = mode /\ scene' = scene /\ known' = known /\ store' = store /\ stream' = stream
      BY <1>4 DEF DeletePending
  <2>2. EventsInv'
      BY <1>1, <2>1, EventsKept
  <2>3. RequestsInv'
      BY <1>1, <1>4, DeletePendingRequests
  <2>4. SessionsTyped'
      BY <1>1, <2>1 DEF known, SessionsTyped
  <2> QED BY <2>2, <2>3, <2>4 DEF Inv
<1> QED BY <1>2, <1>3, <1>4

(* A POST arrives, or does not get its session. *)
LEMMA ArriveStep ==
    ASSUME Inv, NEW p \in Posts,
           \/ ArriveFails(p)
           \/ \E s \in Owners, i \in Ids, kind \in Kinds : Arrive(p, s, i, kind)
    PROVE  Inv'
<1>1. /\ EventsInv /\ RequestsInv /\ SessionsTyped /\ scene \in Scene /\ deleting \subseteq Sessions
    BY DEF Inv, EventsInv, EventsTyped, RequestsInv, RequestsTyped
<1>2. ASSUME Comes(p) PROVE scene' \in Scene /\ scene'.who \subseteq scene.who
    BY <1>1, <1>2 DEF Comes, Scene
<1>3. CASE ArriveFails(p)
  <2>1. /\ mode' = mode /\ post' = post /\ tables' = tables /\ inflight' = inflight /\ asked' = asked
        /\ store' = store /\ stream' = stream /\ deleting' = deleting /\ Comes(p) /\ ResolveFails
      BY <1>3 DEF ArriveFails
  <2>2. EventsInv'
      BY <1>1, <1>2, <2>1, EventsKept
  <2>3. RequestsInv'
      BY <1>1, <1>2, <2>1, RequestsKept
  <2>4. SessionsTyped'
      BY <1>1, <2>1, ResolveSessions, HttpStreamsAssumption
  <2> QED BY <2>2, <2>3, <2>4 DEF Inv
<1>4. ASSUME NEW s \in Owners, NEW i \in Ids, NEW kind \in Kinds, Arrive(p, s, i, kind)
      PROVE  Inv'
  <2>1. /\ mode' = mode /\ store' = store /\ stream' = stream /\ Comes(p)
        /\ Resolve(s) \/ (s \in Sessions /\ Create(s))
      BY <1>4 DEF Arrive, Enters
  <2>2. EventsInv'
      BY <1>1, <1>2, <2>1, EventsKept
  <2>3. RequestsInv'
      BY <1>1, <1>4, ArriveRequests
  <2>4. SessionsTyped'
      BY <1>1, <2>1, ResolveSessions
  <2> QED BY <2>2, <2>3, <2>4 DEF Inv
<1> QED BY <1>3, <1>4

(* A step of HandlePost. *)
LEMMA PostStepInv ==
    ASSUME Inv, NEW p \in Posts, PostStep(p)
    PROVE  Inv'
<1>1. /\ EventsInv /\ RequestsInv /\ SessionsTyped /\ scene \in Scene
    BY DEF Inv, EventsInv, EventsTyped
<1>2. known' = known /\ mode' = mode /\ scene' = scene
    BY DEF PostStep, Refuse, Admit, Register, Forward, SendFails, GiveUp, TakeAnswer, Expire, Expired
<1>3. SessionsTyped'
    BY <1>1, <1>2 DEF known, SessionsTyped
<1>4. CASE TakeAnswer(p)
  <2>1. Key(p)[1] \in Owners
    <3>1. post[p].key \in Keys \cup {NoKey}
        BY <1>1, PostParts DEF RequestsInv
    <3>2. NoKey[1] \in Owners
        BY HttpStreamsAssumption DEF NoKey
    <3> QED BY <3>1, <3>2, KeyParts DEF Key
  <2>2. EventsInv'
      BY <1>1, <1>4, <2>1, TakeAnswerEvents
  <2>3. RequestsInv'
      BY <1>1, <1>4, TakeAnswerRequests
  <2> QED BY <1>3, <2>2, <2>3 DEF Inv
<1>5. CASE Refuse(p) \/ Admit(p) \/ Register(p) \/ Forward(p) \/ SendFails(p) \/ Expire(p) \/ Expired(p)
  <2>1. store' = store /\ stream' = stream
      BY <1>5 DEF Refuse, Admit, Register, Forward, SendFails, GiveUp, Expire, Expired
  <2>2. EventsInv'
      BY <1>1, <1>2, <2>1, EventsKept
  <2>3. RequestsInv'
      BY <1>1, <1>5, MoveRequests, RegisterRequests, GiveUpRequests
  <2> QED BY <1>3, <2>2, <2>3 DEF Inv
<1> QED BY <1>4, <1>5 DEF PostStep

(* A message of the session handler. *)
LEMMA MessageStep ==
    ASSUME Inv,
           \/ \E p \in Posts, k \in Keys : Respond(p, k)
           \/ \E s \in Owners, k \in {"progress", "message", "list", "request"} : Notify(k, s)
           \/ \E c \in casting : Broadcast(c)
    PROVE  Inv'
<1>1. /\ EventsInv /\ RequestsInv /\ SessionsTyped /\ scene \in Scene /\ EventsTyped
      /\ scene.notes \in Nat /\ deleting \subseteq Sessions
    BY EventParts DEF Inv, EventsInv, EventsTyped, RequestsInv, RequestsTyped
<1>2. ASSUME NEW p \in Posts, NEW k \in Keys, Respond(p, k) PROVE Inv'
  <2>1. mode' = mode /\ known' = known
      BY <1>2 DEF Respond
  <2>2. SessionsTyped'
      BY <1>1, <2>1 DEF known, SessionsTyped
  <2>3. RequestsInv'
      BY <1>1, <1>2, RespondRequests
  <2>4. EventsInv'
    <3>1. CASE UNCHANGED <<store, stream, scene>>
        BY <1>1, <2>1, <3>1, EventsKept
    <3>2. CASE AppendEvent(k[1], FALSE, scene.notes)
        BY <1>1, <2>1, <3>2, AppendEventEvents, KeyParts
    <3> QED BY <1>2, <3>1, <3>2 DEF Respond
  <2> QED BY <2>2, <2>3, <2>4 DEF Inv
<1>3. ASSUME NEW s \in Owners, NEW k \in {"progress", "message", "list", "request"}, Notify(k, s)
      PROVE  Inv'
  <2>1. mode' = mode /\ known' = known /\ scene.notes > 0
      BY <1>3 DEF Notify
  <2>2. SessionsTyped'
      BY <1>1, <2>1 DEF known, SessionsTyped
  <2>3. RequestsInv'
      BY <1>1, <1>3, NotifyRequests
  <2>4. EventsInv'
    <3>1. CASE scene' = [scene EXCEPT !.notes = @ - 1] /\ UNCHANGED <<store, stream>>
      <4>1. scene' \in Scene
          BY <1>1, <2>1, <3>1 DEF Scene
      <4> QED BY <1>1, <2>1, <3>1, <4>1, EventsKept
    <3>2. CASE AppendEvent(s, k = "list", scene.notes - 1)
      <4>1. scene.notes - 1 \in Nat /\ (k = "list") \in BOOLEAN
          BY <1>1, <2>1
      <4> QED BY <1>1, <2>1, <3>2, <4>1, AppendEventEvents
    <3> QED BY <1>3, <3>1, <3>2 DEF Notify
  <2> QED BY <2>2, <2>3, <2>4 DEF Inv
<1>4. ASSUME NEW c \in casting, Broadcast(c) PROVE Inv'
  <2>1. /\ mode' = mode /\ scene' = scene /\ known' = known /\ post' = post /\ tables' = tables
        /\ inflight' = inflight /\ asked' = asked /\ deleting' = deleting
      BY <1>4 DEF Broadcast
  <2>2. SessionsTyped'
      BY <1>1, <2>1 DEF known, SessionsTyped
  <2>3. RequestsInv'
      BY <1>1, <2>1, RequestsKept
  <2>4. EventsInv'
      BY <1>1, <1>4, BroadcastEvents
  <2> QED BY <2>2, <2>3, <2>4 DEF Inv
<1> QED BY <1>2, <1>3, <1>4

(* A step of an event stream. *)
LEMMA StreamStep ==
    ASSUME Inv,
           \/ \E g \in Gets, s \in Owners, from \in 0..MaxEvents, fits \in 0..Window : HandleGet(g, s, from, fits)
           \/ \E x \in Streams : Opened(x) \/ Dropped(x)
    PROVE  Inv'
<1>1. /\ EventsInv /\ RequestsInv /\ SessionsTyped /\ deleting \subseteq Sessions
    BY DEF Inv, RequestsInv, RequestsTyped
<1>2. /\ mode' = mode /\ scene' = scene /\ post' = post /\ tables' = tables
      /\ inflight' = inflight /\ asked' = asked /\ deleting' = deleting
    BY DEF HandleGet, Opened, Dropped
<1>3. RequestsInv'
    BY <1>1, <1>2, RequestsKept
<1>4. ASSUME NEW g \in Gets, NEW s \in Owners, NEW from \in 0..MaxEvents, NEW fits \in 0..Window,
             HandleGet(g, s, from, fits)
      PROVE  Inv'
  <2>1. EventsInv'
      BY <1>1, <1>4, HandleGetEvents
  <2>2. Resolve(s)
      BY <1>4 DEF HandleGet
  <2>3. SessionsTyped'
      BY <1>1, <2>2, ResolveSessions
  <2> QED BY <1>3, <2>1, <2>3 DEF Inv
<1>5. ASSUME NEW x \in Streams, Opened(x) \/ Dropped(x) PROVE Inv'
  <2>1. EventsInv'
      BY <1>1, <1>5, StreamEvents
  <2>2. SessionsTyped'
      BY <1>1, <1>5 DEF Opened, Dropped, known, SessionsTyped
  <2> QED BY <1>3, <2>1, <2>2 DEF Inv
<1> QED BY <1>4, <1>5

LEMMA NextInv ==
    ASSUME Inv, [Next]_vars
    PROVE  Inv'
<1>1. CASE UNCHANGED vars
  <2>1. /\ mode' = mode /\ scene' = scene /\ known' = known /\ post' = post /\ tables' = tables
        /\ inflight' = inflight /\ asked' = asked /\ store' = store /\ stream' = stream
        /\ deleting' = deleting
      BY <1>1 DEF vars
  <2>2. EventsInv'
      BY <2>1, EventsKept DEF Inv, EventsInv, EventsTyped
  <2>3. RequestsInv'
      BY <2>1, RequestsKept DEF Inv, RequestsInv, RequestsTyped
  <2>4. SessionsTyped'
      BY <2>1 DEF Inv, known, SessionsTyped
  <2> QED BY <2>2, <2>3, <2>4 DEF Inv
<1>2. CASE \E s \in Sessions : GoesIdle(s) \/ Delete(s) \/ DeletePending(s)
    BY <1>2, SessionStep
<1>3. CASE \E p \in Posts : PostStep(p)
    BY <1>3, PostStepInv
<1>4. CASE \E p \in Posts : \/ ArriveFails(p)
                            \/ \E s \in Owners, i \in Ids, kind \in Kinds : Arrive(p, s, i, kind)
    BY <1>4, ArriveStep
<1>5. CASE \/ \E p \in Posts, k \in Keys : Respond(p, k)
           \/ \E s \in Owners, k \in {"progress", "message", "list", "request"} : Notify(k, s)
           \/ \E c \in casting : Broadcast(c)
    BY <1>5, MessageStep
<1>6. CASE \/ \E g \in Gets, s \in Owners, from \in 0..MaxEvents, fits \in 0..Window : HandleGet(g, s, from, fits)
           \/ \E x \in Streams : Opened(x) \/ Dropped(x)
    BY <1>6, StreamStep
<1> QED BY <1>1, <1>2, <1>3, <1>4, <1>5, <1>6 DEF Next

LEMMA Always == Spec => []Inv
<1> QED BY InitInv, NextInv, PTL DEF Spec

--------------------------------------------------------------------------------
(* What a POST of one session holds is seen by no other, and goes when the POST ends: *)
(* EraseRequestStreamStateLocked, match_pending and DELETE leave nothing behind,      *)
(* whatever times out, answers late, or is registered twice under one key.            *)
THEOREM SessionsKeepApartCorrect == Spec => []SessionsKeepApart
<1>1. ASSUME Inv PROVE SessionsKeepApart
  <2>1. TypeOK
      BY <1>1 DEF Inv, EventsInv, EventsTyped, RequestsInv, RequestsTyped, SessionsTyped, TypeOK,
                  Records, Stations
  <2>2. SessionsDoNotMix
      BY <1>1 DEF Inv, RequestsInv, Fits, TablesHold, SessionsDoNotMix
  <2>3. StateIsReleased
    <3>1. \A k \in Keys : pending[k] # Nobody =>
              post[pending[k]].at \in Between /\ Key(pending[k]) = k
        BY <1>1 DEF Inv, RequestsInv, Promised, Busy
    <3>2. \A k : Open(k) => k \in {Key(p) : p \in Busy}
        BY DEF Open
    <3>3. TablesHold /\ Counts
        BY <1>1 DEF Inv, RequestsInv
    <3>4. /\ held \subseteq {Key(p) : p \in Busy} /\ filters \subseteq {Key(p) : p \in Busy}
          /\ \A k \in Keys : frames[k] # {} => k \in {Key(p) : p \in Busy}
          /\ \A t \in Tokens : route[t] \in {Key(p) : p \in Busy} \cup {NoKey}
        BY <3>2, <3>3 DEF TablesHold
    <3> QED BY <3>1, <3>3, <3>4 DEF StateIsReleased, Busy, Counts
  <2> QED BY <2>1, <2>2, <2>3 DEF SessionsKeepApart
<1> QED BY <1>1, Always, PTL

(* What HandleGet's replay owes to a stream that comes with Last-Event-ID, as many of the newest *)
(* retained events behind it as fit, has been replayed or is sent by a broadcast.  It does not   *)
(* say so of the gap, which holds the events that were on their way when the replay was read or  *)
(* were appended before the stream was registered, nor once a write of the store has thrown.     *)
THEOREM StreamMissesNothingCorrect == Spec => []StreamMissesNothing
<1>1. ASSUME Inv PROVE StreamMissesNothing
  <2>1. \A s, from, fits :
            Numbers(s, Newest(fits, GetEventsSince(events, s, from))) = Due(events, s, from, fits)
      BY DEF Numbers, Due
  <2>2. \A g \in Gets : Informed(g) /\ stream[g].fits \in Nat
      BY <1>1, EventParts DEF Inv, EventsInv, Streams
  <2>3. \A s : Coming(s) \subseteq {c.id : c \in casting}
      BY DEF Coming
  <2>4. ASSUME NEW g \in Gets, Resumed(stream[g])
        PROVE  Due(events, stream[g].session, stream[g].from, stream[g].fits)
                   \subseteq stream[g].got \cup stream[g].gap \cup {c.id : c \in casting}
    <3>1. CASE stream[g].fits > 0
        BY <2>2, <2>3, <2>4, <3>1 DEF Informed, Replaying, Resumed
    <3>2. CASE stream[g].fits = 0
        BY <1>1, <3>2, NothingFits, EventParts DEF Inv, EventsInv, EventsTyped, Streams
    <3> QED BY <2>2, <3>1, <3>2
  <2> QED BY <2>1, <2>4 DEF StreamMissesNothing, Owed
<1> QED BY <1>1, Always, PTL

(* EventStore and FileEventStore number the events they retain from the oldest to the newest; *)
(* one number may be there twice after a write that threw.                                    *)
THEOREM EventNumbersGoUpCorrect == Spec => []EventNumbersGoUp
<1>1. ASSUME Inv PROVE EventNumbersGoUp
    BY <1>1 DEF Inv, EventsInv, Numbered, Ascends, EventNumbersGoUp
<1> QED BY <1>1, Always, PTL

--------------------------------------------------------------------------------
(* The channel: types *)

(* Every caller of the channel is a thread. *)
LEMMA ThreadSets ==
    /\ Senders \subseteq Threads /\ Receivers \subseteq Threads /\ Closers \subseteq Threads
BY DEF Threads

(* The steps that only move threads between places, by the kind of thread. *)
LEMMA PcType ==
    ASSUME pc \in [Threads -> Places], [ChannelNext]_channelVars
    PROVE  pc' \in [Threads -> Places]
<1> USE ThreadSets
<1>1. ASSUME NEW s \in Senders, CallSend(s) \/ Send(s) \/ TrySend(s)
      PROVE  pc' \in [Threads -> Places]
    BY <1>1 DEF CallSend, Send, TrySend, Places
<1>2. ASSUME NEW t \in Threads, NEW S, S \subseteq Threads, NotifyOne(t, S)
      PROVE  pc' \in [Threads -> Places]
    BY <1>2 DEF NotifyOne, At, Places
<1>3. ASSUME NEW t \in Threads, NEW S, NEW place \in Places, NotifyAll(t, S, place)
      PROVE  pc' \in [Threads -> Places]
    BY <1>3 DEF NotifyAll, Places
<1>4. ASSUME NEW r \in Receivers, CallReceive(r) \/ AsyncReceive(r)
      PROVE  pc' \in [Threads -> Places]
    BY <1>4 DEF CallReceive, AsyncReceive, Places
<1>5. ASSUME NEW c \in Closers, Close(c)
      PROVE  pc' \in [Threads -> Places]
    BY <1>5 DEF Close, Places
<1>6. ASSUME NEW t \in Senders \cup Receivers, SpuriousWakeup(t)
      PROVE  pc' \in [Threads -> Places]
    BY <1>6 DEF SpuriousWakeup, Places
<1>7. CASE UNCHANGED channelVars
    BY <1>7 DEF channelVars
<1>8. ASSUME NEW s \in Senders, SenderNotifies(s)
      PROVE  pc' \in [Threads -> Places]
    BY <1>8, <1>2 DEF SenderNotifies
<1>9. ASSUME NEW r \in Receivers, ReceiverNotifies(r)
      PROVE  pc' \in [Threads -> Places]
    BY <1>9, <1>2 DEF ReceiverNotifies
<1>10. ASSUME NEW c \in Closers, CloseWakesReceivers(c) \/ CloseWakesSenders(c)
       PROVE  pc' \in [Threads -> Places]
    BY <1>10, <1>3 DEF CloseWakesReceivers, CloseWakesSenders, Places
<1> QED BY <1>1, <1>4, <1>5, <1>6, <1>7, <1>8, <1>9, <1>10 DEF ChannelNext

(* What a step does to the queue and its history: push at the end, pop at the front, or *)
(* nothing.                                                                              *)
Pushes == \E m \in Messages : /\ HasRoom /\ Push(m) /\ UNCHANGED taken

Pops == /\ queue # <<>> /\ taken' = Append(taken, Head(queue)) /\ queue' = Tail(queue)
        /\ UNCHANGED accepted

(* Send and TrySend push, AsyncReceive pops, every other step leaves the queue alone. *)
LEMMA QueueSteps ==
    ASSUME tried \in [Senders -> Nat], [ChannelNext]_channelVars
    PROVE  Pushes \/ Pops \/ UNCHANGED <<queue, accepted, taken>>
<1>1. ASSUME NEW s \in Senders, Send(s) \/ TrySend(s)
      PROVE  Pushes \/ UNCHANGED <<queue, accepted, taken>>
  <2>1. <<s, tried[s]>> \in Messages /\ <<s, tried[s] + 1>> \in Messages
      BY DEF Messages
  <2> QED BY <1>1, <2>1 DEF Send, TrySend, Pushes
<1>2. ASSUME NEW r \in Receivers, AsyncReceive(r)
      PROVE  Pops \/ UNCHANGED <<queue, accepted, taken>>
    BY <1>2 DEF AsyncReceive, Pops
<1> QED
    BY <1>1, <1>2 DEF ChannelNext, channelVars, CallSend, SenderNotifies, CallReceive, ReceiverNotifies, Close,
       CloseWakesReceivers, CloseWakesSenders, SpuriousWakeup

(* The queue stays within its capacity and every variable within its type. *)
THEOREM ChannelTypeCorrect == ChannelSpec => []ChannelTypeOK
<1>1. ChannelInit => ChannelTypeOK
  <2> SUFFICES ASSUME ChannelInit PROVE ChannelTypeOK
      OBVIOUS
  <2>1. queue \in Seq(Messages) /\ accepted \in Seq(Messages) /\ taken \in Seq(Messages)
      BY EmptySeq DEF ChannelInit
  <2>2. Len(queue) <= MaxBuffer
      BY EmptySeq, BufferAssumption DEF ChannelInit
  <2>3. pc \in [Threads -> Places] /\ tried \in [Senders -> Nat]
      BY DEF ChannelInit, Places
  <2>4. closed \in BOOLEAN
      BY DEF ChannelInit
  <2> QED BY <2>1, <2>2, <2>3, <2>4 DEF ChannelTypeOK
<1>2. ChannelTypeOK /\ [ChannelNext]_channelVars => ChannelTypeOK'
  <2> SUFFICES ASSUME ChannelTypeOK, [ChannelNext]_channelVars PROVE ChannelTypeOK'
      OBVIOUS
  <2>1. pc' \in [Threads -> Places]
      BY PcType DEF ChannelTypeOK
  <2>2. closed' \in BOOLEAN
      BY Zenon DEF ChannelTypeOK, ChannelNext, channelVars, CallSend, Send, TrySend, SenderNotifies, CallReceive,
         AsyncReceive, ReceiverNotifies, Close, CloseWakesReceivers, CloseWakesSenders,
         SpuriousWakeup
  <2>3. tried' \in [Senders -> Nat]
    <3>1. tried' = tried \/ \E s \in Senders : tried' = [tried EXCEPT ![s] = @ + 1]
        BY DEF ChannelNext, channelVars, CallSend, Send, TrySend, SenderNotifies, CallReceive,
           AsyncReceive, ReceiverNotifies, Close, CloseWakesReceivers, CloseWakesSenders,
           SpuriousWakeup
    <3> QED BY <3>1, SMTT(30) DEF ChannelTypeOK
  <2>4. /\ queue' \in Seq(Messages) /\ Len(queue') <= MaxBuffer
        /\ accepted' \in Seq(Messages) /\ taken' \in Seq(Messages)
    <3>1. CASE Pushes
        BY <3>1, BufferAssumption DEF Pushes, Push, HasRoom, ChannelTypeOK
    <3>2. CASE Pops
      <4>1. Head(queue) \in Messages /\ Tail(queue) \in Seq(Messages) /\ Len(Tail(queue)) = Len(queue) - 1
          BY <3>2, HeadTailProperties DEF Pops, ChannelTypeOK
      <4> QED BY <3>2, <4>1, BufferAssumption, LenProperties DEF Pops, ChannelTypeOK
    <3>3. CASE UNCHANGED <<queue, accepted, taken>>
        BY <3>3 DEF ChannelTypeOK
    <3> QED BY <3>1, <3>2, <3>3, QueueSteps DEF ChannelTypeOK
  <2> QED BY <2>1, <2>2, <2>3, <2>4 DEF ChannelTypeOK
<1> QED BY <1>1, <1>2, PTL DEF ChannelSpec

--------------------------------------------------------------------------------
(* The channel: order *)

(* What went in is what came out followed by what is queued: no message is lost,        *)
(* duplicated or overtaken, whatever threads call Send, TrySend and AsyncReceive.       *)
THEOREM FifoCorrect == ChannelSpec => []Fifo
<1>1. ChannelInit => Fifo
    BY ConcatEmptySeq, EmptySeq DEF ChannelInit, Fifo
<1>2. ChannelTypeOK /\ Fifo /\ [ChannelNext]_channelVars => Fifo'
  <2> SUFFICES ASSUME ChannelTypeOK, Fifo, [ChannelNext]_channelVars PROVE Fifo'
      OBVIOUS
  <2> queue \in Seq(Messages) /\ accepted \in Seq(Messages) /\ taken \in Seq(Messages)
      BY DEF ChannelTypeOK
  <2>1. CASE Pushes
    <3>1. PICK m \in Messages : Push(m) /\ UNCHANGED taken
        BY <2>1 DEF Pushes
    <3>2. <<m>> \in Seq(Messages)
        OBVIOUS
    <3>3. (taken \o queue) \o <<m>> = taken \o (queue \o <<m>>)
        BY <3>2, ConcatAssociative
    <3>4. Append(queue, m) = queue \o <<m>> /\ Append(accepted, m) = accepted \o <<m>>
        BY AppendIsConcat
    <3> QED BY <3>1, <3>3, <3>4 DEF Fifo, Push
  <2>2. CASE Pops
    <3>1. /\ Head(queue) \in Messages /\ Tail(queue) \in Seq(Messages)
          /\ Len(queue) \in Nat \ {0} /\ Len(Tail(queue)) = Len(queue) - 1
          /\ \A i \in 1 .. Len(Tail(queue)) : Tail(queue)[i] = queue[i + 1]
        BY <2>2, HeadTailProperties, EmptySeq DEF Pops
    <3>2. <<Head(queue)>> \in Seq(Messages) /\ queue = <<Head(queue)>> \o Tail(queue)
      <4>1. <<Head(queue)>> \in Seq(Messages) /\ Head(queue) = queue[1]
          BY <3>1
      <4>2. /\ <<Head(queue)>> \o Tail(queue) \in Seq(Messages)
            /\ Len(<<Head(queue)>> \o Tail(queue)) = Len(queue)
            /\ \A i \in 1 .. Len(queue) : (<<Head(queue)>> \o Tail(queue))[i] = queue[i]
          BY <3>1, <4>1, ConcatProperties
      <4> QED BY <4>1, <4>2, SeqEqual
    <3>3. (taken \o <<Head(queue)>>) \o Tail(queue) = taken \o (<<Head(queue)>> \o Tail(queue))
        BY <3>1, <3>2, ConcatAssociative, SMTT(30)
    <3>4. Append(taken, Head(queue)) = taken \o <<Head(queue)>>
        BY <3>1, AppendIsConcat
    <3> QED BY <2>2, <3>1, <3>3, <3>4 DEF Fifo, Pops
  <2>3. CASE UNCHANGED <<queue, accepted, taken>>
      BY <2>3 DEF Fifo
  <2> QED BY <2>1, <2>2, <2>3, QueueSteps DEF ChannelTypeOK
<1> QED BY <1>1, <1>2, ChannelTypeCorrect, PTL DEF ChannelSpec

--------------------------------------------------------------------------------
(* The channel: wakeups *)

(* A thread is of one kind, so what one kind does leaves the places of the others. *)
LEMMA Disjoint ==
    /\ \A s \in Senders : s \notin Receivers /\ s \notin Closers
    /\ \A r \in Receivers : r \notin Senders /\ r \notin Closers
BY ThreadsAssumption

(* Close takes closed_ from FALSE to TRUE for good and leaves a closer that will wake    *)
(* everyone; nobody falls asleep afterwards.  Receivers are woken first, so a closer     *)
(* that has senders to wake may have receivers behind it, never the other way round.     *)
THEOREM ClosedWakesEveryoneCorrect == ChannelSpec => []ClosedWakesEveryone
<1>1. ChannelInit => ClosedWakesEveryone
    BY DEF ChannelInit, ClosedWakesEveryone
<1>2. ChannelTypeOK /\ ClosedWakesEveryone /\ [ChannelNext]_channelVars => ClosedWakesEveryone'
  <2> SUFFICES ASSUME ChannelTypeOK, ClosedWakesEveryone, [ChannelNext]_channelVars PROVE ClosedWakesEveryone'
      OBVIOUS
  <2> pc \in [Threads -> Places]
      BY DEF ChannelTypeOK
  <2> USE ThreadSets, Disjoint DEF ClosedWakesEveryone, At
  <2>1. ASSUME NEW s \in Senders, CallSend(s) \/ Send(s) \/ TrySend(s)
        PROVE  ClosedWakesEveryone'
    <3>1. CASE CallSend(s)
        BY <3>1 DEF CallSend
    <3>2. CASE Send(s)
        BY <3>2 DEF Send
    <3>3. CASE TrySend(s)
        BY <3>3 DEF TrySend
    <3> QED BY <2>1, <3>1, <3>2, <3>3
  <2>2. ASSUME NEW s \in Senders, SenderNotifies(s)
        PROVE  ClosedWakesEveryone'
      BY <2>2 DEF SenderNotifies, NotifyOne
  <2>3. ASSUME NEW r \in Receivers, CallReceive(r) \/ AsyncReceive(r)
        PROVE  ClosedWakesEveryone'
      BY <2>3 DEF CallReceive, AsyncReceive
  <2>4. ASSUME NEW r \in Receivers, ReceiverNotifies(r)
        PROVE  ClosedWakesEveryone'
      BY <2>4 DEF ReceiverNotifies, NotifyOne
  <2>5. ASSUME NEW c \in Closers, Close(c)
        PROVE  ClosedWakesEveryone'
      BY <2>5 DEF Close
  <2>6. ASSUME NEW c \in Closers, CloseWakesReceivers(c)
        PROVE  ClosedWakesEveryone'
      BY <2>6 DEF CloseWakesReceivers, NotifyAll
  <2>7. ASSUME NEW c \in Closers, CloseWakesSenders(c)
        PROVE  ClosedWakesEveryone'
      BY <2>7 DEF CloseWakesSenders, NotifyAll
  <2>8. ASSUME NEW t \in Senders \cup Receivers, SpuriousWakeup(t)
        PROVE  ClosedWakesEveryone'
      BY <2>8 DEF SpuriousWakeup
  <2>9. CASE UNCHANGED channelVars
      BY <2>9 DEF channelVars
  <2> QED BY <2>1, <2>2, <2>3, <2>4, <2>5, <2>6, <2>7, <2>8, <2>9 DEF ChannelNext
<1> QED BY <1>1, <1>2, ChannelTypeCorrect, PTL DEF ChannelSpec

(* The threads that see to a queued message, and those that see to a free place. *)
ForMessages == At(Senders, "notify") \cup At(Receivers, "wait")
ForPlaces   == At(Receivers, "notify") \cup At(Senders, "wait")

MessagesCovered == At(Receivers, "asleep") # {} => Len(queue) <= Cardinality(ForMessages)
PlacesCovered   == At(Senders, "asleep") # {} => MaxBuffer - Len(queue) <= Cardinality(ForPlaces)

(* Both covers are finite, so that they can be counted. *)
LEMMA FiniteCovers ==
    /\ IsFiniteSet(ForMessages) /\ Cardinality(ForMessages) \in Nat
    /\ IsFiniteSet(ForPlaces) /\ Cardinality(ForPlaces) \in Nat
<1>1. IsFiniteSet(Senders \cup Receivers)
    BY ThreadsAssumption, FS_Union
<1>2. ForMessages \subseteq Senders \cup Receivers /\ ForPlaces \subseteq Senders \cup Receivers
    BY DEF ForMessages, ForPlaces, At
<1>3. IsFiniteSet(ForMessages) /\ IsFiniteSet(ForPlaces)
    BY <1>1, <1>2, FS_Subset
<1> QED BY <1>3, FS_CardinalityType

(* A thread joins a cover. *)
LEMMA Joins ==
    ASSUME NEW S, IsFiniteSet(S), NEW x, x \notin S
    PROVE  Cardinality(S \cup {x}) = Cardinality(S) + 1
BY FS_AddElement

(* A thread leaves a cover. *)
LEMMA Leaves ==
    ASSUME NEW S, IsFiniteSet(S), NEW x, x \in S
    PROVE  Cardinality(S \ {x}) = Cardinality(S) - 1
BY FS_RemoveElement

(* A thread takes another's place in a cover. *)
LEMMA Replaces ==
    ASSUME NEW S, IsFiniteSet(S), NEW x, x \in S, NEW y, y \notin S
    PROVE  Cardinality((S \ {x}) \cup {y}) = Cardinality(S)
<1>1. IsFiniteSet(S \ {x}) /\ Cardinality(S \ {x}) = Cardinality(S) - 1 /\ y \notin S \ {x}
    BY FS_RemoveElement
<1>2. Cardinality(S) \in Nat
    BY FS_CardinalityType
<1>3. Cardinality((S \ {x}) \cup {y}) = Cardinality(S \ {x}) + 1
    BY <1>1, Joins
<1> QED BY <1>1, <1>2, <1>3

(* Each step changes the two covers and the queue together: a message that goes in or a  *)
(* place that becomes free has a thread that will notify, a notify hands its duty to the *)
(* thread it wakes, and a thread falls asleep only when there is nothing for it.         *)
LEMMA WakeupStep == ChannelTypeOK /\ NoLostWakeup /\ [ChannelNext]_channelVars => NoLostWakeup'
<1> SUFFICES ASSUME ChannelTypeOK, NoLostWakeup, [ChannelNext]_channelVars, ~closed' PROVE MessagesCovered' /\ PlacesCovered'
    BY DEF NoLostWakeup, MessagesCovered, PlacesCovered, ForMessages, ForPlaces
<1>a. pc \in [Threads -> Places] /\ queue \in Seq(Messages) /\ Len(queue) \in Nat /\ Len(queue) <= MaxBuffer
    BY LenProperties DEF ChannelTypeOK
<1>b. ~closed
    BY DEF ChannelNext, channelVars, CallSend, Send, TrySend, SenderNotifies, CallReceive, AsyncReceive,
       ReceiverNotifies, Close, CloseWakesReceivers, CloseWakesSenders, SpuriousWakeup
<1>c. MessagesCovered /\ PlacesCovered
    BY <1>b DEF NoLostWakeup, MessagesCovered, PlacesCovered, ForMessages, ForPlaces
<1> USE <1>a, FiniteCovers, BufferAssumption
<1> DEFINE RAsleep == At(Receivers, "asleep")
           SAsleep == At(Senders, "asleep")
<1>1. ASSUME NEW s \in Senders, CallSend(s)
      PROVE  MessagesCovered' /\ PlacesCovered'
  <2>1. /\ RAsleep' = RAsleep /\ SAsleep' = SAsleep /\ queue' = queue
        /\ ForMessages' = ForMessages /\ ForPlaces' = ForPlaces \cup {s} /\ s \notin ForPlaces
      BY <1>1, ThreadSets, Disjoint DEF CallSend, At, ForMessages, ForPlaces
  <2>2. Cardinality(ForPlaces') = Cardinality(ForPlaces) + 1
      BY <2>1, Joins
  <2> QED BY <1>c, <2>1, <2>2 DEF MessagesCovered, PlacesCovered
<1>2. ASSUME NEW s \in Senders, Send(s)
      PROVE  MessagesCovered' /\ PlacesCovered'
  <2>1. CASE HasRoom
    <3>1. /\ RAsleep' = RAsleep /\ SAsleep' = SAsleep /\ Len(queue') = Len(queue) + 1
          /\ ForMessages' = ForMessages \cup {s} /\ s \notin ForMessages
          /\ ForPlaces' = ForPlaces \ {s} /\ s \in ForPlaces
      <4>1. queue' = Append(queue, <<s, tried[s]>>)
          BY <1>2, <1>b, <2>1 DEF Send, Push
      <4>2. pc' = [pc EXCEPT ![s] = "notify"] /\ pc[s] = "wait"
          BY <1>2, <1>b, <2>1 DEF Send, Push
      <4>3. Len(queue') = Len(queue) + 1
          BY <4>1
      <4> QED BY <4>2, <4>3, ThreadSets, Disjoint DEF At, ForMessages, ForPlaces
    <3>2. /\ Cardinality(ForMessages') = Cardinality(ForMessages) + 1
          /\ Cardinality(ForPlaces') = Cardinality(ForPlaces) - 1
        BY <3>1, Joins, Leaves
    <3> QED BY <1>c, <3>1, <3>2 DEF MessagesCovered, PlacesCovered
  <2>2. CASE ~HasRoom
    <3>1. /\ RAsleep' = RAsleep /\ queue' = queue
          /\ ForMessages' = ForMessages /\ ForPlaces' = ForPlaces \ {s} /\ s \in ForPlaces
        BY <1>2, <1>b, <2>2, ThreadSets, Disjoint DEF Send, At, ForMessages, ForPlaces
    <3>2. Len(queue) = MaxBuffer
        BY <2>2 DEF HasRoom
    <3>3. Cardinality(ForPlaces') \in Nat
        BY <3>1, FS_RemoveElement, FS_CardinalityType
    <3> QED BY <1>c, <3>1, <3>2, <3>3 DEF MessagesCovered, PlacesCovered
  <2> QED BY <2>1, <2>2
<1>3. ASSUME NEW s \in Senders, TrySend(s)
      PROVE  MessagesCovered' /\ PlacesCovered'
  <2>1. CASE HasRoom
    <3>1. queue' = Append(queue, <<s, tried[s] + 1>>) /\ pc' = [pc EXCEPT ![s] = "notify"] /\ pc[s] = "idle"
        BY <1>3, <1>b, <2>1 DEF TrySend, Push
    <3>2. Len(queue') = Len(queue) + 1
        BY <3>1
    <3>3. /\ RAsleep' = RAsleep /\ SAsleep' = SAsleep
          /\ ForMessages' = ForMessages \cup {s} /\ s \notin ForMessages
          /\ ForPlaces' = ForPlaces
        BY <3>1, ThreadSets, Disjoint DEF At, ForMessages, ForPlaces
    <3>4. Cardinality(ForMessages') = Cardinality(ForMessages) + 1
        BY <3>3, Joins
    <3> QED BY <1>c, <3>2, <3>3, <3>4 DEF MessagesCovered, PlacesCovered
  <2>2. CASE ~HasRoom
      BY <1>3, <1>b, <1>c, <2>2 DEF TrySend, MessagesCovered, PlacesCovered, ForMessages, ForPlaces, At
  <2> QED BY <2>1, <2>2
<1>4. ASSUME NEW s \in Senders, SenderNotifies(s)
      PROVE  MessagesCovered' /\ PlacesCovered'
  <2>1. CASE RAsleep = {}
    <3>1. RAsleep' = {} /\ SAsleep' = SAsleep /\ ForPlaces' = ForPlaces /\ queue' = queue
        BY <1>4, <2>1, ThreadSets, Disjoint DEF SenderNotifies, NotifyOne, At, ForPlaces
    <3> QED BY <1>c, <3>1 DEF MessagesCovered, PlacesCovered
  <2>2. CASE RAsleep # {}
    <3>1. PICK u \in RAsleep : pc' = [pc EXCEPT ![s] = "idle", ![u] = "wait"]
        BY <1>4, <2>2 DEF SenderNotifies, NotifyOne
    <3>2. /\ SAsleep' = SAsleep /\ ForPlaces' = ForPlaces /\ queue' = queue
          /\ ForMessages' = (ForMessages \ {s}) \cup {u} /\ s \in ForMessages /\ u \notin ForMessages
        BY <1>4, <3>1, ThreadSets, Disjoint DEF SenderNotifies, At, ForMessages, ForPlaces
    <3>3. Cardinality(ForMessages') = Cardinality(ForMessages)
        BY <3>2, Replaces
    <3> QED BY <1>c, <2>2, <3>2, <3>3 DEF MessagesCovered, PlacesCovered
  <2> QED BY <2>1, <2>2
<1>5. ASSUME NEW r \in Receivers, CallReceive(r)
      PROVE  MessagesCovered' /\ PlacesCovered'
  <2>1. /\ RAsleep' = RAsleep /\ SAsleep' = SAsleep /\ queue' = queue
        /\ ForPlaces' = ForPlaces /\ ForMessages' = ForMessages \cup {r} /\ r \notin ForMessages
      BY <1>5, ThreadSets, Disjoint DEF CallReceive, At, ForMessages, ForPlaces
  <2>2. Cardinality(ForMessages') = Cardinality(ForMessages) + 1
      BY <2>1, Joins
  <2> QED BY <1>c, <2>1, <2>2 DEF MessagesCovered, PlacesCovered
<1>6. ASSUME NEW r \in Receivers, AsyncReceive(r)
      PROVE  MessagesCovered' /\ PlacesCovered'
  <2>1. CASE queue # <<>>
    <3>1. queue' = Tail(queue) /\ pc' = [pc EXCEPT ![r] = "notify"] /\ pc[r] = "wait"
        BY <1>6, <1>b, <2>1 DEF AsyncReceive
    <3>2. Len(queue') = Len(queue) - 1
        BY <3>1, <2>1, HeadTailProperties
    <3>3. /\ RAsleep' = RAsleep /\ SAsleep' = SAsleep
          /\ ForMessages' = ForMessages \ {r} /\ r \in ForMessages
          /\ ForPlaces' = ForPlaces \cup {r} /\ r \notin ForPlaces
        BY <3>1, ThreadSets, Disjoint DEF At, ForMessages, ForPlaces
    <3>4. /\ Cardinality(ForMessages') = Cardinality(ForMessages) - 1
          /\ Cardinality(ForPlaces') = Cardinality(ForPlaces) + 1
        BY <3>3, Joins, Leaves
    <3> QED BY <1>c, <3>2, <3>3, <3>4 DEF MessagesCovered, PlacesCovered
  <2>2. CASE queue = <<>>
    <3>1. /\ SAsleep' = SAsleep /\ queue' = queue /\ Len(queue) = 0
          /\ ForPlaces' = ForPlaces /\ ForMessages' = ForMessages \ {r} /\ r \in ForMessages
        BY <1>6, <1>b, <2>2, ThreadSets, Disjoint DEF AsyncReceive, At, ForMessages, ForPlaces
    <3>2. Cardinality(ForMessages') \in Nat
        BY <3>1, FS_RemoveElement, FS_CardinalityType
    <3> QED BY <1>c, <3>1, <3>2 DEF MessagesCovered, PlacesCovered
  <2> QED BY <2>1, <2>2
<1>7. ASSUME NEW r \in Receivers, ReceiverNotifies(r)
      PROVE  MessagesCovered' /\ PlacesCovered'
  <2>1. CASE SAsleep = {}
    <3>1. SAsleep' = {} /\ RAsleep' = RAsleep /\ ForMessages' = ForMessages /\ queue' = queue
        BY <1>7, <2>1, ThreadSets, Disjoint DEF ReceiverNotifies, NotifyOne, At, ForMessages
    <3> QED BY <1>c, <3>1 DEF MessagesCovered, PlacesCovered
  <2>2. CASE SAsleep # {}
    <3>1. PICK u \in SAsleep : pc' = [pc EXCEPT ![r] = "idle", ![u] = "wait"]
        BY <1>7, <2>2 DEF ReceiverNotifies, NotifyOne
    <3>2. /\ RAsleep' = RAsleep /\ ForMessages' = ForMessages /\ queue' = queue
          /\ ForPlaces' = (ForPlaces \ {r}) \cup {u} /\ r \in ForPlaces /\ u \notin ForPlaces
        BY <1>7, <3>1, ThreadSets, Disjoint DEF ReceiverNotifies, At, ForMessages, ForPlaces
    <3>3. Cardinality(ForPlaces') = Cardinality(ForPlaces)
        BY <3>2, Replaces
    <3> QED BY <1>c, <2>2, <3>2, <3>3 DEF MessagesCovered, PlacesCovered
  <2> QED BY <2>1, <2>2
<1>8. ASSUME NEW c \in Closers, CloseWakesReceivers(c)
      PROVE  MessagesCovered' /\ PlacesCovered'
  <2>1. RAsleep' = {} /\ SAsleep' = SAsleep /\ ForPlaces' = ForPlaces /\ queue' = queue
      BY <1>8, ThreadSets, Disjoint DEF CloseWakesReceivers, NotifyAll, At, ForPlaces
  <2> QED BY <1>c, <2>1 DEF MessagesCovered, PlacesCovered
<1>9. ASSUME NEW c \in Closers, CloseWakesSenders(c)
      PROVE  MessagesCovered' /\ PlacesCovered'
  <2>1. SAsleep' = {} /\ RAsleep' = RAsleep /\ ForMessages' = ForMessages /\ queue' = queue
      BY <1>9, ThreadSets, Disjoint DEF CloseWakesSenders, NotifyAll, At, ForMessages
  <2> QED BY <1>c, <2>1 DEF MessagesCovered, PlacesCovered
<1>10. ASSUME NEW t \in Senders, SpuriousWakeup(t)
       PROVE  MessagesCovered' /\ PlacesCovered'
  <2>1. /\ RAsleep' = RAsleep /\ t \in SAsleep /\ queue' = queue
        /\ ForMessages' = ForMessages /\ ForPlaces' = ForPlaces \cup {t} /\ t \notin ForPlaces
      BY <1>10, ThreadSets, Disjoint DEF SpuriousWakeup, At, ForMessages, ForPlaces
  <2>2. Cardinality(ForPlaces') = Cardinality(ForPlaces) + 1
      BY <2>1, Joins
  <2> QED BY <1>c, <2>1, <2>2 DEF MessagesCovered, PlacesCovered
<1>11. ASSUME NEW t \in Receivers, SpuriousWakeup(t)
       PROVE  MessagesCovered' /\ PlacesCovered'
  <2>1. /\ SAsleep' = SAsleep /\ t \in RAsleep /\ queue' = queue
        /\ ForPlaces' = ForPlaces /\ ForMessages' = ForMessages \cup {t} /\ t \notin ForMessages
      BY <1>11, ThreadSets, Disjoint DEF SpuriousWakeup, At, ForMessages, ForPlaces
  <2>2. Cardinality(ForMessages') = Cardinality(ForMessages) + 1
      BY <2>1, Joins
  <2> QED BY <1>c, <2>1, <2>2 DEF MessagesCovered, PlacesCovered
<1>12. CASE UNCHANGED channelVars
    BY <1>12, <1>c DEF channelVars, MessagesCovered, PlacesCovered, ForMessages, ForPlaces, At
<1>13. ASSUME NEW c \in Closers, Close(c)
       PROVE  FALSE
    BY <1>13 DEF Close
<1> QED
    BY <1>1, <1>2, <1>3, <1>4, <1>5, <1>6, <1>7, <1>8, <1>9, <1>10, <1>11, <1>12, <1>13 DEF ChannelNext

(* No wakeup is lost, for any number of threads: while a receiver sleeps on an open       *)
(* channel, every queued message has a receiver that is awake or a notify under way, and  *)
(* the same for senders and free places.                                                  *)
THEOREM NoLostWakeupCorrect == ChannelSpec => []NoLostWakeup
<1>1. ChannelInit => NoLostWakeup
  <2> SUFFICES ASSUME ChannelInit PROVE At(Receivers, "asleep") = {} /\ At(Senders, "asleep") = {}
      BY DEF NoLostWakeup
  <2> QED BY ThreadSets DEF ChannelInit, At
<1> QED BY <1>1, WakeupStep, ChannelTypeCorrect, PTL DEF ChannelSpec

(* Order is kept and no sleeper forgotten, for any number of threads and any limit. *)
THEOREM NobodyForgottenCorrect == ChannelSpec => []NobodyForgotten
BY ChannelTypeCorrect, FifoCorrect, NoLostWakeupCorrect, ClosedWakesEveryoneCorrect, PTL DEF NobodyForgotten
================================================================================
