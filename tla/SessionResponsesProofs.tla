------------------------- MODULE SessionResponsesProofs ------------------------
(***************************************************************************)
(* Proofs about SessionResponses for any number of requests, sessions, ids *)
(* and capacities.                                                         *)
(***************************************************************************)
EXTENDS SessionResponses, FiniteSetTheorems, SequenceTheorems, TLAPS

--------------------------------------------------------------------------------
(* The inductive invariant *)

\* The stages in which a slot of the queue is taken, and those of an answer that is on its way out.
Counted == {"queue", "waiting", "ready"}
Leaving == {"ready", "freed", "erased", "sending"}
Flagged == {"handling", "made", "queue", "waiting", "ready", "freed"}

\* The requests that take a slot.
Slots == {r \in Requests : stage[r] \in Counted}

(* A request is in the loop's hand exactly from its arrival until it is refused or queued.         *)
InHand ==
  \A r \in Requests :
     /\ stage[r] = "asked" <=> loop = "check" /\ cur = r
     /\ stage[r] = "handling" <=> loop = "handle" /\ cur = r
     /\ stage[r] = "refused" <=> loop = "refuse" /\ cur = r
     /\ stage[r] = "made" <=> loop = "enqueue" /\ cur = r

(* The places of the loop at which it has a request in its hand.                                   *)
Full == {"check", "handle", "refuse", "enqueue"}

HandFull == loop \in Full => cur \in Requests

(* The answer to a request is what makes it done.                                                  *)
DoneIsAnswered == \A r \in Requests : answers[r] = IF stage[r] = "done" THEN 1 ELSE 0

(* A session does not use an id twice at a time.                                                   *)
IdsApart ==
  \A q, r \in Requests :
     q # r /\ SessionRequestKey(q) = SessionRequestKey(r)
       => stage[q] \in {"new", "done", "absent"} \/ stage[r] \in {"new", "done", "absent"}

(* Answers are on their way out only while the worker delivers; the worker is gone, and Close has  *)
(* begun, only once the session is closed; Close has seen the loop and then the worker end, but    *)
(* for the one it runs on.                                                                         *)
Threads ==
  /\ \A i \in Items : stage[i] \in Leaving => worker = "deliver"
  /\ worker = "exited" => closed
  /\ close # "idle" \/ closer # "none" => closed
  /\ close \in {"barrier", "notify", "joinworker", "clear", "done"} => LoopJoined
  /\ close \in {"clear", "done"} => worker = "exited" \/ closer = "worker"
  /\ capacity \in Capacities \cup {DefaultCapacity}

\* The stages of what the worker has in its hand.
Out == {"freed", "erased", "sending"}

(* The worker delivers one item at a time.                                                         *)
OneOut == \A i, j \in Items : stage[i] \in Out /\ stage[j] \in Out => i = j

(* What the thread that runs Close has in its hand is still what it had when it called Close.      *)
Within ==
  /\ closer = "loop" /\ loop \in Full => cur = within
  /\ closer = "worker" => \A i \in Items : stage[i] = "sending" => i = within

IInv == /\ TypeOK /\ InHand /\ HandFull /\ DoneIsAnswered /\ IdsApart /\ Threads /\ OneOut
        /\ Within /\ SlotAccounting /\ FlagIsOwn

--------------------------------------------------------------------------------
(* Keys *)

(* One text behind another. *)
LEMMA Joined ==
  ASSUME NEW a \in Seq(Nat), NEW b \in Seq(Nat)
  PROVE  /\ a \o b \in Seq(Nat) /\ Len(a \o b) = Len(a) + Len(b)
         /\ \A i \in 1..(Len(a) + Len(b)) : (a \o b)[i] = IF i <= Len(a) THEN a[i] ELSE b[i - Len(a)]
BY ConcatProperties, Zenon

(* The length in front of the session id keeps the keys of two sessions apart, whatever their ids  *)
(* are: SessionRequestKey does not confuse the end of one text with the start of the other.        *)
LEMMA KeyTellsApart ==
  ASSUME NEW q \in Requests, NEW r \in Requests, SessionRequestKey(q) = SessionRequestKey(r)
  PROVE  Session[q] = Session[r] /\ Id[q] = Id[r]
<1> DEFINE K(x) == SessionRequestKey(x)
           L(x) == Len(Session[x])
           Holds(x, key) ==
             /\ Session[x] \in Seq(Nat) /\ Id[x] \in Seq(Nat) /\ L(x) \in Nat /\ Len(Id[x]) \in Nat
             /\ Len(key) = 1 + L(x) + Len(Id[x])
             /\ key[1] = L(x)
             /\ \A i \in 1..L(x) : key[1 + i] = Session[x][i]
             /\ \A i \in 1..Len(Id[x]) : key[1 + L(x) + i] = Id[x][i]
<1>1. ASSUME NEW x \in Requests
      PROVE  Holds(x, K(x))
  <2> DEFINE h == <<L(x)>>
             s == Session[x]
             d == Id[x]
  <2>1. s \in Seq(Nat) /\ d \in Seq(Nat) /\ Len(s) \in Nat /\ Len(d) \in Nat
    BY ConstantsAssumption
  <2>2. h \in Seq(Nat) /\ Len(h) = 1 /\ h[1] = Len(s)
    BY <2>1
  <2>3. K(x) = h \o s \o d
    BY DEF SessionRequestKey
  <2> HIDE DEF h, s, d, K
  <2>4. /\ h \o s \in Seq(Nat) /\ Len(h \o s) = 1 + Len(s)
        /\ \A i \in 1..(1 + Len(s)) : (h \o s)[i] = IF i <= 1 THEN h[i] ELSE s[i - 1]
    <3>1. /\ h \o s \in Seq(Nat) /\ Len(h \o s) = Len(h) + Len(s)
          /\ \A i \in 1..(Len(h) + Len(s)) : (h \o s)[i] = IF i <= Len(h) THEN h[i] ELSE s[i - Len(h)]
      BY <2>1, <2>2, Joined
    <3> QED BY <3>1, <2>2
  <2>5. /\ Len(h \o s \o d) = 1 + Len(s) + Len(d)
        /\ \A i \in 1..(1 + Len(s) + Len(d)) :
              (h \o s \o d)[i] = IF i <= 1 + Len(s) THEN (h \o s)[i] ELSE d[i - (1 + Len(s))]
    <3> DEFINE hs == h \o s
    <3>0. hs \in Seq(Nat) /\ Len(hs) = 1 + Len(s)
      BY <2>4
    <3> HIDE DEF hs
    <3>1. /\ Len(hs \o d) = Len(hs) + Len(d)
          /\ \A i \in 1..(Len(hs) + Len(d)) : (hs \o d)[i] = IF i <= Len(hs) THEN hs[i] ELSE d[i - Len(hs)]
      BY <2>1, <3>0, Joined
    <3>2. /\ Len(hs \o d) = 1 + Len(s) + Len(d)
          /\ \A i \in 1..(1 + Len(s) + Len(d)) :
                (hs \o d)[i] = IF i <= 1 + Len(s) THEN hs[i] ELSE d[i - (1 + Len(s))]
      BY <3>0, <3>1
    <3> QED BY <3>2 DEF hs
  <2>6. K(x)[1] = Len(s)
    BY <2>1, <2>2, <2>3, <2>4, <2>5
  <2>7. \A i \in 1..Len(s) : K(x)[1 + i] = s[i]
    BY <2>1, <2>3, <2>4, <2>5, SMTT(30)
  <2>8. \A i \in 1..Len(d) : K(x)[1 + Len(s) + i] = d[i]
    BY <2>1, <2>3, <2>5, SMTT(30)
  <2> QED BY <2>1, <2>3, <2>5, <2>6, <2>7, <2>8 DEF s, d
<1>2. K(q) = K(r)
  OBVIOUS
<1> DEFINE k == K(q)
<1> HIDE DEF k, K, Holds
<1>a. Holds(q, k) /\ Holds(r, k)
  <2>1. Holds(q, K(q)) /\ Holds(r, K(r))
    BY <1>1
  <2> QED BY <2>1, <1>2, Zenon DEF k
<1> USE DEF Holds
<1>3. /\ Session[q] \in Seq(Nat) /\ Id[q] \in Seq(Nat) /\ L(q) \in Nat /\ Len(Id[q]) \in Nat
      /\ Len(k) = 1 + L(q) + Len(Id[q]) /\ k[1] = L(q)
      /\ \A i \in 1..L(q) : k[1 + i] = Session[q][i]
      /\ \A i \in 1..Len(Id[q]) : k[1 + L(q) + i] = Id[q][i]
  BY <1>a, Zenon
<1>4. /\ Session[r] \in Seq(Nat) /\ Id[r] \in Seq(Nat) /\ L(r) \in Nat /\ Len(Id[r]) \in Nat
      /\ Len(k) = 1 + L(r) + Len(Id[r]) /\ k[1] = L(r)
      /\ \A i \in 1..L(r) : k[1 + i] = Session[r][i]
      /\ \A i \in 1..Len(Id[r]) : k[1 + L(r) + i] = Id[r][i]
  BY <1>a, Zenon
<1> HIDE DEF Holds
<1>5. L(q) = L(r) /\ Len(Id[q]) = Len(Id[r])
  <2>1. L(q) = L(r)
    BY <1>3, <1>4, Zenon
  <2>2. 1 + L(q) + Len(Id[q]) = 1 + L(q) + Len(Id[r])
    BY <2>1, <1>3, <1>4, Zenon
  <2>3. L(q) \in Nat /\ Len(Id[q]) \in Nat /\ Len(Id[r]) \in Nat
    BY <1>3, <1>4, Zenon
  <2> HIDE DEF L
  <2> QED BY <2>1, <2>2, <2>3
<1>6. Session[q] = Session[r]
  <2>1. \A i \in 1..L(q) : Session[q][i] = Session[r][i]
    BY <1>3, <1>4, <1>5
  <2> QED BY <2>1, <1>3, <1>4, <1>5, SeqEqual
<1>7. Id[q] = Id[r]
  <2>1. \A i \in 1..Len(Id[q]) : Id[q][i] = Id[r][i]
    BY <1>3, <1>4, <1>5
  <2> QED BY <2>1, <1>3, <1>4, <1>5, SeqEqual
<1> QED BY <1>6, <1>7

(* Every request has its key. *)
LEMMA KeyIn == \A r \in Requests : SessionRequestKey(r) \in Keys
BY DEF Keys

--------------------------------------------------------------------------------
(* Types *)

(* The initial state is well typed. *)
LEMMA InitTypeOK == Init => TypeOK
<1> SUFFICES ASSUME Init PROVE TypeOK
  OBVIOUS
<1>1. closed \in BOOLEAN
  BY Zenon DEF Init
<1>2. capacity \in Nat \ {0} /\ outstanding \in Nat
  BY ConstantsAssumption DEF Init
<1>3. stage \in [Items -> Stages] /\ future \in [Requests -> {"none", "open", "ready"}]
  BY DEF Init, Stages
<1> QED BY <1>1, <1>2, <1>3 DEF Init, TypeOK

(* The stages the actions name are stages. *)
LEMMA StageNames ==
  /\ "new" \in Stages /\ "asked" \in Stages /\ "refused" \in Stages /\ "handling" \in Stages /\ "made" \in Stages /\ "queue" \in Stages
  /\ "waiting" \in Stages /\ "ready" \in Stages /\ "freed" \in Stages /\ "erased" \in Stages
  /\ "sending" \in Stages /\ "done" \in Stages /\ "dropped" \in Stages
BY DEF Stages

(* Every step keeps every variable of the session in its type. *)
LEMMA TypeOKStep == TypeOK /\ HandFull /\ [Next]_vars => TypeOK'
<1> SUFFICES ASSUME TypeOK, HandFull, [Next]_vars PROVE TypeOK'
  OBVIOUS
<1> USE StageNames
<1>0. /\ capacity \in Nat \ {0} /\ outstanding \in Nat /\ stage \in [Items -> Stages]
      /\ future \in [Requests -> {"none", "open", "ready"}] /\ flags \in [Keys -> Requests \cup {None}]
      /\ raised \subseteq Requests /\ answers \in [Requests -> Nat] /\ Requests \subseteq Items
      /\ Cancellations \subseteq Items /\ \A r \in Requests : SessionRequestKey(r) \in Keys
  BY KeyIn DEF TypeOK, Items
<1>e. ASSUME NEW r \in Requests
      PROVE  /\ EraseFlag(r) => flags' \in [Keys -> Requests \cup {None}] /\ raised' \subseteq Requests
             /\ Answered(r) \in [Requests -> Nat]
  BY <1>0 DEF EraseFlag, Answered
<1>f. loop \in Full => cur \in Requests
  BY DEF HandFull
<1>1. ASSUME NEW r \in Requests, Receive(r) PROVE TypeOK'
  BY <1>1, <1>0 DEF Receive, NotClose, TypeOK
<1>2. CASE Reject \/ Accept
  BY <1>2, <1>0, <1>f DEF Reject, Accept, LoopAt, Full, NotClose, TypeOK
<1>3. CASE HandlerThrows
  BY <1>3, <1>0, <1>e, <1>f DEF HandlerThrows, LoopAt, Full, NotClose, TypeOK
<1>3a. CASE SendErrorResponse
  BY <1>3a, <1>0, <1>e, <1>f DEF SendErrorResponse, LoopAt, Full, NotClose, TypeOK
<1>4. ASSUME NEW f \in {"open", "ready"}, HandlerReturns(f) PROVE TypeOK'
  BY <1>4, <1>0, <1>f DEF HandlerReturns, LoopAt, Full, NotClose, TypeOK
<1>5. CASE EnqueueResponse
  <2>0. /\ cur \in Requests /\ UNCHANGED <<closed, capacity, future, answers, worker, qlock>>
        /\ NotClose
    BY <1>5, <1>f DEF EnqueueResponse, Full
  <2>1. stage' \in [Items -> Stages] /\ outstanding' \in Nat
    BY <1>5, <2>0, <1>0 DEF EnqueueResponse, AfterRefusal
  <2>2. flags' \in [Keys -> Requests \cup {None}] /\ raised' \subseteq Requests
    BY <1>5, <2>0, <1>0, <1>e DEF EnqueueResponse
  <2>3. loop' \in {"recv", "notify", "refuse"} /\ cur' \in Requests \cup {None}
    BY <1>5, <2>0 DEF EnqueueResponse
  <2> QED BY <2>0, <2>1, <2>2, <2>3 DEF NotClose, TypeOK
<1>6. CASE LoopNotify
  BY <1>6 DEF LoopNotify, Notified, NotClose, TypeOK
<1>7. CASE LoopExit
  BY <1>7 DEF LoopExit, NotClose, TypeOK
<1>8. ASSUME NEW k \in Keys, HandleCancelled(k) PROVE TypeOK'
  BY <1>8, <1>0 DEF HandleCancelled, FlagFound, NotClose, TypeOK
<1>9. ASSUME NEW r \in Requests, Fulfil(r) PROVE TypeOK'
  BY <1>9, <1>0 DEF Fulfil, NotClose, TypeOK
<1>10. ASSUME NEW c \in Capacities, SetResponseQueueCapacity(c) PROVE TypeOK'
  BY <1>10, <1>0, ConstantsAssumption DEF SetResponseQueueCapacity, NotClose, TypeOK
<1>11. ASSUME NEW c \in Cancellations, EnqueueCancellation(c) PROVE TypeOK'
  BY <1>11, <1>0 DEF EnqueueCancellation, Notified, NotClose, TypeOK
<1>12. CASE WorkerDrain
  BY <1>12, <1>0 DEF WorkerDrain, WorkerOnly, Drop, TypeOK
<1>13. CASE WorkerPredicate \/ WorkerSleeps \/ WorkerWakes \/ WorkerDelivered \/ WorkerPolled
  BY <1>13 DEF WorkerPredicate, WorkerSleeps, WorkerWakes, WorkerDelivered, WorkerPolled, WorkerOnly, TypeOK
<1>14. CASE WorkerScan
  BY <1>14, <1>0 DEF WorkerScan, WorkerOnly, TypeOK
<1>15. ASSUME NEW c \in Cancellations, DeliverCancellation(c) \/ CancellationDelivered(c) PROVE TypeOK'
  BY <1>15, <1>0 DEF DeliverCancellation, CancellationDelivered, WorkerOnly, TypeOK
<1>16. ASSUME NEW r \in Requests, ReleaseResponseSlot(r) PROVE TypeOK'
  BY <1>16, <1>0 DEF ReleaseResponseSlot, SlotsAfterRelease, WorkerOnly, TypeOK
<1>17. ASSUME NEW r \in Requests, EraseIncomingCancellationFlag(r) PROVE TypeOK'
  <2>1. stage' \in [Items -> Stages] /\ UNCHANGED <<outstanding, answers, worker, qlock>> /\ WorkerOnly
    BY <1>17, <1>0 DEF EraseIncomingCancellationFlag
  <2>2. flags' \in [Keys -> Requests \cup {None}] /\ raised' \subseteq Requests
    BY <1>17, <1>0, <1>e DEF EraseIncomingCancellationFlag
  <2> QED BY <2>1, <2>2 DEF WorkerOnly, TypeOK
<1>18. ASSUME NEW r \in Requests, DeliverResponse(r) PROVE TypeOK'
  BY <1>18, <1>0 DEF DeliverResponse, WorkerOnly, TypeOK
<1>19. ASSUME NEW r \in Requests, SendMessage(r) PROVE TypeOK'
  BY <1>19, <1>0, <1>e DEF SendMessage, WorkerOnly, TypeOK
<1>20. CASE WorkerPoll
  BY <1>20, <1>0 DEF WorkerPoll, WorkerOnly, Drop, TypeOK
<1>21. ASSUME NEW t \in {"app", "loop", "worker"}, NEW h \in Items \cup {None}, CloseBegins(t, h) PROVE TypeOK'
  <2>1. /\ closed' = TRUE /\ close' = "joinloop" /\ closer' = t /\ within' = h
        /\ UNCHANGED <<flags, raised, worker>> /\ CloseOnly
    BY <1>21, Zenon DEF CloseBegins
  <2>2. closed' \in BOOLEAN
    BY <2>1, Zenon
  <2> QED BY <2>1, <2>2 DEF CloseOnly, TypeOK
<1>22. CASE CloseJoinsLoop \/ CloseBarrier \/ CloseJoinsWorker
  BY <1>22 DEF CloseJoinsLoop, CloseBarrier, CloseJoinsWorker, CloseOnly, TypeOK
<1>23. CASE CloseNotifies \/ CloseClears
  BY <1>23, <1>0 DEF CloseNotifies, CloseClears, Notified, CloseOnly, TypeOK
<1>24. CASE UNCHANGED vars
  <2>1. UNCHANGED closed /\ UNCHANGED <<capacity, outstanding, stage, future, flags, raised, answers>>
        /\ UNCHANGED <<loop, cur, worker, qlock, close, closer, within>>
    BY <1>24, Zenon DEF vars
  <2>2. closed' \in BOOLEAN
    BY <2>1, Zenon DEF TypeOK
  <2> QED BY <2>1, <2>2 DEF TypeOK
<1> QED
  BY <1>1, <1>2, <1>3, <1>3a, <1>4, <1>5, <1>6, <1>7, <1>8, <1>9, <1>10, <1>11, <1>12, <1>13, <1>14, <1>15, <1>16,
     <1>17, <1>18, <1>19, <1>20, <1>21, <1>22, <1>23, <1>24, Zenon
     DEF Next, LoopNext, LoopWorks, WorkerNext, CloseNext

--------------------------------------------------------------------------------
(* The steps of the inductive invariant *)

WorkerMoves(i) ==
  \/ stage'[i] = stage[i]
  \/ stage[i] \in {"queue", "waiting"} /\ stage'[i] \in {"waiting", "dropped"}
  \/ stage[i] = "waiting" /\ stage'[i] = "ready"
  \/ i \in Cancellations /\ stage[i] = "ready" /\ stage'[i] \in {"dropped", "sending"} /\ (closed => stage'[i] = "dropped")
  \/ i \in Cancellations /\ stage[i] = "sending" /\ stage'[i] = "done"
  \/ i \in Requests /\ stage[i] = "ready" /\ stage'[i] = "freed"
  \/ i \in Requests /\ stage[i] = "freed" /\ stage'[i] \in {"dropped", "erased"}
  \/ i \in Requests /\ stage[i] = "erased" /\ stage'[i] \in {"dropped", "sending"} /\ (closed => stage'[i] = "dropped")
  \/ i \in Requests /\ stage[i] = "sending" /\ stage'[i] = "done" /\ SendMessage(i)

(* A step of the worker leaves the loop, Close and the future alone, and moves items on. *)
LEMMA WorkerStages ==
  ASSUME TypeOK, WorkerNext
  PROVE  WorkerOnly /\ \A i \in Items : WorkerMoves(i)
<1>0. stage \in [Items -> Stages] /\ Requests \subseteq Items /\ Cancellations \subseteq Items
  BY DEF TypeOK, Items
<1>1. CASE WorkerDrain
  BY <1>1, <1>0 DEF WorkerDrain, Drop, In, WorkerMoves
<1>2. CASE WorkerPredicate \/ WorkerSleeps \/ WorkerWakes \/ WorkerDelivered \/ WorkerPolled
  BY <1>2 DEF WorkerPredicate, WorkerSleeps, WorkerWakes, WorkerDelivered, WorkerPolled, WorkerMoves
<1>3. CASE WorkerScan
  BY <1>3, <1>0 DEF WorkerScan, In, WorkerMoves
<1>4. CASE WorkerPoll
  BY <1>4, <1>0 DEF WorkerPoll, Drop, In, WorkerMoves
<1>5. ASSUME NEW c \in Cancellations, DeliverCancellation(c) \/ CancellationDelivered(c)
      PROVE  WorkerOnly /\ \A i \in Items : WorkerMoves(i)
  BY <1>5, <1>0 DEF DeliverCancellation, CancellationDelivered, WorkerMoves
<1>6. ASSUME NEW r \in Requests, ReleaseResponseSlot(r) PROVE WorkerOnly /\ \A i \in Items : WorkerMoves(i)
  BY <1>6, <1>0 DEF ReleaseResponseSlot, WorkerMoves
<1>7. ASSUME NEW r \in Requests, EraseIncomingCancellationFlag(r) \/ DeliverResponse(r) \/ SendMessage(r)
      PROVE  WorkerOnly /\ \A i \in Items : WorkerMoves(i)
  BY <1>7, <1>0 DEF EraseIncomingCancellationFlag, DeliverResponse, SendMessage, WorkerMoves
<1> QED BY <1>1, <1>2, <1>3, <1>4, <1>5, <1>6, <1>7, Zenon
        DEF WorkerNext, WorkerDrain, WorkerPredicate, WorkerSleeps, WorkerWakes, WorkerScan, WorkerPoll,
            WorkerDelivered, WorkerPolled

\* Steps that leave the stages, the answers, the loop and the worker's exit alone.
Aside ==
  \/ CloseNext
  \/ \E r \in Requests : Fulfil(r)
  \/ \E c \in Capacities : SetResponseQueueCapacity(c)
  \/ \E k \in Keys : HandleCancelled(k)
  \/ UNCHANGED vars

(* They do. *)
LEMMA AsideStages ==
  ASSUME Aside
  PROVE  /\ UNCHANGED <<stage, answers, loop, cur, outstanding>>
         /\ worker' = worker \/ (worker = "asleep" /\ worker' = "awake")
         /\ closed => closed'
         /\ UNCHANGED flags \/ close' = "done"
         /\ UNCHANGED <<closer, within>> \/ (~closed /\ closed' /\ close' = "joinloop"
                                              /\ \E t, h : CloseBegins(t, h) /\ closer' = t /\ within' = h)
<1>1. CASE CloseNext
  <2>1. /\ UNCHANGED <<stage, answers, loop, cur, outstanding>>
        /\ worker' = worker \/ (worker = "asleep" /\ worker' = "awake")
        /\ UNCHANGED flags \/ close' = "done"
    BY <1>1 DEF CloseNext, CloseBegins, CloseJoinsLoop, LoopJoined, CloseBarrier, CloseNotifies, CloseJoinsWorker,
                CloseClears, CloseOnly, Notified
  <2>2. closed => closed'
    BY <1>1 DEF CloseNext, CloseBegins, CloseJoinsLoop, LoopJoined, CloseBarrier, CloseNotifies, CloseJoinsWorker,
                CloseClears
  <2>3. UNCHANGED <<closer, within>> \/ (~closed /\ closed' /\ close' = "joinloop"
                                         /\ \E t, h : CloseBegins(t, h) /\ closer' = t /\ within' = h)
    <3>1. CASE \E t, h : CloseBegins(t, h)
      <4>1. PICK t, h : CloseBegins(t, h)
        BY <3>1, Zenon
      <4>2. ~closed /\ closed' /\ close' = "joinloop" /\ closer' = t /\ within' = h
        BY <4>1, Zenon DEF CloseBegins
      <4> QED BY <4>1, <4>2, Zenon
    <3>2. CASE ~\E t, h : CloseBegins(t, h)
      BY <1>1, <3>2 DEF CloseNext, CloseJoinsLoop, CloseBarrier, CloseNotifies, CloseJoinsWorker, CloseClears
    <3> QED BY <3>1, <3>2
  <2> QED BY <2>1, <2>2, <2>3
<1>2. CASE ~CloseNext
  <2>1. UNCHANGED <<stage, answers, loop, cur, outstanding, worker, flags, closed, closer, within>>
    BY <1>2 DEF Aside, Fulfil, SetResponseQueueCapacity, HandleCancelled, NotClose, vars
  <2> QED BY <2>1
<1> QED BY <1>1, <1>2

(* The loop's hand holds what its place says. *)
LEMMA InHandStep ==
  ASSUME TypeOK, InHand, HandFull, [Next]_vars PROVE InHand' /\ HandFull'
<1>0. stage \in [Items -> Stages] /\ Requests \subseteq Items /\ Requests \cap Cancellations = {}
  BY ConstantsAssumption DEF TypeOK, Items
<1>1. CASE Aside
  BY <1>1, AsideStages DEF InHand, HandFull
<1>2. CASE WorkerNext
  <2>1. UNCHANGED <<loop, cur>> /\ \A r \in Requests : WorkerMoves(r)
    BY <1>2, <1>0, WorkerStages DEF WorkerOnly
  <2>2. \A r \in Requests : /\ stage[r] = "asked" <=> stage'[r] = "asked"
                            /\ stage[r] = "handling" <=> stage'[r] = "handling"
                            /\ stage[r] = "refused" <=> stage'[r] = "refused"
                            /\ stage[r] = "made" <=> stage'[r] = "made"
    BY <2>1 DEF WorkerMoves
  <2> QED BY <2>1, <2>2 DEF InHand, HandFull
<1>3. ASSUME NEW r \in Requests, Receive(r) PROVE InHand' /\ HandFull'
  BY <1>3, <1>0 DEF Receive, LoopAt, PeerMaySend, InHand, HandFull, Full
<1>4. CASE Reject \/ Accept
  BY <1>4, <1>0 DEF Reject, Accept, LoopAt, InHand, HandFull, Full
<1>5. CASE HandlerThrows
  BY <1>5, <1>0 DEF HandlerThrows, LoopAt, InHand, HandFull, Full
<1>5a. CASE SendErrorResponse
  BY <1>5a, <1>0 DEF SendErrorResponse, LoopAt, InHand, HandFull, Full
<1>6. ASSUME NEW f, HandlerReturns(f) PROVE InHand' /\ HandFull'
  BY <1>6, <1>0 DEF HandlerReturns, LoopAt, InHand, HandFull, Full
<1>7. CASE EnqueueResponse
  BY <1>7, <1>0 DEF EnqueueResponse, AfterRefusal, InHand, HandFull, Full
<1>8. CASE LoopNotify \/ LoopExit
  BY <1>8, <1>0 DEF LoopNotify, LoopExit, LoopAt, InHand, HandFull, Full
<1>9. ASSUME NEW c \in Cancellations, EnqueueCancellation(c) PROVE InHand' /\ HandFull'
  BY <1>9, <1>0 DEF EnqueueCancellation, InHand, HandFull
<1> QED BY <1>1, <1>2, <1>3, <1>4, <1>5, <1>5a, <1>6, <1>7, <1>8, <1>9, Zenon DEF Next, LoopNext, LoopWorks, Aside

(* What a step of the loop finds in its hand, and where it puts it. *)
LEMMA HandMoves ==
  ASSUME TypeOK, InHand, HandFull,
         Reject \/ Accept \/ HandlerThrows \/ SendErrorResponse \/ (\E f : HandlerReturns(f)) \/ EnqueueResponse
  PROVE  /\ cur \in Requests /\ \A i \in Items \ {cur} : stage'[i] = stage[i]
         /\ NotClose /\ UNCHANGED <<closed, capacity, worker>>
         /\ loop \in Full /\ loop' # "exited" /\ (loop' \in Full => cur' = cur)
         /\ \/ stage[cur] = "asked" /\ stage'[cur] = "refused" /\ Reject
            \/ stage[cur] = "asked" /\ stage'[cur] = "handling" /\ Accept
            \/ stage[cur] = "handling" /\ stage'[cur] = "refused" /\ HandlerThrows
            \/ stage[cur] = "refused" /\ stage'[cur] = "done" /\ SendErrorResponse
            \/ stage[cur] = "handling" /\ stage'[cur] = "made" /\ \E f : HandlerReturns(f)
            \/ stage[cur] = "made" /\ stage'[cur] \in {"dropped", "refused", "queue"} /\ EnqueueResponse
<1>0. stage \in [Items -> Stages] /\ Requests \subseteq Items
  BY DEF TypeOK, Items
<1>1. loop \in Full /\ cur \in Requests
  BY DEF Reject, Accept, HandlerThrows, SendErrorResponse, HandlerReturns, EnqueueResponse, LoopAt, HandFull, Full
<1>2. /\ NotClose /\ UNCHANGED <<closed, capacity, worker>> /\ loop' # "exited" /\ (loop' \in Full => cur' = cur)
  BY DEF Reject, Accept, HandlerThrows, SendErrorResponse, HandlerReturns, EnqueueResponse, Full
<1>3. \A i \in Items \ {cur} : stage'[i] = stage[i]
  BY <1>0, <1>1 DEF Reject, Accept, HandlerThrows, SendErrorResponse, HandlerReturns, EnqueueResponse
<1>4. CASE Reject \/ Accept
  BY <1>4, <1>0, <1>1, <1>2, <1>3 DEF Reject, Accept, LoopAt, InHand
<1>5. CASE HandlerThrows \/ SendErrorResponse \/ \E f : HandlerReturns(f)
  BY <1>5, <1>0, <1>1, <1>2, <1>3 DEF HandlerThrows, SendErrorResponse, HandlerReturns, LoopAt, InHand
<1>6. CASE EnqueueResponse
  BY <1>6, <1>0, <1>1, <1>2, <1>3 DEF EnqueueResponse, AfterRefusal, InHand
<1> QED BY <1>4, <1>5, <1>6

\* A step of the loop with a request in its hand.
Handles == Reject \/ Accept \/ HandlerThrows \/ SendErrorResponse \/ (\E f : HandlerReturns(f)) \/ EnqueueResponse

(* The answer to a request is what makes it done. *)
LEMMA DoneStep ==
  ASSUME TypeOK, InHand, HandFull, DoneIsAnswered, [Next]_vars PROVE DoneIsAnswered'
<1>0. /\ stage \in [Items -> Stages] /\ Requests \subseteq Items /\ Requests \cap Cancellations = {}
      /\ answers \in [Requests -> Nat]
  BY ConstantsAssumption DEF TypeOK, Items
<1>1. CASE Aside
  BY <1>1, AsideStages DEF DoneIsAnswered
<1>2. CASE WorkerNext
  <2>1. CASE \E r \in Requests : SendMessage(r)
    BY <2>1, <1>0 DEF SendMessage, Answered, DoneIsAnswered
  <2>2. CASE ~\E r \in Requests : SendMessage(r)
    <3>1. UNCHANGED answers
      BY <1>2, <2>2 DEF WorkerNext, WorkerDrain, WorkerPredicate, WorkerSleeps, WorkerWakes, WorkerScan,
            DeliverCancellation, CancellationDelivered, ReleaseResponseSlot, EraseIncomingCancellationFlag, DeliverResponse,
            WorkerDelivered, WorkerPoll, WorkerPolled
    <3>2. \A r \in Requests : WorkerMoves(r) /\ r \notin Cancellations
      BY <1>2, <1>0, WorkerStages
    <3>3. \A r \in Requests : stage'[r] = "done" <=> stage[r] = "done"
      BY <3>2, <2>2 DEF WorkerMoves
    <3> QED BY <3>1, <3>3 DEF DoneIsAnswered
  <2> QED BY <2>1, <2>2
<1>3. ASSUME NEW r \in Requests, Receive(r) PROVE DoneIsAnswered'
  BY <1>3, <1>0 DEF Receive, PeerMaySend, DoneIsAnswered
<1>4. CASE Handles
  <2>1. CASE SendErrorResponse
    <3>1. cur \in Requests /\ stage[cur] = "refused"
      BY <2>1 DEF SendErrorResponse, LoopAt, InHand, HandFull, Full
    <3> QED BY <2>1, <3>1, <1>0 DEF SendErrorResponse, Answered, DoneIsAnswered
  <2>2. CASE ~SendErrorResponse
    <3>1. UNCHANGED answers
      BY <1>4, <2>2 DEF Handles, Reject, Accept, HandlerThrows, HandlerReturns, EnqueueResponse
    <3>2. \A r \in Requests : stage'[r] = "done" <=> stage[r] = "done"
      BY <1>4, <2>2, <1>0, HandMoves DEF Handles
    <3> QED BY <3>1, <3>2 DEF DoneIsAnswered
  <2> QED BY <2>1, <2>2
<1>8. CASE LoopNotify \/ LoopExit
  BY <1>8 DEF LoopNotify, LoopExit, DoneIsAnswered
<1>9. ASSUME NEW c \in Cancellations, EnqueueCancellation(c) PROVE DoneIsAnswered'
  BY <1>9, <1>0 DEF EnqueueCancellation, DoneIsAnswered
<1> QED BY <1>1, <1>2, <1>3, <1>4, <1>8, <1>9, Zenon DEF Next, LoopNext, LoopWorks, Handles, Aside

(* A session does not use an id twice at a time, whatever happens to the requests. *)
LEMMA IdsApartStep ==
  ASSUME TypeOK, InHand, HandFull, IdsApart, [Next]_vars PROVE IdsApart'
<1>0. /\ stage \in [Items -> Stages] /\ Requests \subseteq Items /\ Requests \cap Cancellations = {}
  BY ConstantsAssumption DEF TypeOK, Items
<1>k. \A q, r \in Requests : SessionRequestKey(q) = SessionRequestKey(r) => Session[q] = Session[r] /\ Id[q] = Id[r]
  BY KeyTellsApart
<1>n. ASSUME \A r \in Requests : stage[r] \in {"new", "done", "absent"} => stage'[r] = stage[r] \/ stage'[r] = "done"
      PROVE  IdsApart'
  BY <1>n DEF IdsApart
<1>1. CASE Aside
  BY <1>1, <1>n, AsideStages
<1>2. CASE WorkerNext
  <2>1. \A r \in Requests : WorkerMoves(r)
    BY <1>2, <1>0, WorkerStages
  <2>2. \A r \in Requests : stage[r] \in {"new", "done", "absent"} => stage'[r] = stage[r]
    BY <2>1 DEF WorkerMoves
  <2> QED BY <2>2, <1>n
<1>4. ASSUME NEW r \in Requests, Receive(r) PROVE IdsApart'
  <2>1. /\ stage'[r] = "asked" /\ \A q \in Requests \ {r} : stage'[q] = stage[q]
        /\ \A q \in Requests \ {r} : Session[q] = Session[r] /\ Id[q] = Id[r] => stage[q] \in {"new", "done", "absent"}
    BY <1>4, <1>0 DEF Receive, PeerMaySend
  <2> QED BY <2>1, <1>k DEF IdsApart
<1>5. CASE Handles
  <2>1. cur \in Requests /\ stage[cur] \notin {"new", "done", "absent"} /\ \A r \in Requests \ {cur} : stage'[r] = stage[r]
    BY <1>5, <1>0, HandMoves DEF Handles
  <2> QED BY <2>1, <1>n
<1>8. CASE LoopNotify \/ LoopExit
  BY <1>8, <1>n DEF LoopNotify, LoopExit
<1>9. ASSUME NEW c \in Cancellations, EnqueueCancellation(c) PROVE IdsApart'
  BY <1>9, <1>0, <1>n DEF EnqueueCancellation
<1> QED BY <1>1, <1>2, <1>4, <1>5, <1>8, <1>9, Zenon DEF Next, LoopNext, LoopWorks, Handles, Aside

(* The two threads and Close keep to their order. *)
LEMMA ThreadsStep ==
  ASSUME TypeOK, InHand, HandFull, Threads, [Next]_vars PROVE Threads'
<1>0. /\ stage \in [Items -> Stages] /\ Requests \subseteq Items /\ Cancellations \subseteq Items
      /\ Requests \cap Cancellations = {} /\ capacity \in Capacities \cup {DefaultCapacity}
  BY ConstantsAssumption DEF TypeOK, Items, Threads
<1>1. CASE Aside
  <2>1. capacity' \in Capacities \cup {DefaultCapacity}
    BY <1>1, <1>0 DEF Aside, CloseNext, CloseBegins, CloseJoinsLoop, LoopJoined, CloseBarrier, CloseNotifies, CloseJoinsWorker,
                      CloseClears, CloseOnly, Fulfil, SetResponseQueueCapacity, HandleCancelled, vars
  <2>2. \/ close' = close
        \/ close' = "joinloop" /\ closed'
        \/ close = "joinloop" /\ close' = "barrier" /\ LoopJoined
        \/ close = "barrier" /\ close' = "notify"
        \/ close = "notify" /\ close' = "joinworker"
        \/ close = "joinworker" /\ close' = "clear" /\ (worker = "exited" \/ closer = "worker")
        \/ close = "clear" /\ close' = "done"
    <3>1. CASE CloseNext
      BY <3>1 DEF CloseNext, CloseBegins, CloseJoinsLoop, LoopJoined, CloseBarrier, CloseNotifies, CloseJoinsWorker,
                  WorkerJoined, CloseClears
    <3>2. CASE ~CloseNext
      BY <1>1, <3>2 DEF Aside, Fulfil, SetResponseQueueCapacity, HandleCancelled, NotClose, vars
    <3> QED BY <3>1, <3>2
  <2>3. /\ UNCHANGED <<stage, loop>> /\ (worker' = worker \/ (worker = "asleep" /\ worker' = "awake"))
        /\ (closed => closed') /\ (UNCHANGED closer \/ (closed' /\ close' = "joinloop"))
    BY <1>1, AsideStages
  <2> QED BY <2>1, <2>2, <2>3 DEF Threads, Leaving, LoopJoined
<1>2. CASE WorkerNext
  <2>0. WorkerOnly /\ \A i \in Items : WorkerMoves(i)
    BY <1>2, WorkerStages
  <2>1. worker # "exited"
    BY <1>2, <1>0 DEF Threads, Leaving, WorkerNext, WorkerDrain, WorkerPredicate, WorkerSleeps, WorkerWakes,
         WorkerScan, DeliverCancellation, CancellationDelivered, ReleaseResponseSlot, EraseIncomingCancellationFlag, DeliverResponse,
         SendMessage, WorkerDelivered, WorkerPoll, WorkerPolled
  <2>2. worker' = "exited" => closed
    BY <1>2, <2>1 DEF WorkerNext, WorkerDrain, WorkerPredicate, WorkerSleeps, WorkerWakes,
         WorkerScan, DeliverCancellation, CancellationDelivered, ReleaseResponseSlot, EraseIncomingCancellationFlag, DeliverResponse,
         SendMessage, WorkerDelivered, WorkerPoll, WorkerPolled
  <2>3. \A i \in Items : stage'[i] \in Leaving => worker' = "deliver"
    <3>1. CASE WorkerScan
      BY <3>1, <1>0 DEF WorkerScan, In, Threads, Leaving
    <3>2. CASE WorkerDelivered
      BY <3>2, <1>0 DEF WorkerDelivered, Delivering, In, Threads, Leaving
    <3>3. CASE ~WorkerScan /\ ~WorkerDelivered
      <4>1. CASE worker = "deliver"
        <5>1. worker' = worker
          BY <4>1, <3>3, <1>2 DEF WorkerNext, WorkerDrain, WorkerPredicate, WorkerSleeps, WorkerWakes,
             DeliverCancellation, CancellationDelivered, ReleaseResponseSlot, EraseIncomingCancellationFlag, DeliverResponse,
             SendMessage, WorkerPoll, WorkerPolled
        <5> QED BY <4>1, <5>1
      <4>2. CASE worker # "deliver"
        <5>1. \A i \in Items : stage[i] \notin Leaving
          BY <4>2 DEF Threads
        <5>2. ~\E i \in Items : stage[i] = "waiting" /\ stage'[i] = "ready"
          BY <4>2, <3>3, <1>2, <1>0 DEF WorkerNext, WorkerDrain, WorkerPredicate, WorkerSleeps, WorkerWakes, Drop,
             DeliverCancellation, CancellationDelivered, ReleaseResponseSlot, EraseIncomingCancellationFlag, DeliverResponse,
             SendMessage, WorkerPoll, WorkerPolled
        <5> QED BY <5>1, <5>2, <2>0 DEF WorkerMoves, Leaving
      <4> QED BY <4>1, <4>2
    <3> QED BY <3>1, <3>2, <3>3
  <2> QED BY <2>0, <2>1, <2>2, <2>3 DEF Threads, LoopJoined, WorkerOnly
<1>3. CASE Handles \/ \E r \in Requests : Receive(r)
  <2>1. NotClose /\ UNCHANGED <<worker, capacity, closed>> /\ loop # "exited"
    <3>1. CASE Handles
      BY <3>1, HandMoves DEF Handles, Full
    <3>2. CASE ~Handles
      BY <1>3, <3>2 DEF Receive, LoopAt
    <3> QED BY <3>1, <3>2
  <2>2. \A i \in Items : stage'[i] = stage[i] \/ stage'[i] \notin Leaving
    <3>1. CASE Handles
      BY <3>1, HandMoves DEF Handles, Leaving
    <3>2. CASE ~Handles
      BY <1>3, <3>2, <1>0 DEF Receive, Leaving
    <3> QED BY <3>1, <3>2
  <2> QED BY <2>1, <2>2 DEF Threads, NotClose, LoopJoined
<1>4. CASE LoopNotify \/ LoopExit \/ \E c \in Cancellations : EnqueueCancellation(c)
  <2>1. /\ NotClose /\ UNCHANGED <<capacity, closed>> /\ (loop' = loop \/ loop # "exited")
        /\ worker' = worker \/ (worker = "asleep" /\ worker' = "awake")
    BY <1>4 DEF LoopNotify, LoopExit, EnqueueCancellation, Notified
  <2>2. \A i \in Items : stage'[i] = stage[i] \/ stage'[i] \notin Leaving
    BY <1>4, <1>0 DEF LoopNotify, LoopExit, EnqueueCancellation, Leaving
  <2> QED BY <2>1, <2>2 DEF Threads, NotClose, LoopJoined
<1> QED BY <1>1, <1>2, <1>3, <1>4, Zenon DEF Next, LoopNext, LoopWorks, Handles, Aside

(* The worker takes an item in its hand only when it has none. *)
LEMMA OneOutStep ==
  ASSUME TypeOK, InHand, HandFull, OneOut, [Next]_vars PROVE OneOut'
<1>0. /\ stage \in [Items -> Stages] /\ Requests \subseteq Items /\ Cancellations \subseteq Items
      /\ Requests \cap Cancellations = {}
  BY ConstantsAssumption DEF TypeOK, Items
<1>n. ASSUME \A i \in Items : stage'[i] \in Out => stage[i] \in Out
      PROVE  OneOut'
  BY <1>n DEF OneOut
<1>o. ASSUME NEW i \in Items, Delivering = {}, \A j \in Items \ {i} : stage'[j] = stage[j]
      PROVE  OneOut'
  BY <1>o DEF OneOut, Delivering, In, Out
<1>1. CASE Aside
  BY <1>1, <1>n, AsideStages
<1>2. CASE WorkerNext
  <2>1. ASSUME NEW c \in Cancellations, DeliverCancellation(c) PROVE OneOut'
    BY <2>1, <1>0, <1>o DEF DeliverCancellation
  <2>2. ASSUME NEW r \in Requests, ReleaseResponseSlot(r) PROVE OneOut'
    BY <2>2, <1>0, <1>o DEF ReleaseResponseSlot
  <2>3. CASE ~((\E c \in Cancellations : DeliverCancellation(c)) \/ \E r \in Requests : ReleaseResponseSlot(r))
    <3>1. ASSUME NEW i \in Items, stage'[i] \in Out PROVE stage[i] \in Out
      <4>1. ~(stage[i] = "ready" /\ stage'[i] \in Out)
        BY <1>2, <2>3, <1>0 DEF WorkerNext, WorkerDrain, WorkerPredicate, WorkerSleeps, WorkerWakes, WorkerScan, Drop,
            In, CancellationDelivered, EraseIncomingCancellationFlag, DeliverResponse, SendMessage, WorkerDelivered,
            WorkerPoll, WorkerPolled, Out
      <4>2. WorkerMoves(i)
        BY <1>2, WorkerStages
      <4> QED BY <3>1, <4>1, <4>2 DEF WorkerMoves, Out
    <3> QED BY <3>1, <1>n
  <2> QED BY <2>1, <2>2, <2>3
<1>3. ASSUME NEW r \in Requests, Receive(r) PROVE OneOut'
  BY <1>3, <1>0, <1>n DEF Receive, Out
<1>4. CASE Handles
  <2>1. \A i \in Items : stage'[i] \in Out => stage[i] \in Out
    BY <1>4, HandMoves DEF Handles, Out
  <2> QED BY <2>1, <1>n
<1>5. CASE LoopNotify \/ LoopExit
  BY <1>5, <1>n DEF LoopNotify, LoopExit
<1>6. ASSUME NEW c \in Cancellations, EnqueueCancellation(c) PROVE OneOut'
  BY <1>6, <1>0, <1>n DEF EnqueueCancellation, Out
<1> QED BY <1>1, <1>2, <1>3, <1>4, <1>5, <1>6, Zenon DEF Next, LoopNext, LoopWorks, Handles, Aside

(* A closed session takes nothing new in its hands, neither on the loop nor on the worker. *)
LEMMA WithinStep ==
  ASSUME TypeOK, InHand, HandFull, Threads, OneOut, Within, [Next]_vars PROVE Within'
<1>0. /\ stage \in [Items -> Stages] /\ Requests \subseteq Items /\ Cancellations \subseteq Items
      /\ Requests \cap Cancellations = {} /\ (closer # "none" => closed)
  BY ConstantsAssumption DEF TypeOK, Items, Threads
<1>n. ASSUME UNCHANGED <<closer, within>>,
             closer = "loop" /\ loop' \in Full => loop \in Full /\ cur' = cur,
             closer = "worker" => \A i \in Items : stage'[i] = "sending" => stage[i] = "sending"
      PROVE  Within'
  BY <1>n DEF Within
<1>1. CASE Aside
  <2>0. UNCHANGED <<stage, loop, cur>>
    BY <1>1, AsideStages
  <2>1. CASE UNCHANGED <<closer, within>>
    BY <2>0, <2>1, <1>n
  <2>2. CASE \E t, h : CloseBegins(t, h) /\ closer' = t /\ within' = h
    <3>1. PICK t, h : CloseBegins(t, h) /\ closer' = t /\ within' = h
      BY <2>2, Zenon
    <3>2. (t = "loop" => h = cur) /\ (t = "worker" => h \in Items /\ stage[h] = "sending")
      BY <3>1 DEF CloseBegins, In
    <3>3. t = "worker" => \A i \in Items : stage[i] = "sending" => i = h
      BY <3>2 DEF OneOut, Out
    <3> QED BY <3>1, <3>2, <3>3, <2>0 DEF Within
  <2> QED BY <1>1, <2>1, <2>2, AsideStages
<1>2. CASE WorkerNext
  <2>1. UNCHANGED <<loop, cur, closer, within>> /\ \A i \in Items : WorkerMoves(i)
    BY <1>2, WorkerStages DEF WorkerOnly
  <2>2. closed => \A i \in Items : stage'[i] = "sending" => stage[i] = "sending"
    BY <2>1 DEF WorkerMoves
  <2> QED BY <2>1, <2>2, <1>n, <1>0
<1>3. ASSUME NEW r \in Requests, Receive(r) PROVE Within'
  BY <1>3, <1>0, <1>n DEF Receive, NotClose
<1>4. CASE Handles
  <2>1. /\ UNCHANGED <<closer, within>> /\ loop \in Full /\ (loop' \in Full => cur' = cur)
        /\ \A i \in Items : stage'[i] = "sending" => stage[i] = "sending"
    BY <1>4, HandMoves DEF Handles, NotClose
  <2> QED BY <2>1, <1>n
<1>5. CASE LoopNotify \/ LoopExit
  BY <1>5, <1>n DEF LoopNotify, LoopExit, NotClose, Full
<1>6. ASSUME NEW c \in Cancellations, EnqueueCancellation(c) PROVE Within'
  BY <1>6, <1>0, <1>n DEF EnqueueCancellation, NotClose
<1> QED BY <1>1, <1>2, <1>3, <1>4, <1>5, <1>6, Zenon DEF Next, LoopNext, LoopWorks, Handles, Aside

(* The counter and the requests that take a slot go up and down together. *)
LEMMA SlotStep ==
  ASSUME TypeOK, InHand, HandFull, Threads, SlotAccounting, [Next]_vars PROVE SlotAccounting'
<1>0. /\ stage \in [Items -> Stages] /\ Requests \subseteq Items /\ Cancellations \subseteq Items
      /\ Requests \cap Cancellations = {} /\ outstanding \in Nat /\ capacity \in Nat
      /\ capacity \in Capacities \cup {DefaultCapacity} /\ Capacities \cup {DefaultCapacity} \subseteq Nat
  BY ConstantsAssumption DEF TypeOK, Items, Threads
<1>s. /\ IsFiniteSet(Slots) /\ Cardinality(Slots) \in Nat
      /\ worker # "exited" => outstanding = Cardinality(Slots)
  <2>1. Slots \subseteq Requests
    BY DEF Slots
  <2>2. worker # "exited" => outstanding = Cardinality(Slots)
    BY DEF SlotAccounting, Slots, Counted
  <2> QED BY <2>1, <2>2, ConstantsAssumption, FS_Subset, FS_CardinalityType
<1>p. ASSUME worker' # "exited" => outstanding' = Cardinality(Slots'),
             \E c \in Capacities \cup {DefaultCapacity} : outstanding' <= c
      PROVE  SlotAccounting'
  BY <1>p DEF SlotAccounting, Slots, Counted
<1>q. ASSUME worker = "exited" => worker' = "exited", outstanding' = outstanding,
             worker' # "exited" => \A r \in Requests : stage'[r] \in Counted <=> stage[r] \in Counted
      PROVE  SlotAccounting'
  <2>1. worker' # "exited" => Slots' = Slots
    BY <1>q DEF Slots
  <2>2. \E c \in Capacities \cup {DefaultCapacity} : outstanding' <= c
    BY <1>q DEF SlotAccounting
  <2> QED BY <1>p, <1>q, <1>s, <2>1, <2>2
<1>1. CASE Aside
  BY <1>1, <1>q, AsideStages
<1>2. CASE WorkerNext
  <2>1. ASSUME NEW r \in Requests, ReleaseResponseSlot(r) PROVE SlotAccounting'
    <3>1. /\ r \in Slots /\ worker = "deliver" /\ worker' = "deliver"
          /\ outstanding' = IF outstanding > 0 THEN outstanding - 1 ELSE 0
      BY <2>1, <1>0 DEF ReleaseResponseSlot, SlotsAfterRelease, Slots, Counted
    <3>2. Slots' = Slots \ {r}
      BY <2>1, <1>0 DEF ReleaseResponseSlot, Slots, Counted
    <3>3. Cardinality(Slots \ {r}) = Cardinality(Slots) - 1 /\ Cardinality(Slots \ {r}) \in Nat
      <4>1. IsFiniteSet(Slots \ {r}) /\ Cardinality(Slots \ {r}) = Cardinality(Slots) - 1
        BY <3>1, <1>s, FS_RemoveElement
      <4> QED BY <4>1, FS_CardinalityType
    <3>4. outstanding' = outstanding - 1 /\ outstanding' = Cardinality(Slots')
      BY <3>1, <3>2, <3>3, <1>s, <1>0
    <3>5. \E c \in Capacities \cup {DefaultCapacity} : outstanding' <= c
      BY <3>4, <1>0 DEF SlotAccounting
    <3> QED BY <3>4, <3>5, <1>p
  <2>2. CASE ~\E r \in Requests : ReleaseResponseSlot(r)
    <3>1. outstanding' = outstanding
      BY <1>2, <2>2 DEF WorkerNext, WorkerDrain, WorkerPredicate, WorkerSleeps, WorkerWakes, WorkerScan,
            DeliverCancellation, CancellationDelivered, EraseIncomingCancellationFlag, DeliverResponse, SendMessage, WorkerDelivered,
            WorkerPoll, WorkerPolled
    <3>2. worker # "exited"
      BY <1>2, <1>0 DEF Threads, Leaving, WorkerNext, WorkerDrain, WorkerPredicate, WorkerSleeps, WorkerWakes,
           WorkerScan, DeliverCancellation, CancellationDelivered, ReleaseResponseSlot, EraseIncomingCancellationFlag, DeliverResponse,
           SendMessage, WorkerDelivered, WorkerPoll, WorkerPolled
    <3>3. ASSUME worker' # "exited", NEW r \in Requests PROVE stage'[r] \in Counted <=> stage[r] \in Counted
      <4>1. CASE WorkerDrain \/ WorkerPoll
        BY <4>1, <3>3, <1>0 DEF WorkerDrain, WorkerPoll, In, Counted
      <4>2. CASE ~WorkerDrain /\ ~WorkerPoll
        <5>1. stage'[r] # "dropped" \/ stage'[r] = stage[r] \/ stage[r] \in {"freed", "erased"}
          BY <4>2, <1>2, <2>2, <1>0 DEF WorkerNext, WorkerPredicate, WorkerSleeps, WorkerWakes, WorkerScan,
            DeliverCancellation, CancellationDelivered, EraseIncomingCancellationFlag, DeliverResponse, SendMessage, WorkerDelivered,
            WorkerPolled
        <5>2. ~(stage[r] = "ready" /\ stage'[r] = "freed")
          BY <4>2, <1>2, <2>2, <1>0 DEF WorkerNext, WorkerPredicate, WorkerSleeps, WorkerWakes, WorkerScan,
            DeliverCancellation, CancellationDelivered, EraseIncomingCancellationFlag, DeliverResponse, SendMessage, WorkerDelivered,
            WorkerPolled
        <5>3. WorkerMoves(r) /\ r \notin Cancellations
          BY <1>2, <1>0, WorkerStages
        <5> QED BY <5>1, <5>2, <5>3 DEF WorkerMoves, Counted
      <4> QED BY <4>1, <4>2
    <3> QED BY <3>1, <3>2, <3>3, <1>q
  <2> QED BY <2>1, <2>2
<1>3. ASSUME NEW r \in Requests, Receive(r) PROVE SlotAccounting'
  BY <1>3, <1>0, <1>q DEF Receive, PeerMaySend, Counted
<1>4. CASE Handles /\ ~EnqueueResponse
  <2>1. UNCHANGED <<outstanding, worker>>
    BY <1>4 DEF Handles, Reject, Accept, HandlerThrows, SendErrorResponse, HandlerReturns
  <2>2. \A r \in Requests : stage'[r] \in Counted <=> stage[r] \in Counted
    BY <1>4, <1>0, HandMoves DEF Handles, Counted
  <2> QED BY <2>1, <2>2, <1>q
<1>5. CASE EnqueueResponse
  <2>1. cur \in Requests /\ stage[cur] = "made" /\ UNCHANGED worker
    BY <1>5 DEF EnqueueResponse, InHand, HandFull, Full
  <2>2. CASE closed \/ QueueFull
    BY <1>5, <2>1, <2>2, <1>0, <1>q DEF EnqueueResponse, AfterRefusal, Counted
  <2>3. CASE ~closed /\ ~QueueFull
    <3>1. outstanding' = outstanding + 1 /\ outstanding' <= capacity /\ worker # "exited"
      BY <1>5, <2>3, <1>0 DEF EnqueueResponse, QueueFull, Threads
    <3>2. Slots' = Slots \cup {cur} /\ cur \notin Slots
      BY <1>5, <2>1, <2>3, <1>0 DEF EnqueueResponse, Slots, Counted
    <3>3. Cardinality(Slots \cup {cur}) = Cardinality(Slots) + 1
      BY <3>2, <1>s, FS_AddElement
    <3> QED BY <3>1, <3>2, <3>3, <1>s, <1>0, <1>p
  <2> QED BY <2>2, <2>3
<1>6. CASE LoopNotify \/ LoopExit
  BY <1>6, <1>q DEF LoopNotify, LoopExit, Notified
<1>7. ASSUME NEW c \in Cancellations, EnqueueCancellation(c) PROVE SlotAccounting'
  BY <1>7, <1>0, <1>q DEF EnqueueCancellation, Notified
<1> QED BY <1>1, <1>2, <1>3, <1>4, <1>5, <1>6, <1>7, Zenon DEF Next, LoopNext, LoopWorks, Handles, Aside

(* The flag under the key of a request in work stays its own. *)
LEMMA FlagStep ==
  ASSUME TypeOK, InHand, HandFull, IdsApart, Threads, FlagIsOwn, [Next]_vars PROVE FlagIsOwn'
<1>0. /\ stage \in [Items -> Stages] /\ Requests \subseteq Items /\ Requests \cap Cancellations = {}
      /\ flags \in [Keys -> Requests \cup {None}] /\ \A r \in Requests : SessionRequestKey(r) \in Keys
  BY ConstantsAssumption, KeyIn DEF TypeOK, Items
<1>f. FlagIsOwn <=> (close # "done" =>
                       \A r \in Requests : stage[r] \in Flagged => flags[SessionRequestKey(r)] = r)
  BY DEF FlagIsOwn, Flagged
<1>g. ASSUME close' # "done" => \A r \in Requests : stage'[r] \in Flagged => flags'[SessionRequestKey(r)] = r
      PROVE  FlagIsOwn'
  BY <1>g DEF FlagIsOwn, Flagged
<1>e. ASSUME NEW r \in Requests, stage[r] \notin {"new", "done", "absent"}, EraseFlag(r), stage'[r] \notin Flagged,
             \A q \in Requests \ {r} : stage'[q] = stage[q], close' = close
      PROVE  FlagIsOwn'
  <2>1. \A q \in Requests \ {r} : stage[q] \in Flagged => SessionRequestKey(q) # SessionRequestKey(r)
    BY <1>e DEF IdsApart, Flagged
  <2>2. \A q \in Requests : SessionRequestKey(q) # SessionRequestKey(r)
           => flags'[SessionRequestKey(q)] = flags[SessionRequestKey(q)]
    BY <1>e, <1>0 DEF EraseFlag
  <2> QED BY <1>e, <1>f, <1>g, <2>1, <2>2
<1>k. ASSUME UNCHANGED <<flags, close>>, \A r \in Requests : stage'[r] \in Flagged => stage[r] \in Flagged
      PROVE  FlagIsOwn'
  BY <1>k, <1>f, <1>g
<1>1. CASE Aside
  <2>1. close = "done" => close' = "done"
    <3>1. CASE CloseNext
      <4>1. close = "done" => closed
        BY DEF Threads
      <4> QED BY <3>1, <4>1 DEF CloseNext, CloseBegins, CloseJoinsLoop, LoopJoined, CloseBarrier, CloseNotifies,
                                CloseJoinsWorker, CloseClears
    <3>2. CASE ~CloseNext
      BY <1>1, <3>2 DEF Aside, Fulfil, SetResponseQueueCapacity, HandleCancelled, NotClose, vars
    <3> QED BY <3>1, <3>2
  <2> QED BY <1>1, <2>1, <1>f, <1>g, AsideStages
<1>2. CASE WorkerNext
  <2>1. CASE \E r \in Requests : EraseIncomingCancellationFlag(r) /\ EraseFlag(r)
    <3>1. PICK r \in Requests : EraseIncomingCancellationFlag(r) /\ EraseFlag(r)
      BY <2>1
    <3>2. /\ stage[r] = "freed" /\ stage'[r] \in {"dropped", "erased"} /\ close' = close
          /\ \A q \in Requests \ {r} : stage'[q] = stage[q]
      BY <3>1, <1>0 DEF EraseIncomingCancellationFlag, WorkerOnly
    <3> QED BY <3>1, <3>2, <1>e DEF Flagged
  <2>2. CASE ~\E r \in Requests : EraseIncomingCancellationFlag(r) /\ EraseFlag(r)
    <3>1. UNCHANGED flags
      BY <1>2, <2>2 DEF WorkerNext, WorkerDrain, WorkerPredicate, WorkerSleeps, WorkerWakes, WorkerScan,
            DeliverCancellation, CancellationDelivered, ReleaseResponseSlot, EraseIncomingCancellationFlag, DeliverResponse, SendMessage,
            WorkerDelivered, WorkerPoll, WorkerPolled
    <3>2. close' = close /\ \A r \in Requests : WorkerMoves(r)
      BY <1>2, <1>0, WorkerStages DEF WorkerOnly
    <3>3. \A r \in Requests : stage'[r] \in Flagged => stage[r] \in Flagged
      BY <3>2 DEF WorkerMoves, Flagged
    <3> QED BY <3>1, <3>2, <3>3, <1>k
  <2> QED BY <2>1, <2>2
<1>3. ASSUME NEW r \in Requests, Receive(r) PROVE FlagIsOwn'
  BY <1>3, <1>0, <1>k DEF Receive, NotClose, Flagged
<1>h. Handles => NotClose /\ cur \in Requests /\ \A q \in Items \ {cur} : stage'[q] = stage[q]
  BY HandMoves DEF Handles
<1>4. CASE Accept
  <2>1. /\ cur \in Requests /\ stage'[cur] = "handling" /\ \A q \in Requests \ {cur} : stage'[q] = stage[q]
        /\ stage[cur] = "asked" /\ flags' = [flags EXCEPT ![SessionRequestKey(cur)] = cur] /\ close' = close
    BY <1>4, <1>h, <1>0 DEF Accept, Handles, NotClose, LoopAt, InHand
  <2>2. \A q \in Requests \ {cur} : stage'[q] \in Flagged => SessionRequestKey(q) # SessionRequestKey(cur)
    BY <2>1 DEF IdsApart, Flagged
  <2>3. flags'[SessionRequestKey(cur)] = cur
    BY <2>1, <1>0
  <2>4. \A q \in Requests : SessionRequestKey(q) # SessionRequestKey(cur)
           => flags'[SessionRequestKey(q)] = flags[SessionRequestKey(q)]
    BY <2>1, <1>0
  <2> QED BY <2>1, <2>2, <2>3, <2>4, <1>f, <1>g
<1>5. CASE HandlerThrows
  <2>1. cur \in Requests /\ stage[cur] = "handling" /\ close' = close
    BY <1>5, <1>h DEF HandlerThrows, Handles, NotClose, LoopAt, InHand
  <2>2. EraseFlag(cur) /\ stage'[cur] = "refused" /\ \A q \in Requests \ {cur} : stage'[q] = stage[q]
    BY <1>5, <2>1, <1>0 DEF HandlerThrows
  <2> QED BY <2>1, <2>2, <1>e DEF Flagged
<1>6. CASE Reject \/ SendErrorResponse \/ \E f : HandlerReturns(f)
  <2>1. UNCHANGED flags
    BY <1>6 DEF Reject, SendErrorResponse, HandlerReturns
  <2>2. close' = close /\ \A r \in Requests : stage'[r] \in Flagged => stage[r] \in Flagged
    <3>1. stage[cur] = "handling" \/ stage'[cur] \in {"refused", "done"}
      BY <1>6, <1>h, <1>0 DEF Handles, Reject, SendErrorResponse, HandlerReturns, LoopAt, InHand
    <3> QED BY <1>6, <3>1, <1>h, <1>0 DEF Handles, NotClose, Flagged
  <2> QED BY <2>1, <2>2, <1>k
<1>7. CASE EnqueueResponse
  <2>1. cur \in Requests /\ stage[cur] = "made" /\ close' = close
    BY <1>7 DEF EnqueueResponse, NotClose, InHand, HandFull, Full
  <2>2. CASE flags' = flags
    <3>1. \A r \in Requests : stage'[r] \in Flagged => stage[r] \in Flagged
      BY <1>7, <2>1, <1>0 DEF EnqueueResponse, Flagged
    <3> QED BY <2>1, <2>2, <3>1, <1>k
  <2>3. CASE flags' # flags
    <3>1. /\ EraseFlag(cur) /\ stage'[cur] = "refused" /\ \A q \in Requests \ {cur} : stage'[q] = stage[q]
      BY <1>7, <2>1, <2>3, <1>0 DEF EnqueueResponse, AfterRefusal
    <3> QED BY <2>1, <3>1, <1>e DEF Flagged
  <2> QED BY <2>2, <2>3
<1>8. CASE LoopNotify \/ LoopExit
  BY <1>8, <1>k DEF LoopNotify, LoopExit, NotClose
<1>9. ASSUME NEW c \in Cancellations, EnqueueCancellation(c) PROVE FlagIsOwn'
  BY <1>9, <1>0, <1>k DEF EnqueueCancellation, NotClose
<1> QED BY <1>1, <1>2, <1>3, <1>4, <1>5, <1>6, <1>7, <1>8, <1>9, Zenon DEF Next, LoopNext, LoopWorks, Handles, Aside

--------------------------------------------------------------------------------
(* Theorems *)

(* The invariant holds initially. *)
LEMMA InitIInv == Init => IInv
<1> SUFFICES ASSUME Init PROVE IInv
  OBVIOUS
<1>1. InHand /\ HandFull /\ DoneIsAnswered /\ IdsApart /\ Threads /\ FlagIsOwn /\ OneOut /\ Within
  BY DEF Init, InHand, HandFull, Full, DoneIsAnswered, IdsApart, Threads, FlagIsOwn, Items, Leaving, OneOut, Out, Within
<1>2. SlotAccounting
  <2>1. {r \in Requests : stage[r] \in {"queue", "waiting", "ready"}} = {}
    BY DEF Init, Items
  <2>2. Cardinality({}) = 0 /\ DefaultCapacity \in Nat
    BY FS_EmptySet, ConstantsAssumption
  <2> QED BY <2>1, <2>2 DEF Init, SlotAccounting
<1> QED BY <1>1, <1>2, InitTypeOK DEF IInv

(* The invariant is inductive, and it holds of the session. *)
THEOREM SessionInvariant == Spec => []IInv
<1>1. IInv /\ [Next]_vars => IInv'
  BY TypeOKStep, InHandStep, DoneStep, IdsApartStep, ThreadsStep, OneOutStep, WithinStep, SlotStep, FlagStep DEF IInv
<1> QED BY <1>1, InitIInv, PTL DEF Spec

(* Each request is answered once at most, takes one slot of the response queue from its admission *)
(* to its release and none after it, and keeps the cancellation flag under its key to itself,      *)
(* whatever the session ids and request ids are.                                                   *)
THEOREM ResponsesAccounted == Spec => []AnswersAccounted
<1>1. IInv => AnswersAccounted
  BY DEF IInv, DoneIsAnswered, AtMostOneAnswer, AnswersAccounted
<1> QED BY <1>1, SessionInvariant, PTL

(* After Close has returned, whichever thread called it, the message loop and the response worker  *)
(* send no answer but to the request within which Close was called on one of them.                 *)
THEOREM CloseIsSilent == Spec => SilentAfterClose
<1> DEFINE Silent == \A r \in Requests \ {within} : answers'[r] = answers[r]
<1>1. IInv /\ [Next]_vars => [close = "done" => Silent]_vars
  <2> SUFFICES ASSUME IInv, [Next]_vars, close = "done" PROVE Silent
    OBVIOUS
  <2>0. /\ loop = "exited" \/ closer = "loop"
        /\ worker = "exited" \/ closer = "worker"
        /\ answers \in [Requests -> Nat] /\ Requests \subseteq Items
    BY DEF IInv, Threads, LoopJoined, TypeOK, Items
  <2>1. CASE SendErrorResponse
    <3>1. loop = "refuse" /\ cur = within /\ answers' = Answered(cur)
      BY <2>0, <2>1 DEF SendErrorResponse, LoopAt, IInv, Within, Full
    <3> QED BY <3>1, <2>0 DEF Answered
  <2>2. ASSUME NEW r \in Requests, SendMessage(r) PROVE Silent
    <3>1. stage[r] = "sending" /\ answers' = Answered(r)
      BY <2>2 DEF SendMessage
    <3>2. worker = "deliver"
      BY <3>1, <2>0 DEF IInv, Threads, Leaving
    <3>3. r = within
      BY <3>1, <3>2, <2>0 DEF IInv, Within
    <3> QED BY <3>1, <3>3, <2>0 DEF Answered
  <2>3. CASE ~SendErrorResponse /\ ~\E r \in Requests : SendMessage(r)
    <3>1. CASE Aside
      BY <3>1, AsideStages
    <3>2. CASE WorkerNext
      BY <3>2, <2>3 DEF WorkerNext, WorkerDrain, WorkerPredicate, WorkerSleeps, WorkerWakes, WorkerScan,
            DeliverCancellation, CancellationDelivered, ReleaseResponseSlot, EraseIncomingCancellationFlag,
            DeliverResponse, WorkerDelivered, WorkerPoll, WorkerPolled
    <3>3. CASE Handles \/ \E r \in Requests : Receive(r)
      BY <3>3, <2>3 DEF Handles, Receive, Reject, Accept, HandlerThrows, HandlerReturns, EnqueueResponse
    <3>4. CASE LoopNotify \/ LoopExit \/ \E c \in Cancellations : EnqueueCancellation(c)
      BY <3>4 DEF LoopNotify, LoopExit, EnqueueCancellation
    <3> QED BY <3>1, <3>2, <3>3, <3>4, Zenon DEF Next, LoopNext, LoopWorks, Handles, Aside
  <2> QED BY <2>1, <2>2, <2>3, Zenon
<1> QED BY <1>1, SessionInvariant, PTL DEF Spec, SilentAfterClose
================================================================================
