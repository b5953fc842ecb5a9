------------------------- MODULE SessionRequestsProofs -------------------------
(***************************************************************************)
(* Proofs about SessionRequests for any number of requests, tokens,        *)
(* timeouts and instants.  Then the envelopes that requests and answers    *)
(* travel in, for any message.                                             *)
(***************************************************************************)
EXTENDS SessionRequests, Envelopes, TLAPS

(* The owners and the outcomes the actions name are owners and outcomes. *)
LEMMA Names ==
    /\ {"loop", "timer", "worker", "close", "register", "cancel", "enqueue", "queue"}
         = Holders
    /\ {"response", "error", "timeout", "closed", "cancelled"} = Outcomes
    /\ Threads = {"loop", "timer", "worker"}
BY DEF Holders, Outcomes, Threads

(* The initial state is well typed. *)
LEMMA InitTypeOK == Init => TypeOK
<1> SUFFICES ASSUME Init PROVE TypeOK
    OBVIOUS
<1>1. held \in [Holders -> SUBSET (Ids \X Outcomes)] /\ outcome \in [Ids -> Seq(Outcomes)]
    BY DEF Init
<1>2. loop_msg \in Message \cup {NoMsg}
    BY DEF Init
<1>3. /\ deadline \in [Ids -> Nat] /\ absolute \in [Ids -> Nat]
      /\ cancels \in [Ids -> Nat] /\ token_map \in [Tokens -> Ids \cup {NoId}]
    BY DEF Init, NoCap
<1>4. /\ pending \subseteq Ids /\ cancel_on_timeout \subseteq Ids /\ sending \subseteq Ids
      /\ sent \subseteq Ids /\ cancelled \subseteq Ids
    BY DEF Init
<1>5. /\ now \in Nat /\ max_total \in Nat /\ next_request_id \in Nat \ {0}
    BY DEF Init
<1>6. closed \in BOOLEAN
    BY Zenon DEF Init
<1> QED BY <1>1, <1>2, <1>3, <1>4, <1>5, <1>6 DEF Init, TypeOK

(* TakePending keeps the tables in their types. *)
LEMMA TakePendingType ==
    ASSUME TypeOK, NEW S \in SUBSET Ids, TakePending(S)
    PROVE  /\ pending' \subseteq Ids
           /\ deadline' \in [Ids -> Nat]
           /\ absolute' \in [Ids -> Nat]
           /\ token_map' \in [Tokens -> Ids \cup {NoId}]
BY DEF TypeOK, TakePending, EraseProgressTokens, NoCap, NoId

(* Hold keeps held in its type. *)
LEMMA HoldType ==
    ASSUME TypeOK, NEW h \in Holders, NEW S \in SUBSET Ids, NEW o \in Outcomes,
           Hold(h, S, o)
    PROVE  held' \in [Holders -> SUBSET (Ids \X Outcomes)]
BY DEF TypeOK, Hold

(* Every step keeps every variable of the session in its type. *)
LEMMA TypeOKStep == TypeOK /\ [Next]_vars => TypeOK'
<1> SUFFICES ASSUME TypeOK, [Next]_vars PROVE TypeOK'
    OBVIOUS
<1> USE DEF closeVars, reqVars, tableVars, answerVars, threadVars
<1>1. CASE Tick
    BY <1>1 DEF Tick, TypeOK
<1>2. CASE Start
    BY <1>2 DEF Start, TypeOK
<1>3. CASE \E total \in Totals : SetMaxTotalTimeout(total)
    BY <1>3, ConstantsAssumption DEF SetMaxTotalTimeout, TypeOK
<1>4. ASSUME NEW timeout \in Timeouts, NEW token \in Tokens \cup {NoToken},
             NEW cot \in CancelOnTimeout, RegisterRequest(timeout, token, cot)
      PROVE  TypeOK'
  <2>1. next_request_id \in Ids /\ now + timeout \in Nat /\ now + max_total \in Nat
      BY <1>4, ConstantsAssumption DEF RegisterRequest, TypeOK, Ids
  <2>2. CASE RefusedByClose
    <3>1. Hold("register", {next_request_id}, "closed")
        BY <1>4, <2>2 DEF RegisterRequest
    <3>2. held' \in [Holders -> SUBSET (Ids \X Outcomes)]
        BY <2>1, <3>1, HoldType, Names
    <3>3. deadline' \in [Ids -> Nat] /\ cancel_on_timeout' \subseteq Ids
        BY <1>4, <2>1 DEF RegisterRequest, TypeOK
    <3>4. next_request_id' \in Nat \ {0}
        BY <1>4 DEF RegisterRequest, TypeOK
    <3> QED BY <1>4, <2>2, <3>2, <3>3, <3>4, SMTT(30) DEF RegisterRequest, TypeOK
  <2>3. CASE ~RefusedByClose
    <3>1. deadline' \in [Ids -> Nat] /\ cancel_on_timeout' \subseteq Ids
        BY <1>4, <2>1 DEF RegisterRequest, TypeOK
    <3>2. pending' \subseteq Ids /\ sending' \subseteq Ids /\ absolute' \in [Ids -> Nat]
      <4>1. /\ pending' = pending \cup {next_request_id} /\ sending' = sending \cup {next_request_id}
            /\ absolute' = IF max_total > 0 THEN [absolute EXCEPT ![next_request_id] = now + max_total]
                           ELSE absolute
          BY <1>4, <2>3 DEF RegisterRequest
      <4>2. pending \subseteq Ids /\ sending \subseteq Ids /\ absolute \in [Ids -> Nat]
          BY DEF TypeOK
      <4>3. absolute' \in [Ids -> Nat]
          BY <2>1, <4>1, <4>2
      <4> QED BY <2>1, <4>1, <4>2, <4>3
    <3>3. token_map' \in [Tokens -> Ids \cup {NoId}]
        BY <1>4, <2>1, <2>3 DEF RegisterRequest, TypeOK, MapToken, NoToken
    <3>4. next_request_id' \in Nat \ {0}
        BY <1>4 DEF RegisterRequest, TypeOK
    <3>5. UNCHANGED <<now, max_total, sent, held, outcome, cancels, cancelled, threadVars, closeVars>>
        BY <1>4, <2>3 DEF RegisterRequest
    <3> QED BY <3>1, <3>2, <3>3, <3>4, <3>5 DEF TypeOK
  <2> QED BY <2>2, <2>3
<1>5. ASSUME NEW r \in Ids, SendMessage(r)
      PROVE  TypeOK'
    BY <1>5, SMTT(30) DEF SendMessage, TypeOK
<1>6. ASSUME NEW r \in Ids, CancelRequest(r)
      PROVE  TypeOK'
  <2>1. TakePending({r}) /\ Hold("cancel", {r}, "cancelled")
      BY <1>6 DEF CancelRequest
  <2>2. held' \in [Holders -> SUBSET (Ids \X Outcomes)]
      BY <2>1, HoldType, Names
  <2>3. /\ pending' \subseteq Ids /\ deadline' \in [Ids -> Nat]
        /\ absolute' \in [Ids -> Nat] /\ token_map' \in [Tokens -> Ids \cup {NoId}]
      BY <2>1, TakePendingType
  <2>4. cancelled' \subseteq Ids
      BY <1>6 DEF CancelRequest, TypeOK
  <2>5. UNCHANGED <<now, reqVars, outcome, cancels, threadVars, closeVars>>
      BY <1>6 DEF CancelRequest
  <2>6. outcome' \in [Ids -> Seq(Outcomes)] /\ cancels' \in [Ids -> Nat]
      BY <2>5 DEF TypeOK
  <2> QED BY <2>2, <2>3, <2>4, <2>5, <2>6, SMTT(30) DEF TypeOK
<1>7. ASSUME NEW r \in Ids, CancelTransportRequest(r)
      PROVE  TypeOK'
  <2>a. <<r, "cancelled">> \in Ids \X Outcomes
      BY DEF Outcomes
  <2>1. held' \in [Holders -> SUBSET (Ids \X Outcomes)]
      BY <1>7, <2>a DEF CancelTransportRequest, TypeOK
  <2>2. cancels' \in [Ids -> Nat]
      BY <1>7 DEF CancelTransportRequest, TypeOK
  <2>3. UNCHANGED <<now, reqVars, tableVars, outcome, cancelled, threadVars, closeVars>>
      BY <1>7 DEF CancelTransportRequest
  <2> QED BY <2>1, <2>2, <2>3, SMTT(30) DEF TypeOK
<1>8. ASSUME NEW r \in Ids, EnqueueCancellation(r)
      PROVE  TypeOK'
  <2>a. <<r, "cancelled">> \in Ids \X Outcomes
      BY DEF Outcomes
  <2>1. held' \in [Holders -> SUBSET (Ids \X Outcomes)]
      BY <1>8, <2>a DEF EnqueueCancellation, TypeOK
  <2>2. UNCHANGED <<now, reqVars, tableVars, outcome, cancels, cancelled, threadVars,
                    closeVars>>
      BY <1>8 DEF EnqueueCancellation
  <2> QED BY <2>1, <2>2, SMTT(30) DEF TypeOK
<1>9. ASSUME NEW r \in Ids, DiscardCancellation(r)
      PROVE  TypeOK'
    BY <1>9, Names, SMTT(30) DEF DiscardCancellation, TypeOK
<1>10. ASSUME NEW m \in Message, LoopReceive(m)
       PROVE  TypeOK'
    BY <1>10 DEF LoopReceive, TypeOK
<1>11. Expired \subseteq Ids
    BY DEF Expired, TypeOK
<1>12. CASE LoopSweep
  <2>1. TakePending(Expired) /\ Hold("loop", Expired, "timeout")
      BY <1>12 DEF LoopSweep
  <2>2. held' \in [Holders -> SUBSET (Ids \X Outcomes)]
      BY <1>11, <2>1, HoldType, Names
  <2> QED BY <1>11, <1>12, <2>1, <2>2, TakePendingType, SMTT(30) DEF LoopSweep, TypeOK
<1>13. CASE LoopDispatch
  <2>1. CASE UNCHANGED <<tableVars, held>>
      BY <1>13, <2>1 DEF LoopDispatch, TypeOK
  <2>2. CASE /\ loop_msg.kind \in {"response", "error"}
             /\ OnAnswer(loop_msg.id, loop_msg.kind)
    <3>1. CASE FindPending(loop_msg.id)
      <4>1. TakePending({loop_msg.id}) /\ Hold("loop", {loop_msg.id}, loop_msg.kind)
          BY <2>2, <3>1 DEF OnAnswer
      <4>2. {loop_msg.id} \in SUBSET Ids
          BY <3>1 DEF FindPending, TypeOK
      <4>3. held' \in [Holders -> SUBSET (Ids \X Outcomes)]
          BY <2>2, <4>1, <4>2, HoldType, Names
      <4> QED BY <1>13, <4>1, <4>2, <4>3, TakePendingType, SMTT(30) DEF LoopDispatch, TypeOK
    <3>2. CASE ~FindPending(loop_msg.id)
        BY <1>13, <2>2, <3>2 DEF LoopDispatch, OnAnswer, TypeOK
    <3> QED BY <3>1, <3>2
  <2>3. CASE ResetTimeoutByProgressToken(loop_msg.token)
    <3>1. deadline' \in [Ids -> Nat]
        BY <2>3, ConstantsAssumption DEF ResetTimeoutByProgressToken, TypeOK
    <3> QED BY <1>13, <2>3, <3>1 DEF LoopDispatch, ResetTimeoutByProgressToken, TypeOK
  <2> QED BY <1>13, <2>1, <2>2, <2>3 DEF LoopDispatch
<1>14. CASE LoopExit
    BY <1>14 DEF LoopExit, TypeOK
<1>15. CASE TimerCheck
    BY <1>15 DEF TimerCheck, TypeOK
<1>16. CASE TimerSweep
  <2>1. TakePending(Expired) /\ Hold("timer", Expired, "timeout")
      BY <1>16 DEF TimerSweep
  <2>2. held' \in [Holders -> SUBSET (Ids \X Outcomes)]
      BY <1>11, <2>1, HoldType, Names
  <2> QED BY <1>11, <1>16, <2>1, <2>2, TakePendingType DEF TimerSweep, TypeOK
<1>17. ASSUME NEW h \in Threads \cup {"close", "register"}, Deliver(h)
       PROVE  TypeOK'
  <2>1. PICK r \in Ids, o \in Outcomes : DeliverOutcome(h, r, o)
      BY <1>17 DEF Deliver
  <2>2. outcome' \in [Ids -> Seq(Outcomes)]
      BY <2>1 DEF DeliverOutcome, TypeOK
  <2>3. cancels' \in [Ids -> Nat]
      BY <2>1 DEF DeliverOutcome, TypeOK
  <2>4. held' \in [Holders -> SUBSET (Ids \X Outcomes)]
      BY <2>1 DEF DeliverOutcome, TypeOK
  <2>5. CASE UNCHANGED closeVars
      BY <2>1, <2>2, <2>3, <2>4, <2>5, SMTT(30) DEF DeliverOutcome, TypeOK
  <2>6. CASE h \in Threads /\ BeginClose(h)
    <3>1. closed' = TRUE /\ close' = "loop" /\ closer' \in Threads
        BY <2>6 DEF BeginClose
    <3>2. UNCHANGED <<now, reqVars, tableVars, cancelled, threadVars>>
        BY <2>1 DEF DeliverOutcome
    <3> QED BY <2>2, <2>3, <2>4, <3>1, <3>2, SMTT(30) DEF TypeOK
  <2> QED BY <2>1, <2>5, <2>6 DEF DeliverOutcome
<1>18. CASE WorkerDrain
  <2>1. held \in [Holders -> SUBSET (Ids \X Outcomes)]
      BY DEF TypeOK
  <2>2. Ready \in SUBSET (Ids \X Outcomes)
      BY <2>1, Names DEF Ready
  <2>3. held' \in [Holders -> SUBSET (Ids \X Outcomes)]
      BY <1>18, <2>1, <2>2, Names DEF WorkerDrain
  <2>4. UNCHANGED <<now, reqVars, tableVars, outcome, cancels, cancelled, threadVars, closeVars>>
      BY <1>18 DEF WorkerDrain
  <2> QED BY <2>3, <2>4 DEF TypeOK
<1>19. CASE WorkerExit
    BY <1>19, Names DEF WorkerExit, TypeOK
<1>20. CASE CloseByApp
    BY <1>20, Names DEF CloseByApp, BeginClose, TypeOK
<1>21. ASSUME NEW t \in Threads, Join(t)
       PROVE  TypeOK'
    BY <1>21, Names DEF Join, AfterJoin, TypeOK
<1>22. CASE Collect
  <2>1. TakePending(pending) /\ Hold("close", pending, "closed") /\ pending \subseteq Ids
      BY <1>22 DEF Collect, ToFire, TypeOK
  <2>2. held' \in [Holders -> SUBSET (Ids \X Outcomes)]
      BY <2>1, HoldType, Names
  <2> QED BY <1>22, <2>1, <2>2, TakePendingType DEF Collect, TypeOK
<1>23. CASE CloseReturns
    BY <1>23 DEF CloseReturns, TypeOK
<1>24. CASE UNCHANGED vars
    BY <1>24 DEF vars, TypeOK
<1> QED BY <1>1, <1>2, <1>3, <1>4, <1>5, <1>6, <1>7, <1>8, <1>9, <1>10, <1>12, <1>13,
           <1>14, <1>15, <1>16, <1>17, <1>18, <1>19, <1>20, <1>21, <1>22, <1>23, <1>24
        DEF Next

(* Type correctness of the session for every value of the constants. *)
THEOREM TypeCorrect == Spec => []TypeOK
BY InitTypeOK, TypeOKStep, PTL DEF Spec

--------------------------------------------------------------------------------
(* Ownership *)

ownVars == <<next_request_id, pending, held, outcome, cancels, cancelled>>

(* Ownership reads only ownVars. *)
LEMMA OwnershipFrame == Ownership /\ UNCHANGED ownVars => Ownership'
BY DEF Ownership, PendingUntouched, OneOwner, OwnerKnowsOutcome, FreshUntouched, ownVars

(* An entry that leaves pending_ gets its one owner in the same step.  This is the *)
(* locked region of CheckTimeouts, RemovePending, RemovePendingByRequestId, Close. *)
LEMMA OwnershipTake ==
    ASSUME TypeOK, TypeOK', Ownership,
           NEW S \in SUBSET pending, NEW h \in Holders, NEW o \in Outcomes,
           pending' = pending \ S, Hold(h, S, o),
           o = "cancelled" <=> h \in Cancelling,
           h \notin {"enqueue", "queue", "worker"},
           o = "cancelled" => S \subseteq cancelled',
           cancelled \subseteq cancelled',
           UNCHANGED <<next_request_id, outcome, cancels>>
    PROVE  Ownership'
<1>1. ASSUME NEW g \in Holders, NEW r \in Ids, NEW q \in Outcomes, <<r, q>> \in held'[g]
      PROVE  <<r, q>> \in held[g] \/ (g = h /\ q = o /\ r \in S)
    BY <1>1 DEF Hold, TypeOK
<1>2. PendingUntouched'
    BY DEF Ownership, PendingUntouched
<1>3. OneOwner'
  <2> SUFFICES ASSUME NEW g \in Holders, NEW r \in Ids, NEW q \in Outcomes,
                      <<r, q>> \in held'[g]
               PROVE  /\ r < next_request_id /\ r \notin pending' /\ outcome[r] = <<>>
                      /\ \A g2 \in Holders, q2 \in Outcomes :
                            <<r, q2>> \in held'[g2] => g2 = g /\ q2 = q
      BY DEF OneOwner
  <2>1. CASE r \in S
    <3>1. \A g2 \in Holders, q2 \in Outcomes : <<r, q2>> \notin held[g2]
        BY <2>1 DEF Ownership, OneOwner
    <3> QED BY <1>1, <2>1, <3>1 DEF Ownership, PendingUntouched
  <2>2. CASE r \notin S
      BY <1>1, <2>2 DEF Ownership, OneOwner
  <2> QED BY <2>1, <2>2
<1>4. OwnerKnowsOutcome'
  <2> SUFFICES ASSUME NEW g \in Holders, NEW r \in Ids, NEW q \in Outcomes,
                      <<r, q>> \in held'[g]
               PROVE  /\ q = "cancelled" <=> g \in Cancelling
                      /\ q = "cancelled" => r \in cancelled'
                      /\ cancels[r] <= IF g \in {"enqueue", "queue", "worker"} THEN 1 ELSE 0
      BY DEF OwnerKnowsOutcome
  <2>1. CASE <<r, q>> \in held[g]
      BY <2>1 DEF Ownership, OwnerKnowsOutcome
  <2>2. CASE g = h /\ q = o /\ r \in S
      BY <2>2 DEF Ownership, PendingUntouched
  <2> QED BY <1>1, <2>1, <2>2
<1>5. FreshUntouched'
    BY DEF Ownership, FreshUntouched
<1> QED BY <1>2, <1>3, <1>4, <1>5 DEF Ownership

(* Owners may give a request up: what they hold shrinks, the rest is as it was. *)
LEMMA OwnershipDrop ==
    ASSUME Ownership, \A h \in Holders : held'[h] \subseteq held[h],
           UNCHANGED <<next_request_id, pending, outcome, cancels, cancelled>>
    PROVE  Ownership'
<1>1. PendingUntouched' /\ FreshUntouched'
    BY DEF Ownership, PendingUntouched, FreshUntouched
<1>2. OneOwner'
    BY DEF Ownership, OneOwner
<1>3. OwnerKnowsOutcome'
    BY DEF Ownership, OwnerKnowsOutcome
<1> QED BY <1>1, <1>2, <1>3 DEF Ownership

(* RegisterRequest hands out a fresh id, to pending_ or to the thread that calls. *)
LEMMA OwnershipRegister ==
    ASSUME TypeOK, TypeOK', Ownership,
           NEW timeout \in Timeouts, NEW token \in Tokens \cup {NoToken},
           NEW cot \in CancelOnTimeout, RegisterRequest(timeout, token, cot)
    PROVE  Ownership'
<1> DEFINE n == next_request_id
<1>1. /\ n \in Ids /\ next_request_id' = n + 1 /\ n \in Nat
      /\ UNCHANGED <<outcome, cancels, cancelled>>
    BY ConstantsAssumption DEF RegisterRequest, TypeOK, Ids
<1>2. /\ outcome[n] = <<>> /\ cancels[n] = 0 /\ n \notin pending
      /\ \A h \in Holders, o \in Outcomes : <<n, o>> \notin held[h]
    BY <1>1 DEF Ownership, FreshUntouched, OneOwner, PendingUntouched
<1>3. \A r \in Ids : r \in Nat
    BY DEF Ids
<1>4. FreshUntouched'
  <2>1. \A r \in Ids : r >= n => outcome[r] = <<>> /\ cancels[r] = 0
      BY DEF Ownership, FreshUntouched
  <2>2. \A r \in Ids : r >= n + 1 => r >= n
      BY <1>1, <1>3
  <2>3. \A r \in Ids : r >= n + 1 => outcome[r] = <<>> /\ cancels[r] = 0
      BY <2>1, <2>2, Zenon
  <2> QED BY <1>1, <2>3 DEF FreshUntouched
<1>5. CASE RefusedByClose
  <2>1. Hold("register", {n}, "closed") /\ pending' = pending
      BY <1>5 DEF RegisterRequest
  <2>2. ASSUME NEW h \in Holders, NEW r \in Ids, NEW o \in Outcomes, <<r, o>> \in held'[h]
        PROVE  <<r, o>> \in held[h] \/ (h = "register" /\ o = "closed" /\ r = n)
      BY <2>1, <2>2 DEF Hold, TypeOK
  <2>3. PendingUntouched'
      BY <1>1, <1>3, <2>1 DEF Ownership, PendingUntouched, TypeOK
  <2>4. OneOwner'
    <3> SUFFICES ASSUME NEW h \in Holders, NEW r \in Ids, NEW o \in Outcomes,
                        <<r, o>> \in held'[h]
                 PROVE  /\ r < next_request_id' /\ r \notin pending' /\ outcome'[r] = <<>>
                        /\ \A g \in Holders, q \in Outcomes :
                              <<r, q>> \in held'[g] => g = h /\ q = o
        BY DEF OneOwner
    <3>1. CASE r = n
        BY <1>1, <1>2, <2>1, <2>2, <3>1
    <3>2. CASE r # n
        BY <1>1, <1>3, <2>1, <2>2, <3>2 DEF Ownership, OneOwner
    <3> QED BY <3>1, <3>2
  <2>5. OwnerKnowsOutcome'
      BY <1>1, <1>2, <2>2 DEF Ownership, OwnerKnowsOutcome, Cancelling
  <2> QED BY <1>4, <2>3, <2>4, <2>5 DEF Ownership
<1>6. CASE ~RefusedByClose
  <2>1. held' = held /\ pending' = pending \cup {n}
      BY <1>6 DEF RegisterRequest
  <2>2. PendingUntouched'
      BY <1>1, <1>2, <1>3, <2>1 DEF Ownership, PendingUntouched, TypeOK
  <2>3. OneOwner'
      BY <1>1, <1>2, <1>3, <2>1 DEF Ownership, OneOwner
  <2>4. OwnerKnowsOutcome'
      BY <1>1, <2>1 DEF Ownership, OwnerKnowsOutcome
  <2> QED BY <1>4, <2>2, <2>3, <2>4 DEF Ownership
<1> QED BY <1>5, <1>6

(* A cancelled request moves on to its next owner: from CancelRequest to the queue *)
(* to the worker.                                                                  *)
LEMMA OwnershipMove ==
    ASSUME TypeOK, Ownership,
           NEW g \in Cancelling, NEW h \in {"enqueue", "queue", "worker"}, g # h,
           NEW S \in SUBSET held[g],
           held'[g] = held[g] \ S, held'[h] = held[h] \cup S,
           \A k \in Holders \ {g, h} : held'[k] = held[k],
           \A r \in Ids : \/ cancels'[r] = cancels[r]
                          \/ cancels'[r] = 1 /\ \E o \in Outcomes : <<r, o>> \in S,
           UNCHANGED <<next_request_id, pending, outcome, cancelled>>
    PROVE  Ownership'
<1>1. g \in Holders /\ h \in Holders
    BY DEF Cancelling, Holders, Threads
<1>2. ASSUME NEW k \in Holders, NEW r \in Ids, NEW o \in Outcomes, <<r, o>> \in held'[k]
      PROVE  \/ <<r, o>> \in held[k] /\ <<r, o>> \notin S
             \/ <<r, o>> \in held[g] /\ k = h /\ <<r, o>> \in S
             \/ <<r, o>> \in held[h] /\ <<r, o>> \notin S /\ k = h
  <2>1. CASE k = g
      BY <1>2, <2>1
  <2>2. CASE k = h
      BY <1>2, <2>2
  <2>3. CASE k \in Holders \ {g, h}
    <3>1. <<r, o>> \in held[k]
        BY <1>2, <2>3
    <3>2. <<r, o>> \notin held[g]
        BY <1>1, <2>3, <3>1 DEF Ownership, OneOwner
    <3> QED BY <3>1, <3>2
  <2> QED BY <2>1, <2>2, <2>3
<1>3. ASSUME NEW r \in Ids, NEW o \in Outcomes, <<r, o>> \in S
      PROVE  /\ r < next_request_id /\ r \notin pending
             /\ <<r, o>> \in held[g] /\ o = "cancelled" /\ r \in cancelled
  <2>1. <<r, o>> \in held[g]
      BY <1>3
  <2>2. r < next_request_id /\ r \notin pending
      BY <1>1, <2>1 DEF Ownership, OneOwner
  <2>3. o = "cancelled" /\ r \in cancelled
      BY <1>1, <2>1 DEF Ownership, OwnerKnowsOutcome
  <2> QED BY <2>1, <2>2, <2>3
<1>4. PendingUntouched'
    BY <1>3 DEF Ownership, PendingUntouched, TypeOK
<1>5. FreshUntouched'
  <2> SUFFICES ASSUME NEW r \in Ids, r >= next_request_id
               PROVE  outcome[r] = <<>> /\ cancels'[r] = 0
      BY DEF FreshUntouched
  <2>1. \A o \in Outcomes : <<r, o>> \notin S
      BY <1>3 DEF TypeOK, Ids
  <2> QED BY <2>1 DEF Ownership, FreshUntouched
<1>6. OneOwner'
  <2> SUFFICES ASSUME NEW k \in Holders, NEW r \in Ids, NEW o \in Outcomes,
                      <<r, o>> \in held'[k]
               PROVE  /\ r < next_request_id /\ r \notin pending /\ outcome[r] = <<>>
                      /\ \A k2 \in Holders, q \in Outcomes :
                            <<r, q>> \in held'[k2] => k2 = k /\ q = o
      BY DEF OneOwner
  <2>1. PICK k0 \in Holders : <<r, o>> \in held[k0]
      BY <1>1, <1>2
  <2>2. ASSUME NEW k2 \in Holders, NEW q \in Outcomes, <<r, q>> \in held'[k2]
        PROVE  k2 = k /\ q = o
    <3>1. PICK k1 \in Holders : <<r, q>> \in held[k1]
        BY <1>1, <1>2, <2>2
    <3>2. q = o
        BY <2>1, <3>1 DEF Ownership, OneOwner
    <3>3. CASE <<r, o>> \in S
        BY <1>2, <2>2, <3>2, <3>3
    <3>4. CASE <<r, o>> \notin S
      <4>1. <<r, o>> \in held[k] /\ <<r, o>> \in held[k2]
          BY <1>2, <2>2, <3>2, <3>4
      <4> QED BY <3>2, <4>1 DEF Ownership, OneOwner
    <3> QED BY <3>3, <3>4
  <2> QED BY <2>1, <2>2 DEF Ownership, OneOwner
<1>7. OwnerKnowsOutcome'
  <2> SUFFICES ASSUME NEW k \in Holders, NEW r \in Ids, NEW o \in Outcomes,
                      <<r, o>> \in held'[k]
               PROVE  /\ o = "cancelled" <=> k \in Cancelling
                      /\ o = "cancelled" => r \in cancelled
                      /\ cancels'[r] <= IF k \in {"enqueue", "queue", "worker"} THEN 1 ELSE 0
      BY DEF OwnerKnowsOutcome
  <2>1. CASE \E q \in Outcomes : <<r, q>> \in S
    <3>1. k = h /\ o = "cancelled"
        BY <1>1, <1>2, <1>3, <2>1 DEF Ownership, OneOwner
    <3>2. cancels[r] <= 1
        BY <1>1, <1>3, <2>1, <3>1 DEF Ownership, OwnerKnowsOutcome, TypeOK
    <3> QED BY <1>3, <2>1, <3>1, <3>2 DEF Cancelling
  <2>2. CASE ~\E q \in Outcomes : <<r, q>> \in S
      BY <1>2, <2>2 DEF Ownership, OwnerKnowsOutcome
  <2> QED BY <2>1, <2>2
<1> QED BY <1>4, <1>5, <1>6, <1>7 DEF Ownership

(* A delivered request has no owner left, so nobody else can deliver it. *)
LEMMA OwnershipDeliver ==
    ASSUME TypeOK, TypeOK', Ownership, NEW h \in Threads \cup {"close", "register"},
           NEW r \in Ids, NEW o \in Outcomes, DeliverOutcome(h, r, o)
    PROVE  Ownership'
<1>1. /\ h \in Holders /\ <<r, o>> \in held[h]
      /\ UNCHANGED <<next_request_id, pending, cancelled>>
    BY DEF DeliverOutcome, Holders, reqVars, tableVars
<1>2. r < next_request_id /\ r \notin pending
    BY <1>1 DEF Ownership, OneOwner
<1>3. ASSUME NEW g \in Holders, NEW x \in Ids, NEW q \in Outcomes, <<x, q>> \in held'[g]
      PROVE  <<x, q>> \in held[g] /\ x # r
    BY <1>1, <1>3, SMTT(30) DEF DeliverOutcome, TypeOK, Ownership, OneOwner
<1>4. \A x \in Ids : x # r => outcome'[x] = outcome[x] /\ cancels'[x] = cancels[x]
    BY DEF DeliverOutcome, TypeOK
<1>5. PendingUntouched'
    BY <1>1, <1>2, <1>4 DEF Ownership, PendingUntouched, TypeOK
<1>6. FreshUntouched'
  <2> SUFFICES ASSUME NEW x \in Ids, x >= next_request_id
               PROVE  outcome'[x] = <<>> /\ cancels'[x] = 0
      BY <1>1 DEF FreshUntouched
  <2>1. x # r
      BY <1>2 DEF TypeOK, Ids
  <2> QED BY <1>4, <2>1 DEF Ownership, FreshUntouched
<1>7. OneOwner'
    BY <1>1, <1>3, <1>4 DEF Ownership, OneOwner
<1>8. OwnerKnowsOutcome'
    BY <1>1, <1>3, <1>4 DEF Ownership, OwnerKnowsOutcome
<1> QED BY <1>5, <1>6, <1>7, <1>8 DEF Ownership

(* Every step of every thread keeps the ownership discipline. *)
LEMMA OwnershipStep == TypeOK /\ Ownership /\ [Next]_vars => Ownership'
<1> SUFFICES ASSUME TypeOK, Ownership, [Next]_vars PROVE Ownership'
    OBVIOUS
<1> USE DEF closeVars, reqVars, tableVars, answerVars, threadVars
<1>0. TypeOK'
    BY TypeOKStep
<1>1. CASE UNCHANGED ownVars
    BY <1>1, OwnershipFrame
<1>2. CASE \/ Tick \/ Start \/ LoopExit \/ TimerCheck \/ CloseByApp \/ CloseReturns
           \/ UNCHANGED vars
    BY <1>1, <1>2 DEF Tick, Start, LoopExit, TimerCheck, CloseByApp, CloseReturns, vars,
                      ownVars
<1>3. CASE \/ \E total \in Totals : SetMaxTotalTimeout(total)
           \/ \E r \in Ids : SendMessage(r)
           \/ \E m \in Message : LoopReceive(m)
           \/ \E t \in Threads : Join(t)
    BY <1>1, <1>3 DEF SetMaxTotalTimeout, SendMessage, LoopReceive, Join, ownVars
<1>4. CASE \E timeout \in Timeouts, token \in Tokens \cup {NoToken}, cot \in CancelOnTimeout :
             RegisterRequest(timeout, token, cot)
    BY <1>0, <1>4, OwnershipRegister
<1>5. ASSUME NEW r \in Ids, CancelRequest(r)
      PROVE  Ownership'
  <2>1. /\ {r} \in SUBSET pending /\ pending' = pending \ {r} /\ Hold("cancel", {r}, "cancelled")
        /\ cancelled' = cancelled \cup {r} /\ UNCHANGED <<next_request_id, outcome, cancels>>
      BY <1>5 DEF CancelRequest, TakePending, FindPending
  <2> QED BY <1>0, <2>1, Names, OwnershipTake DEF Cancelling
<1>6. ASSUME NEW r \in Ids, CancelTransportRequest(r)
      PROVE  Ownership'
  <2> DEFINE p == <<r, "cancelled">>
  <2>1. /\ p \in held["cancel"] /\ cancels' = [cancels EXCEPT ![r] = @ + 1]
        /\ held' = [held EXCEPT !["cancel"] = @ \ {p}, !["enqueue"] = @ \cup {p}]
        /\ UNCHANGED <<next_request_id, pending, outcome, cancelled>>
      BY <1>6 DEF CancelTransportRequest
  <2>2. /\ held'["cancel"] = held["cancel"] \ {p} /\ held'["enqueue"] = held["enqueue"] \cup {p}
        /\ \A k \in Holders \ {"cancel", "enqueue"} : held'[k] = held[k]
      BY <2>1, Names DEF TypeOK
  <2>3. cancels[r] = 0
    <3>1. "cancel" \in Holders /\ "cancelled" \in Outcomes
        BY Names
    <3>2. cancels[r] <= IF "cancel" \in {"enqueue", "queue", "worker"} THEN 1 ELSE 0
        BY <2>1, <3>1 DEF Ownership, OwnerKnowsOutcome
    <3> QED BY <3>2 DEF TypeOK
  <2>4. \A x \in Ids : \/ cancels'[x] = cancels[x]
                       \/ cancels'[x] = 1 /\ \E o \in Outcomes : <<x, o>> \in {p}
      BY <2>1, <2>3, Names DEF TypeOK
  <2>5. {p} \in SUBSET held["cancel"] /\ "cancel" \in Cancelling
      BY <2>1 DEF Cancelling
  <2>6. UNCHANGED <<next_request_id, pending, outcome, cancelled>>
      BY <2>1
  <2> HIDE DEF p
  <2> QED BY <2>2, <2>4, <2>5, <2>6, OwnershipMove
<1>7. ASSUME NEW r \in Ids, EnqueueCancellation(r)
      PROVE  Ownership'
  <2> DEFINE p == <<r, "cancelled">>
  <2>1. /\ p \in held["enqueue"]
        /\ held' = [held EXCEPT !["enqueue"] = @ \ {p},
                                !["queue"] = IF closed THEN @ ELSE @ \cup {p}]
        /\ UNCHANGED <<next_request_id, pending, outcome, cancels, cancelled>>
      BY <1>7 DEF EnqueueCancellation
  <2>2. CASE closed
    <3>1. \A h \in Holders : held'[h] \subseteq held[h]
        BY <2>1, <2>2 DEF TypeOK
    <3> QED BY <2>1, <3>1, OwnershipDrop
  <2>3. CASE ~closed
    <3>1. /\ held'["enqueue"] = held["enqueue"] \ {p} /\ held'["queue"] = held["queue"] \cup {p}
          /\ \A k \in Holders \ {"enqueue", "queue"} : held'[k] = held[k]
        BY <2>1, <2>3, Names DEF TypeOK
    <3>2. {p} \in SUBSET held["enqueue"] /\ "enqueue" \in Cancelling
        BY <2>1 DEF Cancelling
    <3>3. UNCHANGED <<next_request_id, pending, outcome, cancels, cancelled>>
        BY <2>1
    <3> HIDE DEF p
    <3> QED BY <3>1, <3>2, <3>3, OwnershipMove
  <2> QED BY <2>2, <2>3
<1>8. ASSUME NEW r \in Ids, DiscardCancellation(r)
      PROVE  Ownership'
  <2>1. \A h \in Holders : held'[h] \subseteq held[h]
      BY <1>8 DEF DiscardCancellation, TypeOK
  <2> QED BY <1>8, <2>1, OwnershipDrop DEF DiscardCancellation
<1>9. Expired \in SUBSET pending
    BY DEF Expired
<1>10. CASE LoopSweep
  <2>1. /\ pending' = pending \ Expired /\ Hold("loop", Expired, "timeout")
        /\ UNCHANGED <<next_request_id, outcome, cancels, cancelled>>
      BY <1>10 DEF LoopSweep, TakePending
  <2> QED BY <1>0, <1>9, <2>1, Names, OwnershipTake DEF Cancelling
<1>11. CASE TimerSweep
  <2>1. /\ pending' = pending \ Expired /\ Hold("timer", Expired, "timeout")
        /\ UNCHANGED <<next_request_id, outcome, cancels, cancelled>>
      BY <1>11 DEF TimerSweep, TakePending
  <2> QED BY <1>0, <1>9, <2>1, Names, OwnershipTake DEF Cancelling
<1>12. CASE LoopDispatch
  <2>1. UNCHANGED <<next_request_id, outcome, cancels, cancelled>>
      BY <1>12 DEF LoopDispatch
  <2>2. CASE /\ loop_msg.kind \in {"response", "error"}
             /\ OnAnswer(loop_msg.id, loop_msg.kind) /\ FindPending(loop_msg.id)
    <3>1. /\ {loop_msg.id} \in SUBSET pending /\ pending' = pending \ {loop_msg.id}
          /\ Hold("loop", {loop_msg.id}, loop_msg.kind)
        BY <2>2 DEF OnAnswer, FindPending, TakePending
    <3> QED BY <1>0, <2>1, <2>2, <3>1, Names, OwnershipTake DEF Cancelling
  <2>3. CASE UNCHANGED <<pending, held>>
      BY <1>1, <2>1, <2>3 DEF ownVars
  <2> QED BY <1>12, <2>2, <2>3 DEF LoopDispatch, OnAnswer, ResetTimeoutByProgressToken
<1>13. ASSUME NEW h \in Threads \cup {"close", "register"}, Deliver(h)
       PROVE  Ownership'
    BY <1>0, <1>13, OwnershipDeliver DEF Deliver
<1>14. CASE WorkerDrain
  <2>1. /\ held["worker"] = {} /\ held' = [held EXCEPT !["worker"] = held["queue"], !["queue"] = {}]
        /\ UNCHANGED <<next_request_id, pending, outcome, cancels, cancelled>>
      BY <1>14 DEF WorkerDrain, Nobody, Ready
  <2>2. /\ held'["queue"] = held["queue"] \ held["queue"]
        /\ held'["worker"] = held["worker"] \cup held["queue"]
        /\ \A k \in Holders \ {"queue", "worker"} : held'[k] = held[k]
      BY <2>1, Names DEF TypeOK
  <2> QED BY <2>1, <2>2, OwnershipMove DEF Cancelling
<1>15. CASE WorkerExit
  <2>1. \A h \in Holders : held'[h] \subseteq held[h]
      BY <1>15 DEF WorkerExit, TypeOK
  <2> QED BY <1>15, <2>1, OwnershipDrop DEF WorkerExit
<1>16. CASE Collect
  <2>1. /\ pending \in SUBSET pending /\ pending' = pending \ pending
        /\ Hold("close", pending, "closed")
        /\ UNCHANGED <<next_request_id, outcome, cancels, cancelled>>
      BY <1>16 DEF Collect, TakePending, ToFire
  <2> QED BY <1>0, <2>1, Names, OwnershipTake DEF Cancelling
<1> QED BY <1>2, <1>3, <1>4, <1>5, <1>6, <1>7, <1>8, <1>10, <1>11, <1>12, <1>13, <1>14,
           <1>15, <1>16 DEF Next

(* The ownership discipline holds at all times. *)
THEOREM OwnershipCorrect == Spec => []Ownership
<1>1. Init => Ownership
    BY DEF Init, Ownership, PendingUntouched, OneOwner, OwnerKnowsOutcome, FreshUntouched
<1> QED BY <1>1, TypeCorrect, OwnershipStep, PTL DEF Spec

--------------------------------------------------------------------------------
(* What follows from ownership *)

(* Only Deliver runs callbacks. *)
LEMMA OutcomeFrame ==
    ASSUME [Next]_vars, ~\E h \in Threads \cup {"close", "register"} : Deliver(h)
    PROVE  UNCHANGED outcome
BY DEF Next, vars, answerVars, Tick, Start, SetMaxTotalTimeout, RegisterRequest, SendMessage,
       CancelRequest, CancelTransportRequest, EnqueueCancellation, DiscardCancellation,
       LoopReceive, LoopSweep, LoopDispatch, LoopExit, TimerCheck, TimerSweep, WorkerDrain,
       WorkerExit, CloseByApp, Join, Collect, CloseReturns

(* No request has its callbacks run twice, however many threads race for it. *)
THEOREM AtMostOnceCorrect == Spec => []AtMostOnce
<1>1. Init => AtMostOnce
    BY DEF Init, AtMostOnce
<1>2. TypeOK /\ Ownership /\ AtMostOnce /\ [Next]_vars => AtMostOnce'
  <2> SUFFICES ASSUME TypeOK, Ownership, AtMostOnce, [Next]_vars PROVE AtMostOnce'
      OBVIOUS
  <2>1. ASSUME NEW h \in Threads \cup {"close", "register"}, Deliver(h)
        PROVE  AtMostOnce'
    <3>1. PICK r \in Ids, o \in Outcomes : DeliverOutcome(h, r, o)
        BY <2>1 DEF Deliver
    <3>2. h \in Holders
        BY DEF Holders
    <3>3. outcome[r] = <<>>
        BY <3>1, <3>2 DEF DeliverOutcome, Ownership, OneOwner
    <3>4. outcome' = [outcome EXCEPT ![r] = Append(<<>>, o)]
        BY <3>1, <3>3 DEF DeliverOutcome
    <3>5. Len(Append(<<>>, o)) = 1
        OBVIOUS
    <3> QED BY <3>4, <3>5 DEF AtMostOnce, TypeOK
  <2>2. CASE UNCHANGED outcome
      BY <2>2 DEF AtMostOnce
  <2> QED BY <2>1, <2>2, OutcomeFrame
<1> QED BY <1>1, <1>2, TypeCorrect, OwnershipCorrect, PTL DEF Spec

(* pending_ only grows while the session is open. *)
LEMMA PendingGrows ==
    ASSUME [Next]_vars, closed
    PROVE  pending' \subseteq pending
BY DEF Next, vars, tableVars, Tick, Start, SetMaxTotalTimeout, RegisterRequest, SendMessage,
       CancelRequest, CancelTransportRequest, EnqueueCancellation, DiscardCancellation,
       LoopReceive, LoopSweep, LoopDispatch, LoopExit, TimerCheck, TimerSweep, WorkerDrain,
       WorkerExit, CloseByApp, Join, Collect, CloseReturns, TakePending, OnAnswer,
       ResetTimeoutByProgressToken, Deliver, DeliverOutcome, RefusedByClose

(* Close moves forward only, and only on a closed session. *)
ClosingIsClosed == close # "idle" => closed

LEMMA CloseSteps ==
    ASSUME [Next]_vars
    PROVE  \/ UNCHANGED closeVars
           \/ close' = "loop" /\ closed'
           \/ close' = "done" /\ close = "fire" /\ UNCHANGED closed
           \/ close' = "fire" /\ close = "collect" /\ UNCHANGED closed /\ pending' = {}
           \/ close' \in {"timer", "worker", "collect"} /\ close \in Threads /\ UNCHANGED closed
<1>1. CASE CloseByApp \/ \E h \in Threads \cup {"close", "register"} : Deliver(h)
    BY <1>1 DEF CloseByApp, BeginClose, Deliver, DeliverOutcome
<1>2. ASSUME NEW t \in Threads, Join(t)
      PROVE  close' \in {"timer", "worker", "collect"} /\ close \in Threads /\ UNCHANGED closed
    BY <1>2 DEF Join, AfterJoin, Threads
<1>3. CASE Collect \/ CloseReturns
    BY <1>3 DEF Collect, CloseReturns, TakePending
<1>4. CASE UNCHANGED closeVars
    BY <1>4
<1>5. CASE \/ Tick \/ Start \/ LoopExit \/ TimerCheck \/ LoopSweep \/ TimerSweep
           \/ LoopDispatch \/ WorkerDrain \/ WorkerExit \/ UNCHANGED vars
    BY <1>5 DEF Tick, Start, LoopExit, TimerCheck, LoopSweep, TimerSweep, LoopDispatch,
                WorkerDrain, WorkerExit, vars, closeVars
<1>6. CASE \/ \E total \in Totals : SetMaxTotalTimeout(total)
           \/ \E timeout \in Timeouts, token \in Tokens \cup {NoToken}, cot \in CancelOnTimeout :
                RegisterRequest(timeout, token, cot)
           \/ \E r \in Ids : \/ SendMessage(r) \/ CancelRequest(r)
                             \/ CancelTransportRequest(r) \/ EnqueueCancellation(r)
                             \/ DiscardCancellation(r)
           \/ \E m \in Message : LoopReceive(m)
    BY <1>6 DEF SetMaxTotalTimeout, RegisterRequest, SendMessage, CancelRequest,
                CancelTransportRequest, EnqueueCancellation, DiscardCancellation,
                LoopReceive, closeVars
<1> QED BY <1>1, <1>2, <1>3, <1>4, <1>5, <1>6 DEF Next

(* After Close has emptied pending_, it stays empty. *)
THEOREM NothingPendingAfterCloseCorrect == Spec => []NothingPendingAfterClose
<1> DEFINE I == ClosingIsClosed /\ NothingPendingAfterClose
<1>1. Init => I
    BY DEF Init, ClosingIsClosed, NothingPendingAfterClose
<1>2. I /\ [Next]_vars => I'
    BY CloseSteps, PendingGrows
       DEF ClosingIsClosed, NothingPendingAfterClose, Threads, closeVars
<1> QED BY <1>1, <1>2, PTL DEF Spec

(* What SideTablesFollowPending reads. *)
LEMMA SideTablesTake ==
    ASSUME TypeOK, SideTablesFollowPending, NEW S, TakePending(S)
    PROVE  SideTablesFollowPending'
BY DEF TypeOK, SideTablesFollowPending, TakePending, EraseProgressTokens, NoId, NoCap

(* progress_token_map_ and absolute_deadlines_ hold no entry of a request that has *)
(* left pending_.                                                                  *)
THEOREM SideTablesCorrect == Spec => []SideTablesFollowPending
<1>1. Init => SideTablesFollowPending
    BY DEF Init, SideTablesFollowPending
<1>2. TypeOK /\ SideTablesFollowPending /\ [Next]_vars => SideTablesFollowPending'
  <2> SUFFICES ASSUME TypeOK, SideTablesFollowPending, [Next]_vars
               PROVE  SideTablesFollowPending'
      OBVIOUS
  <2> USE DEF tableVars
  <2>1. CASE UNCHANGED <<pending, absolute, token_map>>
      BY <2>1 DEF SideTablesFollowPending
  <2>2. CASE \E S \in SUBSET Ids : TakePending(S)
      BY <2>2, SideTablesTake
  <2>3. ASSUME NEW timeout \in Timeouts, NEW token \in Tokens \cup {NoToken},
               NEW cot \in CancelOnTimeout, RegisterRequest(timeout, token, cot)
        PROVE  SideTablesFollowPending'
    <3>1. CASE RefusedByClose
        BY <2>1, <2>3, <3>1 DEF RegisterRequest
    <3>2. CASE ~RefusedByClose
        BY <2>3, <3>2 DEF RegisterRequest, MapToken, SideTablesFollowPending, TypeOK
    <3> QED BY <3>1, <3>2
  <2>4. CASE \/ LoopSweep \/ TimerSweep \/ Collect \/ \E r \in Ids : CancelRequest(r)
    <3>1. Expired \in SUBSET Ids /\ pending \in SUBSET Ids
        BY DEF Expired, TypeOK
    <3> QED BY <2>2, <2>4, <3>1 DEF LoopSweep, TimerSweep, Collect, CancelRequest
  <2>5. CASE LoopDispatch
    <3>1. CASE OnAnswer(loop_msg.id, loop_msg.kind) /\ FindPending(loop_msg.id)
        BY <2>2, <3>1 DEF OnAnswer, FindPending, TypeOK
    <3> QED BY <2>1, <2>5, <3>1 DEF LoopDispatch, OnAnswer, ResetTimeoutByProgressToken
  <2>6. CASE \/ Tick \/ Start \/ LoopExit \/ TimerCheck \/ WorkerDrain \/ WorkerExit
             \/ CloseByApp \/ CloseReturns \/ UNCHANGED vars
      BY <2>1, <2>6 DEF Tick, Start, LoopExit, TimerCheck, WorkerDrain, WorkerExit,
                        CloseByApp, CloseReturns, vars
  <2>7. CASE \/ \E total \in Totals : SetMaxTotalTimeout(total)
             \/ \E r \in Ids : \/ SendMessage(r) \/ CancelTransportRequest(r)
                               \/ EnqueueCancellation(r) \/ DiscardCancellation(r)
             \/ \E m \in Message : LoopReceive(m)
             \/ \E h \in Threads \cup {"close", "register"} : Deliver(h)
             \/ \E t \in Threads : Join(t)
      BY <2>1, <2>7 DEF SetMaxTotalTimeout, SendMessage, CancelTransportRequest,
                        EnqueueCancellation, DiscardCancellation, LoopReceive, Deliver,
                        DeliverOutcome, Join
  <2> QED BY <2>3, <2>4, <2>5, <2>6, <2>7 DEF Next
<1> QED BY <1>1, <1>2, TypeCorrect, PTL DEF Spec

(* The peer hears of at most one cancellation of a request, and of none of a request *)
(* whose answer was accepted.                                                        *)
THEOREM CancelsCorrect == Spec => []CancelsAreJustified
<1>1. Init => CancelsAreJustified
    BY DEF Init, CancelsAreJustified
<1>2. TypeOK /\ Ownership /\ CancelsAreJustified /\ [Next]_vars => CancelsAreJustified'
  <2> SUFFICES ASSUME TypeOK, Ownership, CancelsAreJustified, [Next]_vars
               PROVE  CancelsAreJustified'
      OBVIOUS
  <2> USE DEF answerVars
  <2>1. CASE UNCHANGED <<outcome, cancels>>
      BY <2>1 DEF CancelsAreJustified
  <2>2. ASSUME NEW r \in Ids, CancelTransportRequest(r)
        PROVE  CancelsAreJustified'
    <3>1. "cancel" \in Holders /\ "cancelled" \in Outcomes
        BY Names
    <3>2. /\ <<r, "cancelled">> \in held["cancel"] /\ UNCHANGED outcome
          /\ cancels' = [cancels EXCEPT ![r] = @ + 1]
        BY <2>2 DEF CancelTransportRequest
    <3>3. outcome[r] = <<>>
        BY <3>1, <3>2 DEF Ownership, OneOwner
    <3>4. cancels[r] <= IF "cancel" \in {"enqueue", "queue", "worker"} THEN 1 ELSE 0
        BY <3>1, <3>2 DEF Ownership, OwnerKnowsOutcome
    <3>5. cancels[r] = 0
        BY <3>4 DEF TypeOK
    <3>6. cancels'[r] = 1 /\ \A x \in Ids : x # r => cancels'[x] = cancels[x]
        BY <3>2, <3>5 DEF TypeOK
    <3> QED BY <3>2, <3>3, <3>6 DEF CancelsAreJustified
  <2>3. ASSUME NEW h \in Threads \cup {"close", "register"}, Deliver(h)
        PROVE  CancelsAreJustified'
    <3>1. PICK r \in Ids, o \in Outcomes : DeliverOutcome(h, r, o)
        BY <2>3 DEF Deliver
    <3>2. h \in Holders /\ <<r, o>> \in held[h]
        BY <3>1 DEF Holders, DeliverOutcome
    <3>3. outcome[r] = <<>>
        BY <3>2 DEF Ownership, OneOwner
    <3>4. o # "cancelled" => cancels[r] = 0
      <4>1. o # "cancelled" => h \notin {"enqueue", "queue", "worker"}
          BY <3>2 DEF Ownership, OwnerKnowsOutcome, Cancelling
      <4>2. cancels[r] <= IF h \in {"enqueue", "queue", "worker"} THEN 1 ELSE 0
          BY <3>2 DEF Ownership, OwnerKnowsOutcome
      <4> QED BY <4>1, <4>2 DEF TypeOK
    <3>5. cancels'[r] = IF o = "timeout" /\ r \in cancel_on_timeout
                        THEN cancels[r] + 1 ELSE cancels[r]
        BY <3>1 DEF DeliverOutcome, TypeOK
    <3>6. outcome'[r] = Append(<<>>, o)
        BY <3>1, <3>3 DEF DeliverOutcome, TypeOK
    <3>7. Append(<<>>, o)[1] = o
        OBVIOUS
    <3>8. \A x \in Ids : x # r => cancels'[x] = cancels[x] /\ outcome'[x] = outcome[x]
        BY <3>1 DEF DeliverOutcome, TypeOK
    <3>9. /\ cancels'[r] <= 1
          /\ outcome'[r][1] \in {"response", "error", "closed"} => cancels'[r] = 0
        BY <3>4, <3>5, <3>6, <3>7 DEF CancelsAreJustified, TypeOK
    <3> QED BY <3>8, <3>9 DEF CancelsAreJustified
  <2>4. CASE \/ Tick \/ Start \/ LoopExit \/ TimerCheck \/ LoopSweep \/ TimerSweep
             \/ LoopDispatch \/ WorkerDrain \/ WorkerExit \/ CloseByApp \/ Collect
             \/ CloseReturns \/ UNCHANGED vars
      BY <2>1, <2>4 DEF Tick, Start, LoopExit, TimerCheck, LoopSweep, TimerSweep,
                        LoopDispatch, WorkerDrain, WorkerExit, CloseByApp, Collect,
                        CloseReturns, vars
  <2>5. CASE \/ \E total \in Totals : SetMaxTotalTimeout(total)
             \/ \E timeout \in Timeouts, token \in Tokens \cup {NoToken}, cot \in CancelOnTimeout :
                  RegisterRequest(timeout, token, cot)
             \/ \E r \in Ids : \/ SendMessage(r) \/ CancelRequest(r)
                               \/ EnqueueCancellation(r) \/ DiscardCancellation(r)
             \/ \E m \in Message : LoopReceive(m)
             \/ \E t \in Threads : Join(t)
      BY <2>1, <2>5 DEF SetMaxTotalTimeout, RegisterRequest, SendMessage, CancelRequest,
                        EnqueueCancellation, DiscardCancellation, LoopReceive, Join
  <2> QED BY <2>2, <2>3, <2>4, <2>5 DEF Next
<1> QED BY <1>1, <1>2, TypeCorrect, OwnershipCorrect, PTL DEF Spec

--------------------------------------------------------------------------------
(* No request is lost *)

Kept(r) == \/ r \in pending
           \/ \E h \in Holders, o \in Outcomes : <<r, o>> \in held[h]
           \/ outcome[r] # <<>>
           \/ closed /\ r \in cancelled

(* A step that only adds owners and outcomes keeps every request. *)
LEMMA NeverLostFrame ==
    ASSUME NeverLost, UNCHANGED <<next_request_id, pending, outcome, cancelled>>,
           \A h \in Holders : held[h] \subseteq held'[h], closed => closed'
    PROVE  NeverLost'
BY DEF NeverLost

(* What leaves pending_ with an owner is kept. *)
LEMMA NeverLostTake ==
    ASSUME TypeOK, NeverLost, NEW S \in SUBSET Ids, NEW h \in Holders, NEW o \in Outcomes,
           pending' = pending \ S, Hold(h, S, o), cancelled \subseteq cancelled',
           UNCHANGED <<next_request_id, outcome, closed>>
    PROVE  NeverLost'
<1>1. \A g \in Holders : held[g] \subseteq held'[g]
    BY DEF Hold, TypeOK
<1>2. \A r \in S : <<r, o>> \in held'[h]
    BY DEF Hold, TypeOK
<1> QED BY <1>1, <1>2 DEF NeverLost

(* A request that changes hands, or is dropped because the session is closed. *)
LEMMA NeverLostMove ==
    ASSUME TypeOK, Ownership, NeverLost, NEW S \in SUBSET (Ids \X Outcomes),
           \A p \in S : p[2] = "cancelled",
           \A g \in Holders : \A p \in held[g] :
               \/ p \in held'[g]
               \/ p \in S /\ closed
               \/ p \in S /\ \E k \in Holders : p \in held'[k],
           UNCHANGED <<next_request_id, pending, outcome, cancelled, closed>>
    PROVE  NeverLost'
<1> SUFFICES ASSUME NEW r \in 1..(next_request_id - 1) PROVE Kept(r)'
    BY DEF NeverLost, Kept
<1>1. Kept(r)
    BY DEF NeverLost, Kept
<1>2. ASSUME NEW g \in Holders, NEW o \in Outcomes, <<r, o>> \in held[g]
      PROVE  Kept(r)'
  <2>1. r \in Ids
      BY <1>2 DEF TypeOK
  <2>2. CASE <<r, o>> \in S /\ closed
    <3>1. o = "cancelled"
        BY <2>2
    <3> QED BY <1>2, <2>1, <2>2, <3>1 DEF Ownership, OwnerKnowsOutcome, Kept
  <2>3. CASE \E k \in Holders : <<r, o>> \in held'[k]
      BY <2>3 DEF Kept
  <2> QED BY <1>2, <2>2, <2>3
<1> QED BY <1>1, <1>2 DEF Kept

(* Every step keeps every request that was handed out. *)
LEMMA NeverLostStep == TypeOK /\ Ownership /\ NeverLost /\ [Next]_vars => NeverLost'
<1> SUFFICES ASSUME TypeOK, Ownership, NeverLost, [Next]_vars PROVE NeverLost'
    OBVIOUS
<1> USE DEF closeVars, reqVars, tableVars, answerVars
<1>1. CASE UNCHANGED <<next_request_id, pending, held, outcome, cancelled>> /\ (closed => closed')
    BY <1>1, NeverLostFrame
<1>2. CASE \/ Tick \/ Start \/ LoopExit \/ TimerCheck \/ CloseByApp \/ CloseReturns
           \/ UNCHANGED vars
    BY <1>1, <1>2 DEF Tick, Start, LoopExit, TimerCheck, CloseByApp, BeginClose,
                      CloseReturns, vars
<1>3. CASE \/ \E total \in Totals : SetMaxTotalTimeout(total)
           \/ \E r \in Ids : SendMessage(r)
           \/ \E m \in Message : LoopReceive(m)
           \/ \E t \in Threads : Join(t)
    BY <1>1, <1>3 DEF SetMaxTotalTimeout, SendMessage, LoopReceive, Join
<1>4. ASSUME NEW timeout \in Timeouts, NEW token \in Tokens \cup {NoToken},
             NEW cot \in CancelOnTimeout, RegisterRequest(timeout, token, cot)
      PROVE  NeverLost'
  <2>0. PICK n \in Nat : n = next_request_id
      BY DEF TypeOK
  <2>1. /\ next_request_id' = n + 1
        /\ UNCHANGED <<outcome, cancelled, closed>>
      BY <1>4, <2>0 DEF RegisterRequest, TypeOK
  <2>2. pending \subseteq pending' /\ \A h \in Holders : held[h] \subseteq held'[h]
      BY <1>4 DEF RegisterRequest, Hold, TypeOK
  <2>3. Kept(n)'
    <3>1. CASE RefusedByClose
      <4>1. "register" \in Holders /\ "closed" \in Outcomes
          BY Names
      <4>2. <<n, "closed">> \in held'["register"]
          BY <1>4, <2>0, <3>1, <4>1 DEF RegisterRequest, Hold, TypeOK
      <4> QED BY <4>1, <4>2 DEF Kept
    <3>2. CASE ~RefusedByClose
        BY <1>4, <2>0, <3>2 DEF RegisterRequest, Kept
    <3> QED BY <3>1, <3>2
  <2>4. ASSUME NEW r \in 1..(n - 1) PROVE Kept(r)'
    <3>1. Kept(r)
        BY <2>0 DEF NeverLost, Kept
    <3> QED BY <2>1, <2>2, <3>1 DEF Kept
  <2>5. \A r \in 1..n : r = n \/ r \in 1..(n - 1)
      BY <2>1
  <2>6. \A r \in 1..(next_request_id' - 1) : Kept(r)'
      BY <2>1, <2>3, <2>4, <2>5
  <2> QED BY <2>6 DEF NeverLost, Kept
<1>5. ASSUME NEW r \in Ids, CancelRequest(r)
      PROVE  NeverLost'
  <2>1. /\ pending' = pending \ {r} /\ Hold("cancel", {r}, "cancelled")
        /\ cancelled \subseteq cancelled' /\ UNCHANGED <<next_request_id, outcome, closed>>
      BY <1>5 DEF CancelRequest, TakePending
  <2> QED BY <2>1, Names, NeverLostTake
<1>6. ASSUME NEW r \in Ids,
             \/ CancelTransportRequest(r) \/ EnqueueCancellation(r) \/ DiscardCancellation(r)
      PROVE  NeverLost'
  <2> DEFINE S == {<<r, "cancelled">>}
  <2>1. S \in SUBSET (Ids \X Outcomes) /\ \A p \in S : p[2] = "cancelled"
      BY Names
  <2>2. UNCHANGED <<next_request_id, pending, outcome, cancelled, closed>>
      BY <1>6 DEF CancelTransportRequest, EnqueueCancellation, DiscardCancellation
  <2>3. ASSUME NEW g \in Holders, NEW p \in held[g]
        PROVE  \/ p \in held'[g]
               \/ p \in S /\ closed
               \/ p \in S /\ \E k \in Holders : p \in held'[k]
    <3>1. CASE CancelTransportRequest(r)
      <4>1. "enqueue" \in Holders /\ <<r, "cancelled">> \in held'["enqueue"]
          BY <3>1, Names DEF CancelTransportRequest, TypeOK
      <4> QED BY <3>1, <4>1 DEF CancelTransportRequest, TypeOK
    <3>2. CASE EnqueueCancellation(r)
      <4>1. "queue" \in Holders /\ (~closed => <<r, "cancelled">> \in held'["queue"])
          BY <3>2, Names DEF EnqueueCancellation, TypeOK
      <4> QED BY <3>2, <4>1 DEF EnqueueCancellation, TypeOK
    <3>3. CASE DiscardCancellation(r)
        BY <3>3 DEF DiscardCancellation, TypeOK
    <3> QED BY <1>6, <3>1, <3>2, <3>3
  <2> HIDE DEF S
  <2> QED BY <2>1, <2>2, <2>3, NeverLostMove
<1>7. Expired \in SUBSET Ids
    BY DEF Expired, TypeOK
<1>8. CASE LoopSweep
  <2>1. /\ pending' = pending \ Expired /\ Hold("loop", Expired, "timeout")
        /\ UNCHANGED <<next_request_id, outcome, closed, cancelled>>
      BY <1>8 DEF LoopSweep, TakePending
  <2> QED BY <1>7, <2>1, Names, NeverLostTake
<1>9. CASE TimerSweep
  <2>1. /\ pending' = pending \ Expired /\ Hold("timer", Expired, "timeout")
        /\ UNCHANGED <<next_request_id, outcome, closed, cancelled>>
      BY <1>9 DEF TimerSweep, TakePending
  <2> QED BY <1>7, <2>1, Names, NeverLostTake
<1>10. CASE LoopDispatch
  <2>1. UNCHANGED <<next_request_id, outcome, closed, cancelled>>
      BY <1>10 DEF LoopDispatch
  <2>2. CASE /\ loop_msg.kind \in {"response", "error"}
             /\ OnAnswer(loop_msg.id, loop_msg.kind) /\ FindPending(loop_msg.id)
    <3>1. /\ {loop_msg.id} \in SUBSET Ids /\ pending' = pending \ {loop_msg.id}
          /\ Hold("loop", {loop_msg.id}, loop_msg.kind)
        BY <2>2 DEF OnAnswer, FindPending, TakePending, TypeOK
    <3> QED BY <2>1, <2>2, <3>1, Names, NeverLostTake
  <2>3. CASE UNCHANGED <<pending, held>>
      BY <1>1, <2>1, <2>3
  <2> QED BY <1>10, <2>2, <2>3 DEF LoopDispatch, OnAnswer, ResetTimeoutByProgressToken
<1>11. ASSUME NEW h \in Threads \cup {"close", "register"}, Deliver(h)
       PROVE  NeverLost'
  <2>1. PICK r \in Ids, o \in Outcomes : DeliverOutcome(h, r, o)
      BY <1>11 DEF Deliver
  <2>2. UNCHANGED <<next_request_id, pending, cancelled>> /\ (closed => closed')
      BY <2>1 DEF DeliverOutcome, BeginClose
  <2>3. outcome'[r] = Append(outcome[r], o) /\ outcome[r] \in Seq(Outcomes)
      BY <2>1 DEF DeliverOutcome, TypeOK
  <2>4. outcome'[r] # <<>>
      BY <2>3
  <2>5. \A x \in Ids : x # r => outcome'[x] = outcome[x]
      BY <2>1 DEF DeliverOutcome, TypeOK
  <2>6. \A g \in Holders : \A x \in Ids, q \in Outcomes :
            x # r /\ <<x, q>> \in held[g] => <<x, q>> \in held'[g]
      BY <2>1 DEF DeliverOutcome, TypeOK
  <2>7. \A x \in 1..(next_request_id - 1) : Kept(x)'
    <3> SUFFICES ASSUME NEW x \in 1..(next_request_id - 1), x # r PROVE Kept(x)'
        BY <2>4 DEF Kept
    <3>1. Kept(x)
        BY DEF NeverLost, Kept
    <3>2. CASE \E g \in Holders, q \in Outcomes : <<x, q>> \in held[g]
      <4>1. PICK g \in Holders, q \in Outcomes : <<x, q>> \in held[g]
          BY <3>2
      <4>2. x \in Ids
          BY <4>1 DEF TypeOK
      <4> QED BY <2>6, <4>1, <4>2 DEF Kept
    <3>3. CASE outcome[x] # <<>>
        BY <2>1, <2>5, <3>3 DEF Kept, DeliverOutcome
    <3> QED BY <2>2, <3>1, <3>2, <3>3 DEF Kept
  <2> QED BY <2>2, <2>7 DEF NeverLost, Kept
<1>12. CASE WorkerDrain
  <2>1. /\ held["worker"] = {} /\ held' = [held EXCEPT !["worker"] = held["queue"], !["queue"] = {}]
        /\ UNCHANGED <<next_request_id, pending, outcome, cancelled, closed>>
      BY <1>12 DEF WorkerDrain, Nobody, Ready
  <2>2. held'["worker"] = held["queue"] /\ {"worker", "queue"} \subseteq Holders
      BY <2>1, Names DEF TypeOK
  <2>3. \A g \in Holders : \A p \in held[g] : p \in held'[g] \/ p \in held["queue"]
      BY <2>1 DEF TypeOK
  <2>4. held["queue"] \in SUBSET (Ids \X Outcomes)
      BY <2>2 DEF TypeOK
  <2>5. \A p \in held["queue"] : p[2] = "cancelled"
      BY <2>2, <2>4 DEF Ownership, OwnerKnowsOutcome, Cancelling
  <2> QED BY <2>1, <2>2, <2>3, <2>4, <2>5, NeverLostMove
<1>13. CASE WorkerExit
  <2>1. /\ closed /\ held' = [held EXCEPT !["queue"] = {}]
        /\ UNCHANGED <<next_request_id, pending, outcome, cancelled, closed>>
      BY <1>13 DEF WorkerExit
  <2>2. "queue" \in Holders
      BY Names
  <2>3. \A g \in Holders : \A p \in held[g] : p \in held'[g] \/ p \in held["queue"]
      BY <2>1 DEF TypeOK
  <2>4. held["queue"] \in SUBSET (Ids \X Outcomes)
      BY <2>2 DEF TypeOK
  <2>5. \A p \in held["queue"] : p[2] = "cancelled"
      BY <2>2, <2>4 DEF Ownership, OwnerKnowsOutcome, Cancelling
  <2> QED BY <2>1, <2>3, <2>4, <2>5, NeverLostMove
<1>14. CASE Collect
  <2>1. /\ pending \in SUBSET Ids /\ pending' = pending \ pending
        /\ Hold("close", pending, "closed")
        /\ UNCHANGED <<next_request_id, outcome, closed, cancelled>>
      BY <1>14 DEF Collect, TakePending, ToFire, TypeOK
  <2> QED BY <2>1, Names, NeverLostTake
<1> QED BY <1>2, <1>3, <1>4, <1>5, <1>6, <1>8, <1>9, <1>10, <1>11, <1>12, <1>13, <1>14
        DEF Next

(* A request is in pending_, in the hands of a thread, settled, or was cancelled on a *)
(* session that is closed: nothing else ever happens to it.                           *)
THEOREM NeverLostCorrect == Spec => []NeverLost
<1>1. Init => NeverLost
    BY DEF Init, NeverLost
<1> QED BY <1>1, NeverLostStep, TypeCorrect, OwnershipCorrect, PTL DEF Spec

(* The tables of the outgoing half agree, for any number of requests and interleavings. *)
THEOREM TablesAgreeCorrect == Spec => []TablesAgree
BY TypeCorrect, OwnershipCorrect, SideTablesCorrect, NothingPendingAfterCloseCorrect, CancelsCorrect, PTL
   DEF TablesAgree

--------------------------------------------------------------------------------
(* Envelopes *)

(* A value is something, and its kind is told from its tag. *)
LEMMA Something ==
    /\ \A v : IsValue(v) => v # None /\ v # Err /\ Tag(v) # "none"
    /\ \A s : Str(s) # None /\ Str(s) # Null /\ Tag(Str(s)) = "str" /\ Str(s)[2] = s
    /\ Null # None /\ Tag(None) = "none"
    /\ \A f : Obj(f) # None /\ Obj(f) # Err /\ Tag(Obj(f)) = "obj" /\ Obj(f)[2] = f
    /\ \A f : Members(Obj(f)) = f
<1>1. \A v : IsValue(v) => v[1] # "none" /\ v[1] # "err"
    BY DEF IsValue
<1>2. None[1] = "none" /\ Err[1] = "err" /\ Null[1] = "null"
    BY DEF None, Err, Null
<1>3. \A s : Str(s)[1] = "str" /\ Str(s)[2] = s
    BY DEF Str
<1>4. \A f : Obj(f)[1] = "obj" /\ Obj(f)[2] = f
    BY DEF Obj
<1>5. \A f : Members(Obj(f)) = f
    BY <1>4 DEF Members, Tag
<1> QED BY <1>1, <1>2, <1>3, <1>4, <1>5 DEF Tag

(* An object has the fields of f that have a value, and no others. *)
LEMMA FilledHas ==
    ASSUME NEW f, NEW k
    PROVE  /\ Has(Members(Filled(f)), k) <=> k \in DOMAIN f /\ f[k] # None
           /\ Has(Members(Filled(f)), k) => Members(Filled(f))[k] = f[k]
<1>1. Members(Filled(f)) = [n \in {j \in DOMAIN f : f[j] # None} |-> f[n]]
    BY Something DEF Filled
<1> QED BY <1>1 DEF Has

(* What SerializeMessage writes. *)
LEMMA WrittenMembers ==
    ASSUME NEW m, NEW o, o = Members(Serialize(m))
    PROVE  /\ Has(o, "jsonrpc") /\ o["jsonrpc"] = Str("2.0")
           /\ Has(o, "method") <=> m.kind \in {"request", "notification"}
           /\ Has(o, "method") => o["method"] = Str(m.method)
           /\ Has(o, "id") <=> (m.id # None \/ m.kind = "error")
           /\ Has(o, "id") => o["id"] = IF m.kind = "error" /\ m.id = None THEN Null ELSE m.id
           /\ Has(o, "params") <=> ParamsSent(m) # None
           /\ Has(o, "params") => o["params"] = ParamsSent(m)
           /\ Has(o, "result") <=> m.result # None
           /\ Has(o, "result") => o["result"] = m.result
           /\ Has(o, "error") <=> m.kind = "error"
           /\ Has(o, "error") => o["error"] = Filled(Members(m.error))
<1> DEFINE f == [jsonrpc |-> Str("2.0"),
                 id |-> IF m.kind = "error" /\ m.id = None THEN Null ELSE m.id,
                 method |-> IF m.kind \in {"request", "notification"} THEN Str(m.method) ELSE None,
                 params |-> ParamsSent(m),
                 result |-> m.result,
                 error |-> IF m.kind = "error" THEN Filled(Members(m.error)) ELSE None]
<1>1. o = Members(Filled(f))
    BY DEF Serialize
<1>2. DOMAIN f = {"jsonrpc", "id", "method", "params", "result", "error"}
    OBVIOUS
<1>3. \A k : /\ Has(o, k) <=> k \in DOMAIN f /\ f[k] # None
             /\ Has(o, k) => o[k] = f[k]
    BY <1>1, FilledHas
<1>4. /\ f["jsonrpc"] = Str("2.0") /\ f["params"] = ParamsSent(m) /\ f["result"] = m.result
      /\ f["id"] = IF m.kind = "error" /\ m.id = None THEN Null ELSE m.id
      /\ f["method"] = IF m.kind \in {"request", "notification"} THEN Str(m.method) ELSE None
      /\ f["error"] = IF m.kind = "error" THEN Filled(Members(m.error)) ELSE None
    OBVIOUS
<1>5. Filled(Members(m.error)) # None
    BY Something DEF Filled
<1> HIDE DEF f
<1>6. /\ Has(o, "jsonrpc") /\ o["jsonrpc"] = Str("2.0")
      /\ Has(o, "params") <=> ParamsSent(m) # None
      /\ Has(o, "params") => o["params"] = ParamsSent(m)
      /\ Has(o, "result") <=> m.result # None
      /\ Has(o, "result") => o["result"] = m.result
    BY <1>2, <1>3, <1>4, Something
<1>7. /\ Has(o, "method") <=> m.kind \in {"request", "notification"}
      /\ Has(o, "method") => o["method"] = Str(m.method)
    BY <1>2, <1>3, <1>4, Something
<1>8. /\ Has(o, "id") <=> (m.id # None \/ m.kind = "error")
      /\ Has(o, "id") => o["id"] = IF m.kind = "error" /\ m.id = None THEN Null ELSE m.id
    BY <1>2, <1>3, <1>4, Something
<1>9. /\ Has(o, "error") <=> m.kind = "error"
      /\ Has(o, "error") => o["error"] = Filled(Members(m.error))
    BY <1>2, <1>3, <1>4, <1>5
<1> QED BY <1>6, <1>7, <1>8, <1>9

(* What DeserializeMessage should make of the parameters and the metadata of a call. *)
ParamsKept(params, meta, m) ==
    LET own == Members(m.params)
        slot == IF Has(own, "_meta") THEN own["_meta"] ELSE None
    IN /\ Members(params) = Without(own, "_meta")
       /\ m.meta = None /\ ~Has(own, "_meta") => params = m.params
       /\ meta = IF m.meta = None THEN slot
                 ELSE IF Tag(slot) = "obj" THEN Obj(Over(Members(m.meta), Members(slot))) ELSE m.meta

(* Members are those of an object, so that taking one away that is not there changes nothing. *)
LEMMA NothingTaken ==
    ASSUME NEW v, v = None \/ IsValue(v), ~Has(Members(v), "_meta")
    PROVE  Members(v) = Without(Members(v), "_meta")
<1> DEFINE own == Members(v)
<1>1. own = [k \in DOMAIN own |-> own[k]]
  <2>1. CASE v # None /\ Tag(v) = "obj"
      BY <2>1 DEF IsValue, Members, Tag
  <2>2. CASE v = None \/ Tag(v) # "obj"
      BY <2>2, Something DEF Members, NoMembers
  <2> QED BY <2>1, <2>2
<1>2. DOMAIN own \ {"_meta"} = DOMAIN own
    BY DEF Has
<1> QED BY <1>1, <1>2 DEF Without

(* Metadata that was put into the parameters is all that comes out of them. *)
LEMMA MetaTaken ==
    ASSUME NEW params, NEW meta, NEW own, own = Members(params),
           NEW after, after = Members(MergeMetaIntoParams(params, meta))
    PROVE  /\ Has(after, "_meta") /\ Without(after, "_meta") = Without(own, "_meta")
           /\ after["_meta"] = IF Has(own, "_meta") /\ Tag(own["_meta"]) = "obj"
                              THEN Obj(Over(Members(meta), Members(own["_meta"]))) ELSE meta
<1> DEFINE slot == IF Has(own, "_meta") /\ Tag(own["_meta"]) = "obj"
                   THEN Obj(Over(Members(meta), Members(own["_meta"]))) ELSE meta
<1>1. after = Over([_meta |-> slot], own)
    BY Something DEF MergeMetaIntoParams
<1> HIDE DEF slot
<1>2. after = [k \in {"_meta"} \cup DOMAIN own |-> IF k \in {"_meta"} THEN slot ELSE own[k]]
    BY <1>1 DEF Over
<1>3. DOMAIN after = {"_meta"} \cup DOMAIN own /\ after["_meta"] = slot
      /\ \A k \in DOMAIN own \ {"_meta"} : after[k] = own[k]
    BY <1>2
<1>4. DOMAIN after \ {"_meta"} = DOMAIN own \ {"_meta"}
    BY <1>3
<1>5. Without(after, "_meta") = Without(own, "_meta")
    BY <1>3, <1>4 DEF Without
<1> QED BY <1>3, <1>5 DEF Has, slot

(* A call is read as it was written, with its metadata beside its parameters again. *)
LEMMA CallKept ==
    ASSUME NEW m, IsCall(m), NEW kind \in {"request", "notification"}, kind = "request" => IsId(m.id),
           NEW o, Has(o, "method"), o["method"] = Str(m.method), kind = "request" => o["id"] = m.id,
           Has(o, "params") <=> ParamsSent(m) # None, Has(o, "params") => o["params"] = ParamsSent(m)
    PROVE  \E params, meta :
              /\ ParamsKept(params, meta, m)
              /\ ParseCall(kind, o) =
                    Envelope(kind, IF kind = "request" THEN m.id ELSE None, m.method, params, meta, None, None)
<1> DEFINE p == IF Has(o, "params") THEN o["params"] ELSE None
           own == Members(p)
           id == IF kind = "request" THEN o["id"] ELSE None
<1>1. p = ParamsSent(m)
    OBVIOUS
<1>2. id = IF kind = "request" THEN m.id ELSE None
    OBVIOUS
<1>3. /\ Tag(o["method"]) = "str" /\ o["method"][2] = m.method
      /\ kind = "request" => Tag(id) \in {"str", "int"}
    BY <1>2, Something DEF IsId
<1>4. ParseCall(kind, o) =
        IF Has(own, "_meta") THEN Envelope(kind, id, m.method, Obj(Without(own, "_meta")), own["_meta"], None, None)
        ELSE Envelope(kind, id, m.method, p, None, None, None)
    BY <1>3 DEF ParseCall
<1> HIDE DEF p, id
<1>5. CASE m.meta # None
  <2>1. p = MergeMetaIntoParams(m.params, m.meta)
      BY <1>1, <1>5 DEF ParamsSent
  <2>2. /\ Has(own, "_meta") /\ Without(own, "_meta") = Without(Members(m.params), "_meta")
        /\ own["_meta"] = IF Has(Members(m.params), "_meta") /\ Tag(Members(m.params)["_meta"]) = "obj"
                          THEN Obj(Over(Members(m.meta), Members(Members(m.params)["_meta"]))) ELSE m.meta
      BY <2>1, MetaTaken
  <2>3. ParamsKept(Obj(Without(own, "_meta")), own["_meta"], m)
      BY <1>5, <2>2, Something DEF ParamsKept
  <2> QED BY <1>2, <1>4, <2>2, <2>3
<1>6. CASE m.meta = None
  <2>1. p = m.params
      BY <1>1, <1>6 DEF ParamsSent
  <2>2. CASE Has(own, "_meta")
    <3>1. ParamsKept(Obj(Without(own, "_meta")), own["_meta"], m)
        BY <1>6, <2>1, <2>2, Something DEF ParamsKept
    <3> QED BY <1>2, <1>4, <2>2, <3>1
  <2>3. CASE ~Has(own, "_meta")
    <3>1. Members(m.params) = Without(Members(m.params), "_meta")
        BY <2>1, <2>3, NothingTaken DEF IsCall
    <3>2. ParamsKept(p, None, m)
        BY <1>6, <2>1, <2>3, <3>1 DEF ParamsKept
    <3> QED BY <1>2, <1>4, <2>3, <3>2
  <2> QED BY <2>2, <2>3
<1> QED BY <1>5, <1>6

(* An error that is written and read is the same error. *)
LEMMA ErrorKept ==
    ASSUME NEW e, IsErrorData(e)
    PROVE  DeserializeErrorData(Filled(Members(e))) = e
<1> DEFINE f == [code |-> e[2].code, message |-> e[2].message, data |-> e[2].data]
           o == Members(Filled(f))
<1>1. e = Obj(f) /\ Members(e) = f
    BY Something DEF IsErrorData
<1>2. /\ f["code"] = Whole(e[2].code[2]) /\ e[2].code[2] \in -MaxCode - 1..MaxCode
      /\ f["message"] = Str(e[2].message[2]) /\ (f["data"] = None \/ f["data"] # None)
    BY DEF IsErrorData
<1>3. f["code"] # None /\ Tag(f["code"]) = "int" /\ f["code"][2] \in -MaxCode - 1..MaxCode
      /\ f["message"] # None /\ Tag(f["message"]) = "str"
    BY <1>2, Something DEF Whole, None, Tag
<1>4. DOMAIN f = {"code", "message", "data"}
    OBVIOUS
<1>5. f = [code |-> f["code"], message |-> f["message"], data |-> f["data"]]
    OBVIOUS
<1> HIDE DEF f
<1>6. /\ Has(o, "code") /\ o["code"] = f["code"] /\ Has(o, "message") /\ o["message"] = f["message"]
      /\ (IF Has(o, "data") THEN o["data"] ELSE None) = f["data"]
    BY <1>3, <1>4, FilledHas
<1>7. DeserializeErrorData(Filled(f)) = Obj([code |-> f["code"], message |-> f["message"], data |-> f["data"]])
    BY <1>3, <1>6 DEF DeserializeErrorData, HasText
<1> QED BY <1>1, <1>5, <1>7

(* What a message becomes when it is written and read. *)
SameMessage(g, m) ==
    /\ g.kind = m.kind /\ g.id = m.id /\ g.method = m.method /\ g.result = m.result /\ g.error = m.error
    /\ ParamsKept(g.params, g.meta, m)

(* A message of one kind has no members of another. *)
LEMMA Shapes ==
    /\ \A a, b, c, d : /\ Request(a, b, c, d).kind = "request" /\ Request(a, b, c, d).result = None
                       /\ Request(a, b, c, d).error = None
    /\ \A a, b, c : /\ Notice(a, b, c).kind = "notification" /\ Notice(a, b, c).id = None
                    /\ Notice(a, b, c).result = None /\ Notice(a, b, c).error = None
    /\ \A a, b : /\ Response(a, b).kind = "response" /\ Response(a, b).method = "" /\ Response(a, b).error = None
                 /\ Response(a, b).params = None /\ Response(a, b).meta = None
    /\ \A a, b : /\ ErrorAnswer(a, b).kind = "error" /\ ErrorAnswer(a, b).method = ""
                 /\ ErrorAnswer(a, b).result = None
                 /\ ErrorAnswer(a, b).params = None /\ ErrorAnswer(a, b).meta = None
BY DEF Request, Notice, Response, ErrorAnswer, Envelope

(* An answer has no parameters. *)
LEMMA NoParams ==
    ASSUME NEW m, m.params = None, m.meta = None
    PROVE  ParamsKept(None, None, m)
<1>1. Members(None) = NoMembers
    BY Something DEF Members
<1>2. ~Has(NoMembers, "_meta") /\ NoMembers = Without(NoMembers, "_meta")
    BY DEF Has, NoMembers, Without
<1> QED BY <1>1, <1>2 DEF ParamsKept

(* A message that is written and read is the same message. *)
LEMMA MessageKept ==
    ASSUME NEW m, IsMessage(m)
    PROVE  SameMessage(Parse(Serialize(m)), m)
<1> DEFINE o == Members(Serialize(m))
<1>1. /\ Has(o, "jsonrpc") /\ o["jsonrpc"] = Str("2.0")
      /\ Has(o, "method") <=> m.kind \in {"request", "notification"}
      /\ Has(o, "method") => o["method"] = Str(m.method)
      /\ Has(o, "id") <=> (m.id # None \/ m.kind = "error")
      /\ Has(o, "id") => o["id"] = IF m.kind = "error" /\ m.id = None THEN Null ELSE m.id
      /\ Has(o, "params") <=> ParamsSent(m) # None
      /\ Has(o, "params") => o["params"] = ParamsSent(m)
      /\ Has(o, "result") <=> m.result # None
      /\ Has(o, "result") => o["result"] = m.result
      /\ Has(o, "error") <=> m.kind = "error"
      /\ Has(o, "error") => o["error"] = Filled(Members(m.error))
    BY WrittenMembers
<1>2. Parse(Serialize(m)) =
        IF Has(o, "method")
        THEN ParseCall(IF Has(o, "id") /\ o["id"] # Null THEN "request" ELSE "notification", o)
        ELSE IF Has(o, "result") = Has(o, "error") THEN Unreadable
        ELSE IF Has(o, "result") THEN ParseResponse(o) ELSE ParseErrorResponse(o)
    BY <1>1 DEF Parse
<1> HIDE DEF o
<1>3. \A id : IsId(id) => id # None /\ id # Null /\ Tag(id) \in {"str", "int"}
  <2>1. Tag(Null) = "null"
      BY DEF Null, Tag
  <2> QED BY <2>1, Something DEF IsId
<1>4. CASE m = Request(m.id, m.method, m.params, m.meta) /\ IsId(m.id) /\ IsCall(m)
  <2>0. \E a, b, c, d : m = Request(a, b, c, d)
      BY <1>4, Zenon
  <2>1. m.kind = "request" /\ m.result = None /\ m.error = None
      BY <2>0, Shapes
  <2>2. Has(o, "method") /\ o["method"] = Str(m.method) /\ Has(o, "id") /\ o["id"] = m.id /\ o["id"] # Null
      BY <1>1, <1>3, <1>4, <2>1
  <2>3. Parse(Serialize(m)) = ParseCall("request", o)
      BY <1>2, <2>2
  <2>4. PICK params, meta :
          ParamsKept(params, meta, m) /\ ParseCall("request", o) =
            Envelope("request", m.id, m.method, params, meta, None, None)
      BY <1>1, <1>4, <2>2, CallKept
  <2> QED BY <2>1, <2>3, <2>4 DEF SameMessage, Envelope
<1>5. CASE m = Notice(m.method, m.params, m.meta) /\ IsCall(m)
  <2>0. \E a, b, c : m = Notice(a, b, c)
      BY <1>5, Zenon
  <2>1. m.kind = "notification" /\ m.id = None /\ m.result = None /\ m.error = None
      BY <2>0, Shapes
  <2>2. Has(o, "method") /\ o["method"] = Str(m.method) /\ ~Has(o, "id")
      BY <1>1, <2>1
  <2>3. Parse(Serialize(m)) = ParseCall("notification", o)
      BY <1>2, <2>2
  <2>4. PICK params, meta :
          ParamsKept(params, meta, m) /\ ParseCall("notification", o) =
            Envelope("notification", None, m.method, params, meta, None, None)
      BY <1>1, <1>5, <2>2, CallKept
  <2> QED BY <2>1, <2>3, <2>4 DEF SameMessage, Envelope
<1>6. CASE m = Response(m.id, m.result) /\ IsId(m.id) /\ IsValue(m.result)
  <2>0. \E a, b : m = Response(a, b)
      BY <1>6, Zenon
  <2>1. /\ m.kind = "response" /\ m.method = "" /\ m.error = None
        /\ m.params = None /\ m.meta = None
      BY <2>0, Shapes
  <2>2. ~Has(o, "method") /\ Has(o, "result") /\ ~Has(o, "error") /\ o["result"] = m.result
        /\ Has(o, "id") /\ o["id"] = m.id /\ Tag(o["id"]) \in {"str", "int"}
      BY <1>1, <1>3, <1>6, <2>1, Something
  <2>3. Parse(Serialize(m)) = ParseResponse(o)
      BY <1>2, <2>2
  <2>4. ParseResponse(o) = Response(m.id, m.result)
      BY <2>2 DEF ParseResponse, Known
  <2>5. /\ Response(m.id, m.result).params = None /\ Response(m.id, m.result).meta = None
        /\ ParamsKept(None, None, m)
      BY <2>1, NoParams, Shapes
  <2> QED BY <1>6, <2>3, <2>4, <2>5 DEF SameMessage
<1>7. CASE m = ErrorAnswer(m.id, m.error) /\ (m.id = None \/ IsId(m.id)) /\ IsErrorData(m.error)
  <2>0. \E a, b : m = ErrorAnswer(a, b)
      BY <1>7, Zenon
  <2>1. /\ m.kind = "error" /\ m.method = "" /\ m.result = None
        /\ m.params = None /\ m.meta = None
      BY <2>0, Shapes
  <2>2. ~Has(o, "method") /\ ~Has(o, "result") /\ Has(o, "error") /\ Has(o, "id")
        /\ o["error"] = Filled(Members(m.error)) /\ o["id"] = IF m.id = None THEN Null ELSE m.id
      BY <1>1, <2>1
  <2>3. Parse(Serialize(m)) = ParseErrorResponse(o)
      BY <1>2, <2>2
  <2>4. DeserializeErrorData(o["error"]) = m.error /\ m.error # Err
      BY <1>7, <2>2, ErrorKept, Something DEF IsErrorData
  <2>5. /\ m.id = None => Tag(o["id"]) \notin {"str", "int"} /\ o["id"] = Null
        /\ m.id # None => Tag(o["id"]) \in {"str", "int"} /\ o["id"] = m.id
      BY <1>3, <1>7, <2>2 DEF Null, Tag
  <2>6. ParseErrorResponse(o) = ErrorAnswer(m.id, m.error)
      BY <2>2, <2>4, <2>5 DEF ParseErrorResponse, Known
  <2>7. /\ ErrorAnswer(m.id, m.error).params = None /\ ErrorAnswer(m.id, m.error).meta = None
        /\ ParamsKept(None, None, m)
      BY <2>1, NoParams, Shapes
  <2> QED BY <1>7, <2>3, <2>6, <2>7 DEF SameMessage
<1> QED BY <1>4, <1>5, <1>6, <1>7 DEF IsMessage

(* Whatever has been written is what the transport writes, and whatever has been read is what it reads. *)
Underway ==
    /\ errand \in Errands
    /\ errand.kind = "message" /\ at \in {"wire", "receiver"} => wire = Serialize(errand.message)
    /\ errand.kind = "message" /\ at = "receiver" => got = Parse(Serialize(errand.message))

(* A message that is written and read again is the same message: kind, id, method, answer, parameters *)
(* and metadata, whatever they hold (JsonRpc.cpp).                                                    *)
THEOREM EnvelopeKeptCorrect == EnvelopeSpec => []EnvelopeKept
<1>1. ErrandInit => Underway
    BY DEF ErrandInit, Underway
<1>2. Underway /\ [WriteMessage \/ ReadMessage]_<<errand, wire, got, at>> => Underway'
  <2> SUFFICES ASSUME Underway, [WriteMessage \/ ReadMessage]_<<errand, wire, got, at>>
               PROVE  Underway'
      OBVIOUS
  <2>1. CASE WriteMessage
      BY <2>1 DEF Underway, WriteMessage
  <2>2. CASE ReadMessage
      BY <2>2 DEF Underway, ReadMessage
  <2>3. CASE UNCHANGED <<errand, wire, got, at>>
      BY <2>3 DEF Underway
  <2> QED BY <2>1, <2>2, <2>3
<1>3. Underway => EnvelopeKept
  <2> SUFFICES ASSUME Underway, Delivered("message")
               PROVE  EnvelopeKept
      BY DEF EnvelopeKept
  <2>1. IsMessage(errand.message) /\ got = Parse(Serialize(errand.message))
      BY ErrandsAssumption DEF Underway, Delivered
  <2>2. SameMessage(got, errand.message)
      BY <2>1, MessageKept
  <2> QED BY <2>2 DEF EnvelopeKept, SameMessage, ParamsKept
<1> QED BY <1>1, <1>2, <1>3, PTL DEF EnvelopeSpec
================================================================================
