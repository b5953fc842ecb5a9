--------------------------- MODULE ClientServerProofs ---------------------------
(***************************************************************************)
(* Proofs about ClientServer for any number of threads, servers, sessions, *)
(* requests with a token, elicitations, subscriptions and notices, any     *)
(* size of page, of the cache and of the store of etags: a token lets its  *)
(* handlers go, an elicitation is settled once, client and server agree on *)
(* their version, a subscriber hears, lists are complete and private       *)
(* answers stay private.  Each of these has its own inductive invariant.   *)
(***************************************************************************)
EXTENDS ClientServer, SequenceTheorems, FiniteSetTheorems, WellFoundedInduction, TLAPS

--------------------------------------------------------------------------------
(* A token: the inductive invariant *)

(* What each variable holds.                                               *)
TokenTypes ==
  /\ used \subseteq TokenRequests
  /\ request \in [TokenRequests -> {"new", "pending", "cancelled", "settled"}]
  /\ attach \in [TokenRequests -> {"off", "added", "remove", "done"}]
  /\ completed \in [TokenRequests -> BOOLEAN]
  /\ handlerId \subseteq TokenRequests
  /\ complete \in [TokenRequests -> {"off", "remove", "done"}]
  /\ cancelled \in BOOLEAN
  /\ handlers \subseteq TokenRequests /\ running \subseteq TokenRequests

(* Attach comes after the request is sent, Complete after its outcome.     *)
TokenOrder(r) ==
  /\ attach[r] # "off" => request[r] # "new"
  /\ attach[r] = "remove" => completed[r]
  /\ completed[r] <=> complete[r] # "off"
  /\ completed[r] => request[r] \in {"settled", "cancelled"}
  /\ r \in handlerId => ~completed[r] /\ attach[r] = "done"

(* A handler the token keeps is somebody's to remove: of Attach, which has not looked at          *)
(* completed_ yet or has found it set, of Complete, which will find the id, or has taken it.      *)
HandlerOwned(r) ==
  r \in handlers =>
    \/ attach[r] \in {"added", "remove"}
    \/ attach[r] = "done" /\ (r \in handlerId \/ complete[r] = "remove")

(* The handler of a pending request is kept until the token is cancelled, then it is run.         *)
HandlerReached(r) ==
  request[r] = "pending" /\ attach[r] # "off" => IF cancelled THEN r \in running ELSE r \in handlers

TokenInv ==
  /\ TokenTypes
  /\ \A r \in TokenRequests : TokenOrder(r) /\ HandlerOwned(r) /\ HandlerReached(r)

--------------------------------------------------------------------------------
(* An elicitation: the inductive invariant *)

Outcomes == {"accept", "error"}

ElicitTypes ==
  /\ elicit \in [Elicitations -> {"new", "sent", "failed"}]
  /\ entered \subseteq Elicitations /\ confirmed \subseteq Elicitations /\ done \subseteq Elicitations
  /\ taken \subseteq Elicitations \X Outcomes
  /\ promised \in [Elicitations -> Seq(Outcomes)]
  /\ reply \in [Elicitations -> {"none", "result", "error"}]
  /\ watchdog \in [Elicitations -> {"off", "answer", "complete", "abandon", "gone"}]

Held(e) == \E o \in Outcomes : <<e, o>> \in taken

(* Nothing happens for an elicitation before it is sent.                   *)
NotYetSent(e) ==
  elicit[e] # "sent" =>
    /\ e \notin entered /\ ~Held(e) /\ promised[e] = <<>>
    /\ e \notin confirmed /\ e \notin done /\ watchdog[e] = "off" /\ reply[e] = "none"

(* The entry is in the table, or with one who took it, or its promise is set: one of the three.   *)
OneHolder(e) ==
  /\ elicit[e] = "sent" => e \in entered \/ Held(e) \/ promised[e] # <<>>
  /\ e \in entered => ~Held(e)
  /\ e \in entered \/ Held(e) => promised[e] = <<>>
  /\ Len(promised[e]) <= 1
  /\ ~(<<e, "accept">> \in taken /\ <<e, "error">> \in taken)

(* The watchdog leaves only when the entry has been taken out, by somebody or by itself.          *)
WatchdogStays(e) ==
  /\ e \in confirmed => e \notin entered
  /\ watchdog[e] = "gone" => e \notin entered /\ elicit[e] = "sent"

ElicitInv ==
  /\ ElicitTypes
  /\ \A e \in Elicitations : NotYetSent(e) /\ OneHolder(e) /\ WatchdogStays(e)

--------------------------------------------------------------------------------
(* The handshake: the inductive invariant *)

Messages == [kind : {"discover", "initialize", "initialized"}, session : 0 .. MaxSessions,
             n : Nat, by : Threads, declared : 0 .. 5]

HandshakeTypes ==
  /\ setup \in Setups /\ default \in 0 .. 5 /\ version \in [Sessions -> 0 .. 5]
  /\ alive \subseteq Sessions /\ expired \subseteq Sessions /\ ready \subseteq 0 .. MaxSessions
  /\ wire \in Seq(Messages)
  /\ hand \in [at : {"idle", "begin", "probe", "init", "agreed", "failed"}, by : Threads, n : Nat]
  /\ answer \in [kind : {"none", "ok", "unsupported", "refused"}, version : 0 .. 5]
  /\ me \in [state : {"connecting", "usable", "failed"}, version : 0 .. 5, modern : BOOLEAN,
             session : 0 .. MaxSessions, generation : Nat, agreed : BOOLEAN]

IsRequest(m) == m.kind \in {"discover", "initialize"}
NoRequests == \A i \in DOMAIN wire : ~IsRequest(wire[i])

(* Requests on the wire are numbered in the order they were sent in, and the last one that the    *)
(* client waits for is of the kind it waits for.                                                  *)
WireInOrder ==
  \A i \in DOMAIN wire : IsRequest(wire[i]) =>
    /\ wire[i].n <= hand.n
    /\ \A j \in 1 .. i - 1 : IsRequest(wire[j]) => wire[j].n < wire[i].n
    /\ wire[i].n = hand.n /\ At("probe") => wire[i].kind = "discover"
    /\ wire[i].n = hand.n /\ At("init") => wire[i].kind = "initialize"

(* A server told to keep to one version never goes by another one.                                *)
PinKept == setup.pin # 0 => default = setup.pin /\ \A s \in Sessions : version[s] \in {0, setup.pin}

(* The client's session goes by version v and nothing other clients do can change that: v is the  *)
(* modern version, or the session has a version of its own, or there are no other clients.        *)
Settled(v) ==
  /\ v # 0 /\ VersionFor(me.session) = v
  /\ Modern(v) \/ setup.local \/ (me.session # 0 /\ version[me.session] # 0)

(* A good answer is true when it is there, and no request of before can make it false.            *)
AnswerHolds ==
  hand.at \in {"probe", "init"} /\ answer.kind = "ok" =>
    /\ NoRequests /\ Settled(answer.version)
    /\ At("probe") => Modern(answer.version)

(* And so is what the client has agreed to, until it negotiates again.                            *)
AgreementHolds ==
  /\ me.agreed /\ hand.at \in {"agreed", "idle"} /\ setup.mode # "Pin" => NoRequests /\ Settled(me.version)
  /\ At("failed") => ~me.agreed

HandshakeInv == HandshakeTypes /\ WireInOrder /\ PinKept /\ AnswerHolds /\ AgreementHolds

--------------------------------------------------------------------------------
(* A token: the proof *)

(* The invariant of a token, and that it implies the property of the runs. *)
LEMMA TokenInvHolds == TokenInv => TokenLetsGo
  BY DEF TokenInv, TokenTypes, TokenOrder, HandlerOwned, HandlerReached, TokenLetsGo, Over

LEMMA TokensInitially == Init => TokenInv
<1> SUFFICES ASSUME Init PROVE TokenInv
  OBVIOUS
<1>1. scene.tokens \subseteq TokenRequests
  BY ClientServerAssumption DEF Init, CallsInit
<1>2. TokensInit(scene.tokens)
  BY DEF Init
<1> QED
  <2>1. TokenTypes
    <3>1. used \subseteq TokenRequests
      BY <1>1, <1>2 DEF TokensInit
    <3> QED
      BY <1>2, <3>1 DEF TokensInit, TokenTypes
  <2>2. \A r \in TokenRequests : TokenOrder(r) /\ HandlerOwned(r) /\ HandlerReached(r)
    BY <1>2 DEF TokensInit, TokenOrder, HandlerOwned, HandlerReached
  <2> QED
    BY <2>1, <2>2 DEF TokenInv

(* CancelRequest settles a pending request and touches no other. *)
LEMMA CancelRequestDoes ==
  ASSUME TokenTypes, NEW r \in TokenRequests, CancelRequest(r)
  PROVE  /\ request' \in [TokenRequests -> {"new", "pending", "cancelled", "settled"}]
         /\ \A x \in TokenRequests :
              /\ x # r => request'[x] = request[x]
              /\ request[x] # "pending" => request'[x] = request[x]
              /\ request[x] = "pending" => request'[x] # "new"
         /\ request'[r] # "pending"
         /\ request[r] = "new" <=> request'[r] = "new"
  BY SMT DEF TokenTypes, CancelRequest

(* Every step of a thread that has to do with the token keeps its invariant. *)
LEMMA TokenStep == TokenInv /\ TokensNext => TokenInv'
<1> SUFFICES ASSUME TokenInv, TokensNext PROVE TokenInv'
  OBVIOUS
<1> USE DEF TokenInv, TokenTypes, TokenOrder, HandlerOwned, HandlerReached
<1>1. CASE Cancel
  BY <1>1, SMT DEF Cancel
<1>2. ASSUME NEW r \in TokenRequests, SendWithToken(r) PROVE TokenInv'
  BY <1>2, SMT DEF SendWithToken
<1>3. ASSUME NEW r \in TokenRequests, AddCancelHandler(r) PROVE TokenInv'
  <2>1. CASE cancelled
    <3>1. CancelRequest(r)
      BY <1>3, <2>1 DEF AddCancelHandler
    <3> HIDE DEF TokenInv
    <3>2. /\ request' \in [TokenRequests -> {"new", "pending", "cancelled", "settled"}]
          /\ \A x \in TokenRequests :
               /\ x # r => request'[x] = request[x]
               /\ request[x] # "pending" => request'[x] = request[x]
               /\ request[x] = "pending" => request'[x] # "new"
          /\ request'[r] # "pending"
          /\ request[r] = "new" <=> request'[r] = "new"
      BY <3>1, CancelRequestDoes DEF TokenInv
    <3> USE DEF TokenInv
    <3>3. /\ attach' = [attach EXCEPT ![r] = "done"] /\ attach[r] = "off" /\ request[r] # "new"
          /\ used' = used /\ completed' = completed /\ handlerId' = handlerId /\ complete' = complete
          /\ cancelled' = cancelled /\ running' = running /\ handlers' = handlers
      BY <1>3, <2>1 DEF AddCancelHandler
    <3>4. r \notin handlers
      BY <3>3
    <3>5. TokenTypes'
      BY <3>2, <3>3, SMT
    <3>6. ASSUME NEW x \in TokenRequests PROVE TokenOrder(x)' /\ HandlerOwned(x)' /\ HandlerReached(x)'
      <4>1. CASE x = r
        BY <2>1, <3>2, <3>3, <3>4, <4>1, SMT
      <4>2. CASE x # r
        <5>1. request'[x] = request[x] /\ attach'[x] = attach[x]
          BY <3>2, <3>3, <4>2
        <5> QED
          BY <3>3, <5>1, SMT
      <4> QED
        BY <4>1, <4>2
    <3> HIDE DEF TokenTypes, TokenOrder, HandlerOwned, HandlerReached
    <3> QED
      BY <3>5, <3>6
  <2>2. CASE ~cancelled
    BY <1>3, <2>2, SMT DEF AddCancelHandler
  <2> QED
    BY <2>1, <2>2
<1>4. ASSUME NEW r \in TokenRequests, Attach(r) PROVE TokenInv'
  BY <1>4, SMT DEF Attach
<1>5. ASSUME NEW r \in TokenRequests, RemoveNow(r) PROVE TokenInv'
  BY <1>5, SMT DEF RemoveNow, RemoveCancelHandler
<1>6. ASSUME NEW r \in TokenRequests, Outcome(r) PROVE TokenInv'
  BY <1>6, SMT DEF Outcome
<1>7. ASSUME NEW r \in TokenRequests, Complete(r) PROVE TokenInv'
  BY <1>7, SMT DEF Complete
<1>8. ASSUME NEW r \in TokenRequests, RemoveTaken(r) PROVE TokenInv'
  BY <1>8, SMT DEF RemoveTaken, RemoveCancelHandler
<1>9. ASSUME NEW r \in TokenRequests, RunHandler(r) PROVE TokenInv'
  <2>1. CancelRequest(r)
    BY <1>9 DEF RunHandler
  <2> HIDE DEF TokenInv
  <2>2. /\ request' \in [TokenRequests -> {"new", "pending", "cancelled", "settled"}]
        /\ \A x \in TokenRequests :
             /\ x # r => request'[x] = request[x]
             /\ request[x] # "pending" => request'[x] = request[x]
             /\ request[x] = "pending" => request'[x] # "new"
        /\ request'[r] # "pending"
        /\ request[r] = "new" <=> request'[r] = "new"
    BY <2>1, CancelRequestDoes DEF TokenInv
  <2> USE DEF TokenInv
  <2> QED
    BY <1>9, <2>2, SMT DEF RunHandler
<1> HIDE DEF TokenInv
<1> QED
  BY <1>1, <1>2, <1>3, <1>4, <1>5, <1>6, <1>7, <1>8, <1>9 DEF TokensNext

(* The steps of the rest of the client and the server leave the token alone. *)
LEMMA TokenNext == TokenInv /\ [Next]_all => TokenInv'
<1> SUFFICES ASSUME TokenInv, [Next]_all PROVE TokenInv'
  OBVIOUS
<1>1. CASE TokensNext
  BY <1>1, TokenStep
<1>2. CASE UNCHANGED tokenVars
  BY <1>2 DEF tokenVars, TokenInv, TokenTypes, TokenOrder, HandlerOwned, HandlerReached
<1>3. TokensNext \/ UNCHANGED tokenVars
  BY DEF Next, all, theirs
<1> QED
  BY <1>1, <1>2, <1>3

(* Once a request that was sent with a CancelToken is over the token keeps no handler of it, and  *)
(* once the token is cancelled and its handlers have run none is pending: however Attach,         *)
(* Complete and Cancel of any number of requests interleave.                                      *)
THEOREM TokensLetGo == Spec => []TokenLetsGo
<1>1. Init => TokenInv
  BY TokensInitially
<1>2. TokenInv /\ [Next]_all => TokenInv'
  BY TokenNext
<1>3. TokenInv => TokenLetsGo
  BY TokenInvHolds
<1> QED
  BY <1>1, <1>2, <1>3, PTL DEF Spec

--------------------------------------------------------------------------------
(* An elicitation: the proof *)

LEMMA ElicitInvHolds == ElicitInv => SettledOnce
<1> SUFFICES ASSUME ElicitInv, NEW e \in Elicitations
             PROVE  /\ Len(promised[e]) <= 1
                    /\ (watchdog[e] = "gone" /\ \A x \in taken : x[1] # e) => promised[e] # <<>>
  BY DEF SettledOnce
<1>1. OneHolder(e) /\ WatchdogStays(e)
  BY DEF ElicitInv
<1>2. ASSUME \A x \in taken : x[1] # e PROVE ~Held(e)
  BY <1>2 DEF Held
<1> QED
  BY <1>1, <1>2 DEF OneHolder, WatchdogStays

LEMMA ElicitInitially == Init => ElicitInv
<1> SUFFICES ASSUME Init PROVE ElicitInv
  OBVIOUS
<1>1. ElicitInit(scene.elicits)
  BY DEF Init
<1>2. ElicitTypes
  <2>1. <<>> \in Seq(Outcomes)
    BY EmptySeq
  <2> QED
    BY <1>1, <2>1 DEF ElicitInit, ElicitTypes
<1>3. ASSUME NEW e \in Elicitations PROVE NotYetSent(e) /\ OneHolder(e) /\ WatchdogStays(e)
  <2>1. Len(<<>>) <= 1
    BY SMT
  <2> QED
    BY <1>1, <2>1, SMT DEF ElicitInit, NotYetSent, OneHolder, WatchdogStays, Held
<1> QED
  BY <1>2, <1>3 DEF ElicitInv

(* What the parts of the invariant say of an elicitation depends on its own state only. *)
LEMMA Undisturbed ==
  ASSUME NEW e \in Elicitations, NotYetSent(e), OneHolder(e), WatchdogStays(e),
         elicit'[e] = elicit[e], e \in entered' <=> e \in entered, e \in confirmed' <=> e \in confirmed,
         \A o \in Outcomes : <<e, o>> \in taken' <=> <<e, o>> \in taken,
         promised'[e] = promised[e], reply'[e] = reply[e], e \in done' <=> e \in done,
         watchdog'[e] = watchdog[e]
  PROVE  NotYetSent(e)' /\ OneHolder(e)' /\ WatchdogStays(e)'
<1>1. Held(e)' <=> Held(e)
  BY DEF Held
<1>2. NotYetSent(e)'
  BY <1>1 DEF NotYetSent
<1>3. OneHolder(e)'
  BY <1>1 DEF OneHolder, Outcomes
<1>4. WatchdogStays(e)'
  BY DEF WatchdogStays
<1> QED
  BY <1>2, <1>3, <1>4

(* The entry is taken out by one who finds it there. *)
LEMMA TakeDoes ==
  ASSUME ElicitTypes, NEW e \in Elicitations, NEW o \in Outcomes, Take(e, o),
         NotYetSent(e), OneHolder(e)
  PROVE  /\ entered' \subseteq Elicitations /\ taken' \subseteq Elicitations \X Outcomes
         /\ e \notin entered'
         /\ \A x \in Elicitations : x # e =>
              /\ x \in entered' <=> x \in entered
              /\ \A p \in Outcomes : <<x, p>> \in taken' <=> <<x, p>> \in taken
         /\ e \in entered => \A p \in Outcomes : <<e, p>> \in taken' <=> p = o
         /\ e \notin entered => taken' = taken
<1>1. CASE e \in entered
  <2>1. entered' = entered \ {e} /\ taken' = taken \cup {<<e, o>>}
    BY <1>1 DEF Take
  <2>2. \A p \in Outcomes : <<e, p>> \notin taken
    BY <1>1 DEF OneHolder, Held
  <2> QED
    BY <1>1, <2>1, <2>2 DEF ElicitTypes
<1>2. CASE e \notin entered
  BY <1>2 DEF Take, ElicitTypes
<1> QED
  BY <1>1, <1>2

(* Every step of the server, the client and the watchdog keeps the invariant. *)
LEMMA ElicitStep ==
  ASSUME ElicitInv, NEW e \in Elicitations,
         \/ ElicitUrl(e) \/ ClientAnswers(e) \/ ClientIsDone(e) \/ ElicitationComplete(e)
         \/ WatchdogAnswered(e) \/ WatchdogCompleted(e) \/ Deadline(e)
         \/ AbandonPendingUrlElicitation(e)
         \/ \E outcome \in {"accept", "error"} : Settle(e, outcome)
  PROVE  ElicitInv'
<1>0. ElicitTypes /\ NotYetSent(e) /\ OneHolder(e) /\ WatchdogStays(e)
  BY DEF ElicitInv
<1>a. ASSUME ElicitTypes', NotYetSent(e)', OneHolder(e)', WatchdogStays(e)',
             \A x \in Elicitations : x # e =>
               /\ elicit'[x] = elicit[x]
               /\ x \in entered' <=> x \in entered
               /\ x \in confirmed' <=> x \in confirmed
               /\ \A o \in Outcomes : <<x, o>> \in taken' <=> <<x, o>> \in taken
               /\ promised'[x] = promised[x]
               /\ reply'[x] = reply[x]
               /\ x \in done' <=> x \in done
               /\ watchdog'[x] = watchdog[x]
      PROVE ElicitInv'
  <2>1. ASSUME NEW x \in Elicitations PROVE NotYetSent(x)' /\ OneHolder(x)' /\ WatchdogStays(x)'
    <3>1. CASE x = e
      BY <1>a, <3>1
    <3>2. CASE x # e
      <4>1. NotYetSent(x) /\ OneHolder(x) /\ WatchdogStays(x)
        BY DEF ElicitInv
      <4> QED
        BY <1>a, <3>2, <4>1, Undisturbed
    <3> QED
      BY <3>1, <3>2
  <2> QED
    BY <1>a, <2>1 DEF ElicitInv
<1>1. CASE ElicitUrl(e)
  <2>1. ElicitTypes'
    BY <1>0, <1>1 DEF ElicitUrl, ElicitTypes
  <2>2. NotYetSent(e)' /\ OneHolder(e)' /\ WatchdogStays(e)'
    <3>1. /\ e \notin entered /\ ~Held(e) /\ promised[e] = <<>>
          /\ e \notin confirmed /\ e \notin done /\ watchdog[e] = "off" /\ reply[e] = "none"
      BY <1>0, <1>1 DEF ElicitUrl, NotYetSent
    <3>2. /\ confirmed' = confirmed /\ taken' = taken /\ promised' = promised
          /\ done' = done /\ reply' = reply
      BY <1>1 DEF ElicitUrl
    <3>3. ~Held(e)' /\ promised'[e] = <<>> /\ Len(promised'[e]) <= 1
      BY <3>1, <3>2, SMT DEF Held
    <3>4. ~(<<e, "accept">> \in taken' /\ <<e, "error">> \in taken')
      BY <3>3 DEF Held, Outcomes
    <3>5. \/ elicit'[e] = "sent" /\ e \in entered' /\ watchdog'[e] = "answer"
          \/ elicit'[e] = "failed" /\ e \notin entered' /\ watchdog'[e] = "off"
      BY <1>0, <1>1, <3>1 DEF ElicitUrl, ElicitTypes
    <3> QED
      BY <3>1, <3>2, <3>3, <3>4, <3>5 DEF NotYetSent, OneHolder, WatchdogStays
  <2>3. \A x \in Elicitations : x # e =>
          /\ elicit'[x] = elicit[x] /\ reply'[x] = reply[x] /\ watchdog'[x] = watchdog[x]
          /\ x \in entered' <=> x \in entered
          /\ x \in done' <=> x \in done
    BY <1>0, <1>1, SMT DEF ElicitUrl, ElicitTypes
  <2>4. confirmed' = confirmed /\ taken' = taken /\ promised' = promised
    BY <1>1 DEF ElicitUrl
  <2> QED
    BY <1>a, <2>1, <2>2, <2>3, <2>4
<1>2. CASE ClientAnswers(e)
  <2>1. ElicitTypes'
    BY <1>0, <1>2, SMT DEF ClientAnswers, ElicitTypes
  <2>2. NotYetSent(e)' /\ OneHolder(e)' /\ WatchdogStays(e)'
    <3>1. /\ elicit' = elicit /\ entered' = entered /\ confirmed' = confirmed
          /\ taken' = taken /\ promised' = promised
      BY <1>2 DEF ClientAnswers
    <3>2. OneHolder(e)'
      BY <1>0, <3>1 DEF OneHolder, Held
    <3>3. elicit[e] = "sent"
      BY <1>0, <1>2 DEF ClientAnswers, NotYetSent
    <3>4. NotYetSent(e)'
      BY <3>1, <3>3 DEF NotYetSent
    <3>5. WatchdogStays(e)'
      BY <1>0, <1>2, <3>1, <3>3, SMT DEF ClientAnswers, ElicitTypes, WatchdogStays
    <3> QED
      BY <3>2, <3>4, <3>5
  <2>3. \A x \in Elicitations : x # e =>
          /\ elicit'[x] = elicit[x] /\ reply'[x] = reply[x] /\ watchdog'[x] = watchdog[x]
          /\ x \in entered' <=> x \in entered
          /\ x \in done' <=> x \in done
    BY <1>0, <1>2, SMT DEF ClientAnswers, ElicitTypes
  <2>4. confirmed' = confirmed /\ taken' = taken /\ promised' = promised
    BY <1>2 DEF ClientAnswers
  <2> QED
    BY <1>a, <2>1, <2>2, <2>3, <2>4
<1>3. CASE ClientIsDone(e)
  <2>1. ElicitTypes'
    BY <1>0, <1>3, SMT DEF ClientIsDone, ElicitTypes
  <2>2. NotYetSent(e)' /\ OneHolder(e)' /\ WatchdogStays(e)'
    <3>1. /\ elicit' = elicit /\ entered' = entered /\ confirmed' = confirmed
          /\ taken' = taken /\ promised' = promised
      BY <1>3 DEF ClientIsDone
    <3>2. OneHolder(e)'
      BY <1>0, <3>1 DEF OneHolder, Held
    <3>3. elicit[e] = "sent"
      BY <1>0, <1>3 DEF ClientIsDone, NotYetSent
    <3>4. NotYetSent(e)'
      BY <3>1, <3>3 DEF NotYetSent
    <3>5. WatchdogStays(e)'
      BY <1>0, <1>3, <3>1, <3>3, SMT DEF ClientIsDone, ElicitTypes, WatchdogStays
    <3> QED
      BY <3>2, <3>4, <3>5
  <2>3. \A x \in Elicitations : x # e =>
          /\ elicit'[x] = elicit[x] /\ reply'[x] = reply[x] /\ watchdog'[x] = watchdog[x]
          /\ x \in entered' <=> x \in entered
          /\ x \in done' <=> x \in done
    BY <1>0, <1>3, SMT DEF ClientIsDone, ElicitTypes
  <2>4. confirmed' = confirmed /\ taken' = taken /\ promised' = promised
    BY <1>3 DEF ClientIsDone
  <2> QED
    BY <1>a, <2>1, <2>2, <2>3, <2>4
<1>5. CASE WatchdogAnswered(e)
  <2>1. ElicitTypes'
    BY <1>0, <1>5, SMT DEF WatchdogAnswered, ElicitTypes
  <2>2. NotYetSent(e)' /\ OneHolder(e)' /\ WatchdogStays(e)'
    <3>1. /\ elicit' = elicit /\ entered' = entered /\ confirmed' = confirmed
          /\ taken' = taken /\ promised' = promised
      BY <1>5 DEF WatchdogAnswered
    <3>2. OneHolder(e)'
      BY <1>0, <3>1 DEF OneHolder, Held
    <3>3. elicit[e] = "sent"
      BY <1>0, <1>5 DEF WatchdogAnswered, NotYetSent
    <3>4. NotYetSent(e)'
      BY <3>1, <3>3 DEF NotYetSent
    <3>5. WatchdogStays(e)'
      BY <1>0, <1>5, <3>1, <3>3, SMT DEF WatchdogAnswered, ElicitTypes, WatchdogStays
    <3> QED
      BY <3>2, <3>4, <3>5
  <2>3. \A x \in Elicitations : x # e =>
          /\ elicit'[x] = elicit[x] /\ reply'[x] = reply[x] /\ watchdog'[x] = watchdog[x]
          /\ x \in entered' <=> x \in entered
          /\ x \in done' <=> x \in done
    BY <1>0, <1>5, SMT DEF WatchdogAnswered, ElicitTypes
  <2>4. confirmed' = confirmed /\ taken' = taken /\ promised' = promised
    BY <1>5 DEF WatchdogAnswered
  <2> QED
    BY <1>a, <2>1, <2>2, <2>3, <2>4
<1>6. CASE WatchdogCompleted(e)
  <2>1. ElicitTypes'
    BY <1>0, <1>6, SMT DEF WatchdogCompleted, ElicitTypes
  <2>2. NotYetSent(e)' /\ OneHolder(e)' /\ WatchdogStays(e)'
    <3>1. /\ elicit' = elicit /\ entered' = entered /\ confirmed' = confirmed
          /\ taken' = taken /\ promised' = promised
      BY <1>6 DEF WatchdogCompleted
    <3>2. OneHolder(e)'
      BY <1>0, <3>1 DEF OneHolder, Held
    <3>3. elicit[e] = "sent"
      BY <1>0, <1>6 DEF WatchdogCompleted, NotYetSent
    <3>4. NotYetSent(e)'
      BY <3>1, <3>3 DEF NotYetSent
    <3>5. WatchdogStays(e)'
      BY <1>0, <1>6, <3>1, <3>3, SMT DEF WatchdogCompleted, ElicitTypes, WatchdogStays
    <3> QED
      BY <3>2, <3>4, <3>5
  <2>3. \A x \in Elicitations : x # e =>
          /\ elicit'[x] = elicit[x] /\ reply'[x] = reply[x] /\ watchdog'[x] = watchdog[x]
          /\ x \in entered' <=> x \in entered
          /\ x \in done' <=> x \in done
    BY <1>0, <1>6, SMT DEF WatchdogCompleted, ElicitTypes
  <2>4. confirmed' = confirmed /\ taken' = taken /\ promised' = promised
    BY <1>6 DEF WatchdogCompleted
  <2> QED
    BY <1>a, <2>1, <2>2, <2>3, <2>4
<1>7. CASE Deadline(e)
  <2>1. ElicitTypes'
    BY <1>0, <1>7, SMT DEF Deadline, ElicitTypes
  <2>2. NotYetSent(e)' /\ OneHolder(e)' /\ WatchdogStays(e)'
    <3>1. /\ elicit' = elicit /\ entered' = entered /\ confirmed' = confirmed
          /\ taken' = taken /\ promised' = promised
      BY <1>7 DEF Deadline
    <3>2. OneHolder(e)'
      BY <1>0, <3>1 DEF OneHolder, Held
    <3>3. elicit[e] = "sent"
      BY <1>0, <1>7 DEF Deadline, NotYetSent
    <3>4. NotYetSent(e)'
      BY <3>1, <3>3 DEF NotYetSent
    <3>5. WatchdogStays(e)'
      BY <1>0, <1>7, <3>1, <3>3, SMT DEF Deadline, ElicitTypes, WatchdogStays
    <3> QED
      BY <3>2, <3>4, <3>5
  <2>3. \A x \in Elicitations : x # e =>
          /\ elicit'[x] = elicit[x] /\ reply'[x] = reply[x] /\ watchdog'[x] = watchdog[x]
          /\ x \in entered' <=> x \in entered
          /\ x \in done' <=> x \in done
    BY <1>0, <1>7, SMT DEF Deadline, ElicitTypes
  <2>4. confirmed' = confirmed /\ taken' = taken /\ promised' = promised
    BY <1>7 DEF Deadline
  <2> QED
    BY <1>a, <2>1, <2>2, <2>3, <2>4
<1>4. CASE ElicitationComplete(e)
  <2>1. Take(e, "accept") /\ "accept" \in Outcomes
    BY <1>4 DEF ElicitationComplete, Outcomes
  <2>2. /\ entered' \subseteq Elicitations /\ taken' \subseteq Elicitations \X Outcomes
        /\ e \notin entered'
        /\ \A x \in Elicitations : x # e =>
             /\ x \in entered' <=> x \in entered
             /\ \A p \in Outcomes : <<x, p>> \in taken' <=> <<x, p>> \in taken
        /\ e \in entered => \A p \in Outcomes : <<e, p>> \in taken' <=> p = "accept"
        /\ e \notin entered => taken' = taken
    BY <1>0, <2>1, TakeDoes
  <2>3. ElicitTypes'
    BY <1>0, <1>4, <2>2, SMT DEF ElicitationComplete, ElicitTypes
  <2>4. NotYetSent(e)' /\ OneHolder(e)' /\ WatchdogStays(e)'
    BY <1>0, <1>4, <2>2, SMT
       DEF ElicitationComplete, NotYetSent, OneHolder, WatchdogStays, Held, Outcomes
  <2>5. \A x \in Elicitations : x # e => (x \in confirmed' <=> x \in confirmed) /\ (x \in done' <=> x \in done)
    BY <1>4 DEF ElicitationComplete
  <2> QED
    BY <1>4, <1>a, <2>2, <2>3, <2>4, <2>5 DEF ElicitationComplete
<1>8. CASE AbandonPendingUrlElicitation(e)
  <2>1. Take(e, "error") /\ "error" \in Outcomes
    BY <1>8 DEF AbandonPendingUrlElicitation, Outcomes
  <2>2. /\ entered' \subseteq Elicitations /\ taken' \subseteq Elicitations \X Outcomes
        /\ e \notin entered'
        /\ \A x \in Elicitations : x # e =>
             /\ x \in entered' <=> x \in entered
             /\ \A p \in Outcomes : <<x, p>> \in taken' <=> <<x, p>> \in taken
        /\ e \in entered => \A p \in Outcomes : <<e, p>> \in taken' <=> p = "error"
        /\ e \notin entered => taken' = taken
    BY <1>0, <2>1, TakeDoes
  <2>3. ElicitTypes'
    BY <1>0, <1>8, <2>2, SMT DEF AbandonPendingUrlElicitation, ElicitTypes
  <2>4. NotYetSent(e)' /\ OneHolder(e)' /\ WatchdogStays(e)'
    BY <1>0, <1>8, <2>2, SMT
       DEF AbandonPendingUrlElicitation, ElicitTypes, NotYetSent, OneHolder, WatchdogStays, Held, Outcomes
  <2>5. \A x \in Elicitations : x # e => watchdog'[x] = watchdog[x]
    BY <1>0, <1>8 DEF AbandonPendingUrlElicitation, ElicitTypes
  <2> QED
    BY <1>8, <1>a, <2>2, <2>3, <2>4, <2>5 DEF AbandonPendingUrlElicitation
<1>9. ASSUME NEW outcome \in {"accept", "error"}, Settle(e, outcome) PROVE ElicitInv'
  <2>0. /\ <<e, outcome>> \in taken /\ taken' = taken \ {<<e, outcome>>}
        /\ promised' = [promised EXCEPT ![e] = Append(@, outcome)]
        /\ elicit' = elicit /\ entered' = entered /\ confirmed' = confirmed
        /\ reply' = reply /\ done' = done /\ watchdog' = watchdog
    BY <1>9 DEF Settle
  <2>1. Held(e) /\ outcome \in Outcomes
    BY <2>0 DEF Held, Outcomes
  <2>2. promised[e] = <<>> /\ elicit[e] = "sent" /\ e \notin entered
    BY <1>0, <2>1 DEF OneHolder, NotYetSent
  <2>3. promised'[e] = <<outcome>>
    BY <1>0, <2>0, <2>2 DEF ElicitTypes
  <2>4. <<outcome>> \in Seq(Outcomes) /\ Len(<<outcome>>) = 1 /\ <<outcome>> # <<>>
    BY <2>1, SMT
  <2>5. ~Held(e)'
    BY <1>0, <2>0 DEF Held, OneHolder, Outcomes
  <2>6. \A x \in Elicitations : x # e =>
          /\ promised'[x] = promised[x]
          /\ \A o \in Outcomes : <<x, o>> \in taken' <=> <<x, o>> \in taken
    BY <1>0, <2>0 DEF ElicitTypes
  <2>7. promised' \in [Elicitations -> Seq(Outcomes)]
    <3>1. promised' = [promised EXCEPT ![e] = <<outcome>>]
      BY <1>0, <2>0, <2>2, <2>3 DEF ElicitTypes
    <3> QED
      BY <1>0, <2>4, <3>1 DEF ElicitTypes
  <2>8. ElicitTypes'
    BY <1>0, <2>0, <2>7 DEF ElicitTypes
  <2>9. NotYetSent(e)' /\ WatchdogStays(e)'
    BY <1>0, <2>0, <2>2 DEF NotYetSent, WatchdogStays
  <2>10. OneHolder(e)'
    <3>1. e \notin entered'
      BY <2>0, <2>2
    <3>2. ~(<<e, "accept">> \in taken' /\ <<e, "error">> \in taken')
      BY <2>5 DEF Held, Outcomes
    <3>3. promised'[e] # <<>> /\ Len(promised'[e]) <= 1
      BY <2>3, <2>4, SMT
    <3> QED
      BY <2>5, <3>1, <3>2, <3>3 DEF OneHolder
  <2> QED
    BY <1>a, <2>0, <2>6, <2>8, <2>9, <2>10
<1> QED
  BY <1>1, <1>2, <1>3, <1>4, <1>5, <1>6, <1>7, <1>8, <1>9

(* The steps of the rest of the client and the server leave the elicitations alone. *)
LEMMA ElicitNextKeeps == ElicitInv /\ [Next]_all => ElicitInv'
<1> SUFFICES ASSUME ElicitInv, [Next]_all PROVE ElicitInv'
  OBVIOUS
<1>1. CASE ElicitNext
  BY <1>1, ElicitStep DEF ElicitNext
<1>2. CASE UNCHANGED elicitVars
  BY <1>2 DEF elicitVars, ElicitInv, ElicitTypes, NotYetSent, OneHolder, WatchdogStays, Held
<1>3. ElicitNext \/ UNCHANGED elicitVars
  BY DEF Next, all, theirs
<1> QED
  BY <1>1, <1>2, <1>3

(* The promise that ElicitUrl makes is set once, whoever takes the entry out of                   *)
(* pending_url_elicitations_, and has been set when the watchdog has gone and nobody holds it.    *)
THEOREM PromisesSettledOnce == Spec => []SettledOnce
<1>1. Init => ElicitInv
  BY ElicitInitially
<1>2. ElicitInv /\ [Next]_all => ElicitInv'
  BY ElicitNextKeeps
<1>3. ElicitInv => SettledOnce
  BY ElicitInvHolds
<1> QED
  BY <1>1, <1>2, <1>3, PTL DEF Spec

--------------------------------------------------------------------------------
(* The handshake: lemmas *)

(* What is assumed of a setup. *)
LEMMA SetupFacts ==
  ASSUME setup \in Setups
  PROVE  /\ setup.mode \in {"Auto", "Legacy", "Pin"} /\ setup.local \in BOOLEAN
         /\ setup.supported \subseteq 1 .. 5 /\ setup.pin \in 0 .. 5
  BY HandshakeAssumption DEF Versions

LEMMA HandshakeInvHolds == HandshakeInv => VersionsAgree
<1> SUFFICES ASSUME HandshakeInv PROVE VersionsAgree
  OBVIOUS
<1>1. HandshakeTypeOK
  BY DEF HandshakeInv, HandshakeTypes, HandshakeTypeOK
<1>2. me.agreed /\ At("idle") /\ setup.mode # "Pin" => VersionFor(me.session) = me.version
  BY DEF HandshakeInv, AgreementHolds, Settled, At
<1> QED
  BY <1>1, <1>2 DEF VersionsAgree

(* A session that is not in use is found where there is one. *)
LEMMA MinIsIn ==
  ASSUME NEW S, S \subseteq Sessions, S # {}
  PROVE  Min(S) \in S
<1>1. S \subseteq Nat
  BY HandshakeAssumption, SMT DEF Sessions
<1>2. \E x \in S : \A y \in S : ~ (<<y, x>> \in OpToRel(<, Nat))
  BY <1>1, NatLessThanWellFounded, WFMin
<1>3. \E x \in S : \A y \in S : x <= y
  <2>1. PICK x \in S : \A y \in S : ~ (<<y, x>> \in OpToRel(<, Nat))
    BY <1>2
  <2>2. ASSUME NEW y \in S PROVE x <= y
    <3>1. ~ (y < x)
      BY <1>1, <2>1 DEF OpToRel
    <3> QED
      BY <1>1, <3>1, SMT
  <2> QED
    BY <2>2
<1> QED
  BY <1>3 DEF Min

(* The newest version is the one chosen when the server has it. *)
LEMMA LatestIsSelected ==
  ASSUME setup \in Setups, Latest \in setup.supported
  PROVE  SelectSharedVersion = Latest
<1>1. setup.supported \cap Versions \subseteq 1 .. 5 /\ Latest \in setup.supported \cap Versions
  BY SetupFacts, SMT DEF Versions, Latest
<1>2. \A y \in setup.supported \cap Versions : Latest >= y
  BY <1>1, SMT DEF Latest
<1>3. \A x \in setup.supported \cap Versions :
        (\A y \in setup.supported \cap Versions : x >= y) => x = Latest
  BY <1>1, SMT DEF Latest
<1> QED
  BY <1>1, <1>2, <1>3 DEF SelectSharedVersion, Max

LEMMA SelectedIsVersion ==
  ASSUME setup \in Setups, NEW declared \in 0 .. 5
  PROVE  Selected(declared) \in 1 .. 5 /\ (setup.pin # 0 => Selected(declared) = setup.pin)
  BY SetupFacts, SMT DEF Selected, DefaultNegotiated, Legacy, Modern, Latest

(* What is left on the wire when message i is taken. *)
LEMMA WireAfter ==
  ASSUME wire \in Seq(Messages), NEW i, NEW kind, Takes(i, kind)
  PROVE  /\ i \in 1 .. Len(wire) /\ wire[i] \in Messages /\ wire[i].kind = kind
         /\ wire' \in Seq(Messages) /\ Len(wire') = Len(wire) - 1
         /\ \A j \in 1 .. Len(wire') : wire'[j] = wire[IF j < i THEN j ELSE j + 1]
<1>1. i \in 1 .. Len(wire) /\ wire[i].kind = kind /\ wire' = RemoveAt(wire, i)
  BY DEF Takes
<1>2. Len(wire) \in Nat /\ \A j \in 1 .. Len(wire) : wire[j] \in Messages
  BY LenProperties, ElementOfSeq
<1> DEFINE front == SubSeq(wire, 1, i - 1)
           rest == SubSeq(wire, i + 1, Len(wire))
<1>3. front \in Seq(Messages) /\ Len(front) = i - 1 /\ \A j \in 1 .. i - 1 : front[j] = wire[j]
  BY <1>1, <1>2, SMT
<1>4. rest \in Seq(Messages) /\ Len(rest) = Len(wire) - i
      /\ \A j \in 1 .. Len(wire) - i : rest[j] = wire[i + j]
  BY <1>1, <1>2, SMT
<1>5. wire' = front \o rest
  BY <1>1 DEF RemoveAt
<1> HIDE DEF front, rest
<1>6. wire' \in Seq(Messages) /\ Len(wire') = Len(wire) - 1
  BY <1>1, <1>2, <1>3, <1>4, <1>5, SMTT(30)
<1>7. ASSUME NEW j \in 1 .. Len(wire') PROVE wire'[j] = wire[IF j < i THEN j ELSE j + 1]
  <2>1. CASE j < i
    BY <1>1, <1>2, <1>3, <1>4, <1>5, <1>6, <2>1, SMT
  <2>2. CASE ~ (j < i)
    <3>1. wire'[j] = rest[j - (i - 1)]
      BY <1>1, <1>2, <1>3, <1>4, <1>5, <1>6, <2>2, SMT
    <3>2. j - (i - 1) \in 1 .. Len(wire) - i /\ i + (j - (i - 1)) = j + 1
      BY <1>1, <1>2, <1>6, <2>2, SMT
    <3> QED
      BY <1>4, <2>2, <3>1, <3>2
  <2> QED
    BY <2>1, <2>2
<1> QED
  BY <1>1, <1>2, <1>6, <1>7

(* Taking a message keeps the requests in order, and leaves none where there was none. *)
LEMMA OrderAfter ==
  ASSUME HandshakeTypes, WireInOrder, NEW i, NEW kind, Takes(i, kind), hand' = hand
  PROVE  WireInOrder' /\ (NoRequests => NoRequests')
<1>1. /\ i \in 1 .. Len(wire) /\ Len(wire) \in Nat
      /\ wire' \in Seq(Messages) /\ Len(wire') = Len(wire) - 1
      /\ \A j \in 1 .. Len(wire') : wire'[j] = wire[IF j < i THEN j ELSE j + 1]
  BY WireAfter, LenProperties DEF HandshakeTypes
<1>2. DOMAIN wire = 1 .. Len(wire) /\ DOMAIN wire' = 1 .. Len(wire')
  BY <1>1, LenProperties DEF HandshakeTypes
<1> DEFINE Was(j) == IF j < i THEN j ELSE j + 1
<1>3. \A j \in 1 .. Len(wire') : Was(j) \in 1 .. Len(wire) /\ wire'[j] = wire[Was(j)]
  BY <1>1, SMT
<1>4. \A j, k \in 1 .. Len(wire') : j < k => Was(j) < Was(k)
  BY <1>1, SMT
<1> HIDE DEF Was
<1>5. NoRequests => NoRequests'
  BY <1>2, <1>3 DEF NoRequests
<1>6. ASSUME NEW k \in 1 .. Len(wire'), IsRequest(wire'[k])
      PROVE  /\ wire'[k].n <= hand.n
             /\ \A j \in 1 .. k - 1 : IsRequest(wire'[j]) => wire'[j].n < wire'[k].n
             /\ wire'[k].n = hand.n /\ At("probe") => wire'[k].kind = "discover"
             /\ wire'[k].n = hand.n /\ At("init") => wire'[k].kind = "initialize"
  <2>1. Was(k) \in 1 .. Len(wire) /\ wire'[k] = wire[Was(k)]
    BY <1>3
  <2>2. /\ wire'[k].n <= hand.n
        /\ \A j \in 1 .. Was(k) - 1 : IsRequest(wire[j]) => wire[j].n < wire'[k].n
        /\ wire'[k].n = hand.n /\ At("probe") => wire'[k].kind = "discover"
        /\ wire'[k].n = hand.n /\ At("init") => wire'[k].kind = "initialize"
    BY <1>2, <1>6, <2>1 DEF WireInOrder
  <2>3. ASSUME NEW j \in 1 .. k - 1, IsRequest(wire'[j]) PROVE wire'[j].n < wire'[k].n
    <3>1. j \in 1 .. Len(wire') /\ j < k
      BY <1>1, SMT
    <3>2. Was(j) \in 1 .. Len(wire) /\ Was(j) < Was(k) /\ wire'[j] = wire[Was(j)]
      BY <1>3, <1>4, <3>1
    <3>3. Was(j) \in 1 .. Was(k) - 1
      BY <1>1, <2>1, <3>2, SMT
    <3> QED
      BY <2>2, <2>3, <3>2, <3>3
  <2> QED
    BY <2>2, <2>3
<1>7. WireInOrder'
  BY <1>2, <1>6 DEF WireInOrder, At
<1> QED
  BY <1>5, <1>7

(* A request is taken when those before it have been: if it is the last that was sent, none is    *)
(* left.  And as long as there was one there was neither an agreement nor a good answer.          *)
LEMMA RequestTaken ==
  ASSUME HandshakeInv, NEW i, NEW kind \in {"discover", "initialize"}, Takes(i, kind), hand' = hand
  PROVE  /\ wire[i].n = hand.n => NoRequests'
         /\ wire[i].n = hand.n /\ At("probe") => kind = "discover"
         /\ wire[i].n = hand.n /\ At("init") => kind = "initialize"
         /\ ~ (me.agreed /\ hand.at \in {"agreed", "idle"} /\ setup.mode # "Pin")
         /\ ~ (hand.at \in {"probe", "init"} /\ answer.kind = "ok")
<1>1. /\ i \in 1 .. Len(wire) /\ wire[i] \in Messages /\ wire[i].kind = kind
      /\ wire' \in Seq(Messages) /\ Len(wire') = Len(wire) - 1
      /\ \A j \in 1 .. Len(wire') : wire'[j] = wire[IF j < i THEN j ELSE j + 1]
  BY WireAfter DEF HandshakeInv, HandshakeTypes
<1>2. /\ Len(wire) \in Nat /\ DOMAIN wire = 1 .. Len(wire) /\ DOMAIN wire' = 1 .. Len(wire')
      /\ \A j \in 1 .. Len(wire) : wire[j] \in Messages
  BY <1>1, LenProperties, ElementOfSeq DEF HandshakeInv, HandshakeTypes
<1>3. IsRequest(wire[i]) /\ ~NoRequests
  BY <1>1, <1>2 DEF IsRequest, NoRequests
<1>4. \A j \in 1 .. i - 1 : ~IsRequest(wire[j])
  BY <1>1 DEF Takes, IsRequest
<1>5. ASSUME wire[i].n = hand.n, NEW k \in 1 .. Len(wire'), IsRequest(wire'[k]) PROVE FALSE
  <2>1. CASE k < i
    BY <1>1, <1>2, <1>4, <1>5, <2>1, SMT
  <2>2. CASE ~ (k < i)
    <3>1. k + 1 \in DOMAIN wire /\ i \in 1 .. (k + 1) - 1 /\ wire'[k] = wire[k + 1]
      BY <1>1, <1>2, <2>2, SMT
    <3>2. wire[k + 1].n <= hand.n /\ wire[i].n < wire[k + 1].n
      BY <1>3, <1>5, <3>1 DEF HandshakeInv, WireInOrder
    <3>3. wire[k + 1].n \in Nat /\ hand.n \in Nat
      BY <1>2, <3>1 DEF HandshakeInv, HandshakeTypes, Messages
    <3> QED
      BY <1>5, <3>2, <3>3, SMT
  <2> QED
    BY <2>1, <2>2
<1>6. wire[i].n = hand.n => NoRequests'
  BY <1>2, <1>5 DEF NoRequests
<1>7. /\ wire[i].n = hand.n /\ At("probe") => kind = "discover"
      /\ wire[i].n = hand.n /\ At("init") => kind = "initialize"
  BY <1>1, <1>2, <1>3 DEF HandshakeInv, WireInOrder
<1> QED
  BY <1>3, <1>6, <1>7 DEF HandshakeInv, AnswerHolds, AgreementHolds

(* What the proofs below use of the types of the records. *)
LEMMA RecordFacts ==
  ASSUME HandshakeTypes
  PROVE  /\ hand.at \in {"idle", "begin", "probe", "init", "agreed", "failed"}
         /\ hand.by \in Threads /\ hand.n \in Nat
         /\ answer.kind \in {"none", "ok", "unsupported", "refused"} /\ answer.version \in 0 .. 5
         /\ me.session \in 0 .. MaxSessions /\ me.version \in 0 .. 5 /\ me.agreed \in BOOLEAN
         /\ MaxSessions \in Nat
  BY HandshakeAssumption DEF HandshakeTypes

(* A message is put behind those on the wire. *)
LEMMA WireAppended ==
  ASSUME wire \in Seq(Messages), NEW m \in Messages, wire' = Append(wire, m)
  PROVE  /\ wire' \in Seq(Messages) /\ Len(wire') = Len(wire) + 1 /\ Len(wire) \in Nat
         /\ DOMAIN wire = 1 .. Len(wire) /\ DOMAIN wire' = 1 .. Len(wire) + 1
         /\ \A j \in 1 .. Len(wire) : wire'[j] = wire[j] /\ wire[j] \in Messages
         /\ wire'[Len(wire) + 1] = m
  BY AppendProperties, LenProperties, ElementOfSeq, SMT

(* A request goes out: it is the last one, and there is no answer yet. *)
LEMMA AskDoes ==
  ASSUME HandshakeTypes, WireInOrder, NEW step, NEW kind, Ask(step, kind),
         <<step, kind>> \in {<<"probe", "discover">>, <<"init", "initialize">>}
  PROVE  /\ wire' \in Seq(Messages) /\ WireInOrder' /\ answer' = NoAnswer
         /\ hand' = [at |-> step, by |-> hand.by, n |-> hand.n + 1]
         /\ hand' \in [at : {"idle", "begin", "probe", "init", "agreed", "failed"}, by : Threads, n : Nat]
<1> DEFINE m == Message(kind, 0, hand.n + 1, hand.by)
<1>1. hand' = [at |-> step, by |-> hand.by, n |-> hand.n + 1]
  BY DEF Ask, HandshakeTypes
<1>2. hand.n \in Nat /\ hand.by \in Threads /\ MaxSessions \in Nat
  BY RecordFacts
<1>3. /\ m \in Messages /\ m.kind = kind /\ m.n = hand.n + 1
  BY <1>2, SMT DEF Message, Messages, Legacy, Latest
<1> HIDE DEF m
<1>4. wire' = Append(wire, m) /\ answer' = NoAnswer
  BY DEF Ask, m
<1>5. /\ wire' \in Seq(Messages) /\ Len(wire') = Len(wire) + 1 /\ Len(wire) \in Nat
      /\ DOMAIN wire = 1 .. Len(wire) /\ DOMAIN wire' = 1 .. Len(wire) + 1
      /\ \A j \in 1 .. Len(wire) : wire'[j] = wire[j] /\ wire[j] \in Messages
      /\ wire'[Len(wire) + 1] = m
  BY <1>3, <1>4, WireAppended DEF HandshakeTypes
<1>6. \A j \in 1 .. Len(wire) : IsRequest(wire[j]) => wire[j].n \in Nat /\ wire[j].n <= hand.n
  BY <1>5 DEF WireInOrder, Messages
<1>7. ASSUME NEW k \in DOMAIN wire', IsRequest(wire'[k])
      PROVE  /\ wire'[k].n <= hand'.n
             /\ \A j \in 1 .. k - 1 : IsRequest(wire'[j]) => wire'[j].n < wire'[k].n
             /\ wire'[k].n = hand'.n /\ hand'.at = "probe" => wire'[k].kind = "discover"
             /\ wire'[k].n = hand'.n /\ hand'.at = "init" => wire'[k].kind = "initialize"
  <2>1. CASE k = Len(wire) + 1
    <3>1. ASSUME NEW j \in 1 .. k - 1, IsRequest(wire'[j]) PROVE wire'[j].n < wire'[k].n
      <4>1. j \in 1 .. Len(wire)
        BY <1>5, <2>1, SMT
      <4> QED
        BY <1>2, <1>3, <1>5, <1>6, <2>1, <3>1, <4>1, SMT
    <3>2. wire'[k].n <= hand'.n
      BY <1>1, <1>2, <1>3, <1>5, <2>1, SMT
    <3>3. wire'[k].kind = kind /\ hand'.at = step
      BY <1>1, <1>3, <1>5, <2>1
    <3> QED
      BY <3>1, <3>2, <3>3
  <2>2. CASE k # Len(wire) + 1
    <3>1. k \in 1 .. Len(wire) /\ wire'[k] = wire[k]
      BY <1>5, <2>2, SMT
    <3>2. wire'[k].n \in Nat /\ wire'[k].n <= hand.n
      BY <1>6, <1>7, <3>1
    <3>3. wire'[k].n < hand'.n
      BY <1>1, <1>2, <3>2, SMT
    <3>4. ASSUME NEW j \in 1 .. k - 1, IsRequest(wire'[j]) PROVE wire'[j].n < wire'[k].n
      <4>1. j \in 1 .. Len(wire) /\ wire'[j] = wire[j]
        BY <1>5, <3>1, SMT
      <4> QED
        BY <1>5, <1>7, <3>1, <3>4, <4>1 DEF WireInOrder
    <3> QED
      BY <1>1, <1>2, <3>2, <3>3, <3>4, SMT
  <2> QED
    BY <2>1, <2>2
<1>8. WireInOrder'
  BY <1>7 DEF WireInOrder, At
<1>9. hand' \in [at : {"idle", "begin", "probe", "init", "agreed", "failed"}, by : Threads, n : Nat]
  BY <1>1, <1>2, SMT
<1> QED
  BY <1>1, <1>4, <1>5, <1>8, <1>9

(* A client that stops waiting leaves the wire in order. *)
LEMMA OrderKept ==
  ASSUME WireInOrder, wire' = wire, hand'.n = hand.n,
         hand'.at \in {"idle", "begin", "agreed", "failed"} \/ hand'.at = hand.at
  PROVE  WireInOrder' /\ (NoRequests => NoRequests')
<1>1. NoRequests => NoRequests'
  BY DEF NoRequests
<1>2. (At("probe") => "probe" = hand.at)' /\ (At("init") => "init" = hand.at)'
  BY DEF At
<1>3. (At("probe")' => At("probe")) /\ (At("init")' => At("init"))
  BY DEF At
<1>4. WireInOrder'
  BY <1>3 DEF WireInOrder
<1> QED
  BY <1>1, <1>4

(* A notification is nobody's request. *)
LEMMA NotifyDoes ==
  ASSUME HandshakeTypes, WireInOrder, Notify, hand'.n = hand.n, hand'.at \in {"agreed", "failed"}
  PROVE  wire' \in Seq(Messages) /\ WireInOrder' /\ (NoRequests => NoRequests')
<1> DEFINE m == Message("initialized", me.session, 0, hand.by)
<1>1. hand.n \in Nat /\ hand.by \in Threads /\ me.session \in 0 .. MaxSessions
  BY RecordFacts
<1>2. m \in Messages /\ ~IsRequest(m)
  BY <1>1, SMT DEF Message, Messages, Latest, IsRequest
<1> HIDE DEF m
<1>3. wire' = Append(wire, m)
  BY DEF Notify, m
<1>4. /\ wire' \in Seq(Messages) /\ Len(wire') = Len(wire) + 1 /\ Len(wire) \in Nat
      /\ DOMAIN wire = 1 .. Len(wire) /\ DOMAIN wire' = 1 .. Len(wire) + 1
      /\ \A j \in 1 .. Len(wire) : wire'[j] = wire[j] /\ wire[j] \in Messages
      /\ wire'[Len(wire) + 1] = m
  BY <1>2, <1>3, WireAppended DEF HandshakeTypes
<1>5. ASSUME NEW k \in DOMAIN wire', IsRequest(wire'[k])
      PROVE  k \in DOMAIN wire /\ wire'[k] = wire[k] /\ \A j \in 1 .. k - 1 : wire'[j] = wire[j]
  <2>1. k # Len(wire) + 1
    BY <1>2, <1>4, <1>5
  <2>2. k \in 1 .. Len(wire)
    BY <1>4, <2>1, SMT
  <2> QED
    BY <1>4, <2>2, SMT
<1>6. NoRequests => NoRequests'
  BY <1>5 DEF NoRequests
<1>7. ASSUME NEW k \in DOMAIN wire', IsRequest(wire'[k])
      PROVE  /\ wire'[k].n <= hand'.n
             /\ \A j \in 1 .. k - 1 : IsRequest(wire'[j]) => wire'[j].n < wire'[k].n
  BY <1>5, <1>7 DEF WireInOrder
<1>8. WireInOrder'
  BY <1>7 DEF WireInOrder, At
<1> QED
  BY <1>4, <1>6, <1>8

(* Agreeing and failing change what the client waits for and what it thinks, and no more. *)
LEMMA AgreeDoes ==
  ASSUME HandshakeTypes, NEW v \in 0 .. 5, NEW modern \in BOOLEAN, Agree(v, modern)
  PROVE  /\ hand' \in [at : {"idle", "begin", "probe", "init", "agreed", "failed"}, by : Threads, n : Nat]
         /\ me' \in [state : {"connecting", "usable", "failed"}, version : 0 .. 5, modern : BOOLEAN,
                     session : 0 .. MaxSessions, generation : Nat, agreed : BOOLEAN]
         /\ answer' \in [kind : {"none", "ok", "unsupported", "refused"}, version : 0 .. 5]
         /\ hand'.at = "agreed" /\ hand'.n = hand.n
         /\ me'.version = v /\ me'.session = me.session
<1>1. /\ hand' = [hand EXCEPT !.at = "agreed"]
      /\ me' = [me EXCEPT !.version = v, !.modern = modern, !.agreed = TRUE]
      /\ answer' = [kind |-> "none", version |-> 0]
  BY DEF Agree, NoAnswer
<1>2. answer' \in [kind : {"none", "ok", "unsupported", "refused"}, version : 0 .. 5]
  BY <1>1, SMT
<1>3. /\ hand' \in [at : {"idle", "begin", "probe", "init", "agreed", "failed"}, by : Threads, n : Nat]
      /\ hand'.at = "agreed" /\ hand'.n = hand.n
  BY <1>1 DEF HandshakeTypes
<1>4. /\ me' \in [state : {"connecting", "usable", "failed"}, version : 0 .. 5, modern : BOOLEAN,
                  session : 0 .. MaxSessions, generation : Nat, agreed : BOOLEAN]
      /\ me'.version = v /\ me'.session = me.session
  BY <1>1 DEF HandshakeTypes
<1> QED
  BY <1>2, <1>3, <1>4

LEMMA FailDoes ==
  ASSUME HandshakeTypes, Fail
  PROVE  /\ hand' \in [at : {"idle", "begin", "probe", "init", "agreed", "failed"}, by : Threads, n : Nat]
         /\ me' \in [state : {"connecting", "usable", "failed"}, version : 0 .. 5, modern : BOOLEAN,
                     session : 0 .. MaxSessions, generation : Nat, agreed : BOOLEAN]
         /\ answer' \in [kind : {"none", "ok", "unsupported", "refused"}, version : 0 .. 5]
         /\ hand'.at = "failed" /\ hand'.n = hand.n
         /\ me'.agreed = FALSE /\ me'.session = me.session
<1>1. /\ hand' = [hand EXCEPT !.at = "failed"] /\ me' = [me EXCEPT !.agreed = FALSE]
      /\ answer' = [kind |-> "none", version |-> 0]
  BY DEF Fail, NoAnswer
<1>2. answer' \in [kind : {"none", "ok", "unsupported", "refused"}, version : 0 .. 5]
  BY <1>1, SMT
<1>3. /\ hand' \in [at : {"idle", "begin", "probe", "init", "agreed", "failed"}, by : Threads, n : Nat]
      /\ hand'.at = "failed" /\ hand'.n = hand.n
  BY <1>1 DEF HandshakeTypes
<1>4. /\ me' \in [state : {"connecting", "usable", "failed"}, version : 0 .. 5, modern : BOOLEAN,
                  session : 0 .. MaxSessions, generation : Nat, agreed : BOOLEAN]
      /\ me'.agreed = FALSE /\ me'.session = me.session
  BY <1>1 DEF HandshakeTypes
<1> QED
  BY <1>2, <1>3, <1>4

--------------------------------------------------------------------------------
(* The handshake: the client's steps *)

(* The client leaves the server as it is. *)
LEMMA ClientKeeps ==
  ASSUME HandshakeInv, UNCHANGED <<setup, serverVars>>, wire' \in Seq(Messages), WireInOrder',
         hand' \in [at : {"idle", "begin", "probe", "init", "agreed", "failed"}, by : Threads, n : Nat],
         answer' \in [kind : {"none", "ok", "unsupported", "refused"}, version : 0 .. 5],
         me' \in [state : {"connecting", "usable", "failed"}, version : 0 .. 5, modern : BOOLEAN,
                  session : 0 .. MaxSessions, generation : Nat, agreed : BOOLEAN],
         AnswerHolds', AgreementHolds'
  PROVE  HandshakeInv'
<1>1. /\ setup' = setup /\ default' = default /\ version' = version /\ alive' = alive
      /\ expired' = expired /\ ready' = ready
  BY DEF serverVars
<1>2. HandshakeTypes'
  BY <1>1 DEF HandshakeInv, HandshakeTypes
<1>3. PinKept'
  BY <1>1 DEF HandshakeInv, PinKept
<1> QED
  BY <1>2, <1>3 DEF HandshakeInv

(* A request is asked: nothing has been answered or agreed to. *)
LEMMA AskKeeps ==
  ASSUME HandshakeInv, NEW step, NEW kind, Ask(step, kind), UNCHANGED <<setup, serverVars>>, me' = me,
         <<step, kind>> \in {<<"probe", "discover">>, <<"init", "initialize">>}
  PROVE  HandshakeInv'
<1>1. /\ wire' \in Seq(Messages) /\ WireInOrder' /\ answer' = NoAnswer
      /\ hand' = [at |-> step, by |-> hand.by, n |-> hand.n + 1]
      /\ hand' \in [at : {"idle", "begin", "probe", "init", "agreed", "failed"}, by : Threads, n : Nat]
  BY AskDoes DEF HandshakeInv
<1>2. answer' \in [kind : {"none", "ok", "unsupported", "refused"}, version : 0 .. 5] /\ answer'.kind # "ok"
  BY <1>1, SMT DEF NoAnswer
<1>3. hand'.at \in {"probe", "init"}
  BY <1>1
<1>4. AnswerHolds' /\ AgreementHolds'
  BY <1>2, <1>3 DEF AnswerHolds, AgreementHolds, At
<1>5. me' \in [state : {"connecting", "usable", "failed"}, version : 0 .. 5, modern : BOOLEAN,
               session : 0 .. MaxSessions, generation : Nat, agreed : BOOLEAN]
  BY DEF HandshakeInv, HandshakeTypes
<1> QED
  BY <1>1, <1>2, <1>4, <1>5, ClientKeeps

LEMMA BeginKeeps == HandshakeInv /\ Begin => HandshakeInv'
<1> SUFFICES ASSUME HandshakeInv, Begin PROVE HandshakeInv'
  OBVIOUS
<1>0. UNCHANGED <<setup, serverVars>>
  BY DEF Begin
<1>1. CASE setup.mode = "Pin" /\ Agree(Latest, TRUE) /\ UNCHANGED wire
  <2>1. /\ hand' \in [at : {"idle", "begin", "probe", "init", "agreed", "failed"}, by : Threads, n : Nat]
        /\ me' \in [state : {"connecting", "usable", "failed"}, version : 0 .. 5, modern : BOOLEAN,
                    session : 0 .. MaxSessions, generation : Nat, agreed : BOOLEAN]
        /\ answer' \in [kind : {"none", "ok", "unsupported", "refused"}, version : 0 .. 5]
        /\ hand'.at = "agreed" /\ hand'.n = hand.n
    <3>1. Latest \in 0 .. 5 /\ TRUE \in BOOLEAN
      BY SMT DEF Latest
    <3> QED
      BY <1>1, <3>1, AgreeDoes DEF HandshakeInv
  <2>2. wire' \in Seq(Messages) /\ WireInOrder'
    BY <1>1, <2>1, OrderKept DEF HandshakeInv, HandshakeTypes
  <2>3. setup'.mode = "Pin"
    BY <1>0, <1>1
  <2>4. AnswerHolds' /\ AgreementHolds'
    BY <2>1, <2>3 DEF AnswerHolds, AgreementHolds, At
  <2> QED
    BY <1>0, <2>1, <2>2, <2>4, ClientKeeps
<1>2. CASE Ask("init", "initialize") /\ UNCHANGED me
  BY <1>0, <1>2, AskKeeps
<1>3. CASE Ask("probe", "discover") /\ UNCHANGED me
  BY <1>0, <1>3, AskKeeps
<1> QED
  BY <1>1, <1>2, <1>3 DEF Begin

(* What is agreed to is what the server answered, and still holds. *)
LEMMA AgreeKeeps ==
  ASSUME HandshakeInv, hand.at \in {"probe", "init"}, answer.kind = "ok", NEW modern \in BOOLEAN,
         Agree(answer.version, modern), UNCHANGED <<setup, serverVars>>, UNCHANGED wire \/ Notify
  PROVE  HandshakeInv'
<1>1. /\ hand' \in [at : {"idle", "begin", "probe", "init", "agreed", "failed"}, by : Threads, n : Nat]
      /\ me' \in [state : {"connecting", "usable", "failed"}, version : 0 .. 5, modern : BOOLEAN,
                  session : 0 .. MaxSessions, generation : Nat, agreed : BOOLEAN]
      /\ answer' \in [kind : {"none", "ok", "unsupported", "refused"}, version : 0 .. 5]
      /\ hand'.at = "agreed" /\ hand'.n = hand.n
      /\ me'.version = answer.version /\ me'.session = me.session
  BY AgreeDoes, RecordFacts DEF HandshakeInv
<1>2. wire' \in Seq(Messages) /\ WireInOrder' /\ (NoRequests => NoRequests')
  BY <1>1, OrderKept, NotifyDoes DEF HandshakeInv, HandshakeTypes
<1>3. NoRequests /\ Settled(answer.version)
  BY DEF HandshakeInv, AnswerHolds
<1>4. default' = default /\ version' = version /\ setup' = setup
  BY DEF serverVars
<1>5. Settled(me.version)'
  BY <1>1, <1>3, <1>4 DEF Settled, VersionFor
<1>6. AnswerHolds' /\ AgreementHolds'
  BY <1>1, <1>2, <1>3, <1>5 DEF AnswerHolds, AgreementHolds, At
<1> QED
  BY <1>1, <1>2, <1>6, ClientKeeps

(* A negotiation that fails leaves no agreement. *)
LEMMA FailKeeps ==
  ASSUME HandshakeInv, Fail, UNCHANGED <<setup, serverVars>>, UNCHANGED wire \/ Notify
  PROVE  HandshakeInv'
<1>1. /\ hand' \in [at : {"idle", "begin", "probe", "init", "agreed", "failed"}, by : Threads, n : Nat]
      /\ me' \in [state : {"connecting", "usable", "failed"}, version : 0 .. 5, modern : BOOLEAN,
                  session : 0 .. MaxSessions, generation : Nat, agreed : BOOLEAN]
      /\ answer' \in [kind : {"none", "ok", "unsupported", "refused"}, version : 0 .. 5]
      /\ hand'.at = "failed" /\ hand'.n = hand.n /\ me'.agreed = FALSE
  BY FailDoes DEF HandshakeInv
<1>2. wire' \in Seq(Messages) /\ WireInOrder'
  BY <1>1, OrderKept, NotifyDoes DEF HandshakeInv, HandshakeTypes
<1>3. AnswerHolds' /\ AgreementHolds'
  BY <1>1 DEF AnswerHolds, AgreementHolds, At
<1> QED
  BY <1>1, <1>2, <1>3, ClientKeeps

LEMMA ProbeDiscoverKeeps == HandshakeInv /\ ProbeDiscover => HandshakeInv'
<1> SUFFICES ASSUME HandshakeInv, ProbeDiscover PROVE HandshakeInv'
  OBVIOUS
<1>1. hand.at = "probe" /\ UNCHANGED <<setup, serverVars>>
  BY DEF ProbeDiscover, At
<1>2. CASE answer.kind = "ok"
  <2>1. Agree(answer.version, TRUE) /\ UNCHANGED wire
    BY <1>2 DEF ProbeDiscover
  <2> QED
    BY <1>1, <1>2, <2>1, AgreeKeeps
<1>3. CASE answer.kind # "ok"
  <2>1. Ask("init", "initialize") /\ UNCHANGED me
    BY <1>3 DEF ProbeDiscover
  <2> QED
    BY <1>1, <2>1, AskKeeps
<1> QED
  BY <1>2, <1>3

LEMMA HandshakeInitializeKeeps == HandshakeInv /\ HandshakeInitialize => HandshakeInv'
<1> SUFFICES ASSUME HandshakeInv, HandshakeInitialize PROVE HandshakeInv'
  OBVIOUS
<1>1. hand.at = "init" /\ Notify /\ UNCHANGED <<setup, serverVars>>
  BY DEF HandshakeInitialize, At
<1>2. CASE answer.kind = "ok"
  <2>1. Agree(answer.version, FALSE)
    BY <1>2 DEF HandshakeInitialize
  <2> QED
    BY <1>1, <1>2, <2>1, AgreeKeeps
<1>3. CASE answer.kind # "ok"
  <2>1. Fail
    BY <1>3 DEF HandshakeInitialize
  <2> QED
    BY <1>1, <2>1, FailKeeps
<1> QED
  BY <1>2, <1>3

LEMMA TimesOutKeeps == HandshakeInv /\ (AwaitProbe \/ InitializeTimesOut) => HandshakeInv'
<1> SUFFICES ASSUME HandshakeInv, AwaitProbe \/ InitializeTimesOut PROVE HandshakeInv'
  OBVIOUS
<1>1. UNCHANGED <<setup, serverVars>>
  BY DEF AwaitProbe, InitializeTimesOut
<1>2. CASE Ask("init", "initialize") /\ UNCHANGED me
  BY <1>1, <1>2, AskKeeps
<1>3. CASE Fail /\ (UNCHANGED wire \/ Notify)
  BY <1>1, <1>3, FailKeeps
<1> QED
  BY <1>2, <1>3 DEF AwaitProbe, InitializeTimesOut

(* The negotiation ends: what was agreed to, or not, stands. *)
LEMMA EndKeeps ==
  ASSUME HandshakeInv, hand.at \in {"agreed", "failed"},
         hand' = [hand EXCEPT !.at = "idle"], wire' = wire, answer' = answer,
         UNCHANGED <<setup, serverVars>>,
         me' \in [state : {"connecting", "usable", "failed"}, version : 0 .. 5, modern : BOOLEAN,
                  session : 0 .. MaxSessions, generation : Nat, agreed : BOOLEAN],
         me'.version = me.version, me'.session = me.session, me'.agreed = me.agreed
  PROVE  HandshakeInv'
<1>1. /\ hand' \in [at : {"idle", "begin", "probe", "init", "agreed", "failed"}, by : Threads, n : Nat]
      /\ hand'.at = "idle" /\ hand'.n = hand.n
  BY DEF HandshakeInv, HandshakeTypes
<1>2. wire' \in Seq(Messages) /\ WireInOrder' /\ (NoRequests => NoRequests')
  BY <1>1, OrderKept DEF HandshakeInv, HandshakeTypes
<1>3. answer' \in [kind : {"none", "ok", "unsupported", "refused"}, version : 0 .. 5]
  BY DEF HandshakeInv, HandshakeTypes
<1>4. default' = default /\ version' = version /\ setup' = setup
  BY DEF serverVars
<1>5. me.agreed /\ setup.mode # "Pin" => NoRequests /\ Settled(me.version)
  BY DEF HandshakeInv, AgreementHolds, At
<1>6. Settled(me.version) => Settled(me.version)'
  BY <1>4 DEF Settled, VersionFor
<1>7. AnswerHolds' /\ AgreementHolds'
  BY <1>1, <1>2, <1>4, <1>5, <1>6 DEF AnswerHolds, AgreementHolds, At
<1> QED
  BY <1>1, <1>2, <1>3, <1>7, ClientKeeps

LEMMA CreatedKeeps == HandshakeInv /\ Created => HandshakeInv'
<1> SUFFICES ASSUME HandshakeInv, Created PROVE HandshakeInv'
  OBVIOUS
<1>1. /\ hand.at \in {"agreed", "failed"} /\ hand' = [hand EXCEPT !.at = "idle"]
      /\ wire' = wire /\ answer' = answer /\ UNCHANGED <<setup, serverVars>>
      /\ me' = [me EXCEPT !.state = IF At("agreed") THEN "usable" ELSE "failed"]
  BY DEF Created
<1>2. /\ me' \in [state : {"connecting", "usable", "failed"}, version : 0 .. 5, modern : BOOLEAN,
                  session : 0 .. MaxSessions, generation : Nat, agreed : BOOLEAN]
      /\ me'.version = me.version /\ me'.session = me.session /\ me'.agreed = me.agreed
  BY <1>1, SMT DEF HandshakeInv, HandshakeTypes
<1> QED
  BY <1>1, <1>2, EndKeeps

(* A thread that recovers its session negotiates again, and is done when the negotiation is. *)
LEMMA RecoveryKeeps ==
  ASSUME HandshakeInv, NEW t \in Callers, RecoverExpiredSession(t) \/ Recovered(t)
  PROVE  HandshakeInv'
<1>1. CASE RecoverExpiredSession(t)
  <2>1. /\ wire' = wire /\ answer' = answer /\ me' = me /\ UNCHANGED <<setup, serverVars>>
        /\ hand' = hand \/ hand' = [hand EXCEPT !.at = "begin", !.by = t]
    BY <1>1 DEF RecoverExpiredSession
  <2>2. CASE hand' = hand
    BY <2>1, <2>2 DEF HandshakeInv, HandshakeTypes, WireInOrder, PinKept, AnswerHolds, AgreementHolds, At,
                      NoRequests, Settled, VersionFor, serverVars
  <2>3. CASE hand' = [hand EXCEPT !.at = "begin", !.by = t]
    <3>1. /\ hand' \in [at : {"idle", "begin", "probe", "init", "agreed", "failed"}, by : Threads, n : Nat]
          /\ hand'.at = "begin" /\ hand'.n = hand.n
      BY <2>3 DEF HandshakeInv, HandshakeTypes, Threads
    <3>2. wire' \in Seq(Messages) /\ WireInOrder'
      BY <2>1, <3>1, OrderKept DEF HandshakeInv, HandshakeTypes
    <3>3. AnswerHolds' /\ AgreementHolds'
      BY <3>1 DEF AnswerHolds, AgreementHolds, At
    <3>4. answer' \in [kind : {"none", "ok", "unsupported", "refused"}, version : 0 .. 5]
      BY <2>1 DEF HandshakeInv, HandshakeTypes
    <3>5. me' \in [state : {"connecting", "usable", "failed"}, version : 0 .. 5, modern : BOOLEAN,
                   session : 0 .. MaxSessions, generation : Nat, agreed : BOOLEAN]
      BY <2>1 DEF HandshakeInv, HandshakeTypes
    <3> QED
      BY <2>1, <3>1, <3>2, <3>3, <3>4, <3>5, ClientKeeps
  <2> QED
    BY <2>1, <2>2, <2>3
<1>2. CASE Recovered(t)
  <2>1. /\ hand.at \in {"agreed", "failed"} /\ hand' = [hand EXCEPT !.at = "idle"]
        /\ wire' = wire /\ answer' = answer /\ UNCHANGED <<setup, serverVars>>
        /\ me' = me \/ me' = [me EXCEPT !.generation = me.generation + 1]
    BY <1>2 DEF Recovered, At
  <2>2. /\ me' \in [state : {"connecting", "usable", "failed"}, version : 0 .. 5, modern : BOOLEAN,
                    session : 0 .. MaxSessions, generation : Nat, agreed : BOOLEAN]
        /\ me'.version = me.version /\ me'.session = me.session /\ me'.agreed = me.agreed
    BY <2>1, SMT DEF HandshakeInv, HandshakeTypes
  <2> QED
    BY <2>1, <2>2, EndKeeps
<1> QED
  BY <1>1, <1>2

--------------------------------------------------------------------------------
(* The handshake: the server's steps *)

(* What of the invariant the server may disturb. *)
LEMMA ServerKeeps ==
  ASSUME HandshakeInv, setup' = setup, hand' = hand,
         default' \in 0 .. 5, version' \in [Sessions -> 0 .. 5],
         alive' \subseteq Sessions, expired' \subseteq Sessions, ready' \subseteq 0 .. MaxSessions,
         answer' \in [kind : {"none", "ok", "unsupported", "refused"}, version : 0 .. 5],
         me' = me \/ \E s \in 0 .. MaxSessions : me' = [me EXCEPT !.session = s],
         wire' \in Seq(Messages), WireInOrder', PinKept', AnswerHolds',
         me.agreed /\ hand.at \in {"agreed", "idle"} /\ setup.mode # "Pin" =>
           me' = me /\ NoRequests' /\ Settled(me.version)'
  PROVE  HandshakeInv'
<1>1. /\ me' \in [state : {"connecting", "usable", "failed"}, version : 0 .. 5, modern : BOOLEAN,
                  session : 0 .. MaxSessions, generation : Nat, agreed : BOOLEAN]
      /\ me'.agreed = me.agreed
  BY DEF HandshakeInv, HandshakeTypes
<1>2. HandshakeTypes'
  BY <1>1 DEF HandshakeInv, HandshakeTypes
<1>3. AgreementHolds'
  BY <1>1 DEF HandshakeInv, AgreementHolds, At
<1> QED
  BY <1>2, <1>3 DEF HandshakeInv

(* The answer to a request that is taken. *)
LEMMA ReplyDoes ==
  ASSUME HandshakeTypes, NEW m, NEW kind \in {"ok", "unsupported", "refused"}, NEW v \in 0 .. 5,
         Reply(m, kind, v)
  PROVE  /\ answer' \in [kind : {"none", "ok", "unsupported", "refused"}, version : 0 .. 5]
         /\ answer' = answer \/ (m.n = hand.n /\ answer' = [kind |-> kind, version |-> v])
  BY SMT DEF Reply, HandshakeTypes

(* A request that is refused changes nothing, and the answer is not a good one. *)
LEMMA RefusedKeeps ==
  ASSUME HandshakeInv, NEW i, NEW kind \in {"discover", "initialize"}, Takes(i, kind),
         NEW why \in {"unsupported", "refused"}, Reply(wire[i], why, 0),
         setup' = setup, hand' = hand, default' = default, version' = version,
         alive' \subseteq Sessions, expired' = expired, ready' = ready,
         me' = me \/ \E s \in 0 .. MaxSessions : me' = [me EXCEPT !.session = s]
  PROVE  HandshakeInv'
<1>1. wire' \in Seq(Messages) /\ WireInOrder'
  BY WireAfter, OrderAfter DEF HandshakeInv, HandshakeTypes
<1>2. /\ ~ (me.agreed /\ hand.at \in {"agreed", "idle"} /\ setup.mode # "Pin")
      /\ ~ (hand.at \in {"probe", "init"} /\ answer.kind = "ok")
  BY RequestTaken
<1>3. 0 \in 0 .. 5
  BY SMT
<1>4. /\ answer' \in [kind : {"none", "ok", "unsupported", "refused"}, version : 0 .. 5]
      /\ answer' = answer \/ answer' = [kind |-> why, version |-> 0]
  BY <1>3, ReplyDoes DEF HandshakeInv
<1>5. AnswerHolds'
  BY <1>2, <1>4 DEF AnswerHolds
<1>6. /\ default' \in 0 .. 5 /\ version' \in [Sessions -> 0 .. 5]
      /\ expired' \subseteq Sessions /\ ready' \subseteq 0 .. MaxSessions
  BY DEF HandshakeInv, HandshakeTypes
<1>7. PinKept'
  BY DEF HandshakeInv, PinKept
<1> QED
  BY <1>1, <1>2, <1>4, <1>5, <1>6, <1>7, ServerKeeps

(* A request that is granted in session s under version v: the client's session is s, and goes    *)
(* by v from then on.                                                                             *)
LEMMA GrantedKeeps ==
  ASSUME HandshakeInv, NEW i, NEW kind \in {"discover", "initialize"}, Takes(i, kind),
         NEW s \in 0 .. MaxSessions, NEW v \in 1 .. 5, SetVersion(s, v), Reply(wire[i], "ok", v),
         setup.pin # 0 => v = setup.pin,
         kind = "discover" => v = Latest,
         kind = "initialize" => setup.local \/ s # 0,
         setup' = setup, hand' = hand, alive' \subseteq Sessions, expired' = expired,
         ready' \subseteq 0 .. MaxSessions,
         me' = me \/ \E x \in 0 .. MaxSessions : me' = [me EXCEPT !.session = x],
         me'.session = s
  PROVE  HandshakeInv'
<1>1. wire' \in Seq(Messages) /\ WireInOrder'
  BY WireAfter, OrderAfter DEF HandshakeInv, HandshakeTypes
<1>2. /\ wire[i].n = hand.n => NoRequests'
      /\ wire[i].n = hand.n /\ At("probe") => kind = "discover"
      /\ wire[i].n = hand.n /\ At("init") => kind = "initialize"
      /\ ~ (me.agreed /\ hand.at \in {"agreed", "idle"} /\ setup.mode # "Pin")
      /\ ~ (hand.at \in {"probe", "init"} /\ answer.kind = "ok")
  BY RequestTaken
<1>3. v \in 0 .. 5 /\ v # 0 /\ "ok" \in {"ok", "unsupported", "refused"}
  BY SMT
<1>4. /\ answer' \in [kind : {"none", "ok", "unsupported", "refused"}, version : 0 .. 5]
      /\ answer' = answer \/ (wire[i].n = hand.n /\ answer' = [kind |-> "ok", version |-> v])
  BY <1>3, ReplyDoes DEF HandshakeInv
<1>5. /\ default \in 0 .. 5 /\ version \in [Sessions -> 0 .. 5] /\ expired \subseteq Sessions
  BY DEF HandshakeInv, HandshakeTypes
<1>6. s # 0 => s \in Sessions
  BY HandshakeAssumption, SMT DEF Sessions
<1>7. /\ s = 0 => default' = v /\ version' = version
      /\ s # 0 => default' = default /\ version' = [version EXCEPT ![s] = v]
  BY DEF SetVersion
<1>8. default' \in 0 .. 5 /\ version' \in [Sessions -> 0 .. 5]
  BY <1>3, <1>5, <1>7
<1>9. PinKept'
  <2>1. setup.pin # 0 => default = setup.pin /\ \A x \in Sessions : version[x] \in {0, setup.pin}
    BY DEF HandshakeInv, PinKept
  <2> QED
    BY <1>5, <1>7, <2>1 DEF PinKept
<1>10. VersionFor(me.session)' = v /\ (me.session # 0 => version[me.session] # 0)'
  BY <1>3, <1>5, <1>6, <1>7 DEF VersionFor
<1>11. Modern(v) \/ setup.local \/ s # 0
  BY SMT DEF Modern, Latest
<1>12. Settled(v)'
  BY <1>3, <1>10, <1>11 DEF Settled
<1>13. AnswerHolds'
  <2>1. CASE answer' = answer
    BY <1>2, <2>1 DEF AnswerHolds
  <2>2. CASE wire[i].n = hand.n /\ answer' = [kind |-> "ok", version |-> v]
    <3>1. NoRequests' /\ answer'.version = v
      BY <1>2, <2>2
    <3>2. Settled(answer.version)'
      BY <1>12, <3>1 DEF Settled
    <3>3. hand.at = "probe" => Modern(v)
      BY <1>2, <2>2, SMT DEF At, Modern, Latest
    <3>4. (At("probe") => Modern(answer.version))'
      BY <3>1, <3>3 DEF At, Modern
    <3> QED
      BY <3>1, <3>2, <3>4 DEF AnswerHolds
  <2> QED
    BY <1>4, <2>1, <2>2
<1>14. expired' \subseteq Sessions
  BY <1>5
<1> QED
  BY <1>1, <1>2, <1>4, <1>8, <1>9, <1>13, <1>14, ServerKeeps

LEMMA DiscoverKeeps ==
  ASSUME HandshakeInv, NEW i \in 1 .. Len(wire), Discover(i)
  PROVE  HandshakeInv'
<1> DEFINE s == me.session
           v == IF setup.pin # 0 THEN setup.pin ELSE Latest
           gone == s \notin alive \cup {0} \/ (VersionFor(s) # 0 /\ ~Modern(VersionFor(s)))
<1>1. /\ Takes(i, "discover") /\ setup' = setup /\ alive' = alive /\ expired' = expired
      /\ hand' = hand /\ me' = me
  BY DEF Discover
<1>2. alive' \subseteq Sessions /\ s \in 0 .. MaxSessions
  BY <1>1, RecordFacts DEF HandshakeInv, HandshakeTypes
<1>3. CASE gone
  <2>1. Reply(wire[i], "refused", 0) /\ default' = default /\ version' = version /\ ready' = ready
    BY <1>3 DEF Discover
  <2> QED
    BY <1>1, <1>2, <2>1, RefusedKeeps
<1>4. CASE ~gone /\ Latest \notin setup.supported
  <2>1. Reply(wire[i], "unsupported", 0) /\ default' = default /\ version' = version /\ ready' = ready
    BY <1>4 DEF Discover
  <2> QED
    BY <1>1, <1>2, <2>1, RefusedKeeps
<1>5. CASE ~gone /\ Latest \in setup.supported
  <2>1. SetVersion(s, v) /\ MarkInitialized(s) /\ Reply(wire[i], "ok", SelectSharedVersion)
    BY <1>5 DEF Discover
  <2>2. setup \in Setups
    BY DEF HandshakeInv, HandshakeTypes
  <2>3. SelectSharedVersion = Latest
    BY <1>5, <2>2, LatestIsSelected
  <2>4. v = Latest
    <3>1. CASE setup.pin = 0
      BY <3>1
    <3>2. CASE setup.pin # 0
      <4>1. default = setup.pin /\ \A x \in Sessions : version[x] \in {0, setup.pin}
        BY <3>2 DEF HandshakeInv, PinKept
      <4>2. VersionFor(s) = setup.pin
        <5>1. s # 0 => s \in Sessions
          BY <1>2, HandshakeAssumption, SMT DEF Sessions
        <5> QED
          BY <4>1, <5>1 DEF VersionFor
      <4>3. Modern(setup.pin) /\ setup.pin \in 0 .. 5
        BY <1>5, <2>2, <3>2, <4>2, SetupFacts
      <4> QED
        BY <3>2, <4>3, SMT DEF Modern, Latest
    <3> QED
      BY <3>1, <3>2
  <2>5. Latest \in 1 .. 5
    BY SMT DEF Latest
  <2>6. ready' \subseteq 0 .. MaxSessions
    <3>1. 0 \in 0 .. MaxSessions
      BY HandshakeAssumption, SMT
    <3> QED
      BY <1>2, <2>1, <3>1 DEF MarkInitialized, HandshakeInv, HandshakeTypes
  <2>7. SetVersion(s, Latest) /\ Reply(wire[i], "ok", Latest) /\ (setup.pin # 0 => Latest = setup.pin)
    BY <2>1, <2>3, <2>4
  <2>8. me'.session = s
    BY <1>1
  <2> HIDE DEF s, v, gone
  <2> QED
    BY <1>1, <1>2, <2>5, <2>6, <2>7, <2>8, GrantedKeeps
<1> QED
  BY <1>3, <1>4, <1>5

LEMMA InitializeKeeps ==
  ASSUME HandshakeInv, NEW i \in 1 .. Len(wire), Initialize(i)
  PROVE  HandshakeInv'
<1> DEFINE m == wire[i]
           free == Sessions \ (alive \cup expired)
           s == IF setup.local THEN 0 ELSE Min(free)
<1>1. Takes(i, "initialize") /\ setup' = setup /\ expired' = expired /\ ready' = ready /\ hand' = hand
  BY DEF Initialize
<1>2. setup \in Setups /\ alive \subseteq Sessions /\ ready \subseteq 0 .. MaxSessions
  BY DEF HandshakeInv, HandshakeTypes
<1>3. CASE ~setup.local /\ free = {} /\ Reply(m, "refused", 0) /\ UNCHANGED <<default, version, alive, me>>
  <2>1. default' = default /\ version' = version /\ alive' \subseteq Sessions /\ me' = me
    BY <1>2, <1>3
  <2> QED
    BY <1>1, <1>3, <2>1, RefusedKeeps
<1>4. CASE /\ setup.local \/ free # {}
           /\ InitializeSession(m, s)
           /\ alive' = IF setup.local THEN alive ELSE alive \cup {s}
           /\ me' = [me EXCEPT !.session = s]
  <2>1. s \in 0 .. MaxSessions /\ (setup.local \/ (s # 0 /\ s \in Sessions))
    <3>1. CASE setup.local
      BY <3>1, HandshakeAssumption, SMT
    <3>2. CASE ~setup.local
      <4>1. s \in free
        BY <1>4, <3>2, MinIsIn
      <4>2. s \in Sessions
        BY <4>1
      <4> HIDE DEF s
      <4> QED
        BY <4>2, HandshakeAssumption, SMT DEF Sessions
    <3> QED
      BY <3>1, <3>2
  <2>2. /\ InitializeSession(m, s)
        /\ alive' = IF setup.local THEN alive ELSE alive \cup {s}
        /\ me' = [me EXCEPT !.session = s]
    BY <1>4
  <2> HIDE DEF s
  <2>3. alive' \subseteq Sessions
    BY <1>2, <2>1, <2>2
  <2>4. me'.session = s
    BY <2>2 DEF HandshakeInv, HandshakeTypes
  <2>5. CASE VersionFor(s) # 0 /\ Modern(VersionFor(s))
    <3>1. Reply(m, "refused", 0) /\ default' = default /\ version' = version
      BY <2>2, <2>5 DEF InitializeSession
    <3> QED
      BY <1>1, <2>1, <2>2, <2>3, <3>1, RefusedKeeps
  <2>6. CASE ~ (VersionFor(s) # 0 /\ Modern(VersionFor(s)))
    <3>1. SetVersion(s, Selected(m.declared)) /\ Reply(m, "ok", Selected(m.declared))
      BY <2>2, <2>6 DEF InitializeSession
    <3>2. m.declared \in 0 .. 5
      <4>1. m \in Messages
        BY <1>1, WireAfter DEF HandshakeInv, HandshakeTypes
      <4> QED
        BY <4>1 DEF Messages
    <3>3. Selected(m.declared) \in 1 .. 5 /\ (setup.pin # 0 => Selected(m.declared) = setup.pin)
      BY <1>2, <3>2, SelectedIsVersion
    <3>4. ready' \subseteq 0 .. MaxSessions
      BY <1>1, <1>2
    <3> QED
      BY <1>1, <2>1, <2>2, <2>3, <2>4, <3>1, <3>3, <3>4, GrantedKeeps
  <2> QED
    BY <2>5, <2>6
<1> QED
  BY <1>3, <1>4 DEF Initialize

(* A notification, another client or the end of a session leaves what was agreed to as it is. *)
LEMMA OthersKeep ==
  ASSUME HandshakeInv, setup' = setup, hand' = hand, me' = me, answer' = answer, version' = version,
         alive' \subseteq Sessions, expired' \subseteq Sessions, ready' \subseteq 0 .. MaxSessions,
         wire' \in Seq(Messages), WireInOrder', NoRequests => NoRequests',
         default' = default \/ (~setup.local /\ default' = Latest /\ (setup.pin # 0 => setup.pin = Latest))
  PROVE  HandshakeInv'
<1>1. /\ default \in 0 .. 5 /\ version \in [Sessions -> 0 .. 5] /\ me.session \in 0 .. MaxSessions
      /\ default' \in 0 .. 5
  BY SMT DEF HandshakeInv, HandshakeTypes, Latest
<1>2. PinKept'
  BY DEF HandshakeInv, PinKept
<1>3. me.session # 0 => version[me.session] \in 0 .. 5
  BY <1>1, HandshakeAssumption, SMT DEF Sessions
<1>4. ASSUME NEW v, Settled(v)
      PROVE  /\ v # 0 /\ VersionFor(me.session)' = v
             /\ (Modern(v) \/ setup.local \/ (me.session # 0 /\ version[me.session] # 0))'
  <2>1. /\ v # 0 /\ VersionFor(me.session) = v
        /\ Modern(v) \/ setup.local \/ (me.session # 0 /\ version[me.session] # 0)
    BY <1>4 DEF Settled
  <2>2. VersionFor(me.session)' = v
    <3>1. CASE default' = default
      BY <2>1, <3>1 DEF VersionFor
    <3>2. CASE me.session # 0 /\ version[me.session] # 0
      BY <2>1, <3>2 DEF VersionFor
    <3>3. CASE ~setup.local /\ default' = Latest /\ ~ (me.session # 0 /\ version[me.session] # 0)
      <4>1. v = default /\ Modern(v)
        BY <2>1, <3>3 DEF VersionFor
      <4>2. v = Latest
        BY <1>1, <4>1, SMT DEF Modern, Latest
      <4> QED
        BY <3>3, <4>2 DEF VersionFor
    <3> QED
      BY <3>1, <3>2, <3>3
  <2>3. (Modern(v) \/ setup.local \/ (me.session # 0 /\ version[me.session] # 0))'
    BY <2>1 DEF Modern
  <2> QED
    BY <2>1, <2>2, <2>3
<1>5. Settled(me.version) => Settled(me.version)'
  BY <1>4 DEF Settled, Modern
<1>6. Settled(answer.version) => Settled(answer.version)'
  BY <1>4 DEF Settled, Modern
<1>7. AnswerHolds'
  <2>1. hand.at \in {"probe", "init"} /\ answer.kind = "ok" =>
          /\ NoRequests /\ Settled(answer.version)
          /\ hand.at = "probe" => Modern(answer.version)
    BY DEF HandshakeInv, AnswerHolds, At
  <2> QED
    BY <1>6, <2>1 DEF AnswerHolds, At, Modern
<1>8. me.agreed /\ hand.at \in {"agreed", "idle"} /\ setup.mode # "Pin" =>
        me' = me /\ NoRequests' /\ Settled(me.version)'
  BY <1>5 DEF HandshakeInv, AgreementHolds
<1>9. /\ answer' \in [kind : {"none", "ok", "unsupported", "refused"}, version : 0 .. 5]
      /\ version' \in [Sessions -> 0 .. 5]
  BY DEF HandshakeInv, HandshakeTypes
<1> QED
  BY <1>1, <1>2, <1>7, <1>8, <1>9, ServerKeeps

LEMMA OtherDiscoversKeeps == HandshakeInv /\ OtherDiscovers => HandshakeInv'
<1> SUFFICES ASSUME HandshakeInv, OtherDiscovers PROVE HandshakeInv'
  OBVIOUS
<1>1. /\ ~setup.local /\ (VersionFor(0) = 0 \/ Modern(VersionFor(0)))
      /\ SetVersion(0, IF setup.pin # 0 THEN setup.pin ELSE Latest) /\ ready' = ready \cup {0, 0}
      /\ setup' = setup /\ alive' = alive /\ expired' = expired /\ wire' = wire
      /\ hand' = hand /\ me' = me /\ answer' = answer
  BY DEF OtherDiscovers, clientVars, MarkInitialized
<1>2. default' = (IF setup.pin # 0 THEN setup.pin ELSE Latest) /\ version' = version
  BY <1>1 DEF SetVersion
<1>3. setup.pin # 0 => setup.pin = Latest
  <2>1. setup.pin # 0 => VersionFor(0) = setup.pin
    BY DEF HandshakeInv, PinKept, VersionFor
  <2>2. setup.pin \in 0 .. 5
    BY SetupFacts DEF HandshakeInv, HandshakeTypes
  <2> QED
    BY <1>1, <2>1, <2>2, SMT DEF Modern, Latest
<1>4. default' = Latest
  BY <1>2, <1>3
<1>5. 0 \in 0 .. MaxSessions
  BY HandshakeAssumption, SMT
<1>6. /\ alive' \subseteq Sessions /\ expired' \subseteq Sessions /\ ready' \subseteq 0 .. MaxSessions
      /\ wire' \in Seq(Messages)
  BY <1>1, <1>5 DEF HandshakeInv, HandshakeTypes
<1>7. WireInOrder' /\ (NoRequests => NoRequests')
  BY <1>1, OrderKept DEF HandshakeInv
<1> QED
  BY <1>1, <1>2, <1>3, <1>4, <1>6, <1>7, OthersKeep

LEMMA InitializedKeeps ==
  ASSUME HandshakeInv, NEW i \in 1 .. Len(wire), Initialized(i)
  PROVE  HandshakeInv'
<1>1. /\ Takes(i, "initialized") /\ setup' = setup /\ default' = default /\ version' = version
      /\ alive' = alive /\ expired' = expired /\ hand' = hand /\ me' = me /\ answer' = answer
  BY DEF Initialized, clientVars
<1>2. PICK s \in {wire[i].session, me.session} : ready' = ready \/ MarkInitialized(s)
  BY DEF Initialized
<1>3. wire[i] \in Messages /\ wire' \in Seq(Messages)
  BY <1>1, WireAfter DEF HandshakeInv, HandshakeTypes
<1>4. 0 \in 0 .. MaxSessions /\ s \in 0 .. MaxSessions
  BY <1>2, <1>3, RecordFacts, SMT DEF HandshakeInv, Messages
<1>5. ready' \subseteq 0 .. MaxSessions /\ alive' \subseteq Sessions /\ expired' \subseteq Sessions
  BY <1>1, <1>2, <1>4 DEF MarkInitialized, HandshakeInv, HandshakeTypes
<1>6. WireInOrder' /\ (NoRequests => NoRequests')
  BY <1>1, OrderAfter DEF HandshakeInv
<1> QED
  BY <1>1, <1>3, <1>5, <1>6, OthersKeep

LEMMA ExpiresKeeps ==
  ASSUME HandshakeInv, NEW s \in Sessions, Expires(s)
  PROVE  HandshakeInv'
<1>1. /\ alive' = alive \ {s} /\ expired' = expired \cup {s}
      /\ setup' = setup /\ default' = default /\ version' = version /\ ready' = ready /\ wire' = wire
      /\ hand' = hand /\ me' = me /\ answer' = answer
  BY DEF Expires, clientVars
<1>2. /\ alive' \subseteq Sessions /\ expired' \subseteq Sessions /\ ready' \subseteq 0 .. MaxSessions
      /\ wire' \in Seq(Messages)
  BY <1>1 DEF HandshakeInv, HandshakeTypes
<1>3. WireInOrder' /\ (NoRequests => NoRequests')
  BY <1>1, OrderKept DEF HandshakeInv
<1> QED
  BY <1>1, <1>2, <1>3, OthersKeep

--------------------------------------------------------------------------------
(* The handshake: the proof *)

LEMMA HandshakeInitially == Init => HandshakeInv
<1> SUFFICES ASSUME Init PROVE HandshakeInv
  OBVIOUS
<1>1. /\ setup \in Setups /\ default = setup.pin /\ version = [s \in Sessions |-> 0]
      /\ alive = {} /\ expired = {} /\ ready = {} /\ wire = <<>>
      /\ hand = [at |-> "begin", by |-> Creator, n |-> 0]
      /\ answer = [kind |-> "none", version |-> 0]
      /\ me = [state |-> "connecting", version |-> 0, modern |-> FALSE, session |-> 0,
               generation |-> 0, agreed |-> FALSE]
  BY DEF Init, HandshakeInit, NoAnswer
<1>2. setup.pin \in 0 .. 5 /\ 0 \in 0 .. 5 /\ 0 \in 0 .. MaxSessions /\ 0 \in Nat
  BY <1>1, SetupFacts, HandshakeAssumption, SMT
<1>3. wire \in Seq(Messages) /\ DOMAIN wire = {}
  BY <1>1, EmptySeq, SMT
<1>4. hand \in [at : {"idle", "begin", "probe", "init", "agreed", "failed"}, by : Threads, n : Nat]
  BY <1>1, <1>2 DEF Threads
<1>5. answer \in [kind : {"none", "ok", "unsupported", "refused"}, version : 0 .. 5]
  BY <1>1, <1>2
<1>6. me \in [state : {"connecting", "usable", "failed"}, version : 0 .. 5, modern : BOOLEAN,
              session : 0 .. MaxSessions, generation : Nat, agreed : BOOLEAN]
  BY <1>1, <1>2
<1>7. HandshakeTypes
  BY <1>1, <1>2, <1>3, <1>4, <1>5, <1>6 DEF HandshakeTypes
<1>8. WireInOrder
  BY <1>3 DEF WireInOrder
<1>9. PinKept
  BY <1>1 DEF PinKept
<1>10. AnswerHolds /\ AgreementHolds
  BY <1>1 DEF AnswerHolds, AgreementHolds, At
<1> QED
  BY <1>7, <1>8, <1>9, <1>10 DEF HandshakeInv

LEMMA HandshakeStep == HandshakeInv /\ HandshakeNext => HandshakeInv'
  BY DiscoverKeeps, InitializeKeeps, InitializedKeeps, OtherDiscoversKeeps, ExpiresKeeps, BeginKeeps,
     ProbeDiscoverKeeps, HandshakeInitializeKeeps, TimesOutKeeps, CreatedKeeps
  DEF HandshakeNext

(* A call has to do with the negotiation only when it recovers an expired session. *)
LEMMA ClientStepFrame ==
  ASSUME NEW t \in Callers, ClientStep(t)
  PROVE  UNCHANGED handshakeVars \/ RecoverExpiredSession(t) \/ Recovered(t)
<1> USE DEF CachedCall, Captured, Uncached, Others, NotSubs
<1>1. CASE \/ ListTools(t) \/ ListResources(t) \/ ListResourceTemplates(t) \/ ListPrompts(t) \/ ListSkills(t)
  BY <1>1 DEF ListTools, ListResources, ListResourceTemplates, ListPrompts, ListSkills
<1>2. CASE ReadResource(t) \/ GetSkill(t) \/ ReadDirectory(t)
  BY <1>2 DEF ReadResource, GetSkill, ReadDirectory
<1>3. CASE SearchTools(t) \/ GetPrompt(t) \/ CallTool(t) \/ CallToolAsTask(t) \/ DoSendRequest(t)
  BY <1>3 DEF SearchTools, GetPrompt, CallTool, CallToolAsTask, DoSendRequest
<1>4. CASE NextPage(t) \/ Store(t) \/ Found(t) \/ InputRequired(t) \/ ResolveTaskResult(t)
  BY <1>4 DEF NextPage, Store, Found, InputRequired, ResolveTaskResult
<1>5. CASE HeaderMismatch(t) \/ RelistTools(t) \/ Throws(t) \/ Observe(t)
  BY <1>5 DEF HeaderMismatch, RelistTools, Throws, Observe
<1>7. CASE CurrentCacheAuthContext(t) \/ GetAny(t) \/ FirstRequest(t)
  BY <1>7 DEF CurrentCacheAuthContext, GetAny, FirstRequest
<1>6. CASE SubscribeAsync(t) \/ Subscribed(t) \/ PollTaskToCompletion(t) \/ PollingTimesOut(t)
  BY <1>6 DEF SubscribeAsync, Subscribed, PollTaskToCompletion, PollingTimesOut
<1> QED
  BY <1>1, <1>2, <1>3, <1>4, <1>5, <1>6, <1>7 DEF ClientStep

LEMMA CallsFrame ==
  CallsNext => UNCHANGED handshakeVars \/ \E t \in Callers : RecoverExpiredSession(t) \/ Recovered(t)
<1> SUFFICES ASSUME CallsNext
             PROVE  UNCHANGED handshakeVars \/ \E t \in Callers : RecoverExpiredSession(t) \/ Recovered(t)
  OBVIOUS
<1> USE DEF NotSubs
<1>1. ASSUME NEW t \in Callers, ServerStep(t) PROVE UNCHANGED handshakeVars
  BY <1>1 DEF ServerStep, Serve, Listen, Acknowledge
<1>2. ASSUME NEW t \in Callers, RequestTimesOut(t) \/ HearAck(t) PROVE UNCHANGED handshakeVars
  BY <1>2 DEF RequestTimesOut, HearAck
<1>3. ASSUME NEW item \in Items, RegisterTool(item) PROVE UNCHANGED handshakeVars
  BY <1>3 DEF RegisterTool, Changed
<1>4. CASE \/ RegisterResource \/ RegisterResourceTemplate \/ RegisterPrompt \/ RegisterSkill
           \/ SendResourceUpdated
  BY <1>4 DEF RegisterResource, RegisterResourceTemplate, RegisterPrompt, RegisterSkill,
              SendResourceUpdated, Changed
<1>5. ASSUME NEW change, Announce(change) \/ HearNotice(change) PROVE UNCHANGED handshakeVars
  BY <1>5 DEF Announce, HearNotice
<1>6. CASE SwitchContext
  BY <1>6 DEF SwitchContext
<1> QED
  BY <1>1, <1>2, <1>3, <1>4, <1>5, <1>6, ClientStepFrame DEF CallsNext

LEMMA HandshakeNextKeeps == HandshakeInv /\ [Next]_all => HandshakeInv'
<1> SUFFICES ASSUME HandshakeInv, [Next]_all PROVE HandshakeInv'
  OBVIOUS
<1>1. CASE HandshakeNext
  BY <1>1, HandshakeStep
<1>2. CASE UNCHANGED handshakeVars
  BY <1>2 DEF handshakeVars, serverVars, clientVars, HandshakeInv, HandshakeTypes, WireInOrder, NoRequests,
              PinKept, Settled, VersionFor, AnswerHolds, AgreementHolds, At
<1>3. CASE \E t \in Callers : RecoverExpiredSession(t) \/ Recovered(t)
  BY <1>3, RecoveryKeeps
<1>4. HandshakeNext \/ CallsNext \/ UNCHANGED handshakeVars
  BY DEF Next, all, vars
<1> QED
  BY <1>1, <1>2, <1>3, <1>4, CallsFrame

(* A client whose negotiation has succeeded and the session it uses go by the same version, for   *)
(* any number of threads that recover it and whatever other clients of the server negotiate.      *)
THEOREM ClientAndServerAgree == Spec => []VersionsAgree
<1>1. Init => HandshakeInv
  BY HandshakeInitially
<1>2. HandshakeInv /\ [Next]_all => HandshakeInv'
  BY HandshakeNextKeeps
<1>3. HandshakeInv => VersionsAgree
  BY HandshakeInvHolds
<1> QED
  BY <1>1, <1>2, <1>3, PTL DEF Spec

--------------------------------------------------------------------------------
(* Subscriptions: the inductive invariant *)

(* What each variable holds; every call has the fields of an idle one.  A list change keeps its   *)
(* key.                                                                                           *)
SubTypes ==
  /\ DOMAIN call = Callers
  /\ \A t \in Callers : DOMAIN call[t] = DOMAIN Idle
  /\ listens \in [Callers -> {"none", "sent", "entered"}]
  /\ subs \subseteq Callers /\ acks \subseteq Callers
  /\ pendingAck \in Callers \cup {Nobody}

(* Under a version of the modern era somebody has been told of it: initialized_ is set.  A server *)
(* that is pinned to it has it from the start; there it is the client that must have asked.       *)
ReadyInv ==
  /\ setup.pin # Latest => /\ Modern(default) => 0 \in ready
                           /\ \A s \in Sessions : Modern(version[s]) => 0 \in ready
  /\ setup.pin = Latest /\ setup.mode # "Pin" =>
       (answer.kind = "ok" \/ hand.at = "agreed" \/ me.state = "usable" => 0 \in ready)

(* The server keeps an entry for whom it has entered, and for whom it has acknowledged.           *)
EntriesKept ==
  \A t \in Callers :
    /\ listens[t] = "entered" \/ t \in acks => t \in subs
    /\ Subscribing(t) /\ call[t].at = "answered" /\ call[t].resp.kind = "value" => t \in subs
    /\ Subscribing(t) => call[t].at = "sent" \/ (call[t].at = "answered" /\ call[t].resp.kind \in {"value", "refused"})

(* As long as no two threads subscribe at once, pending_ack_id_ is reset by the acknowledgement   *)
(* of the thread that waits for it and by nothing else.                                           *)
AckIsOurs ==
  ~overlap => /\ \A t, u \in Callers : Subscribing(t) /\ Subscribing(u) => t = u
              /\ \A t \in Callers : Subscribing(t) /\ call[t].at = "sent" =>
                   pendingAck = t \/ (pendingAck = Nobody /\ t \in subs)
              /\ \A t \in Callers : call[t].how = "subscribed" => t \in subs

(* A call under way has no result yet.                                                            *)
UnderWay == \A t \in Callers : Active(t) => call[t].how # "subscribed"

(* Where somebody subscribes or has subscribed the server sends the notices of its registries.    *)
NoticesSent ==
  /\ setup.mode # "Pin" /\ subs # {} => 0 \in ready
  /\ setup.mode # "Pin" /\ setup.pin = Latest => \A t \in Callers : listens[t] = "sent" => 0 \in ready
  /\ owed # {} => subs # {}
  /\ \A change \in owed : change \in announcing \/ HeldBack(change)

SubInv == SubTypes /\ ReadyInv /\ EntriesKept /\ AckIsOurs /\ UnderWay /\ NoticesSent

--------------------------------------------------------------------------------
(* Subscriptions: lemmas *)

(* The record of a call: what sending and finishing leave of it. *)
LEMMA IdleFields ==
  /\ {"at", "asks", "how", "resp", "session", "stale"} \subseteq DOMAIN Idle
  /\ Idle.asks = "none" /\ Idle.how = "none" /\ Idle.at = "idle"
  BY DEF Idle

LEMMA SendDoes ==
  ASSUME NEW c, DOMAIN c = DOMAIN Idle
  PROVE  /\ DOMAIN Send(c) = DOMAIN Idle
         /\ Send(c).at = "sent" /\ Send(c).asks = c.asks /\ Send(c).how = c.how
  BY IdleFields DEF Send

LEMMA FinishDoes ==
  ASSUME NEW c, DOMAIN c = DOMAIN Idle, NEW items, NEW how
  PROVE  /\ DOMAIN Finish(c, items, how) = DOMAIN Idle
         /\ Finish(c, items, how).at = "returned" /\ Finish(c, items, how).asks = c.asks
         /\ Finish(c, items, how).how = how
  BY IdleFields DEF Finish

LEMMA EndedDoes ==
  ASSUME NEW c, DOMAIN c = DOMAIN Idle, NEW items, NEW how
  PROVE  /\ DOMAIN Ended(c, items, how) = DOMAIN Idle
         /\ Ended(c, items, how).asks \in {c.asks, "CallTool"}
         /\ Ended(c, items, how).how \in {c.how, how}
<1> DEFINE d == [c EXCEPT !.asks = "CallTool", !.items = <<>>, !.pages = 0, !.cursor = 0, !.etag = <<>>]
<1>1. DOMAIN d = DOMAIN Idle /\ d.asks = "CallTool" /\ d.how = c.how
  BY IdleFields
<1> HIDE DEF d
<1>2. DOMAIN Send(d) = DOMAIN Idle /\ Send(d).asks = "CallTool" /\ Send(d).how = c.how
  BY <1>1, SendDoes
<1>3. Ended(c, items, how) \in {Send(d), Finish(c, items, how)}
  BY DEF Ended, d
<1> QED
  BY <1>2, <1>3, FinishDoes

(* A call that subscribes nobody. *)
Apart(d) == DOMAIN d = DOMAIN Idle /\ d.asks # "Subscribe" /\ d.how # "subscribed"

LEMMA SendApart == ASSUME NEW c, Apart(c) PROVE Apart(Send(c))
  BY SendDoes DEF Apart

LEMMA FinishApart == ASSUME NEW c, Apart(c), NEW items, NEW how, how # "subscribed" PROVE Apart(Finish(c, items, how))
  BY FinishDoes DEF Apart

LEMMA EndedApart == ASSUME NEW c, Apart(c), NEW items, NEW how, how # "subscribed" PROVE Apart(Ended(c, items, how))
  BY EndedDoes DEF Apart

(* A step of a call that subscribes nobody. *)
OtherStep(t) ==
  /\ ~Subscribing(t)
  /\ \E d : Set(t, d) /\ Apart(d)
  /\ setup' = setup /\ listens' = listens /\ subs' = subs /\ pendingAck' = pendingAck /\ acks' = acks
  /\ overlap' = overlap /\ owed' = owed /\ announcing' = announcing

LEMMA ActiveApart ==
  ASSUME SubTypes, UnderWay, NEW t \in Callers, call[t].at \notin {"idle", "returned"}, call[t].asks # "Subscribe"
  PROVE  Apart(call[t]) /\ ~Subscribing(t)
  BY DEF SubTypes, UnderWay, Apart, Active, Subscribing

LEMMA CapturedApart ==
  ASSUME NEW t \in Callers, NEW asks, NEW key, NEW mode, NEW again, Captured(t, asks, key, mode, again),
         asks # "Subscribe", ~Subscribing(t)
  PROVE  OtherStep(t)
<1> DEFINE c == [Idle EXCEPT !.at = "captured", !.asks = asks, !.key = key, !.mode = mode, !.ctx = auth, !.again = again]
<1>1. Apart(c)
  BY IdleFields DEF Apart
<1>2. Set(t, c)
  BY DEF Captured
<1>3. /\ setup' = setup /\ listens' = listens /\ subs' = subs /\ pendingAck' = pendingAck /\ acks' = acks
      /\ overlap' = overlap /\ owed' = owed /\ announcing' = announcing
  BY DEF Captured, handshakeVars, subVars, serverData
<1> HIDE DEF c
<1> QED
  BY <1>1, <1>2, <1>3 DEF OtherStep

LEMMA LookupApart ==
  ASSUME SubTypes, UnderWay, EntriesKept, NEW t \in Callers,
         CurrentCacheAuthContext(t) \/ GetAny(t) \/ FirstRequest(t)
  PROVE  OtherStep(t)
<1> DEFINE c == call[t]
           at(p) == [c EXCEPT !.at = p]
           with(e) == [c EXCEPT !.owner = e.owner, !.switched = e.switched]
           tag(x) == [c EXCEPT !.etag = x, !.base = data[c.key], !.stale = FALSE]
<1>1. c.at \in {"captured", "looking", "missed"}
  BY DEF CurrentCacheAuthContext, GetAny, FirstRequest
<1>2. Apart(c) /\ ~Subscribing(t)
  <2>1. ~Subscribing(t)
    BY <1>1 DEF EntriesKept
  <2> QED
    BY <1>1, <2>1, ActiveApart DEF Subscribing, Active
<1>3. \/ \E p : Set(t, at(p))
      \/ \E e : Set(t, Ended(with(e), e.items, "hit"))
      \/ \E x : Set(t, Send(tag(x)))
  BY DEF CurrentCacheAuthContext, GetAny, FirstRequest
<1>4. /\ setup' = setup /\ listens' = listens /\ subs' = subs /\ pendingAck' = pendingAck /\ acks' = acks
      /\ overlap' = overlap /\ owed' = owed /\ announcing' = announcing
  BY DEF CurrentCacheAuthContext, GetAny, FirstRequest, handshakeVars, subVars, serverData
<1>5. (\A p : Apart(at(p))) /\ (\A e : Apart(with(e))) /\ \A x : Apart(tag(x))
  BY <1>2, IdleFields DEF Apart
<1> HIDE DEF c, at, with, tag
<1>6. \E d : Set(t, d) /\ Apart(d)
  BY <1>3, <1>5, EndedApart, SendApart
<1> QED
  BY <1>2, <1>4, <1>6 DEF OtherStep

LEMMA UncachedApart ==
  ASSUME NEW t \in Callers, NEW asks, NEW key, Uncached(t, asks, key), asks # "Subscribe", ~Subscribing(t)
  PROVE  OtherStep(t)
<1> DEFINE c == [Idle EXCEPT !.asks = asks, !.key = key, !.ctx = auth, !.base = data[key]]
<1>1. Apart(c)
  BY IdleFields DEF Apart
<1>2. Set(t, Send(c))
  BY DEF Uncached
<1>3. /\ setup' = setup /\ listens' = listens /\ subs' = subs /\ pendingAck' = pendingAck /\ acks' = acks
      /\ overlap' = overlap /\ owed' = owed /\ announcing' = announcing
  BY DEF Uncached, handshakeVars, subVars, serverData
<1> HIDE DEF c
<1> QED
  BY <1>1, <1>2, <1>3, SendApart DEF OtherStep

(* Handling an answer: what the actions leave alone. *)
LEMMA OthersApart ==
  ASSUME NEW t, UNCHANGED Others, ~Subscribing(t), NEW d, Set(t, d), Apart(d)
  PROVE  OtherStep(t)
  BY DEF OtherStep, Others, handshakeVars, subVars, serverData

LEMMA StartsApart ==
  ASSUME NEW t \in Callers, SubTypes,
         \/ ListTools(t) \/ ListResources(t) \/ ListResourceTemplates(t) \/ ListPrompts(t) \/ ListSkills(t)
         \/ ReadResource(t) \/ GetSkill(t) \/ ReadDirectory(t)
         \/ SearchTools(t) \/ GetPrompt(t) \/ CallTool(t) \/ CallToolAsTask(t) \/ DoSendRequest(t)
  PROVE  OtherStep(t)
<1>1. ~Subscribing(t)
  BY DEF Subscribing, Starts, ListTools, ListResources, ListResourceTemplates, ListPrompts, ListSkills,
         ReadResource, GetSkill, ReadDirectory, SearchTools, GetPrompt, CallTool, CallToolAsTask, DoSendRequest
<1>2. CASE ListTools(t) \/ ListResources(t) \/ ListResourceTemplates(t) \/ ListPrompts(t) \/ ListSkills(t)
           \/ ReadResource(t) \/ GetSkill(t) \/ ReadDirectory(t)
  BY <1>1, <1>2, CapturedApart
  DEF CachedCall, ListTools, ListResources, ListResourceTemplates, ListPrompts, ListSkills,
      ReadResource, GetSkill, ReadDirectory
<1>3. CASE SearchTools(t) \/ GetPrompt(t) \/ CallTool(t) \/ CallToolAsTask(t) \/ DoSendRequest(t)
  BY <1>1, <1>3, UncachedApart DEF SearchTools, GetPrompt, CallTool, CallToolAsTask, DoSendRequest
<1> QED
  BY <1>2, <1>3

LEMMA AnswerApart ==
  ASSUME SubTypes, UnderWay, EntriesKept, NEW t \in Callers, NEW kinds, Answered(t, kinds),
         kinds \cap {"value", "refused"} = {} \/ call[t].asks # "Subscribe"
  PROVE  Apart(call[t]) /\ ~Subscribing(t)
<1>1. call[t].at = "answered" /\ call[t].resp.kind \in kinds
  BY DEF Answered
<1>2. call[t].asks # "Subscribe"
  BY <1>1 DEF EntriesKept, Subscribing, Active
<1> QED
  BY <1>1, <1>2, ActiveApart

LEMMA NextPageApart ==
  ASSUME SubTypes, UnderWay, EntriesKept, NEW t \in Callers, NextPage(t)
  PROVE  OtherStep(t)
<1> DEFINE c == call[t]
           more == [c EXCEPT !.items = c.items \o c.resp.items, !.pages = c.pages + 1, !.cursor = c.resp.next,
                             !.first = IF c.pages = 0 THEN c.resp.tag ELSE c.first]
<1>1. Apart(c) /\ ~Subscribing(t)
  BY AnswerApart DEF NextPage, IsList
<1>2. UNCHANGED Others /\ (Set(t, Send(more)) \/ Set(t, Finish(c, <<>>, "failed")))
  BY DEF NextPage
<1>3. Apart(more)
  BY <1>1, IdleFields DEF Apart
<1> HIDE DEF more, c
<1> QED
  BY <1>1, <1>2, <1>3, SendApart, FinishApart, OthersApart

LEMMA StoreApart ==
  ASSUME SubTypes, UnderWay, EntriesKept, NEW t \in Callers, Store(t)
  PROVE  OtherStep(t)
<1> DEFINE c == call[t]
           got == [c EXCEPT !.items = c.items \o c.resp.items, !.blank = (c.resp.kind = "notModified"),
                            !.first = IF c.pages = 0 THEN c.resp.tag ELSE c.first]
<1>1. Apart(c) /\ ~Subscribing(t)
  BY AnswerApart DEF Store, IsList, IsRead
<1>2. /\ UNCHANGED Others
      /\ (\E e : Set(t, Ended(c, e.items, "notModified"))) \/ Set(t, Ended(got, got.items, "value"))
  BY DEF Store
<1>3. Apart(got)
  BY <1>1, IdleFields DEF Apart
<1> HIDE DEF got, c
<1> QED
  BY <1>1, <1>2, <1>3, EndedApart, OthersApart

LEMMA ResultApart ==
  ASSUME SubTypes, UnderWay, EntriesKept, NEW t \in Callers,
         Found(t) \/ Throws(t) \/ PollTaskToCompletion(t) \/ PollingTimesOut(t)
  PROVE  OtherStep(t)
<1>1. Apart(call[t]) /\ ~Subscribing(t)
  BY AnswerApart DEF Found, IsList, IsRead, Throws, PollTaskToCompletion, PollingTimesOut
<1>2. UNCHANGED Others
  BY DEF Found, Throws, PollTaskToCompletion, PollingTimesOut
<1>3. \/ Set(t, Finish(call[t], call[t].items \o call[t].resp.items, "value"))
      \/ Set(t, Finish(call[t], <<>>, call[t].resp.kind)) /\ call[t].resp.kind # "subscribed"
      \/ Set(t, Send(call[t])) \/ Set(t, Finish(call[t], <<>>, "failed"))
  BY DEF Found, Throws, PollTaskToCompletion, PollingTimesOut, Answered
<1> QED
  BY <1>1, <1>2, <1>3, SendApart, FinishApart, OthersApart

LEMMA InsteadApart ==
  ASSUME SubTypes, UnderWay, EntriesKept, NEW t \in Callers,
         InputRequired(t) \/ ResolveTaskResult(t) \/ HeaderMismatch(t)
  PROVE  OtherStep(t)
<1> DEFINE c == call[t]
           round == [c EXCEPT !.round = c.round + 1]
           task == [c EXCEPT !.asks = "GetTask"]
           list == [c EXCEPT !.at = "relist"]
<1>1. Apart(c) /\ ~Subscribing(t)
  BY AnswerApart DEF InputRequired, ResolveTaskResult, HeaderMismatch
<1>2. UNCHANGED Others
  BY DEF InputRequired, ResolveTaskResult, HeaderMismatch
<1>3. \/ Set(t, Send(round)) \/ Set(t, Finish(c, <<>>, "failed")) \/ Set(t, Finish(c, <<>>, "value"))
      \/ Set(t, Send(task)) \/ Set(t, list)
  BY DEF InputRequired, ResolveTaskResult, HeaderMismatch
<1>4. Apart(round) /\ Apart(task) /\ Apart(list)
  BY <1>1, IdleFields DEF Apart
<1> HIDE DEF c, round, task, list
<1> QED
  BY <1>1, <1>2, <1>3, <1>4, SendApart, FinishApart, OthersApart

LEMMA RelistApart ==
  ASSUME EntriesKept, NEW t \in Callers, RelistTools(t)
  PROVE  OtherStep(t)
<1>1. call[t].at = "relist" /\ Captured(t, "Relist", "tools", "use", TRUE)
  BY DEF RelistTools
<1>2. ~Subscribing(t)
  BY <1>1 DEF EntriesKept
<1> QED
  BY <1>1, <1>2, CapturedApart

LEMMA RecoveryApart ==
  ASSUME SubTypes, UnderWay, EntriesKept, NEW t \in Callers,
         Observe(t) \/ RecoverExpiredSession(t) \/ Recovered(t)
  PROVE  OtherStep(t)
<1> DEFINE c == call[t]
           seen == [c EXCEPT !.at = "observed", !.seen = me.generation]
           again == [c EXCEPT !.round = 0, !.retried = TRUE]
           negotiating == [c EXCEPT !.at = "negotiating"]
<1>1. call[t].asks # "Subscribe" /\ call[t].at \notin {"idle", "returned"}
  <2>1. CASE Observe(t)
    BY <2>1 DEF Observe, MayRecover, WithMrtr, IsRead
  <2>2. CASE call[t].at \in {"observed", "negotiating"}
    BY <2>2 DEF EntriesKept, Subscribing, Active
  <2> QED
    BY <2>1, <2>2 DEF RecoverExpiredSession, Recovered
<1>2. Apart(c) /\ ~Subscribing(t)
  BY <1>1, ActiveApart
<1>3. \/ Set(t, seen) \/ Set(t, Send(again)) \/ Set(t, negotiating) \/ Set(t, Finish(c, <<>>, "failed"))
  BY DEF Observe, RecoverExpiredSession, Recovered, Again
<1>4. /\ setup' = setup /\ listens' = listens /\ subs' = subs /\ pendingAck' = pendingAck /\ acks' = acks
      /\ overlap' = overlap /\ owed' = owed /\ announcing' = announcing
  BY DEF Observe, RecoverExpiredSession, Recovered, Others, handshakeVars, subVars, serverData
<1>5. Apart(seen) /\ Apart(again) /\ Apart(negotiating)
  BY <1>2, IdleFields DEF Apart
<1> HIDE DEF c, seen, again, negotiating
<1> QED
  BY <1>2, <1>3, <1>4, <1>5, SendApart, FinishApart DEF OtherStep

LEMMA ServeApart ==
  ASSUME SubTypes, UnderWay, NEW t \in Callers, Serve(t) \/ RequestTimesOut(t)
  PROVE  OtherStep(t)
<1> DEFINE c == call[t]
           answered(r) == [c EXCEPT !.at = "answered", !.resp = r, !.owner = c.owner \cup {c.as}]
<1>1. Apart(c) /\ ~Subscribing(t)
  BY ActiveApart DEF Serve, RequestTimesOut
<1>2. (\E r : Set(t, answered(r))) \/ Set(t, Finish(c, <<>>, "failed"))
  BY DEF Serve, RequestTimesOut
<1>3. /\ setup' = setup /\ listens' = listens /\ subs' = subs /\ pendingAck' = pendingAck /\ acks' = acks
      /\ overlap' = overlap /\ owed' = owed /\ announcing' = announcing
  BY DEF Serve, RequestTimesOut, handshakeVars, subVars, serverData
<1>4. \A r : Apart(answered(r))
  BY <1>1, IdleFields DEF Apart
<1> HIDE DEF c, answered
<1> QED
  BY <1>1, <1>2, <1>3, <1>4, FinishApart DEF OtherStep

LEMMA ClientStepApart ==
  ASSUME SubTypes, UnderWay, EntriesKept, NEW t \in Callers, ClientStep(t)
  PROVE  OtherStep(t) \/ SubscribeAsync(t) \/ Subscribed(t)
  BY StartsApart, LookupApart, NextPageApart, StoreApart, ResultApart, InsteadApart, RelistApart, RecoveryApart
  DEF ClientStep

--------------------------------------------------------------------------------
(* Subscriptions: the steps *)

CallPart == SubTypes /\ EntriesKept /\ AckIsOurs /\ UnderWay

(* A call that subscribes nobody replaces its record by another such one. *)
LEMMA OtherKeeps ==
  ASSUME CallPart, NEW t \in Callers, OtherStep(t)
  PROVE  CallPart'
<1>1. PICK d : Set(t, d) /\ Apart(d)
  BY DEF OtherStep
<1>2. /\ listens' = listens /\ subs' = subs /\ pendingAck' = pendingAck /\ acks' = acks
      /\ overlap' = overlap /\ ~Subscribing(t)
  BY DEF OtherStep
<1>3. DOMAIN call' = Callers /\ call'[t] = d /\ \A u \in Callers : u # t => call'[u] = call[u]
  BY <1>1 DEF Set, CallPart, SubTypes
<1>4. SubTypes'
  BY <1>1, <1>2, <1>3 DEF CallPart, SubTypes, Apart
<1>5. \A u \in Callers : Subscribing(u)' => u # t /\ Subscribing(u)
  BY <1>1, <1>3 DEF Subscribing, Active, Apart
<1>6. EntriesKept'
  BY <1>2, <1>3, <1>5 DEF CallPart, EntriesKept
<1>7. call'[t].how # "subscribed"
  BY <1>1, <1>3 DEF Apart
<1>8. AckIsOurs'
  BY <1>2, <1>3, <1>5, <1>7 DEF CallPart, AckIsOurs
<1>9. UnderWay'
  BY <1>3, <1>7 DEF CallPart, UnderWay, Active
<1> QED
  BY <1>4, <1>6, <1>8, <1>9 DEF CallPart

LEMMA SubscribeKeeps ==
  ASSUME CallPart, NEW t \in Callers, SubscribeAsync(t)
  PROVE  CallPart'
<1> DEFINE c == [Idle EXCEPT !.asks = "Subscribe", !.ctx = auth]
           d == Send(c)
<1>1. /\ ~Active(t) /\ pendingAck' = t /\ listens' = [listens EXCEPT ![t] = "sent"] /\ Set(t, d)
      /\ overlap' = (overlap \/ \E u \in Callers : Subscribing(u)) /\ subs' = subs /\ acks' = acks
  BY DEF SubscribeAsync, Starts
<1>2. DOMAIN c = DOMAIN Idle /\ c.asks = "Subscribe" /\ c.how = "none"
  BY IdleFields
<1> HIDE DEF c
<1>3. DOMAIN d = DOMAIN Idle /\ d.asks = "Subscribe" /\ d.how = "none" /\ d.at = "sent"
  BY <1>2, SendDoes
<1> HIDE DEF d
<1>4. DOMAIN call' = Callers /\ call'[t] = d /\ \A u \in Callers : u # t => call'[u] = call[u]
  BY <1>1 DEF Set, CallPart, SubTypes
<1>5. SubTypes'
  <2>1. listens' \in [Callers -> {"none", "sent", "entered"}]
    BY <1>1 DEF CallPart, SubTypes
  <2> QED
    BY <1>1, <1>3, <1>4, <2>1 DEF CallPart, SubTypes
<1>6. \A u \in Callers : u # t => (Subscribing(u)' <=> Subscribing(u))
  BY <1>4 DEF Subscribing, Active
<1>7. EntriesKept'
  <2>1. \A u \in Callers : (listens[u] = "entered")' => listens[u] = "entered"
    BY <1>1 DEF CallPart, SubTypes
  <2> QED
    BY <1>1, <1>3, <1>4, <1>6, <2>1 DEF CallPart, EntriesKept
<1>8. AckIsOurs'
  <2> SUFFICES ASSUME ~overlap' PROVE AckIsOurs'
    BY DEF AckIsOurs
  <2>1. ~overlap /\ \A u \in Callers : ~Subscribing(u)
    BY <1>1
  <2> QED
    BY <1>1, <1>3, <1>4, <1>6, <2>1 DEF CallPart, AckIsOurs
<1>9. UnderWay'
  BY <1>3, <1>4 DEF CallPart, UnderWay, Active
<1> QED
  BY <1>5, <1>7, <1>8, <1>9 DEF CallPart

LEMMA SubscribedKeeps ==
  ASSUME CallPart, NEW t \in Callers, Subscribed(t)
  PROVE  CallPart'
<1>1. /\ Subscribing(t) /\ listens' = listens /\ subs' = subs /\ acks' = acks /\ overlap' = overlap
      /\ pendingAck' \in {pendingAck, Nobody}
  BY DEF Subscribed
<1>2. PICK how : /\ Set(t, Finish(call[t], <<>>, how))
                 /\ how = "subscribed" =>
                      \/ call[t].at = "answered" /\ call[t].resp.kind = "value"
                      \/ call[t].at = "sent" /\ pendingAck = Nobody
  BY DEF Subscribed
<1> DEFINE d == Finish(call[t], <<>>, how)
<1>3. DOMAIN call = Callers /\ DOMAIN call[t] = DOMAIN Idle
  BY DEF CallPart, SubTypes
<1>4. DOMAIN d = DOMAIN Idle /\ d.at = "returned" /\ d.how = how
  BY <1>3, FinishDoes
<1> HIDE DEF d
<1>5. DOMAIN call' = Callers /\ call'[t] = d /\ \A u \in Callers : u # t => call'[u] = call[u]
  BY <1>2, <1>3 DEF Set, d
<1>6. SubTypes'
  BY <1>1, <1>4, <1>5 DEF CallPart, SubTypes
<1>7. ~Subscribing(t)' /\ \A u \in Callers : Subscribing(u)' => u # t /\ Subscribing(u)
  BY <1>4, <1>5 DEF Subscribing, Active
<1>8. EntriesKept'
  BY <1>1, <1>5, <1>7 DEF CallPart, EntriesKept
<1>9. AckIsOurs'
  <2> SUFFICES ASSUME ~overlap PROVE AckIsOurs'
    BY <1>1 DEF AckIsOurs
  <2>1. \A u \in Callers : ~Subscribing(u)'
    BY <1>1, <1>7 DEF CallPart, AckIsOurs
  <2>2. how = "subscribed" => t \in subs
    <3>1. pendingAck # t \/ Nobody # pendingAck
      BY ClientCallsAssumption
    <3>2. t # Nobody
      BY ClientCallsAssumption
    <3> QED
      BY <1>1, <1>2, <3>2 DEF CallPart, AckIsOurs, EntriesKept
  <2>3. \A u \in Callers : (call[u].how = "subscribed" => u \in subs)'
    BY <1>1, <1>4, <1>5, <2>2 DEF CallPart, AckIsOurs
  <2> QED
    BY <2>1, <2>3 DEF AckIsOurs
<1>10. UnderWay'
  BY <1>4, <1>5 DEF CallPart, UnderWay, Active
<1> QED
  BY <1>6, <1>8, <1>9, <1>10 DEF CallPart

(* The server's answer to a thread that still waits for it. *)
LEMMA RespondDoes ==
  ASSUME CallPart, NEW t \in Callers, NEW kind, Respond(t, kind)
  PROVE  \E d : /\ DOMAIN call' = Callers /\ call'[t] = d /\ \A u \in Callers : u # t => call'[u] = call[u]
                /\ DOMAIN d = DOMAIN Idle
                /\ d.asks = call[t].asks /\ d.how = call[t].how
                /\ d = call[t] \/ (Subscribing(t) /\ call[t].at = "sent" /\ d.at = "answered" /\ d.resp.kind = kind)
<1>0. DOMAIN call = Callers /\ DOMAIN call[t] = DOMAIN Idle
  BY DEF CallPart, SubTypes
<1>1. CASE Subscribing(t) /\ call[t].at = "sent"
  <2> DEFINE d == [call[t] EXCEPT !.at = "answered", !.resp = Only(kind)]
  <2>1. Only(kind).kind = kind
    BY DEF Only, NoResponse
  <2>2. call' = [call EXCEPT ![t] = d]
    BY <1>1 DEF Respond, Set
  <2>3. DOMAIN call' = Callers /\ call'[t] = d /\ \A u \in Callers : u # t => call'[u] = call[u]
    BY <1>0, <2>2
  <2>4. DOMAIN d = DOMAIN Idle /\ d.asks = call[t].asks /\ d.how = call[t].how /\ d.at = "answered" /\ d.resp.kind = kind
    BY <1>0, <2>1, IdleFields
  <2> QED
    BY <1>1, <2>3, <2>4
<1>2. CASE ~ (Subscribing(t) /\ call[t].at = "sent")
  <2>1. call' = call
    BY <1>2 DEF Respond
  <2> QED
    BY <1>0, <2>1
<1> QED
  BY <1>1, <1>2

LEMMA ListenKeeps ==
  ASSUME CallPart, NEW t \in Callers, Listen(t) \/ Acknowledge(t)
  PROVE  CallPart'
<1>1. pendingAck' = pendingAck /\ overlap' = overlap /\ subs \subseteq subs' /\ subs' \subseteq subs \cup {t}
  BY DEF Listen, Acknowledge
<1>2. /\ listens' \in [Callers -> {"none", "sent", "entered"}]
      /\ \A u \in Callers : (listens[u] = "entered")' => u \in subs'
      /\ acks' \subseteq acks \cup {t} /\ (t \in acks' => t \in subs')
  <2>1. CASE Listen(t)
    <3>1. \/ listens' = [listens EXCEPT ![t] = "none"] /\ subs' = subs
          \/ listens' = [listens EXCEPT ![t] = "entered"] /\ t \in subs'
      BY <2>1 DEF Listen
    <3>2. acks' = acks
      BY <2>1 DEF Listen
    <3> QED
      BY <1>1, <3>1, <3>2 DEF CallPart, SubTypes, EntriesKept
  <2>2. CASE Acknowledge(t)
    <3>1. listens[t] = "entered" /\ listens' = [listens EXCEPT ![t] = "none"] /\ acks' = acks \cup {t} /\ subs' = subs
      BY <2>2 DEF Acknowledge
    <3> QED
      BY <3>1 DEF CallPart, SubTypes, EntriesKept
  <2> QED
    BY <2>1, <2>2
<1>3. PICK d : /\ DOMAIN call' = Callers /\ call'[t] = d /\ \A u \in Callers : u # t => call'[u] = call[u]
               /\ DOMAIN d = DOMAIN Idle
               /\ d.asks = call[t].asks /\ d.how = call[t].how
               /\ \/ d = call[t]
                  \/ /\ Subscribing(t) /\ call[t].at = "sent" /\ d.at = "answered"
                     /\ d.resp.kind \in {"value", "refused"} /\ (d.resp.kind = "value" => t \in subs')
  <2>1. CASE call' = call
    BY <2>1 DEF CallPart, SubTypes
  <2>2. CASE Respond(t, "refused")
    <3>1. PICK d : /\ DOMAIN call' = Callers /\ call'[t] = d /\ \A u \in Callers : u # t => call'[u] = call[u]
                   /\ DOMAIN d = DOMAIN Idle
                   /\ d.asks = call[t].asks /\ d.how = call[t].how
                   /\ d = call[t] \/ (Subscribing(t) /\ call[t].at = "sent" /\ d.at = "answered" /\ d.resp.kind = "refused")
      BY <2>2, RespondDoes
    <3> QED
      BY <3>1
  <2>3. CASE Respond(t, "value") /\ t \in subs'
    <3>1. PICK d : /\ DOMAIN call' = Callers /\ call'[t] = d /\ \A u \in Callers : u # t => call'[u] = call[u]
                   /\ DOMAIN d = DOMAIN Idle
                   /\ d.asks = call[t].asks /\ d.how = call[t].how
                   /\ d = call[t] \/ (Subscribing(t) /\ call[t].at = "sent" /\ d.at = "answered" /\ d.resp.kind = "value")
      BY <2>3, RespondDoes
    <3> QED
      BY <2>3, <3>1
  <2>4. t \in acks' \/ t \notin acks'
    OBVIOUS
  <2>5. Acknowledge(t) => t \in acks'
    BY DEF Acknowledge
  <2> QED
    BY <1>2, <2>1, <2>2, <2>3, <2>5 DEF Listen, Acknowledge
<1>4. \A u \in Callers : Subscribing(u)' <=> Subscribing(u)
  BY <1>3 DEF Subscribing, Active
<1>5. SubTypes'
  BY <1>1, <1>2, <1>3 DEF CallPart, SubTypes
<1>6. EntriesKept'
  <2>1. \A u \in Callers : (listens[u] = "entered" \/ u \in acks => u \in subs)'
    BY <1>1, <1>2 DEF CallPart, EntriesKept
  <2>2. ASSUME NEW u \in Callers, Subscribing(u)'
        PROVE  /\ (call[u].at = "answered" /\ call[u].resp.kind = "value" => u \in subs)'
               /\ (call[u].at = "sent" \/ (call[u].at = "answered" /\ call[u].resp.kind \in {"value", "refused"}))'
    <3>1. Subscribing(u)
      BY <1>4, <2>2
    <3>2. CASE call'[u] = call[u]
      BY <1>1, <3>1, <3>2 DEF CallPart, EntriesKept
    <3>3. CASE call'[u] # call[u]
      BY <1>3, <3>3
    <3> QED
      BY <3>2, <3>3
  <2> QED
    BY <2>1, <2>2 DEF EntriesKept
<1>7. AckIsOurs'
  <2> SUFFICES ASSUME ~overlap PROVE AckIsOurs'
    BY <1>1 DEF AckIsOurs
  <2>1. \A u \in Callers : (call[u].how = "subscribed" => u \in subs)'
    BY <1>1, <1>3 DEF CallPart, AckIsOurs
  <2>2. \A u, v \in Callers : (Subscribing(u) /\ Subscribing(v))' => u = v
    BY <1>4 DEF CallPart, AckIsOurs
  <2>3. ASSUME NEW u \in Callers, Subscribing(u)', (call[u].at = "sent")'
        PROVE  (pendingAck = u \/ (pendingAck = Nobody /\ u \in subs))'
    <3>1. Subscribing(u) /\ call'[u] = call[u]
      BY <1>3, <1>4, <2>3
    <3> QED
      BY <1>1, <2>3, <3>1 DEF CallPart, AckIsOurs
  <2> QED
    BY <2>1, <2>2, <2>3 DEF AckIsOurs
<1>8. UnderWay'
  BY <1>3 DEF CallPart, UnderWay, Active, Subscribing
<1> QED
  BY <1>5, <1>6, <1>7, <1>8 DEF CallPart

LEMMA HearAckKeeps ==
  ASSUME CallPart, NEW t \in Callers, HearAck(t)
  PROVE  CallPart'
<1>1. /\ t \in acks /\ acks' = acks \ {t} /\ pendingAck' = (IF pendingAck = t THEN Nobody ELSE pendingAck)
      /\ call' = call /\ listens' = listens /\ subs' = subs /\ overlap' = overlap
  BY DEF HearAck
<1>2. t \in subs
  BY <1>1 DEF CallPart, EntriesKept
<1>3. \A u \in Callers : Subscribing(u)' <=> Subscribing(u)
  BY <1>1 DEF Subscribing, Active
<1>4. SubTypes'
  BY <1>1 DEF CallPart, SubTypes
<1>5. EntriesKept' /\ UnderWay'
  BY <1>1, <1>3 DEF CallPart, EntriesKept, UnderWay, Active
<1>6. AckIsOurs'
  BY <1>1, <1>2, <1>3 DEF CallPart, AckIsOurs
<1> QED
  BY <1>4, <1>5, <1>6 DEF CallPart

LEMMA HearNoticeKeeps ==
  ASSUME CallPart, NEW change, HearNotice(change)
  PROVE  CallPart'
<1>1. /\ call' = [t \in Callers |-> IF Active(t) /\ call[t].key = change.key
                                    THEN [call[t] EXCEPT !.stale = TRUE] ELSE call[t]]
      /\ listens' = listens /\ subs' = subs /\ pendingAck' = pendingAck /\ acks' = acks /\ overlap' = overlap
  BY DEF HearNotice, subVars
<1>2. DOMAIN call' = Callers
  BY <1>1
<1>3. ASSUME NEW t \in Callers
      PROVE  /\ DOMAIN call'[t] = DOMAIN Idle /\ call'[t].at = call[t].at /\ call'[t].asks = call[t].asks
             /\ call'[t].how = call[t].how /\ call'[t].resp = call[t].resp
  <2>1. DOMAIN call[t] = DOMAIN Idle
    BY DEF CallPart, SubTypes
  <2>2. call'[t] = [call[t] EXCEPT !.stale = TRUE] \/ call'[t] = call[t]
    BY <1>1
  <2> QED
    BY <2>1, <2>2, IdleFields
<1>4. \A t \in Callers : (Subscribing(t)' <=> Subscribing(t)) /\ (Active(t)' <=> Active(t))
  BY <1>3 DEF Subscribing, Active
<1>5. SubTypes'
  BY <1>1, <1>2, <1>3 DEF CallPart, SubTypes
<1>6. EntriesKept' /\ UnderWay'
  BY <1>1, <1>3, <1>4 DEF CallPart, EntriesKept, UnderWay
<1>7. AckIsOurs'
  BY <1>1, <1>3, <1>4 DEF CallPart, AckIsOurs
<1> QED
  BY <1>5, <1>6, <1>7 DEF CallPart

LEMMA SameKeeps ==
  ASSUME CallPart, call' = call, listens' = listens, subs' = subs, pendingAck' = pendingAck,
         acks' = acks, overlap' = overlap
  PROVE  CallPart'
  BY DEF CallPart, SubTypes, EntriesKept, AckIsOurs, UnderWay, Subscribing, Active

--------------------------------------------------------------------------------
(* Subscriptions: who has been told of a version of the modern era *)

Acquainted == answer.kind = "ok" \/ hand.at = "agreed" \/ me.state = "usable"

LEMMA ReadySame ==
  ASSUME ReadyInv, setup' = setup, default' = default, version' = version, ready \subseteq ready',
         setup.mode # "Pin" /\ Acquainted' => Acquainted
  PROVE  ReadyInv'
  BY DEF ReadyInv, Acquainted, Modern

LEMMA ReadyNow ==
  ASSUME 0 \in ready'
  PROVE  ReadyInv'
  BY DEF ReadyInv

LEMMA ReplySame ==
  ASSUME NEW m, NEW kind \in {"unsupported", "refused"}, Reply(m, kind, 0), hand' = hand, me'.state = me.state
  PROVE  Acquainted' => Acquainted
<1>1. answer' = answer \/ answer' = [kind |-> kind, version |-> 0]
  BY DEF Reply
<1> QED
  BY <1>1 DEF Acquainted

LEMMA DiscoverReady ==
  ASSUME ReadyInv, NEW i, Discover(i)
  PROVE  ReadyInv' /\ ready \subseteq ready'
<1>1. setup' = setup /\ hand' = hand /\ me' = me
  BY DEF Discover
<1>2. CASE MarkInitialized(me.session)
  BY <1>2, ReadyNow DEF MarkInitialized
<1>3. CASE /\ Reply(wire[i], "refused", 0) \/ Reply(wire[i], "unsupported", 0)
           /\ UNCHANGED <<default, version, ready>>
  BY <1>1, <1>3, ReadySame, ReplySame
<1> QED
  BY <1>2, <1>3 DEF Discover

LEMMA InitializeReady ==
  ASSUME HandshakeInv, ReadyInv, NEW i, Initialize(i)
  PROVE  ReadyInv' /\ ready \subseteq ready'
<1> DEFINE m == wire[i]
           free == Sessions \ (alive \cup expired)
           s == IF setup.local THEN 0 ELSE Min(free)
<1>1. setup' = setup /\ ready' = ready /\ hand' = hand
  BY DEF Initialize
<1>2. me'.state = me.state
  <2>1. me' = me \/ me' = [me EXCEPT !.session = s]
    BY DEF Initialize
  <2> HIDE DEF s
  <2> QED
    BY <2>1 DEF HandshakeInv, HandshakeTypes
<1>3. CASE Reply(m, "refused", 0) /\ default' = default /\ version' = version
  BY <1>1, <1>2, <1>3, ReadySame, ReplySame
<1>4. CASE InitializeSession(m, s) /\ (setup.local \/ free # {})
  <2>1. s = 0 \/ s \in Sessions
    <3>1. free # {} => Min(free) \in free
      BY MinIsIn
    <3> QED
      BY <1>4, <3>1
  <2>2. InitializeSession(m, s)
    BY <1>4
  <2> HIDE DEF s
  <2>3. CASE VersionFor(s) # 0 /\ Modern(VersionFor(s))
    BY <1>3, <2>2, <2>3 DEF InitializeSession
  <2>4. CASE ~ (VersionFor(s) # 0 /\ Modern(VersionFor(s)))
    <3>1. SetVersion(s, Selected(m.declared))
      BY <2>2, <2>4 DEF InitializeSession
    <3>2. setup.pin \in 0 .. 5
      BY SetupFacts DEF HandshakeInv, HandshakeTypes
    <3>3. setup.pin # Latest
      <4> SUFFICES ASSUME setup.pin = Latest PROVE FALSE
        OBVIOUS
      <4>1. setup.pin # 0
        BY SMT DEF Latest
      <4>2. default = Latest /\ \A x \in Sessions : version[x] \in {0, Latest}
        BY <4>1 DEF HandshakeInv, PinKept
      <4>3. VersionFor(s) = Latest
        BY <2>1, <4>2 DEF VersionFor
      <4> QED
        BY <2>4, <4>3, SMT DEF Modern, Latest
    <3>4. ~Modern(Selected(m.declared))
      BY <3>2, <3>3, SMT DEF Selected, Modern, Latest, DefaultNegotiated, Legacy
    <3>5. version \in [Sessions -> 0 .. 5]
      BY DEF HandshakeInv, HandshakeTypes
    <3>6. (Modern(default) => 0 \in ready)'
      BY <1>1, <3>1, <3>3, <3>4 DEF ReadyInv, SetVersion, Modern
    <3>7. (\A x \in Sessions : Modern(version[x]) => 0 \in ready)'
      BY <1>1, <3>1, <3>3, <3>4, <3>5 DEF ReadyInv, SetVersion, Modern
    <3> QED
      BY <1>1, <3>3, <3>6, <3>7 DEF ReadyInv
  <2> QED
    BY <2>3, <2>4
<1> QED
  BY <1>3, <1>4 DEF Initialize

LEMMA HandshakeReady ==
  ASSUME HandshakeInv, ReadyInv, HandshakeNext
  PROVE  ReadyInv' /\ ready \subseteq ready'
<1>0. /\ DOMAIN hand = {"at", "by", "n"}
      /\ me \in [state : {"connecting", "usable", "failed"}, version : 0 .. 5, modern : BOOLEAN,
                 session : 0 .. MaxSessions, generation : Nat, agreed : BOOLEAN]
  BY DEF HandshakeInv, HandshakeTypes
<1>1. ASSUME NEW i, Discover(i) \/ Initialize(i) PROVE ReadyInv' /\ ready \subseteq ready'
  BY <1>1, DiscoverReady, InitializeReady
<1>2. ASSUME NEW i, Initialized(i) PROVE ReadyInv' /\ ready \subseteq ready'
  <2>1. /\ setup' = setup /\ default' = default /\ version' = version
        /\ hand' = hand /\ me' = me /\ answer' = answer /\ ready \subseteq ready'
    BY <1>2 DEF Initialized, MarkInitialized, clientVars
  <2> QED
    BY <2>1, ReadySame DEF Acquainted
<1>3. CASE OtherDiscovers
  BY <1>3, ReadyNow DEF OtherDiscovers, MarkInitialized
<1>4. ASSUME NEW s, Expires(s) PROVE ReadyInv' /\ ready \subseteq ready'
  <2>1. /\ setup' = setup /\ default' = default /\ version' = version
        /\ hand' = hand /\ me' = me /\ answer' = answer /\ ready' = ready
    BY <1>4 DEF Expires, clientVars
  <2> QED
    BY <2>1, ReadySame DEF Acquainted
<1>5. ASSUME UNCHANGED <<setup, serverVars>>, setup.mode # "Pin" /\ Acquainted' => Acquainted
      PROVE  ReadyInv' /\ ready \subseteq ready'
  BY <1>5, ReadySame DEF serverVars
<1>6. ASSUME NEW step, NEW kind, step # "agreed", Ask(step, kind), me' = me
      PROVE  Acquainted' => Acquainted
  <2>1. hand'.at = step /\ answer'.kind = "none"
    BY <1>0, <1>6 DEF Ask, NoAnswer
  <2> QED
    BY <1>6, <2>1 DEF Acquainted
<1>7. ASSUME NEW v, NEW modern, Agree(v, modern), answer.kind = "ok" PROVE Acquainted
  BY <1>7 DEF Acquainted
<1>8. ASSUME Fail PROVE Acquainted' => Acquainted
  <2>1. hand'.at = "failed" /\ answer'.kind = "none" /\ me'.state = me.state
    BY <1>0, <1>8 DEF Fail, NoAnswer
  <2> QED
    BY <2>1 DEF Acquainted
<1>9. CASE Begin
  <2>1. setup.mode # "Pin" /\ Acquainted' => Acquainted
    BY <1>6, <1>9 DEF Begin
  <2> QED
    BY <1>5, <1>9, <2>1 DEF Begin
<1>10. CASE ProbeDiscover \/ HandshakeInitialize
  <2>1. Acquainted' => Acquainted
    BY <1>6, <1>7, <1>8, <1>10 DEF ProbeDiscover, HandshakeInitialize
  <2> QED
    BY <1>5, <1>10, <2>1 DEF ProbeDiscover, HandshakeInitialize
<1>11. CASE AwaitProbe \/ InitializeTimesOut
  <2>1. Acquainted' => Acquainted
    BY <1>6, <1>8, <1>11 DEF AwaitProbe, InitializeTimesOut
  <2> QED
    BY <1>5, <1>11, <2>1 DEF AwaitProbe, InitializeTimesOut
<1>12. CASE Created
  <2>1. /\ me' = [me EXCEPT !.state = IF At("agreed") THEN "usable" ELSE "failed"]
        /\ hand' = [hand EXCEPT !.at = "idle"] /\ answer' = answer /\ UNCHANGED <<setup, serverVars>>
    BY <1>12 DEF Created
  <2>2. hand'.at = "idle" /\ (me'.state = "usable" => hand.at = "agreed")
    BY <1>0, <2>1 DEF At
  <2>3. Acquainted' => Acquainted
    BY <2>1, <2>2 DEF Acquainted
  <2> QED
    BY <1>5, <2>1, <2>3
<1> QED
  BY <1>1, <1>2, <1>3, <1>4, <1>9, <1>10, <1>11, <1>12 DEF HandshakeNext

LEMMA RecoveryReady ==
  ASSUME HandshakeInv, ReadyInv, NEW t, RecoverExpiredSession(t) \/ Recovered(t)
  PROVE  ReadyInv' /\ ready' = ready
<1>0. /\ hand \in [at : {"idle", "begin", "probe", "init", "agreed", "failed"}, by : Threads, n : Nat]
      /\ me \in [state : {"connecting", "usable", "failed"}, version : 0 .. 5, modern : BOOLEAN,
                 session : 0 .. MaxSessions, generation : Nat, agreed : BOOLEAN]
  BY DEF HandshakeInv, HandshakeTypes
<1>1. /\ setup' = setup /\ default' = default /\ version' = version /\ ready' = ready /\ answer' = answer
      /\ hand' = hand \/ hand' = [hand EXCEPT !.at = "begin", !.by = t] \/ hand' = [hand EXCEPT !.at = "idle"]
      /\ me' = me \/ me' = [me EXCEPT !.generation = me.generation + 1]
  BY DEF RecoverExpiredSession, Recovered, serverVars
<1>2. hand'.at \in {hand.at, "begin", "idle"} /\ me'.state = me.state
  BY <1>0, <1>1
<1>3. Acquainted' => Acquainted
  BY <1>1, <1>2 DEF Acquainted
<1> QED
  BY <1>1, <1>3, ReadySame

LEMMA CallsReady ==
  ASSUME HandshakeInv, ReadyInv, CallsNext
  PROVE  ReadyInv' /\ ready' = ready /\ setup' = setup
<1>1. CASE UNCHANGED handshakeVars
  <2>1. /\ setup' = setup /\ default' = default /\ version' = version
        /\ hand' = hand /\ me' = me /\ answer' = answer /\ ready' = ready
    BY <1>1 DEF handshakeVars, serverVars, clientVars
  <2> QED
    BY <2>1, ReadySame DEF Acquainted
<1>2. ASSUME NEW t \in Callers, RecoverExpiredSession(t) \/ Recovered(t)
      PROVE  ReadyInv' /\ ready' = ready /\ setup' = setup
  <2>1. setup' = setup
    BY <1>2 DEF RecoverExpiredSession, Recovered
  <2> QED
    BY <1>2, <2>1, RecoveryReady
<1> QED
  BY <1>1, <1>2, CallsFrame

--------------------------------------------------------------------------------
(* Subscriptions: the notices *)

LEMMA NoticesSame ==
  ASSUME NoticesSent, setup' = setup, ready \subseteq ready', subs' = subs, owed' = owed, announcing' = announcing,
         \A t \in Callers : listens'[t] = "sent" => listens[t] = "sent"
  PROVE  NoticesSent'
<1>1. \A change : HeldBack(change)' <=> HeldBack(change)
  BY DEF HeldBack
<1> QED
  BY <1>1 DEF NoticesSent

LEMMA SubscribeNotices ==
  ASSUME CallPart, ReadyInv, NoticesSent, NEW t \in Callers, SubscribeAsync(t), ready' = ready, setup' = setup
  PROVE  NoticesSent'
<1>1. /\ me.state = "usable" /\ listens' = [listens EXCEPT ![t] = "sent"] /\ subs' = subs
      /\ owed' = owed /\ announcing' = announcing
  BY DEF SubscribeAsync, Starts, NotSubs, serverData
<1>2. setup.mode # "Pin" /\ setup.pin = Latest => 0 \in ready
  BY <1>1 DEF ReadyInv
<1>3. \A change : HeldBack(change)' <=> HeldBack(change)
  BY DEF HeldBack
<1> QED
  BY <1>1, <1>2, <1>3 DEF NoticesSent

LEMMA ListenNotices ==
  ASSUME HandshakeInv, CallPart, ReadyInv, NoticesSent, NEW t \in Callers, Listen(t) \/ Acknowledge(t),
         ready' = ready, setup' = setup
  PROVE  NoticesSent'
<1>1. owed' = owed /\ announcing' = announcing /\ subs \subseteq subs'
  BY DEF Listen, Acknowledge, NotSubs, serverData
<1>2. \A u \in Callers : listens'[u] = "sent" => listens[u] = "sent"
  <2>1. listens' = [listens EXCEPT ![t] = "none"] \/ listens' = [listens EXCEPT ![t] = "entered"]
    BY DEF Listen, Acknowledge
  <2> QED
    BY <2>1 DEF CallPart, SubTypes
<1>3. subs' # subs /\ setup.mode # "Pin" => 0 \in ready
  <2> SUFFICES ASSUME subs' # subs, setup.mode # "Pin" PROVE 0 \in ready
    OBVIOUS
  <2> DEFINE s == call[t].session
  <2>1. listens[t] = "sent" /\ s \in alive \cup {0} /\ Modern(VersionFor(s))
    BY DEF Listen, Acknowledge
  <2>2. alive \subseteq Sessions
    BY DEF HandshakeInv, HandshakeTypes
  <2> HIDE DEF s
  <2>3. CASE setup.pin = Latest
    BY <2>1, <2>3 DEF NoticesSent
  <2>4. CASE setup.pin # Latest
    <3>1. VersionFor(s) = default \/ (s \in Sessions /\ VersionFor(s) = version[s])
      BY <2>1, <2>2 DEF VersionFor
    <3> QED
      BY <2>1, <2>4, <3>1 DEF ReadyInv
  <2> QED
    BY <2>3, <2>4
<1>4. \A change : HeldBack(change)' <=> HeldBack(change)
  BY DEF HeldBack
<1> QED
  BY <1>1, <1>2, <1>3, <1>4 DEF NoticesSent

LEMMA ChangedNotices ==
  ASSUME CallPart, NoticesSent, NEW key, Changed(key), ready' = ready, setup' = setup
  PROVE  NoticesSent'
<1> DEFINE change == [key |-> key, seen |-> data'[key]]
<1>1. /\ announcing' = announcing \cup {change} /\ listens' = listens /\ subs' = subs
      /\ owed' = owed \/ (owed' = owed \cup {change} /\ ~overlap /\ \E t \in Callers : call[t].how = "subscribed")
  BY DEF Changed, subVars
<1> HIDE DEF change
<1>2. owed' # owed => subs # {}
  BY <1>1 DEF CallPart, AckIsOurs
<1>3. \A c : HeldBack(c)' <=> HeldBack(c)
  BY DEF HeldBack
<1> QED
  BY <1>1, <1>2, <1>3 DEF NoticesSent

(* A notice that does not go out is owed to nobody, or held back from a pinned client.  *)
LEMMA AnnounceNotices ==
  ASSUME NoticesSent, NEW change, Announce(change), ready' = ready, setup' = setup
  PROVE  NoticesSent'
<1>1. /\ announcing' = announcing \ {change} /\ listens' = listens /\ subs' = subs
      /\ owed' = IF Reaches(change) THEN owed \ {change} ELSE owed
  BY DEF Announce, subVars
<1>2. change \in owed /\ ~Reaches(change) => HeldBack(change)
  BY DEF NoticesSent, Reaches, HeldBack
<1>3. \A c : HeldBack(c)' <=> HeldBack(c)
  BY DEF HeldBack
<1> QED
  BY <1>1, <1>2, <1>3 DEF NoticesSent

--------------------------------------------------------------------------------
(* Subscriptions: the proof *)

LEMMA SubInitially == Init => SubInv
<1> SUFFICES ASSUME Init PROVE SubInv
  OBVIOUS
<1>1. /\ call = [t \in Callers |-> Idle] /\ listens = [t \in Callers |-> "none"]
      /\ subs = {} /\ pendingAck = Nobody /\ acks = {} /\ owed = {}
      /\ setup \in Setups /\ default = setup.pin /\ version = [s \in Sessions |-> 0]
      /\ answer.kind = "none" /\ hand.at = "begin" /\ me.state = "connecting"
  BY DEF Init, CallsInit, HandshakeInit, NoAnswer
<1>2. SubTypes
  BY <1>1 DEF SubTypes
<1>3. \A t \in Callers : ~Active(t) /\ ~Subscribing(t) /\ call[t].how = "none"
  BY <1>1, IdleFields DEF Active, Subscribing
<1>4. EntriesKept /\ AckIsOurs /\ UnderWay
  BY <1>1, <1>3 DEF EntriesKept, AckIsOurs, UnderWay
<1>5. ReadyInv
  <2>1. setup.pin \in 0 .. 5
    BY <1>1, SetupFacts
  <2>2. setup.pin # Latest => ~Modern(default)
    BY <1>1, <2>1, SMT DEF Modern, Latest
  <2>3. \A s \in Sessions : ~Modern(version[s])
    BY <1>1, SMT DEF Modern, Latest
  <2> QED
    BY <1>1, <2>2, <2>3 DEF ReadyInv
<1>6. NoticesSent
  BY <1>1 DEF NoticesSent
<1> QED
  BY <1>2, <1>4, <1>5, <1>6 DEF SubInv

LEMMA CallsStep == HandshakeInv /\ SubInv /\ CallsNext => SubInv'
<1> SUFFICES ASSUME HandshakeInv, SubInv, CallsNext PROVE SubInv'
  OBVIOUS
<1>1. CallPart /\ ReadyInv /\ NoticesSent
  BY DEF SubInv, CallPart
<1>2. ReadyInv' /\ ready' = ready /\ setup' = setup
  BY <1>1, CallsReady
<1>3. ASSUME NEW t \in Callers, OtherStep(t) PROVE CallPart' /\ NoticesSent'
  <2>1. NoticesSent'
    BY <1>1, <1>2, <1>3, NoticesSame DEF OtherStep
  <2> QED
    BY <1>1, <1>3, <2>1, OtherKeeps
<1>4. ASSUME NEW t \in Callers, SubscribeAsync(t) PROVE CallPart' /\ NoticesSent'
  BY <1>1, <1>2, <1>4, SubscribeKeeps, SubscribeNotices
<1>5. ASSUME NEW t \in Callers, Subscribed(t) PROVE CallPart' /\ NoticesSent'
  <2>1. subs' = subs /\ owed' = owed /\ announcing' = announcing /\ listens' = listens
    BY <1>5 DEF Subscribed, NotSubs, serverData
  <2> QED
    BY <1>1, <1>2, <1>5, <2>1, SubscribedKeeps, NoticesSame
<1>6. ASSUME NEW t \in Callers, Listen(t) \/ Acknowledge(t) PROVE CallPart' /\ NoticesSent'
  BY <1>1, <1>2, <1>6, ListenKeeps, ListenNotices
<1>7. ASSUME NEW t \in Callers, HearAck(t) PROVE CallPart' /\ NoticesSent'
  <2>1. subs' = subs /\ owed' = owed /\ announcing' = announcing /\ listens' = listens
    BY <1>7 DEF HearAck, NotSubs, serverData
  <2> QED
    BY <1>1, <1>2, <1>7, <2>1, HearAckKeeps, NoticesSame
<1>8. ASSUME NEW key, Changed(key) PROVE CallPart' /\ NoticesSent'
  <2>1. call' = call /\ UNCHANGED subVars
    BY <1>8 DEF Changed
  <2>2. CallPart'
    BY <1>1, <2>1, SameKeeps DEF subVars
  <2> QED
    BY <1>1, <1>2, <1>8, <2>2, ChangedNotices
<1>9. ASSUME RegisterSkill \/ SwitchContext PROVE CallPart' /\ NoticesSent'
  <2>1. call' = call /\ UNCHANGED subVars /\ owed' = owed /\ announcing' = announcing
    BY <1>9 DEF RegisterSkill, SwitchContext, serverData
  <2>2. CallPart'
    BY <1>1, <2>1, SameKeeps DEF subVars
  <2>3. NoticesSent'
    BY <1>1, <1>2, <2>1, NoticesSame DEF subVars
  <2> QED
    BY <2>2, <2>3
<1>10. ASSUME NEW change, Announce(change) PROVE CallPart' /\ NoticesSent'
  <2>1. call' = call /\ UNCHANGED subVars
    BY <1>10 DEF Announce
  <2>2. CallPart'
    BY <1>1, <2>1, SameKeeps DEF subVars
  <2> QED
    BY <1>1, <1>2, <1>10, <2>2, AnnounceNotices
<1>11. ASSUME NEW change, HearNotice(change) PROVE CallPart' /\ NoticesSent'
  <2>1. subs' = subs /\ owed' = owed /\ announcing' = announcing /\ listens' = listens
    BY <1>11 DEF HearNotice, subVars, serverData
  <2> QED
    BY <1>1, <1>2, <1>11, <2>1, HearNoticeKeeps, NoticesSame
<1>12. ASSUME NEW t \in Callers, ClientStep(t) PROVE CallPart' /\ NoticesSent'
  <2>1. OtherStep(t) \/ SubscribeAsync(t) \/ Subscribed(t)
    BY <1>1, <1>12, ClientStepApart DEF CallPart
  <2> QED
    BY <1>3, <1>4, <1>5, <2>1
<1>13. ASSUME NEW t \in Callers, Serve(t) \/ RequestTimesOut(t) PROVE CallPart' /\ NoticesSent'
  <2>1. OtherStep(t)
    BY <1>1, <1>13, ServeApart DEF CallPart
  <2> QED
    BY <1>3, <2>1
<1>14. CallPart' /\ NoticesSent'
  <2>1. (\E item \in Items : RegisterTool(item)) \/ RegisterResource \/ RegisterResourceTemplate \/ RegisterPrompt
        \/ SendResourceUpdated => \E key : Changed(key)
    BY DEF RegisterTool, RegisterResource, RegisterResourceTemplate, RegisterPrompt, SendResourceUpdated
  <2> QED
    BY <1>6, <1>7, <1>8, <1>9, <1>10, <1>11, <1>12, <1>13, <2>1 DEF CallsNext, ServerStep
<1> QED
  BY <1>2, <1>14 DEF SubInv, CallPart

LEMMA SubNextKeeps == HandshakeInv /\ SubInv /\ [Next]_all => SubInv'
<1> SUFFICES ASSUME HandshakeInv, SubInv, [Next]_all PROVE SubInv'
  OBVIOUS
<1>1. CallPart /\ ReadyInv /\ NoticesSent
  BY DEF SubInv, CallPart
<1>2. CASE CallsNext
  BY <1>2, CallsStep
<1>3. CASE UNCHANGED callVars /\ (HandshakeNext \/ UNCHANGED handshakeVars)
  <2>1. /\ call' = call /\ listens' = listens /\ subs' = subs /\ pendingAck' = pendingAck /\ acks' = acks
        /\ overlap' = overlap /\ owed' = owed /\ announcing' = announcing
    BY <1>3 DEF callVars, subVars, serverData
  <2>2. CallPart'
    BY <1>1, <2>1, SameKeeps
  <2>3. ReadyInv' /\ ready \subseteq ready'
    <3>1. CASE HandshakeNext
      BY <1>1, <3>1, HandshakeReady
    <3>2. CASE UNCHANGED handshakeVars
      BY <1>1, <3>2, ReadySame DEF handshakeVars, serverVars, clientVars, Acquainted
    <3> QED
      BY <1>3, <3>1, <3>2
  <2>4. setup' = setup
    BY <1>3 DEF HandshakeNext, Discover, Initialize, Initialized, OtherDiscovers, Expires, Begin, ProbeDiscover,
                HandshakeInitialize, AwaitProbe, InitializeTimesOut, Created, handshakeVars
  <2>5. NoticesSent'
    BY <1>1, <2>1, <2>3, <2>4, NoticesSame
  <2> QED
    BY <2>2, <2>3, <2>5 DEF SubInv, CallPart
<1> QED
  BY <1>2, <1>3 DEF Next, all, vars, theirs

(* Whoever has subscribed has an entry at the server, and every later change whose notice has     *)
(* gone out has been sent to it, but for the notices of registries a pinned client does not get,  *)
(* for any number of threads, whatever times out, expires or is recovered meanwhile.              *)
THEOREM SubscribersHear == Spec => []SubscribedHears
<1>1. Init => HandshakeInv /\ SubInv
  BY HandshakeInitially, SubInitially
<1>2. HandshakeInv /\ SubInv /\ [Next]_all => (HandshakeInv /\ SubInv)'
  BY HandshakeNextKeeps, SubNextKeeps
<1>3. HandshakeInv /\ SubInv => SubscribedHears
  BY DEF SubInv, AckIsOurs, NoticesSent, SubscribedHears
<1> QED
  BY <1>1, <1>2, <1>3, PTL DEF Spec

--------------------------------------------------------------------------------
(* Lists and the cache: the inductive invariant *)

(* The place of x in S: how many come before it. *)
Rank(S, x) == Cardinality({y \in S : y < x})

(* A registry is a set of numbers and only grows; what the notices announce is in it, and so is   *)
(* what the client has heard of.  The server's list of tools is made anew when tools change.      *)
DataInv ==
  /\ DOMAIN data = Keys /\ DOMAIN heard = Keys /\ DOMAIN call = Callers
  /\ \A k \in Keys : data[k] \subseteq Nat /\ IsFiniteSet(data[k]) /\ data[k] # {} /\ heard[k] \subseteq data[k]
  /\ \A change \in announcing \cup notices : change.key \in Keys /\ change.seen \subseteq data[change.key]
  /\ cachedTools \in {{}, data["tools"]}
  /\ {"todo", "grows", "switches", "scope"} \subseteq DOMAIN scene

(* A call asks for the list or resource its entry of the cache is named for. *)
KeyFits(c) ==
  /\ c.key \in Keys
  /\ c.asks \in {"ListTools", "SearchTools", "Relist"} => c.key = "tools"
  /\ c.asks = "ListResources" => c.key = "resources"
  /\ c.asks = "ListResourceTemplates" => c.key = "templates"
  /\ c.asks = "ListPrompts" => c.key = "prompts"
  /\ c.asks = "ListSkills" => c.key = "skills"
  /\ c.asks = "ReadResource" => c.key = "doc"
  /\ c.asks = "GetSkill" => c.key = "skill"
  /\ c.asks = "ReadDirectory" => c.key = "directory"

Cacheable(c) == IsList(c) \/ IsRead(c)

(* What an answer brings: every item of the registry the call began with was there already, is in *)
(* the answer, or comes at or behind the next cursor, S being the registry now.                   *)
Brought(c, S) ==
  /\ c.resp.items \in Seq(Nat) /\ c.resp.next \in Nat
  /\ c.resp.kind = "value" =>
       \A x \in c.base : \/ x \in Range(c.items) \/ x \in Range(c.resp.items)
                         \/ c.resp.next # 0 /\ c.resp.next <= Rank(S, x)

(* A call under way has every item it began with, or the item comes at or behind its cursor: the  *)
(* place of an item only grows.  told: what the handled notices announced.                        *)
Collected(c, S, told) ==
  /\ c.base \subseteq S /\ (c.stale \/ told \subseteq c.base)
  /\ c.items \in Seq(Nat) /\ c.cursor \in Nat
  /\ \A x \in c.base : x \in Range(c.items) \/ c.cursor <= Rank(S, x)

(* As long as the context has not changed, the answers are those of the context of the call. *)
Owned(c) == c.switched \/ c.owner \subseteq {c.ctx}

(* Where a call is before it has asked the server, and whether it has. *)
Looking == {"captured", "looking", "missed"}
Asking(c) == c.at \notin Looking \cup {"idle", "returned"}

(* What is known of a call under way that may use the cache. *)
OnItsWay(c, S, told) ==
  /\ Collected(c, S, told) /\ Owned(c)
  /\ c.at = "sent" => c.switched \/ c.as = c.ctx
  /\ c.at = "answered" => Brought(c, S) /\ (c.switched \/ c.ctx \in c.owner)

(* A call that has returned. *)
Returned(c, scope) ==
  /\ c.how = "value" /\ IsList(c) /\ ~c.blank => c.base \subseteq Range(c.items)
  /\ c.how = "hit" /\ scope[c.key] = "private" /\ ~c.switched => c.owner = {c.ctx}

GoodCall(c, registry, told, scope) ==
  /\ DOMAIN c = DOMAIN Idle /\ KeyFits(c)
  /\ IF c.at = "returned" THEN Returned(c, scope) ELSE c.how = "none"
  /\ c.at \in Looking => c.items = <<>> /\ c.cursor = 0 /\ c.owner = {} /\ c.switched = FALSE
  /\ Asking(c) /\ Cacheable(c) => OnItsWay(c, registry[c.key], told[c.key])

GoodEntry(e, told) ==
  /\ DOMAIN e = {"key", "ctx", "items", "owner", "used", "stale", "switched", "blank"} /\ e.key \in Keys
  /\ e.stale \/ e.blank \/ told[e.key] \subseteq Range(e.items)

PublicEntry(e, told, scope) == GoodEntry(e, told) /\ scope[e.key] = "public"
PrivateEntry(e, told) == GoodEntry(e, told) /\ (e.switched \/ e.owner = {e.ctx})

CallsGood == \A t \in Callers : GoodCall(call[t], data, heard, scene.scope)
CachesGood ==
  /\ \A e \in public : PublicEntry(e, heard, scene.scope)
  /\ \A e \in private : PrivateEntry(e, heard)

ListInv == DataInv /\ CallsGood /\ CachesGood

--------------------------------------------------------------------------------
(* Lists and the cache: lemmas about the operators *)

(* The place of an item is below the size of the set and tells items apart. *)
LEMMA RankDoes ==
  ASSUME NEW S \in SUBSET Nat, IsFiniteSet(S)
  PROVE  /\ Cardinality(S) \in Nat
         /\ \A x \in S : Rank(S, x) \in Nat /\ Rank(S, x) < Cardinality(S)
         /\ \A x, z \in S : x < z => Rank(S, x) < Rank(S, z)
<1> DEFINE below(x) == {y \in S : y < x}
<1>1. \A x \in S : IsFiniteSet(below(x)) /\ below(x) # S /\ below(x) \subseteq S
  BY FS_Subset, SMT
<1>2. Cardinality(S) \in Nat /\ \A x \in S : Cardinality(below(x)) \in Nat
  BY <1>1, FS_CardinalityType
<1>3. \A x \in S : Cardinality(below(x)) <= Cardinality(S) /\ Cardinality(below(x)) # Cardinality(S)
  <2>1. ASSUME NEW x \in S PROVE Cardinality(below(x)) <= Cardinality(S) /\ Cardinality(below(x)) # Cardinality(S)
    <3> HIDE DEF below
    <3> QED
      BY <1>1, FS_Subset
  <2> QED
    BY <2>1
<1>4. ASSUME NEW x \in S, NEW z \in S, x < z
      PROVE  Cardinality(below(x)) < Cardinality(below(z))
  <2>1. x \in below(z) /\ x \notin below(x)
    BY <1>4, SMT
  <2>3. ASSUME NEW y \in below(x) PROVE y \in below(z)
    BY <1>4, SMT
  <2> HIDE DEF below
  <2>2. Cardinality(below(x)) <= Cardinality(below(z)) /\ Cardinality(below(x)) # Cardinality(below(z))
    BY <1>1, <2>1, <2>3, FS_Subset
  <2> QED
    BY <1>2, <2>2, SMT
<1> QED
  BY <1>2, <1>3, <1>4, SMT DEF Rank

(* When a set grows no item of it comes to an earlier place. *)
LEMMA RankGrows ==
  ASSUME NEW S \in SUBSET Nat, NEW T \in SUBSET Nat, IsFiniteSet(T), S \subseteq T, NEW x
  PROVE  Rank(S, x) \in Nat /\ Rank(T, x) \in Nat /\ Rank(S, x) <= Rank(T, x)
<1> DEFINE below(U) == {y \in U : y < x}
<1>1. below(S) \subseteq below(T) /\ below(T) \subseteq T
  OBVIOUS
<1> HIDE DEF below
<1>2. IsFiniteSet(below(T)) /\ IsFiniteSet(below(S))
  BY <1>1, FS_Subset
<1>3. Cardinality(below(S)) <= Cardinality(below(T))
  BY <1>1, <1>2, FS_Subset
<1>4. Cardinality(below(S)) \in Nat /\ Cardinality(below(T)) \in Nat
  BY <1>2, FS_CardinalityType
<1> QED
  BY <1>3, <1>4 DEF below, Rank

(* Ordered lists the items of a set, each at its place. *)
LEMMA OrderedDoes ==
  ASSUME NEW S \in SUBSET Nat, IsFiniteSet(S)
  PROVE  /\ Ordered(S) \in Seq(Nat) /\ Len(Ordered(S)) = Cardinality(S)
         /\ \A x \in S : Rank(S, x) + 1 \in 1 .. Cardinality(S) /\ Ordered(S)[Rank(S, x) + 1] = x
<1> DEFINE n == Cardinality(S)
           place == [x \in S |-> Rank(S, x) + 1]
<1>1. n \in Nat /\ \A x \in S : Rank(S, x) \in Nat /\ Rank(S, x) < n
  BY RankDoes
<1>2. \A x, z \in S : Rank(S, x) = Rank(S, z) => x = z
  <2>1. ASSUME NEW x \in S, NEW z \in S, x # z PROVE Rank(S, x) # Rank(S, z)
    <3>1. x < z \/ z < x
      BY <2>1, SMT
    <3> QED
      BY <1>1, <3>1, RankDoes, SMT
  <2> QED
    BY <2>1
<1>3. place \in Injection(S, 1 .. n)
  <2> HIDE DEF n
  <2>1. place \in [S -> 1 .. n]
    BY <1>1, SMT
  <2>2. \A x, z \in S : place[x] = place[z] => x = z
    BY <1>1, <1>2, SMT
  <2> QED
    BY <2>1, <2>2 DEF Injection, IsInjective
<1>4. IsFiniteSet(1 .. n) /\ Cardinality(1 .. n) = n
  <2> HIDE DEF n
  <2> QED
    BY <1>1, FS_Interval, SMT
<1>5. place \in Surjection(S, 1 .. n)
  <2> DEFINE T == 1 .. n
  <2>1. IsFiniteSet(T) /\ Cardinality(S) = Cardinality(T) /\ place \in Injection(S, T)
    BY <1>3, <1>4
  <2> HIDE DEF place, n, T
  <2>2. place \in Surjection(S, T)
    BY <2>1, FS_Injection
  <2> QED
    BY <2>2 DEF T
<1>6. \A i \in 1 .. n : \E x \in S : Rank(S, x) + 1 = i
  <2> HIDE DEF n
  <2> QED
    BY <1>5 DEF Surjection
<1> DEFINE at(i) == CHOOSE x \in S : Rank(S, x) = i - 1
<1>7. ASSUME NEW i \in 1 .. n PROVE at(i) \in S /\ Rank(S, at(i)) = i - 1
  <2>1. \E x \in S : Rank(S, x) = i - 1
    BY <1>1, <1>6, <1>7, SMT
  <2> QED
    BY <2>1
<1>8. Ordered(S) = [i \in 1 .. n |-> at(i)]
  BY DEF Ordered, Rank
<1> HIDE DEF at, n
<1>9. Ordered(S) \in [1 .. n -> Nat]
  BY <1>7, <1>8
<1>10. Ordered(S) \in Seq(Nat) /\ Len(Ordered(S)) = n
  BY <1>1, <1>9, SMT
<1>11. ASSUME NEW x \in S PROVE Rank(S, x) + 1 \in 1 .. n /\ Ordered(S)[Rank(S, x) + 1] = x
  <2>1. Rank(S, x) + 1 \in 1 .. n
    BY <1>1, SMT
  <2>2. at(Rank(S, x) + 1) \in S /\ Rank(S, at(Rank(S, x) + 1)) = Rank(S, x)
    BY <1>1, <1>7, <2>1, SMT
  <2> QED
    BY <1>2, <1>8, <2>1, <2>2
<1> QED
  BY <1>10, <1>11 DEF n

(* A page of a registry has what comes at the cursor and behind it, up to the next cursor. *)
Completes(r, S, cursor) ==
  /\ r.items \in Seq(Nat) /\ r.next \in Nat
  /\ r.kind = "value" =>
       \A x \in S : cursor <= Rank(S, x) => x \in Range(r.items) \/ (r.next # 0 /\ r.next <= Rank(S, x))

LEMMA PageDoes ==
  ASSUME NEW S \in SUBSET Nat, IsFiniteSet(S), NEW cursor \in Nat
  PROVE  Completes(Page(Ordered(S), cursor), S, cursor)
<1> DEFINE items == Ordered(S)
           end == Min({cursor + PageSize, Len(items)})
           part == SubSeq(items, cursor + 1, end)
           next == IF end < Len(items) THEN end ELSE 0
<1>1. /\ items \in Seq(Nat) /\ Len(items) = Cardinality(S) /\ Cardinality(S) \in Nat
      /\ \A x \in S : Rank(S, x) \in Nat /\ Rank(S, x) + 1 \in 1 .. Len(items) /\ items[Rank(S, x) + 1] = x
  BY OrderedDoes, RankDoes
<1>2. PageSize \in Nat \ {0}
  BY ClientCallsAssumption
<1>3. end \in Nat /\ end <= Len(items) /\ (end = cursor + PageSize \/ end = Len(items))
  <2> HIDE DEF items
  <2>1. Len(items) \in Nat /\ cursor + PageSize \in Nat
    BY <1>1, <1>2
  <2>2. \E x \in {cursor + PageSize, Len(items)} : \A y \in {cursor + PageSize, Len(items)} : x <= y
    BY <2>1, SMT
  <2>3. end \in {cursor + PageSize, Len(items)} /\ \A y \in {cursor + PageSize, Len(items)} : end <= y
    BY <2>2 DEF Min
  <2> QED
    BY <2>1, <2>3
<1>4. Page(items, cursor) = Value(part, next)
  BY DEF Page
<1> HIDE DEF items, end
<1>5. /\ part \in Seq(Nat) /\ Len(part) = IF cursor + 1 <= end THEN end - cursor ELSE 0
      /\ \A i \in 1 .. end - cursor : part[i] = items[cursor + i]
  <2>1. \A i \in cursor + 1 .. end : items[i] \in Nat
    BY <1>1, <1>3, SMT
  <2>2. /\ part \in Seq(Nat) /\ Len(part) = IF cursor + 1 <= end THEN end - (cursor + 1) + 1 ELSE 0
        /\ \A i \in 1 .. end - (cursor + 1) + 1 : part[i] = items[cursor + 1 + i - 1]
    BY <1>3, <2>1, SubSeqProperties
  <2> QED
    BY <1>3, <2>2, SMT
<1>6. ASSUME NEW x \in S, cursor <= Rank(S, x)
      PROVE  x \in Range(part) \/ (next # 0 /\ next <= Rank(S, x))
  <2>1. CASE Rank(S, x) < end
    <3> DEFINE k == Rank(S, x)
               i == k + 1 - cursor
    <3>0. k \in Nat /\ cursor <= k /\ k < end /\ items[k + 1] = x
      BY <1>1, <1>6, <2>1
    <3> HIDE DEF k, part
    <3>a. i \in 1 .. end - cursor /\ cursor + i = k + 1 /\ cursor + 1 <= end
      BY <1>3, <3>0
    <3>b. Len(part) = end - cursor /\ part[i] = items[cursor + i]
      BY <1>5, <3>a
    <3>1. i \in 1 .. Len(part) /\ part[i] = x
      BY <3>0, <3>a, <3>b
    <3> HIDE DEF i
    <3>2. DOMAIN part = 1 .. Len(part)
      BY <1>5
    <3> QED
      BY <3>1, <3>2 DEF Range
  <2>2. CASE end <= Rank(S, x)
    <3>1. end < Len(items) /\ end = cursor + PageSize
      BY <1>1, <1>3, <2>2, SMT
    <3> QED
      BY <1>2, <1>3, <2>2, <3>1, SMT
  <2> QED
    BY <1>1, <1>3, <2>1, <2>2, SMT
<1>7. next \in Nat
  BY <1>3
<1> HIDE DEF part, next
<1>8. Value(part, next).kind = "value" /\ Value(part, next).items = part /\ Value(part, next).next = next
  BY DEF Value
<1> QED
  BY <1>4, <1>5, <1>6, <1>7, <1>8 DEF Completes, items

LEMMA WholeDoes ==
  ASSUME NEW S \in SUBSET Nat, IsFiniteSet(S), NEW cursor
  PROVE  Completes(Value(Ordered(S), 0), S, cursor)
<1> DEFINE items == Ordered(S)
<1>1. /\ items \in Seq(Nat) /\ Len(items) = Cardinality(S)
      /\ \A x \in S : Rank(S, x) + 1 \in 1 .. Cardinality(S) /\ items[Rank(S, x) + 1] = x
  BY OrderedDoes
<1>2. Value(items, 0).kind = "value" /\ Value(items, 0).items = items /\ Value(items, 0).next = 0
  BY DEF Value
<1> HIDE DEF items
<1>3. \A x \in S : x \in Range(items)
  BY <1>1 DEF Range
<1> QED
  BY <1>1, <1>2, <1>3 DEF Completes, items

LEMMA OnlyDoes ==
  ASSUME NEW kind
  PROVE  /\ Only(kind).kind = kind /\ Only(kind).items = <<>> /\ Only(kind).next = 0
         /\ DOMAIN Only(kind) = DOMAIN NoResponse
  BY DEF Only, NoResponse

LEMMA InsteadDoes ==
  ASSUME NEW kinds, "value" \notin kinds, NEW r \in Instead(kinds), NEW S, NEW cursor
  PROVE  Completes(r, S, cursor)
<1>1. PICK kind \in kinds : r = Only(kind)
  BY DEF Instead
<1>2. r.kind = kind /\ r.items = <<>> /\ r.next = 0
  BY <1>1, OnlyDoes
<1> QED
  BY <1>1, <1>2, SMT DEF Completes

(* What the server answers to a list or read call. *)
LEMMA HandledDoes ==
  ASSUME DataInv, NEW c, KeyFits(c), Cacheable(c), c.cursor \in Nat, NEW r \in Handled(c)
  PROVE  Completes(r, data[c.key], c.cursor)
<1>1. \A k \in Keys : data[k] \in SUBSET Nat /\ IsFiniteSet(data[k])
  BY DEF DataInv
<1>2. \A k \in Keys : /\ Completes(Page(Ordered(data[k]), c.cursor), data[k], c.cursor)
                      /\ Completes(Value(Ordered(data[k]), 0), data[k], c.cursor)
  BY <1>1, PageDoes, WholeDoes
<1>3. CachedTools = data["tools"]
  BY DEF CachedTools, DataInv
<1>4. c.key \in Keys
  BY DEF KeyFits
<1>5. CASE c.asks \in {"ListTools", "SearchTools", "Relist"}
  <2>1. c.key = "tools" /\ Handled(c) = HandleListTools(c)
    BY <1>5 DEF KeyFits, Handled
  <2> QED
    BY <1>2, <1>3, <1>4, <2>1 DEF HandleListTools
<1>6. CASE c.asks = "ListResources"
  <2>1. c.key = "resources" /\ Handled(c) = HandleListResources(c)
    BY <1>6 DEF KeyFits, Handled
  <2> QED
    BY <1>2, <1>4, <2>1 DEF HandleListResources
<1>7. CASE c.asks = "ListResourceTemplates"
  <2>1. c.key = "templates" /\ Handled(c) = HandleListResourceTemplates(c)
    BY <1>7 DEF KeyFits, Handled
  <2> QED
    BY <1>2, <1>4, <2>1 DEF HandleListResourceTemplates
<1>8. CASE c.asks = "ListPrompts"
  <2>1. c.key = "prompts" /\ Handled(c) = HandleListPrompts(c)
    BY <1>8 DEF KeyFits, Handled
  <2> QED
    BY <1>2, <1>4, <2>1 DEF HandleListPrompts
<1>9. CASE c.asks = "ListSkills"
  <2>1. c.key = "skills" /\ Handled(c) = HandleListSkills(c)
    BY <1>9 DEF KeyFits, Handled
  <2> QED
    BY <1>2, <1>4, <2>1 DEF HandleListSkills
<1>10. CASE IsRead(c)
  <2>1. \A kinds : "value" \notin kinds => \A a \in Instead(kinds) : Completes(a, data[c.key], c.cursor)
    BY InsteadDoes
  <2>2. r = Value(Ordered(data[c.key]), 0) \/ r \in Instead({"input", "error"}) \/ r \in Instead({"error"})
    <3>1. CASE c.asks = "ReadResource"
      BY <3>1 DEF KeyFits, Handled, HandleReadResource
    <3>2. CASE c.asks = "GetSkill"
      BY <3>2 DEF KeyFits, Handled, HandleGetSkill
    <3>3. CASE c.asks = "ReadDirectory"
      BY <3>3 DEF KeyFits, Handled, HandleReadDirectory
    <3> QED
      BY <1>10, <3>1, <3>2, <3>3 DEF IsRead
  <2> QED
    BY <1>2, <1>4, <2>1, <2>2
<1> QED
  BY <1>5, <1>6, <1>7, <1>8, <1>9, <1>10 DEF Cacheable, IsList

LEMMA AnswersDo ==
  ASSUME DataInv, NEW c, KeyFits(c), Cacheable(c), c.cursor \in Nat, NEW r \in Answers(c)
  PROVE  Completes(r, data[c.key], c.cursor)
<1>1. r \in Handled(c) \/ r \in NotModified(c) \/ r \in {Only("expired"), Only("refused")}
  BY DEF Answers
<1>2. CASE r \in NotModified(c)
  <2>1. r = [Only("notModified") EXCEPT !.tag = c.etag]
    BY <1>2 DEF NotModified
  <2>2. {"kind", "items", "next", "tag"} \subseteq DOMAIN Only("notModified")
    BY OnlyDoes DEF NoResponse
  <2>3. r.kind = "notModified" /\ r.items = <<>> /\ r.next = 0
    BY <2>1, <2>2, OnlyDoes
  <2> QED
    BY <2>3, SMT DEF Completes
<1>3. CASE r \in {Only("expired"), Only("refused")}
  <2>1. r.kind # "value" /\ r.items = <<>> /\ r.next = 0
    BY <1>3, OnlyDoes
  <2> QED
    BY <2>1, SMT DEF Completes
<1> QED
  BY <1>1, <1>2, <1>3, HandledDoes

--------------------------------------------------------------------------------
(* Lists and the cache: the calls *)

LEMMA IdleRecord ==
  /\ DOMAIN Idle = {"at", "asks", "key", "mode", "ctx", "as", "owner", "etag", "session", "cursor", "pages", "items",
                    "first", "base", "seen", "round", "retried", "again", "resp", "stale", "switched", "blank", "how"}
  /\ Idle.key = "tools" /\ Idle.asks = "none" /\ Idle.how = "none" /\ Idle.cursor = 0 /\ Idle.items = <<>>
  /\ Idle.owner = {} /\ Idle.stale = FALSE /\ Idle.switched = FALSE /\ Idle.base = {} /\ Idle.at = "idle"
  BY DEF Idle

(* d is c, as far as the invariant tells. *)
Alike(d, c) ==
  /\ DOMAIN d = DOMAIN Idle
  /\ d.asks = c.asks /\ d.key = c.key /\ d.how = c.how /\ d.base = c.base /\ d.stale = c.stale
  /\ d.items = c.items /\ d.cursor = c.cursor /\ d.owner = c.owner /\ d.ctx = c.ctx /\ d.switched = c.switched

(* A call whose request can be sent. *)
Sendable(c, registry, told) ==
  /\ DOMAIN c = DOMAIN Idle /\ KeyFits(c) /\ c.how = "none"
  /\ Cacheable(c) => Collected(c, registry[c.key], told[c.key]) /\ Owned(c)

LEMMA AlikeDoes ==
  ASSUME NEW c, NEW d, Alike(d, c), NEW registry, NEW told, Sendable(c, registry, told)
  PROVE  Sendable(d, registry, told)
  BY DEF Alike, Sendable, KeyFits, Cacheable, IsList, IsRead, Collected, Owned

LEMMA ActiveSendable ==
  ASSUME NEW c, NEW registry, NEW told, NEW scope, GoodCall(c, registry, told, scope), Asking(c)
  PROVE  Sendable(c, registry, told)
  BY DEF GoodCall, Sendable, OnItsWay, Asking

LEMMA SendGood ==
  ASSUME NEW c, NEW registry, NEW told, NEW scope, Sendable(c, registry, told)
  PROVE  GoodCall(Send(c), registry, told, scope)
<1> DEFINE d == Send(c)
<1>1. /\ DOMAIN d = DOMAIN Idle
      /\ d.asks = c.asks /\ d.key = c.key /\ d.how = "none" /\ d.base = c.base /\ d.stale = c.stale
      /\ d.items = c.items /\ d.cursor = c.cursor /\ d.owner = c.owner /\ d.ctx = c.ctx
      /\ d.at = "sent" /\ d.as = auth /\ d.switched = (c.switched \/ auth # c.ctx)
  BY IdleRecord DEF Send, Sendable
<1> HIDE DEF d
<1>2. KeyFits(d) /\ (Cacheable(d) => Cacheable(c))
  BY <1>1 DEF Sendable, KeyFits, Cacheable, IsList, IsRead
<1>3. ASSUME Cacheable(d) PROVE OnItsWay(d, registry[d.key], told[d.key])
  BY <1>1, <1>2, <1>3 DEF Sendable, OnItsWay, Collected, Owned
<1> QED
  BY <1>1, <1>2, <1>3 DEF GoodCall, Looking, d

LEMMA FinishGood ==
  ASSUME NEW c, DOMAIN c = DOMAIN Idle, KeyFits(c), NEW items, NEW how, NEW registry, NEW told, NEW scope,
         how = "value" /\ IsList(c) /\ ~c.blank => c.base \subseteq Range(items),
         how = "hit" /\ scope[c.key] = "private" /\ ~c.switched => c.owner = {c.ctx}
  PROVE  GoodCall(Finish(c, items, how), registry, told, scope)
<1> DEFINE d == Finish(c, items, how)
<1>1. /\ DOMAIN d = DOMAIN Idle /\ d.at = "returned" /\ d.items = items /\ d.how = how
      /\ d.asks = c.asks /\ d.key = c.key /\ d.base = c.base /\ d.owner = c.owner /\ d.ctx = c.ctx
      /\ d.switched = c.switched /\ d.blank = c.blank
  BY IdleRecord DEF Finish
<1> HIDE DEF d
<1>2. KeyFits(d) /\ (IsList(d) => IsList(c))
  BY <1>1 DEF KeyFits, IsList
<1> QED
  BY <1>1, <1>2 DEF GoodCall, Returned, Looking, Asking, d

LEMMA EndedGood ==
  ASSUME NEW c, DOMAIN c = DOMAIN Idle, KeyFits(c), c.how = "none", NEW items, NEW how, NEW registry, NEW told, NEW scope,
         how = "value" /\ IsList(c) /\ ~c.blank => c.base \subseteq Range(items),
         how = "hit" /\ scope[c.key] = "private" /\ ~c.switched => c.owner = {c.ctx}
  PROVE  GoodCall(Ended(c, items, how), registry, told, scope)
<1> DEFINE d == [c EXCEPT !.asks = "CallTool", !.items = <<>>, !.pages = 0, !.cursor = 0, !.etag = <<>>]
<1>1. DOMAIN d = DOMAIN Idle /\ d.asks = "CallTool" /\ d.key = c.key /\ d.how = "none"
  BY IdleRecord
<1>2. Ended(c, items, how) \in {Send(d), Finish(c, items, how)}
  BY DEF Ended
<1> HIDE DEF d
<1>3. Sendable(d, registry, told)
  BY <1>1 DEF Sendable, KeyFits, Cacheable, IsList, IsRead
<1>4. GoodCall(Send(d), registry, told, scope)
  BY <1>3, SendGood
<1>5. GoodCall(Finish(c, items, how), registry, told, scope)
  BY FinishGood
<1> QED
  BY <1>2, <1>4, <1>5

(* A step of the call of t: its record stays good, the registries and the notices are left alone. *)
GoodStep(t) ==
  /\ \E d : Set(t, d) /\ GoodCall(d, data, heard, scene.scope)
  /\ data' = data /\ heard' = heard /\ notices' = notices /\ announcing' = announcing
  /\ cachedTools' \in {cachedTools, CachedTools}
  /\ DOMAIN scene' = DOMAIN scene /\ scene.scope' = scene.scope

(* A step that does not touch what the invariant says of calls and registries. *)
LeftAlone ==
  /\ call' = call /\ data' = data /\ heard' = heard /\ notices' = notices /\ announcing' = announcing
  /\ cachedTools' = cachedTools /\ scene' = scene

LEMMA StartsScene ==
  ASSUME DataInv, NEW t, NEW kind, Starts(t, kind)
  PROVE  DOMAIN scene' = DOMAIN scene /\ scene.scope' = scene.scope
  BY DEF Starts, DataInv

LEMMA CallIsGood ==
  ASSUME CallsGood, NEW t \in Callers, Asking(call[t])
  PROVE  /\ GoodCall(call[t], data, heard, scene.scope) /\ DOMAIN call[t] = DOMAIN Idle /\ KeyFits(call[t])
         /\ call[t].how = "none" /\ Sendable(call[t], data, heard)
<1>1. GoodCall(call[t], data, heard, scene.scope)
  BY DEF CallsGood
<1> QED
  BY <1>1, ActiveSendable DEF GoodCall, Asking

(* A call that begins has the whole registry before it. *)
LEMMA FreshSendable ==
  ASSUME DataInv, NEW d, DOMAIN d = DOMAIN Idle, KeyFits(d), d.how = "none", d.base = data[d.key],
         d.items = <<>>, d.cursor = 0, d.owner = {}
  PROVE  Sendable(d, data, heard)
<1>1. d.key \in Keys /\ data[d.key] \in SUBSET Nat /\ IsFiniteSet(data[d.key]) /\ heard[d.key] \subseteq data[d.key]
  BY DEF KeyFits, DataInv
<1>2. \A x \in data[d.key] : Rank(data[d.key], x) \in Nat
  BY <1>1, RankDoes
<1>3. d.items \in Seq(Nat) /\ d.cursor \in Nat
  OBVIOUS
<1>4. \A x \in d.base : d.cursor <= Rank(data[d.key], x)
  BY <1>2
<1> QED
  BY <1>1, <1>3, <1>4 DEF Sendable, Collected, Owned

LEMMA CapturedGood ==
  ASSUME ListInv, NEW t \in Callers, NEW asks, NEW key, NEW mode, NEW again, Captured(t, asks, key, mode, again),
         KeyFits([Idle EXCEPT !.asks = asks, !.key = key]), DOMAIN scene' = DOMAIN scene, scene.scope' = scene.scope
  PROVE  GoodStep(t)
<1> DEFINE c == [Idle EXCEPT !.at = "captured", !.asks = asks, !.key = key, !.mode = mode, !.ctx = auth, !.again = again]
<1>1. Set(t, c)
  BY DEF Captured
<1>2. /\ data' = data /\ heard' = heard /\ notices' = notices /\ announcing' = announcing /\ cachedTools' = cachedTools
  BY DEF Captured, serverData
<1>3. /\ DOMAIN c = DOMAIN Idle /\ c.at = "captured" /\ c.asks = asks /\ c.key = key /\ c.how = "none"
      /\ c.items = <<>> /\ c.cursor = 0 /\ c.owner = {} /\ c.switched = FALSE
  BY IdleRecord
<1>4. KeyFits(c)
  <2>1. [Idle EXCEPT !.asks = asks, !.key = key].asks = asks /\ [Idle EXCEPT !.asks = asks, !.key = key].key = key
    BY IdleRecord
  <2> HIDE DEF c
  <2> QED
    BY <1>3, <2>1 DEF KeyFits
<1> HIDE DEF c
<1>5. GoodCall(c, data, heard, scene.scope)
  BY <1>3, <1>4 DEF GoodCall, Asking, Looking
<1> QED
  BY <1>1, <1>2, <1>5 DEF GoodStep

(* Looking changes nothing but the place; a hit has the owner of the entry that was found, and the    *)
(* first request has the whole registry before it.                                                *)
LEMMA LookupGood ==
  ASSUME ListInv, NEW t \in Callers, CurrentCacheAuthContext(t) \/ GetAny(t) \/ FirstRequest(t)
  PROVE  GoodStep(t)
<1> DEFINE c == call[t]
           pub == FoundPublic(public, c.key)
           priv == FoundPrivate(private, c.key, c.ctx)
           at(p) == [c EXCEPT !.at = p]
           with(e) == [c EXCEPT !.owner = e.owner, !.switched = e.switched]
           tag(x) == [c EXCEPT !.etag = x, !.base = data[c.key], !.stale = FALSE]
<1>1. \/ \E p \in {"looking", "missed"} : Set(t, at(p))
      \/ \E e \in pub \cup priv : Set(t, Ended(with(e), e.items, "hit"))
      \/ \E x : Set(t, Send(tag(x)))
  BY DEF CurrentCacheAuthContext, GetAny, FirstRequest
<1>2. /\ data' = data /\ heard' = heard /\ notices' = notices /\ announcing' = announcing /\ cachedTools' = cachedTools
      /\ scene' = scene
  BY DEF CurrentCacheAuthContext, GetAny, FirstRequest, serverData
<1>3. /\ GoodCall(c, data, heard, scene.scope) /\ c.at \in Looking
  BY DEF CurrentCacheAuthContext, GetAny, FirstRequest, Looking, ListInv, CallsGood
<1>4. /\ DOMAIN c = DOMAIN Idle /\ KeyFits(c) /\ c.how = "none"
      /\ c.items = <<>> /\ c.cursor = 0 /\ c.owner = {} /\ c.switched = FALSE
  BY <1>3 DEF GoodCall, Looking
<1>5. \A e \in pub : e.key = c.key /\ scene.scope[e.key] = "public"
  BY DEF FoundPublic, ListInv, CachesGood, PublicEntry
<1>6. \A e \in priv : e.ctx = c.ctx /\ (e.switched \/ e.owner = {c.ctx})
  BY DEF FoundPrivate, ListInv, CachesGood, PrivateEntry
<1> HIDE DEF c, pub, priv
<1>7. \A e : /\ DOMAIN with(e) = DOMAIN Idle /\ with(e).asks = c.asks /\ with(e).key = c.key /\ with(e).how = "none"
             /\ with(e).ctx = c.ctx /\ with(e).owner = e.owner /\ with(e).switched = e.switched
  BY <1>4, IdleRecord
<1>8. \A p : /\ DOMAIN at(p) = DOMAIN Idle /\ at(p).at = p /\ at(p).asks = c.asks /\ at(p).key = c.key /\ at(p).how = "none"
             /\ at(p).items = <<>> /\ at(p).cursor = 0 /\ at(p).owner = {} /\ at(p).switched = FALSE
  BY <1>4, IdleRecord
<1>9. \A x : /\ DOMAIN tag(x) = DOMAIN Idle /\ tag(x).asks = c.asks /\ tag(x).key = c.key /\ tag(x).how = "none"
             /\ tag(x).base = data[tag(x).key] /\ tag(x).items = <<>> /\ tag(x).cursor = 0 /\ tag(x).owner = {}
  BY <1>4, IdleRecord
<1> HIDE DEF at, with, tag
<1>10. \A e : KeyFits(with(e)) /\ KeyFits(at(e)) /\ KeyFits(tag(e))
  BY <1>4, <1>7, <1>8, <1>9 DEF KeyFits
<1>11. ASSUME NEW p \in {"looking", "missed"} PROVE GoodCall(at(p), data, heard, scene.scope)
  BY <1>8, <1>10 DEF GoodCall, Looking, Asking
<1>12. ASSUME NEW e \in pub \cup priv PROVE GoodCall(Ended(with(e), e.items, "hit"), data, heard, scene.scope)
  <2>1. scene.scope[with(e).key] = "private" /\ ~with(e).switched => with(e).owner = {with(e).ctx}
    BY <1>5, <1>6, <1>7
  <2> QED
    BY <1>7, <1>10, <2>1, EndedGood
<1>13. ASSUME NEW x PROVE GoodCall(Send(tag(x)), data, heard, scene.scope)
  BY <1>9, <1>10, FreshSendable, SendGood DEF ListInv
<1> QED
  BY <1>1, <1>2, <1>11, <1>12, <1>13 DEF GoodStep

LEMMA UncachedGood ==
  ASSUME ListInv, NEW t \in Callers, NEW asks, NEW key, Uncached(t, asks, key),
         KeyFits([Idle EXCEPT !.asks = asks, !.key = key]), DOMAIN scene' = DOMAIN scene, scene.scope' = scene.scope
  PROVE  GoodStep(t)
<1> DEFINE c == [Idle EXCEPT !.asks = asks, !.key = key, !.ctx = auth, !.base = data[key]]
<1>1. Set(t, Send(c))
  BY DEF Uncached
<1>2. /\ data' = data /\ heard' = heard /\ notices' = notices /\ announcing' = announcing /\ cachedTools' = cachedTools
  BY DEF Uncached, serverData
<1>3. /\ DOMAIN c = DOMAIN Idle /\ c.asks = asks /\ c.key = key /\ c.how = "none" /\ c.base = data[c.key]
      /\ c.items = <<>> /\ c.cursor = 0 /\ c.owner = {}
  BY IdleRecord
<1>4. KeyFits(c)
  <2>1. [Idle EXCEPT !.asks = asks, !.key = key].asks = asks /\ [Idle EXCEPT !.asks = asks, !.key = key].key = key
    BY IdleRecord
  <2> HIDE DEF c
  <2> QED
    BY <1>3, <2>1 DEF KeyFits
<1> HIDE DEF c
<1> QED
  BY <1>1, <1>2, <1>3, <1>4, FreshSendable, SendGood DEF GoodStep, ListInv

LEMMA StartsGood ==
  ASSUME ListInv, NEW t \in Callers,
         \/ ListTools(t) \/ ListResources(t) \/ ListResourceTemplates(t) \/ ListPrompts(t) \/ ListSkills(t)
         \/ ReadResource(t) \/ GetSkill(t) \/ ReadDirectory(t)
         \/ SearchTools(t) \/ GetPrompt(t) \/ CallTool(t) \/ CallToolAsTask(t) \/ DoSendRequest(t)
  PROVE  GoodStep(t)
<1> DEFINE fitting(asks, key) == KeyFits([Idle EXCEPT !.asks = asks, !.key = key])
<1>1. DOMAIN scene' = DOMAIN scene /\ scene.scope' = scene.scope
  BY StartsScene
  DEF ListInv, ListTools, ListResources, ListResourceTemplates, ListPrompts, ListSkills, ReadResource, GetSkill,
      ReadDirectory, SearchTools, GetPrompt, CallTool, CallToolAsTask, DoSendRequest
<1>2. /\ fitting("ListTools", "tools") /\ fitting("ListResources", "resources")
      /\ fitting("ListResourceTemplates", "templates") /\ fitting("ListPrompts", "prompts")
      /\ fitting("ListSkills", "skills") /\ fitting("ReadResource", "doc") /\ fitting("GetSkill", "skill")
      /\ fitting("ReadDirectory", "directory") /\ fitting("SearchTools", "tools") /\ fitting("GetPrompt", "prompts")
      /\ fitting("CallTool", "tools") /\ fitting("CallToolAsTask", "tools") /\ fitting("Plain", "tools")
  <2>1. ASSUME NEW asks, NEW key
        PROVE  [Idle EXCEPT !.asks = asks, !.key = key].asks = asks /\ [Idle EXCEPT !.asks = asks, !.key = key].key = key
    BY IdleRecord
  <2> QED
    BY <2>1 DEF KeyFits, Keys, Lists, Reads
<1> HIDE DEF fitting
<1>3. ASSUME NEW asks, NEW key, NEW mode, fitting(asks, key), CachedCall(t, asks, key, mode) PROVE GoodStep(t)
  BY <1>1, <1>3, CapturedGood DEF CachedCall, fitting
<1>4. ASSUME NEW asks, NEW key, fitting(asks, key), Uncached(t, asks, key) PROVE GoodStep(t)
  BY <1>1, <1>4, UncachedGood DEF fitting
<1>5. CASE ListTools(t) \/ ListResources(t) \/ ListResourceTemplates(t) \/ ListPrompts(t) \/ ListSkills(t)
           \/ ReadResource(t) \/ GetSkill(t) \/ ReadDirectory(t)
  BY <1>2, <1>3, <1>5
  DEF ListTools, ListResources, ListResourceTemplates, ListPrompts, ListSkills, ReadResource, GetSkill, ReadDirectory
<1>6. CASE SearchTools(t) \/ GetPrompt(t) \/ CallTool(t) \/ CallToolAsTask(t) \/ DoSendRequest(t)
  BY <1>2, <1>4, <1>6 DEF SearchTools, GetPrompt, CallTool, CallToolAsTask, DoSendRequest
<1> QED
  BY <1>5, <1>6

LEMMA ServeGood ==
  ASSUME ListInv, NEW t \in Callers, Serve(t)
  PROVE  GoodStep(t)
<1> DEFINE c == call[t]
           answered(r) == [c EXCEPT !.at = "answered", !.resp = r, !.owner = c.owner \cup {c.as}]
<1>1. c.at = "sent" /\ \E r \in Answers(c) : Set(t, answered(r))
  BY DEF Serve
<1>2. /\ data' = data /\ heard' = heard /\ notices' = notices /\ announcing' = announcing /\ scene' = scene
      /\ cachedTools' \in {cachedTools, CachedTools}
  BY DEF Serve
<1>3. /\ GoodCall(c, data, heard, scene.scope) /\ DOMAIN c = DOMAIN Idle /\ KeyFits(c) /\ c.how = "none"
      /\ Cacheable(c) => OnItsWay(c, data[c.key], heard[c.key])
  BY <1>1, CallIsGood DEF ListInv, GoodCall, Asking, Looking
<1> HIDE DEF c
<1>4. ASSUME NEW r \in Answers(c) PROVE GoodCall(answered(r), data, heard, scene.scope)
  <2> DEFINE d == answered(r)
  <2>1. /\ DOMAIN d = DOMAIN Idle /\ d.at = "answered" /\ d.resp = r /\ d.owner = c.owner \cup {c.as}
        /\ d.asks = c.asks /\ d.key = c.key /\ d.how = c.how /\ d.base = c.base /\ d.stale = c.stale
        /\ d.items = c.items /\ d.cursor = c.cursor /\ d.ctx = c.ctx /\ d.switched = c.switched
    BY <1>3, IdleRecord
  <2> HIDE DEF d
  <2>2. KeyFits(d) /\ (Cacheable(d) => Cacheable(c))
    BY <1>3, <2>1 DEF KeyFits, Cacheable, IsList, IsRead
  <2>3. ASSUME Cacheable(c) PROVE OnItsWay(d, data[d.key], heard[d.key])
    <3>1. Collected(c, data[c.key], heard[c.key]) /\ Owned(c) /\ (c.switched \/ c.as = c.ctx)
      BY <1>1, <1>3, <2>3 DEF OnItsWay, c
    <3>2. Completes(r, data[c.key], c.cursor)
      BY <1>3, <1>4, <2>3, <3>1, AnswersDo DEF ListInv, Collected
    <3>3. Collected(d, data[d.key], heard[d.key])
      BY <2>1, <3>1 DEF Collected
    <3>4. Owned(d) /\ (d.switched \/ d.ctx \in d.owner)
      BY <2>1, <3>1 DEF Owned
    <3>5. Brought(d, data[d.key])
      BY <2>1, <3>1, <3>2 DEF Brought, Completes, Collected
    <3> QED
      BY <2>1, <3>3, <3>4, <3>5 DEF OnItsWay
  <2> QED
    BY <1>3, <2>1, <2>2, <2>3 DEF GoodCall, d, Asking, Looking
<1> QED
  BY <1>1, <1>2, <1>4 DEF GoodStep

(* What handling an answer leaves alone. *)
LEMMA OthersGood ==
  ASSUME NEW t, UNCHANGED Others, NEW d, Set(t, d), GoodCall(d, data, heard, scene.scope)
  PROVE  GoodStep(t)
  BY DEF GoodStep, Others, serverData

(* The items of two pages. *)
LEMMA RangeOfBoth ==
  ASSUME NEW s \in Seq(Nat), NEW r \in Seq(Nat)
  PROVE  s \o r \in Seq(Nat) /\ Range(s) \subseteq Range(s \o r) /\ Range(r) \subseteq Range(s \o r)
<1>1. /\ s \o r \in Seq(Nat) /\ Len(s \o r) = Len(s) + Len(r) /\ Len(s) \in Nat /\ Len(r) \in Nat
      /\ \A i \in 1 .. Len(s) + Len(r) : (s \o r)[i] = IF i <= Len(s) THEN s[i] ELSE r[i - Len(s)]
  BY ConcatProperties
<1>2. DOMAIN s = 1 .. Len(s) /\ DOMAIN r = 1 .. Len(r) /\ DOMAIN (s \o r) = 1 .. Len(s) + Len(r)
  BY <1>1
<1> DEFINE both == s \o r
<1>3. ASSUME NEW i \in DOMAIN s PROVE i \in DOMAIN both /\ both[i] = s[i]
  BY <1>1, <1>2, SMT
<1>4. ASSUME NEW i \in DOMAIN r PROVE i + Len(s) \in DOMAIN both /\ both[i + Len(s)] = r[i]
  BY <1>1, <1>2, SMT
<1> HIDE DEF both
<1>5. Range(s) \subseteq Range(both) /\ Range(r) \subseteq Range(both)
  BY <1>3, <1>4 DEF Range
<1> QED
  BY <1>1, <1>5 DEF both

LEMMA NextPageGood ==
  ASSUME ListInv, NEW t \in Callers, NextPage(t)
  PROVE  GoodStep(t)
<1> DEFINE c == call[t]
           more == [c EXCEPT !.items = c.items \o c.resp.items, !.pages = c.pages + 1, !.cursor = c.resp.next,
                             !.first = IF c.pages = 0 THEN c.resp.tag ELSE c.first]
<1>1. /\ c.at = "answered" /\ c.resp.kind = "value" /\ IsList(c) /\ c.resp.next # 0 /\ UNCHANGED Others
      /\ Set(t, Send(more)) \/ Set(t, Finish(c, <<>>, "failed"))
  BY DEF NextPage, Answered
<1>2. /\ GoodCall(c, data, heard, scene.scope) /\ DOMAIN c = DOMAIN Idle /\ KeyFits(c) /\ c.how = "none"
      /\ OnItsWay(c, data[c.key], heard[c.key])
  BY <1>1, CallIsGood DEF ListInv, GoodCall, Cacheable, Asking, Looking
<1>3. /\ DOMAIN more = DOMAIN Idle /\ more.items = c.items \o c.resp.items /\ more.cursor = c.resp.next
      /\ more.asks = c.asks /\ more.key = c.key /\ more.how = c.how /\ more.base = c.base /\ more.stale = c.stale
      /\ more.owner = c.owner /\ more.ctx = c.ctx /\ more.switched = c.switched
  BY <1>2, IdleRecord
<1> HIDE DEF more, c
<1>4. Collected(c, data[c.key], heard[c.key]) /\ Owned(c) /\ Brought(c, data[c.key])
  BY <1>1, <1>2 DEF OnItsWay
<1>5. /\ c.items \o c.resp.items \in Seq(Nat)
      /\ Range(c.items) \subseteq Range(c.items \o c.resp.items)
      /\ Range(c.resp.items) \subseteq Range(c.items \o c.resp.items)
  BY <1>4, RangeOfBoth DEF Collected, Brought
<1>6. \A x \in c.base : x \in Range(c.items \o c.resp.items) \/ c.resp.next <= Rank(data[c.key], x)
  BY <1>1, <1>4, <1>5 DEF Brought
<1>7. Collected(more, data[more.key], heard[more.key]) /\ Owned(more)
  BY <1>3, <1>4, <1>5, <1>6 DEF Collected, Brought, Owned
<1>8. Sendable(more, data, heard)
  BY <1>2, <1>3, <1>7 DEF Sendable, KeyFits
<1>9. GoodCall(Send(more), data, heard, scene.scope) /\ GoodCall(Finish(c, <<>>, "failed"), data, heard, scene.scope)
  BY <1>2, <1>8, SendGood, FinishGood
<1> QED
  BY <1>1, <1>9, OthersGood

(* The record a list or read call returns with. *)
LEMMA GotDoes ==
  ASSUME ListInv, NEW t \in Callers, Answered(t, {"value", "notModified"}), Cacheable(call[t]), call[t].resp.next = 0,
         NEW got,
         got = [call[t] EXCEPT !.items = call[t].items \o call[t].resp.items, !.blank = (call[t].resp.kind = "notModified"),
                               !.first = IF call[t].pages = 0 THEN call[t].resp.tag ELSE call[t].first]
  PROVE  /\ DOMAIN got = DOMAIN Idle /\ KeyFits(got) /\ got.how = "none" /\ got.key = call[t].key /\ got.ctx = call[t].ctx
         /\ ~got.blank => got.base \subseteq Range(got.items)
         /\ got.stale \/ heard[got.key] \subseteq got.base
         /\ got.switched \/ got.owner = {got.ctx}
<1> DEFINE c == call[t]
<1>1. c.at = "answered" /\ c.resp.kind \in {"value", "notModified"} /\ c.resp.next = 0
  BY DEF Answered
<1>2. /\ DOMAIN c = DOMAIN Idle /\ KeyFits(c) /\ c.how = "none" /\ OnItsWay(c, data[c.key], heard[c.key])
  BY <1>1, CallIsGood DEF ListInv, GoodCall, Asking, Looking
<1>3. /\ DOMAIN got = DOMAIN Idle /\ got.items = c.items \o c.resp.items /\ got.blank = (c.resp.kind = "notModified")
      /\ got.asks = c.asks /\ got.key = c.key /\ got.how = c.how /\ got.base = c.base /\ got.stale = c.stale
      /\ got.owner = c.owner /\ got.ctx = c.ctx /\ got.switched = c.switched
  BY <1>2, IdleRecord
<1> HIDE DEF c
<1>4. Collected(c, data[c.key], heard[c.key]) /\ Owned(c) /\ Brought(c, data[c.key]) /\ (c.switched \/ c.ctx \in c.owner)
  BY <1>1, <1>2 DEF OnItsWay
<1>5. /\ Range(c.items) \subseteq Range(c.items \o c.resp.items)
      /\ Range(c.resp.items) \subseteq Range(c.items \o c.resp.items)
  BY <1>4, RangeOfBoth DEF Collected, Brought
<1>6. c.resp.kind = "value" => c.base \subseteq Range(c.items \o c.resp.items)
  BY <1>1, <1>4, <1>5 DEF Brought
<1>7. c.switched \/ c.owner = {c.ctx}
  BY <1>4 DEF Owned
<1>8. KeyFits(got)
  BY <1>2, <1>3 DEF KeyFits
<1>9. ~got.blank => got.base \subseteq Range(got.items)
  BY <1>1, <1>3, <1>6
<1>10. (got.stale \/ heard[got.key] \subseteq got.base) /\ (got.switched \/ got.owner = {got.ctx})
  BY <1>3, <1>4, <1>7 DEF Collected
<1> QED
  BY <1>2, <1>3, <1>8, <1>9, <1>10 DEF c

LEMMA StoreGood ==
  ASSUME ListInv, NEW t \in Callers, Store(t)
  PROVE  GoodStep(t)
<1> DEFINE c == call[t]
           got == [c EXCEPT !.items = c.items \o c.resp.items, !.blank = (c.resp.kind = "notModified"),
                            !.first = IF c.pages = 0 THEN c.resp.tag ELSE c.first]
<1>1. /\ Answered(t, {"value", "notModified"}) /\ Cacheable(c) /\ c.resp.next = 0 /\ UNCHANGED Others
      /\ (\E e : Set(t, Ended(c, e.items, "notModified"))) \/ Set(t, Ended(got, got.items, "value"))
  BY DEF Store, Cacheable
<1>2. DOMAIN c = DOMAIN Idle /\ KeyFits(c) /\ c.how = "none"
  BY <1>1, CallIsGood DEF ListInv, Answered, Asking, Looking
<1>3. /\ DOMAIN got = DOMAIN Idle /\ KeyFits(got) /\ got.how = "none"
      /\ ~got.blank => got.base \subseteq Range(got.items)
  BY <1>1, GotDoes, Zenon
<1> HIDE DEF got, c
<1>4. \A e : GoodCall(Ended(c, e.items, "notModified"), data, heard, scene.scope)
  BY <1>2, EndedGood
<1>5. GoodCall(Ended(got, got.items, "value"), data, heard, scene.scope)
  BY <1>3, EndedGood
<1> QED
  BY <1>1, <1>4, <1>5, OthersGood

LEMMA FoundGood ==
  ASSUME ListInv, NEW t \in Callers, Found(t)
  PROVE  GoodStep(t)
<1> DEFINE c == call[t]
<1>1. /\ c.at = "answered" /\ c.resp.kind = "value" /\ c.resp.next = 0 /\ UNCHANGED Others
      /\ Set(t, Finish(c, c.items \o c.resp.items, "value"))
  BY DEF Found, Answered
<1>2. /\ DOMAIN c = DOMAIN Idle /\ KeyFits(c)
      /\ Cacheable(c) => OnItsWay(c, data[c.key], heard[c.key])
  BY <1>1, CallIsGood DEF ListInv, GoodCall, Asking, Looking
<1> HIDE DEF c
<1>3. ASSUME IsList(c) PROVE c.base \subseteq Range(c.items \o c.resp.items)
  <2>1. Collected(c, data[c.key], heard[c.key]) /\ Brought(c, data[c.key])
    BY <1>1, <1>2, <1>3 DEF OnItsWay, Cacheable
  <2>2. /\ Range(c.items) \subseteq Range(c.items \o c.resp.items)
        /\ Range(c.resp.items) \subseteq Range(c.items \o c.resp.items)
    BY <2>1, RangeOfBoth DEF Collected, Brought
  <2> QED
    BY <1>1, <2>1, <2>2 DEF Brought
<1>4. GoodCall(Finish(c, c.items \o c.resp.items, "value"), data, heard, scene.scope)
  BY <1>2, <1>3, FinishGood
<1> QED
  BY <1>1, <1>4, OthersGood

LEMMA ResultGood ==
  ASSUME ListInv, NEW t \in Callers, Throws(t) \/ PollTaskToCompletion(t) \/ PollingTimesOut(t)
  PROVE  GoodStep(t)
<1> DEFINE c == call[t]
<1>1. /\ c.at = "answered" /\ UNCHANGED Others
      /\ \/ Set(t, Finish(c, <<>>, c.resp.kind)) /\ c.resp.kind \notin {"value", "hit"}
         \/ Set(t, Finish(c, <<>>, "failed")) \/ Set(t, Send(c))
  BY DEF Throws, PollTaskToCompletion, PollingTimesOut, Answered
<1>2. DOMAIN c = DOMAIN Idle /\ KeyFits(c) /\ Sendable(c, data, heard)
  BY <1>1, CallIsGood DEF ListInv, Asking, Looking
<1> HIDE DEF c
<1> QED
  BY <1>1, <1>2, FinishGood, SendGood, OthersGood

LEMMA InsteadGood ==
  ASSUME ListInv, NEW t \in Callers, InputRequired(t) \/ ResolveTaskResult(t) \/ HeaderMismatch(t)
  PROVE  GoodStep(t)
<1> DEFINE c == call[t]
           round == [c EXCEPT !.round = c.round + 1]
           task == [c EXCEPT !.asks = "GetTask"]
           list == [c EXCEPT !.at = "relist"]
<1>1. /\ c.at = "answered" /\ UNCHANGED Others
      /\ \/ Set(t, Send(round)) \/ Set(t, Finish(c, <<>>, "failed")) \/ Set(t, Send(task))
         \/ c.asks \in {"CallTool", "CallToolAsTask"} /\ (Set(t, list) \/ Set(t, Finish(c, <<>>, "value")))
  BY DEF InputRequired, ResolveTaskResult, HeaderMismatch, Answered
<1>2. DOMAIN c = DOMAIN Idle /\ KeyFits(c) /\ c.how = "none" /\ Sendable(c, data, heard)
  BY <1>1, CallIsGood DEF ListInv, Asking, Looking
<1>3. /\ Alike(round, c)
      /\ DOMAIN task = DOMAIN Idle /\ task.asks = "GetTask" /\ task.key = c.key /\ task.how = c.how
      /\ DOMAIN list = DOMAIN Idle /\ list.asks = c.asks /\ list.key = c.key /\ list.how = c.how /\ list.at = "relist"
  BY <1>2, IdleRecord DEF Alike
<1> HIDE DEF c, round, task, list
<1>4. GoodCall(Send(round), data, heard, scene.scope)
  BY <1>2, <1>3, AlikeDoes, SendGood
<1>5. Sendable(task, data, heard)
  BY <1>2, <1>3 DEF Sendable, KeyFits, Cacheable, IsList, IsRead
<1>6. c.asks \in {"CallTool", "CallToolAsTask"} => GoodCall(list, data, heard, scene.scope)
  BY <1>2, <1>3 DEF GoodCall, KeyFits, Cacheable, IsList, IsRead, Asking, Looking
<1>7. GoodCall(Finish(c, <<>>, "failed"), data, heard, scene.scope)
  BY <1>2, FinishGood
<1>8. c.asks \in {"CallTool", "CallToolAsTask"} => GoodCall(Finish(c, <<>>, "value"), data, heard, scene.scope)
  BY <1>2, FinishGood DEF IsList
<1> QED
  BY <1>1, <1>4, <1>5, <1>6, <1>7, <1>8, SendGood, OthersGood

LEMMA RelistGood ==
  ASSUME ListInv, NEW t \in Callers, RelistTools(t)
  PROVE  GoodStep(t)
<1>1. Captured(t, "Relist", "tools", "use", TRUE) /\ scene' = scene
  BY DEF RelistTools
<1>2. KeyFits([Idle EXCEPT !.asks = "Relist", !.key = "tools"])
  <2>1. [Idle EXCEPT !.asks = "Relist", !.key = "tools"].asks = "Relist" /\ [Idle EXCEPT !.asks = "Relist", !.key = "tools"].key = "tools"
    BY IdleRecord
  <2> QED
    BY <2>1 DEF KeyFits, Keys, Lists
<1> QED
  BY <1>1, <1>2, CapturedGood

LEMMA RecoveryGood ==
  ASSUME ListInv, NEW t \in Callers, Observe(t) \/ RecoverExpiredSession(t) \/ Recovered(t)
  PROVE  GoodStep(t)
<1> DEFINE c == call[t]
           seen == [c EXCEPT !.at = "observed", !.seen = me.generation]
           again == [c EXCEPT !.round = 0, !.retried = TRUE]
           negotiating == [c EXCEPT !.at = "negotiating"]
<1>1. /\ c.at \in {"answered", "observed", "negotiating"}
      /\ Set(t, seen) \/ Set(t, Send(again)) \/ Set(t, negotiating) \/ Set(t, Finish(c, <<>>, "failed"))
  BY DEF Observe, RecoverExpiredSession, Recovered, Again
<1>2. /\ data' = data /\ heard' = heard /\ notices' = notices /\ announcing' = announcing /\ cachedTools' = cachedTools
      /\ scene' = scene
  BY DEF Observe, RecoverExpiredSession, Recovered, Others, serverData
<1>3. DOMAIN c = DOMAIN Idle /\ KeyFits(c) /\ c.how = "none" /\ Sendable(c, data, heard)
  BY <1>1, CallIsGood DEF ListInv, Asking, Looking
<1>4. Alike(again, c) /\ Alike(seen, c) /\ Alike(negotiating, c) /\ seen.at = "observed" /\ negotiating.at = "negotiating"
  BY <1>3, IdleRecord DEF Alike
<1> HIDE DEF c, again, seen, negotiating
<1>5. GoodCall(Send(again), data, heard, scene.scope)
  BY <1>3, <1>4, AlikeDoes, SendGood
<1>6. ASSUME NEW d, Alike(d, c), d.at \in {"observed", "negotiating"} PROVE GoodCall(d, data, heard, scene.scope)
  <2>1. Sendable(d, data, heard)
    BY <1>3, <1>6, AlikeDoes
  <2> QED
    BY <1>6, <2>1 DEF Sendable, GoodCall, OnItsWay, Asking, Looking
<1>7. GoodCall(Finish(c, <<>>, "failed"), data, heard, scene.scope)
  BY <1>3, FinishGood
<1> QED
  BY <1>1, <1>2, <1>4, <1>5, <1>6, <1>7 DEF GoodStep

LEMMA TimesOutGood ==
  ASSUME ListInv, NEW t \in Callers, RequestTimesOut(t)
  PROVE  GoodStep(t)
<1>1. /\ call[t].at = "sent" /\ Set(t, Finish(call[t], <<>>, "failed"))
      /\ data' = data /\ heard' = heard /\ notices' = notices /\ announcing' = announcing /\ cachedTools' = cachedTools
      /\ scene' = scene
  BY DEF RequestTimesOut, serverData
<1>2. DOMAIN call[t] = DOMAIN Idle /\ KeyFits(call[t])
  BY <1>1, CallIsGood DEF ListInv, Asking, Looking
<1> QED
  BY <1>1, <1>2, FinishGood DEF GoodStep

(* A call that subscribes has nothing to do with the cache. *)
LEMMA SubscriptionGood ==
  ASSUME ListInv, NEW t \in Callers,
         \/ SubscribeAsync(t) \/ Subscribed(t) \/ Listen(t) \/ Acknowledge(t)
  PROVE  GoodStep(t) \/ LeftAlone
<1> DEFINE c == call[t]
           begins == [Idle EXCEPT !.asks = "Subscribe", !.ctx = auth]
           answered(kind) == [c EXCEPT !.at = "answered", !.resp = Only(kind)]
<1>1. /\ data' = data /\ heard' = heard /\ notices' = notices /\ announcing' = announcing /\ cachedTools' = cachedTools
  BY DEF SubscribeAsync, Subscribed, Listen, Acknowledge, NotSubs, serverData
<1>2. DOMAIN scene' = DOMAIN scene /\ scene.scope' = scene.scope
  BY StartsScene DEF ListInv, SubscribeAsync, Subscribed, Listen, Acknowledge
<1>3. CASE SubscribeAsync(t)
  <2>1. Set(t, Send(begins))
    BY <1>3 DEF SubscribeAsync
  <2>2. /\ DOMAIN begins = DOMAIN Idle /\ begins.asks = "Subscribe" /\ begins.key = "tools" /\ begins.how = "none"
    BY IdleRecord
  <2> HIDE DEF begins
  <2>3. Sendable(begins, data, heard)
    BY <2>2 DEF Sendable, KeyFits, Cacheable, IsList, IsRead, Keys, Lists
  <2> QED
    BY <1>1, <1>2, <2>1, <2>3, SendGood DEF GoodStep
<1>4. CASE Subscribed(t)
  <2>1. Subscribing(t) /\ \E how : how \notin {"value", "hit"} /\ Set(t, Finish(c, <<>>, how))
    BY <1>4 DEF Subscribed
  <2>2. DOMAIN c = DOMAIN Idle /\ KeyFits(c)
    BY DEF ListInv, CallsGood, GoodCall
  <2> HIDE DEF c
  <2> QED
    BY <1>1, <1>2, <2>1, <2>2, FinishGood DEF GoodStep
<1>5. CASE Listen(t) \/ Acknowledge(t)
  <2>1. /\ scene' = scene
        /\ UNCHANGED call \/ (Subscribing(t) /\ c.at = "sent" /\ \E kind : Set(t, answered(kind)))
    BY <1>5 DEF Listen, Acknowledge, Respond
  <2>2. ASSUME Subscribing(t), NEW kind PROVE GoodCall(answered(kind), data, heard, scene.scope)
    <3>1. c.asks = "Subscribe" /\ DOMAIN c = DOMAIN Idle /\ KeyFits(c) /\ c.how = "none"
      BY <2>2 DEF ListInv, CallsGood, GoodCall, Subscribing, Active
    <3>2. /\ DOMAIN answered(kind) = DOMAIN Idle /\ answered(kind).asks = "Subscribe" /\ answered(kind).key = c.key
          /\ answered(kind).how = "none" /\ answered(kind).at = "answered"
      BY <3>1, IdleRecord
    <3> HIDE DEF answered, c
    <3> QED
      BY <3>1, <3>2 DEF GoodCall, KeyFits, Cacheable, IsList, IsRead, Asking, Looking
  <2> HIDE DEF answered
  <2> QED
    BY <1>1, <2>1, <2>2 DEF GoodStep, LeftAlone
<1> QED
  BY <1>3, <1>4, <1>5

LEMMA CallStepGood ==
  ASSUME ListInv, NEW t \in Callers, ClientStep(t) \/ ServerStep(t) \/ RequestTimesOut(t) \/ HearAck(t)
  PROVE  GoodStep(t) \/ LeftAlone
<1>1. CASE HearAck(t)
  BY <1>1 DEF HearAck, NotSubs, serverData, LeftAlone
<1> QED
  BY <1>1, StartsGood, LookupGood, NextPageGood, StoreGood, FoundGood, ResultGood, InsteadGood, RelistGood, RecoveryGood,
     TimesOutGood, SubscriptionGood, ServeGood
  DEF ClientStep, ServerStep

LEMMA GoodStepKeeps ==
  ASSUME DataInv, CallsGood, NEW t \in Callers, GoodStep(t)
  PROVE  DataInv' /\ CallsGood'
<1>1. PICK d : Set(t, d) /\ GoodCall(d, data, heard, scene.scope)
  BY DEF GoodStep
<1>2. DOMAIN call' = Callers /\ call'[t] = d /\ \A u \in Callers : u # t => call'[u] = call[u]
  BY <1>1 DEF Set, DataInv
<1>3. /\ data' = data /\ heard' = heard /\ notices' = notices /\ announcing' = announcing
      /\ DOMAIN scene' = DOMAIN scene /\ scene'.scope = scene.scope
  BY DEF GoodStep
<1>4. cachedTools' \in {{}, data["tools"]}
  BY DEF GoodStep, CachedTools, DataInv
<1>5. DataInv'
  BY <1>2, <1>3, <1>4 DEF DataInv
<1>6. \A u \in Callers : GoodCall(call'[u], data, heard, scene.scope)
  BY <1>1, <1>2 DEF CallsGood
<1>7. CallsGood'
  BY <1>3, <1>6 DEF CallsGood
<1> QED
  BY <1>5, <1>7

--------------------------------------------------------------------------------
(* Lists and the cache: the entries *)

(* Using an entry or evicting another changes nothing of it but the place in the order of use. *)
Twin(x, e) == DOMAIN x = DOMAIN e /\ \A f \in DOMAIN e : f # "used" => x[f] = e[f]

LEMMA TwinDoes ==
  ASSUME NEW x, NEW e, Twin(x, e), NEW told, NEW scope
  PROVE  /\ PublicEntry(e, told, scope) => PublicEntry(x, told, scope)
         /\ PrivateEntry(e, told) => PrivateEntry(x, told)
<1>1. ASSUME GoodEntry(e, told)
      PROVE  /\ GoodEntry(x, told) /\ x.key = e.key /\ x.switched = e.switched /\ x.owner = e.owner /\ x.ctx = e.ctx
  BY <1>1 DEF GoodEntry, Twin
<1> QED
  BY <1>1 DEF PublicEntry, PrivateEntry

LEMMA WithoutDoes ==
  ASSUME NEW cache, NEW found, NEW x \in Without(cache, found)
  PROVE  \E e \in cache \ found : Twin(x, e)
<1>1. PICK e \in cache \ found : x = [e EXCEPT !.used = Before(cache \ found, e)]
  BY DEF Without
<1>2. Twin(x, e)
  BY <1>1 DEF Twin
<1> QED
  BY <1>2

LEMMA UsedDoes ==
  ASSUME NEW cache, NEW found, NEW e, NEW x \in Used(cache, found, e)
  PROVE  \E d \in cache \cup {e} : Twin(x, d)
<1>1. CASE x \in Without(cache, found)
  BY <1>1, WithoutDoes
<1>2. CASE x = [e EXCEPT !.used = Cardinality(cache \ found)]
  <2>1. Twin(x, e)
    BY <1>2 DEF Twin
  <2> QED
    BY <2>1
<1> QED
  BY <1>1, <1>2 DEF Used

LEMMA FiledDoes ==
  ASSUME NEW cache, NEW found, NEW e, NEW x \in Filed(cache, found, e)
  PROVE  \E d \in cache \cup {e} : Twin(x, d)
<1> DEFINE before == Used(cache, found, e)
<1>1. \A y \in before : \E d \in cache \cup {e} : Twin(y, d)
  BY UsedDoes
<1>2. x \in before \/ \E y \in before : Twin(x, y)
  <2> HIDE DEF before
  <2>1. x \in EvictLocked(before)
    BY DEF Filed, before
  <2> QED
    BY <2>1, WithoutDoes DEF EvictLocked
<1>3. ASSUME NEW y, NEW d, Twin(x, y), Twin(y, d) PROVE Twin(x, d)
  BY <1>3 DEF Twin
<1> HIDE DEF before
<1> QED
  BY <1>1, <1>2, <1>3

(* CachesGood', where the caches take over entries and perhaps one more. *)
LEMMA CachesKept ==
  ASSUME CachesGood, heard' = heard, scene.scope' = scene.scope,
         \A x \in public' : \E e : Twin(x, e) /\ (e \in public \/ PublicEntry(e, heard, scene.scope)),
         \A x \in private' : \E e : Twin(x, e) /\ (e \in private \/ PrivateEntry(e, heard))
  PROVE  CachesGood'
<1>1. \A x \in public' : PublicEntry(x, heard, scene.scope)
  BY TwinDoes DEF CachesGood
<1>2. \A x \in private' : PrivateEntry(x, heard)
  BY TwinDoes DEF CachesGood
<1>3. scene'.scope = scene.scope
  OBVIOUS
<1> QED
  BY <1>1, <1>2, <1>3 DEF CachesGood

LEMMA TwinSelf == \A e : Twin(e, e)
  BY DEF Twin

LEMMA LookupCaches ==
  ASSUME CachesGood, NEW t, CurrentCacheAuthContext(t) \/ GetAny(t) \/ FirstRequest(t)
  PROVE  CachesGood'
<1> DEFINE pub == FoundPublic(public, call[t].key)
           priv == FoundPrivate(private, call[t].key, call[t].ctx)
<1>1. heard' = heard /\ scene' = scene
  BY DEF CurrentCacheAuthContext, GetAny, FirstRequest
<1>2. /\ public' \in {public, Without(public, pub)} \/ \E e \in pub : public' = Used(public, pub, e)
      /\ private' \in {{}, private, Without(private, priv)} \/ \E e \in priv : private' = Used(private, priv, e)
  BY DEF CurrentCacheAuthContext, GetAny, FirstRequest, cacheVars
<1>3. pub \subseteq public /\ priv \subseteq private
  BY DEF FoundPublic, FoundPrivate
<1> HIDE DEF pub, priv
<1>4. \A x \in public' : \E e \in public : Twin(x, e)
  BY <1>2, <1>3, TwinSelf, WithoutDoes, UsedDoes
<1>5. \A x \in private' : \E e \in private : Twin(x, e)
  BY <1>2, <1>3, TwinSelf, WithoutDoes, UsedDoes
<1> QED
  BY <1>1, <1>4, <1>5, CachesKept

LEMMA StoreCaches ==
  ASSUME ListInv, NEW t \in Callers, Store(t)
  PROVE  CachesGood'
<1> DEFINE c == call[t]
           got == [c EXCEPT !.items = c.items \o c.resp.items, !.blank = (c.resp.kind = "notModified"),
                            !.first = IF c.pages = 0 THEN c.resp.tag ELSE c.first]
<1>1. /\ Answered(t, {"value", "notModified"}) /\ Cacheable(c) /\ c.resp.next = 0
      /\ heard' = heard /\ scene' = scene
      /\ UNCHANGED <<public, private>> \/ CacheIfHinted(got)
  BY DEF Store, Cacheable, Others
<1>2. /\ DOMAIN got = DOMAIN Idle /\ KeyFits(got) /\ got.key = c.key
      /\ ~got.blank => got.base \subseteq Range(got.items)
      /\ got.stale \/ heard[got.key] \subseteq got.base
      /\ got.switched \/ got.owner = {got.ctx}
  BY <1>1, GotDoes
<1> HIDE DEF got, c
<1> DEFINE e == Entry(got)
<1>3. /\ DOMAIN e = {"key", "ctx", "items", "owner", "used", "stale", "switched", "blank"}
      /\ e.key = got.key /\ e.ctx = got.ctx /\ e.items = got.items /\ e.owner = got.owner /\ e.stale = got.stale
      /\ e.switched = got.switched /\ e.blank = got.blank
  BY DEF Entry
<1> HIDE DEF e
<1>4. GoodEntry(e, heard) /\ (e.switched \/ e.owner = {e.ctx})
  BY <1>2, <1>3 DEF GoodEntry, KeyFits
<1>5. /\ public' = public \/ (public' = Filed(public, FoundPublic(public, got.key), e) /\ scene.scope[e.key] = "public")
      /\ private' = private \/ private' = Filed(private, FoundPrivate(private, got.key, got.ctx), e)
  BY <1>1, <1>3 DEF CacheIfHinted, e
<1>6. \A x \in public' : \E d : Twin(x, d) /\ (d \in public \/ PublicEntry(d, heard, scene.scope))
  BY <1>4, <1>5, TwinSelf, FiledDoes DEF PublicEntry
<1>7. \A x \in private' : \E d : Twin(x, d) /\ (d \in private \/ PrivateEntry(d, heard))
  BY <1>4, <1>5, TwinSelf, FiledDoes DEF PrivateEntry
<1> QED
  BY <1>1, <1>6, <1>7, CachesKept DEF ListInv

--------------------------------------------------------------------------------
(* Lists and the cache: registries and notices *)

(* What a registration does: one registry grows by an item, the server's list of tools is dropped *)
(* when it is that of the tools, and a notice may have to go out.                                 *)
Registers(key, item) ==
  /\ key \in Keys /\ Grows(key, item)
  /\ cachedTools' = {} \/ (key # "tools" /\ cachedTools' = cachedTools)
  /\ announcing' \subseteq announcing \cup {[key |-> key, seen |-> data'[key]]}
  /\ call' = call /\ heard' = heard /\ notices' = notices /\ public' = public /\ private' = private

LEMMA RegistersDoes ==
  ASSUME \/ \E item \in Items : RegisterTool(item)
         \/ RegisterResource \/ RegisterResourceTemplate \/ RegisterPrompt \/ RegisterSkill \/ SendResourceUpdated
  PROVE  \E key, item : Registers(key, item)
<1>1. {"tools", "resources", "templates", "prompts", "skills", "doc"} \subseteq Keys
  BY DEF Keys, Lists, Reads
<1>2. CASE \E item \in Items : RegisterTool(item)
  BY <1>1, <1>2 DEF RegisterTool, Changed, Registers, cacheVars
<1>3. CASE RegisterResource
  BY <1>1, <1>3 DEF RegisterResource, Changed, Registers, cacheVars
<1>4. CASE RegisterResourceTemplate
  BY <1>1, <1>4 DEF RegisterResourceTemplate, Changed, Registers, cacheVars
<1>5. CASE RegisterPrompt
  BY <1>1, <1>5 DEF RegisterPrompt, Changed, Registers, cacheVars
<1>6. CASE RegisterSkill
  BY <1>1, <1>6 DEF RegisterSkill, Registers, cacheVars
<1>7. CASE SendResourceUpdated
  BY <1>1, <1>7 DEF SendResourceUpdated, Changed, Registers, cacheVars
<1> QED
  BY <1>2, <1>3, <1>4, <1>5, <1>6, <1>7

(* A call under way stays good when registries grow. *)
LEMMA GrowsGood ==
  ASSUME NEW c, NEW S \in SUBSET Nat, NEW T \in SUBSET Nat, IsFiniteSet(T), S \subseteq T, NEW told, OnItsWay(c, S, told)
  PROVE  OnItsWay(c, T, told)
<1>1. \A x : Rank(S, x) \in Nat /\ Rank(T, x) \in Nat /\ Rank(S, x) <= Rank(T, x)
  BY RankGrows
<1>2. ASSUME NEW n \in Nat, NEW x, n <= Rank(S, x) PROVE n <= Rank(T, x)
  BY <1>1, <1>2, SMT
<1>3. Collected(c, T, told) /\ Owned(c)
  BY <1>2 DEF OnItsWay, Collected
<1>4. Brought(c, S) => Brought(c, T)
  BY <1>2 DEF Brought
<1> QED
  BY <1>3, <1>4 DEF OnItsWay

LEMMA RegistersKeeps ==
  ASSUME ListInv, NEW key, NEW item, Registers(key, item)
  PROVE  ListInv'
<1>1. /\ key \in Keys /\ item \in Nat /\ data' = [data EXCEPT ![key] = data[key] \cup {item}]
      /\ scene' = [scene EXCEPT !.grows[key] = @ - 1]
  BY DEF Registers, Grows, Items
<1>2. /\ DOMAIN data = Keys /\ "scope" \in DOMAIN scene
      /\ \A k \in Keys : data[k] \subseteq Nat /\ IsFiniteSet(data[k]) /\ data[k] # {} /\ heard[k] \subseteq data[k]
  BY DEF ListInv, DataInv
<1>3. DOMAIN scene' = DOMAIN scene /\ scene'.scope = scene.scope
  BY <1>1, <1>2
<1>4. /\ DOMAIN data' = Keys /\ data'[key] = data[key] \cup {item}
      /\ \A k \in Keys : k # key => data'[k] = data[k]
  BY <1>1, <1>2
<1>5. IsFiniteSet(data[key] \cup {item})
  BY <1>1, <1>2, FS_AddElement
<1>6. \A k \in Keys : data'[k] \subseteq Nat /\ IsFiniteSet(data'[k]) /\ data[k] \subseteq data'[k]
  BY <1>1, <1>2, <1>4, <1>5
<1>7. \A k \in Keys : data'[k] # {} /\ heard[k] \subseteq data'[k]
  BY <1>2, <1>6
<1>8. \A change \in announcing' \cup notices : change.key \in Keys /\ change.seen \subseteq data'[change.key]
  <2>1. ASSUME NEW change \in announcing \cup notices PROVE change.key \in Keys /\ change.seen \subseteq data'[change.key]
    BY <1>6 DEF ListInv, DataInv
  <2>2. \A change \in announcing' \cup notices : change \in announcing \cup notices \/ change = [key |-> key, seen |-> data'[key]]
    BY DEF Registers
  <2> QED
    BY <1>1, <2>1, <2>2
<1>9. cachedTools' \in {{}, data'["tools"]}
  BY <1>4 DEF Registers, ListInv, DataInv, Keys, Lists
<1>10. call' = call /\ heard' = heard /\ notices' = notices /\ public' = public /\ private' = private
  BY DEF Registers
<1>11. DataInv'
  BY <1>3, <1>4, <1>6, <1>7, <1>8, <1>9, <1>10 DEF ListInv, DataInv
<1>12. ASSUME NEW t \in Callers PROVE GoodCall(call[t], data', heard, scene.scope)
  <2>1. GoodCall(call[t], data, heard, scene.scope)
    BY DEF ListInv, CallsGood
  <2>2. call[t].key \in Keys
    BY <2>1 DEF GoodCall, KeyFits
  <2>3. ASSUME OnItsWay(call[t], data[call[t].key], heard[call[t].key])
        PROVE  OnItsWay(call[t], data'[call[t].key], heard[call[t].key])
    BY <1>2, <1>6, <2>2, <2>3, GrowsGood
  <2> QED
    BY <2>1, <2>3 DEF GoodCall
<1>13. CallsGood'
  BY <1>3, <1>10, <1>12 DEF CallsGood
<1>14. CachesGood'
  BY <1>3, <1>10 DEF ListInv, CachesGood
<1> QED
  BY <1>11, <1>13, <1>14 DEF ListInv

LEMMA AnnounceKeeps ==
  ASSUME ListInv, NEW change \in announcing, Announce(change)
  PROVE  ListInv'
<1>1. /\ announcing' \cup notices' \subseteq announcing \cup notices
      /\ scene' = scene /\ call' = call /\ data' = data /\ heard' = heard /\ cachedTools' = cachedTools
      /\ public' = public /\ private' = private
  BY DEF Announce, cacheVars
<1>2. DataInv'
  BY <1>1 DEF ListInv, DataInv
<1> QED
  BY <1>1, <1>2 DEF ListInv, CallsGood, CachesGood

LEMMA HearNoticeGood ==
  ASSUME ListInv, NEW change \in notices, HearNotice(change)
  PROVE  ListInv'
<1> DEFINE k == change.key
<1>1. /\ k \in Keys /\ change.seen \subseteq data[k]
      /\ heard' = [heard EXCEPT ![k] = heard[k] \cup change.seen]
      /\ notices' = notices \ {change} /\ scene' = scene /\ data' = data /\ announcing' = announcing
      /\ cachedTools' = cachedTools
  BY DEF HearNotice, ListInv, DataInv, serverData
<1>2. call' = [t \in Callers |-> IF Active(t) /\ call[t].key = k THEN [call[t] EXCEPT !.stale = TRUE] ELSE call[t]]
  BY DEF HearNotice
<1> HIDE DEF k
<1>3. DOMAIN heard = Keys /\ \A l \in Keys : heard[l] \subseteq data[l]
  BY DEF ListInv, DataInv
<1>4. DOMAIN heard' = Keys /\ (\A l \in Keys : heard'[l] \subseteq data[l]) /\ \A l \in Keys : l # k => heard'[l] = heard[l]
  BY <1>1, <1>3
<1>5. DataInv'
  BY <1>1, <1>2, <1>4 DEF ListInv, DataInv
<1>6. ASSUME NEW t \in Callers PROVE GoodCall(call'[t], data, heard', scene.scope)
  <2> DEFINE c == call[t]
             d == [c EXCEPT !.stale = TRUE]
  <2>1. GoodCall(c, data, heard, scene.scope)
    BY DEF ListInv, CallsGood
  <2>2. call'[t] = (IF c.at \notin {"idle", "returned"} /\ c.key = k THEN d ELSE c)
    BY <1>2 DEF Active
  <2>3. DOMAIN c = DOMAIN Idle /\ KeyFits(c) /\ c.key \in Keys
    BY <2>1 DEF GoodCall, KeyFits
  <2>4. /\ Alike([d EXCEPT !.stale = c.stale], c)
        /\ DOMAIN d = DOMAIN Idle /\ d.stale = TRUE /\ d.at = c.at /\ d.as = c.as /\ d.resp = c.resp
        /\ d.asks = c.asks /\ d.key = c.key /\ d.how = c.how /\ d.base = c.base /\ d.items = c.items
        /\ d.cursor = c.cursor /\ d.owner = c.owner /\ d.ctx = c.ctx /\ d.switched = c.switched
    BY <2>3, IdleRecord DEF Alike
  <2> HIDE DEF c, d
  <2>5. CASE c.at \notin {"idle", "returned"} /\ c.key = k
    <3>1. KeyFits(d) /\ (Cacheable(d) => Cacheable(c)) /\ d.how = "none"
      BY <2>1, <2>3, <2>4, <2>5 DEF GoodCall, KeyFits, Cacheable, IsList, IsRead
    <3>2. ASSUME Cacheable(c), Asking(c) PROVE OnItsWay(d, data[d.key], heard'[d.key])
      <4>1. OnItsWay(c, data[c.key], heard[c.key])
        BY <2>1, <2>5, <3>2 DEF GoodCall
      <4>2. Collected(d, data[d.key], heard'[d.key])
        BY <2>4, <4>1 DEF OnItsWay, Collected
      <4>3. Owned(d) /\ (Brought(c, data[c.key]) => Brought(d, data[d.key]))
        BY <2>4, <4>1 DEF OnItsWay, Owned, Brought
      <4> QED
        BY <2>4, <4>1, <4>2, <4>3 DEF OnItsWay
    <3> QED
      BY <2>1, <2>2, <2>4, <2>5, <3>1, <3>2 DEF GoodCall, Asking, Looking
  <2>6. CASE c.at \in {"idle", "returned"} \/ c.key # k
    <3>1. c.at \notin {"idle", "returned"} => heard'[c.key] = heard[c.key]
      BY <1>4, <2>3, <2>6
    <3> QED
      BY <2>1, <2>2, <2>6, <3>1 DEF GoodCall, Asking, Looking
  <2> QED
    BY <2>5, <2>6
<1>7. CallsGood'
  BY <1>1, <1>6 DEF CallsGood
<1>8. CASE k # "doc"
  <2>1. public' = {} /\ private' = {}
    BY <1>8 DEF HearNotice, k
  <2>2. CachesGood'
    BY <2>1 DEF CachesGood
  <2> QED
    BY <1>5, <1>7, <2>2 DEF ListInv
<1>9. CASE k = "doc"
  <2>1. /\ public' = Without(public, FoundPublic(public, "doc"))
        /\ private' = Without(private, FoundPublic(private, "doc"))
    BY <1>9 DEF HearNotice, Invalidate, k
  <2>2. ASSUME NEW e, e.key # "doc"
        PROVE  /\ PublicEntry(e, heard, scene.scope) => PublicEntry(e, heard', scene.scope)
               /\ PrivateEntry(e, heard) => PrivateEntry(e, heard')
    BY <1>4, <1>9, <2>2 DEF PublicEntry, PrivateEntry, GoodEntry
  <2>3. \A x \in public' : \E e \in public : e.key # "doc" /\ Twin(x, e)
    BY <2>1, WithoutDoes DEF FoundPublic
  <2>4. \A x \in private' : \E e \in private : e.key # "doc" /\ Twin(x, e)
    BY <2>1, WithoutDoes DEF FoundPublic
  <2>5. \A x \in public' : PublicEntry(x, heard', scene.scope)
    BY <2>2, <2>3, TwinDoes DEF ListInv, CachesGood
  <2>6. \A x \in private' : PrivateEntry(x, heard')
    BY <2>2, <2>4, TwinDoes DEF ListInv, CachesGood
  <2>7. CachesGood'
    BY <1>1, <2>5, <2>6 DEF CachesGood
  <2> QED
    BY <1>5, <1>7, <2>7 DEF ListInv
<1> QED
  BY <1>8, <1>9

--------------------------------------------------------------------------------
(* Lists and the cache: the invariant *)

(* Only a lookup, an answer that is stored and a header mismatch touch the cache. *)
LEMMA StepCaches ==
  ASSUME ListInv, NEW t \in Callers, ClientStep(t) \/ ServerStep(t) \/ RequestTimesOut(t) \/ HearAck(t)
  PROVE  CachesGood'
<1>1. heard' = heard /\ scene.scope' = scene.scope
  BY CallStepGood DEF GoodStep, LeftAlone
<1>2. CASE CurrentCacheAuthContext(t) \/ GetAny(t) \/ FirstRequest(t)
  BY <1>2, LookupCaches DEF ListInv
<1>6. ASSUME UNCHANGED <<public, private>> PROVE CachesGood'
  BY <1>1, <1>6 DEF ListInv, CachesGood
<1>3. CASE \/ ListTools(t) \/ ListResources(t) \/ ListResourceTemplates(t) \/ ListPrompts(t) \/ ListSkills(t)
           \/ ReadResource(t) \/ GetSkill(t) \/ ReadDirectory(t) \/ RelistTools(t)
  BY <1>3, <1>6 DEF ListTools, ListResources, ListResourceTemplates, ListPrompts, ListSkills, ReadResource,
                    GetSkill, ReadDirectory, RelistTools, CachedCall, Captured, cacheVars
<1>4. CASE Store(t)
  BY <1>4, StoreCaches
<1>5. CASE HeaderMismatch(t)
  <2>1. UNCHANGED <<public, private>> \/ (public' = {} /\ private' = {})
    BY <1>5 DEF HeaderMismatch
  <2> QED
    BY <1>1, <2>1 DEF ListInv, CachesGood
<1>7. CASE SearchTools(t) \/ GetPrompt(t) \/ CallTool(t) \/ CallToolAsTask(t) \/ DoSendRequest(t)
  BY <1>6, <1>7 DEF SearchTools, GetPrompt, CallTool, CallToolAsTask, DoSendRequest, Uncached, cacheVars
<1>8. CASE NextPage(t) \/ Found(t) \/ InputRequired(t) \/ ResolveTaskResult(t) \/ Throws(t) \/ Observe(t)
  BY <1>6, <1>8 DEF NextPage, Found, InputRequired, ResolveTaskResult, Throws, Observe
<1>9. CASE RecoverExpiredSession(t) \/ Recovered(t) \/ PollTaskToCompletion(t) \/ PollingTimesOut(t)
  BY <1>6, <1>9 DEF RecoverExpiredSession, Recovered, PollTaskToCompletion, PollingTimesOut, cacheVars
<1>10. CASE SubscribeAsync(t) \/ Subscribed(t) \/ Listen(t) \/ Acknowledge(t) \/ HearAck(t)
  BY <1>6, <1>10 DEF SubscribeAsync, Subscribed, Listen, Acknowledge, HearAck, NotSubs, cacheVars
<1>11. CASE Serve(t) \/ RequestTimesOut(t)
  BY <1>6, <1>11 DEF Serve, RequestTimesOut, cacheVars
<1> QED
  BY <1>2, <1>3, <1>4, <1>5, <1>7, <1>8, <1>9, <1>10, <1>11 DEF ClientStep, ServerStep

LEMMA LeftAloneKeeps == ASSUME ListInv, LeftAlone PROVE DataInv' /\ CallsGood'
  BY DEF ListInv, LeftAlone, DataInv, CallsGood

LEMMA SwitchContextKeeps == ASSUME ListInv, SwitchContext PROVE ListInv'
<1>1. /\ DOMAIN scene' = DOMAIN scene /\ scene'.scope = scene.scope
      /\ call' = call /\ data' = data /\ heard' = heard /\ notices' = notices /\ announcing' = announcing
      /\ cachedTools' = cachedTools /\ public' = public /\ private' = private
  BY DEF SwitchContext, ListInv, DataInv, cacheVars, serverData
<1> QED
  BY <1>1 DEF ListInv, DataInv, CallsGood, CachesGood

LEMMA ListInitially == Init => ListInv
<1> SUFFICES ASSUME Init PROVE ListInv
  OBVIOUS
<1>1. CallsInit /\ scene \in Scenes
  BY DEF Init, CallsInit
<1>2. {"todo", "grows", "switches", "scope"} \subseteq DOMAIN scene
  BY <1>1, ClientCallsAssumption
<1>3. IsFiniteSet({2})
  BY FS_Singleton
<1>4. DataInv
  BY <1>1, <1>2, <1>3 DEF CallsInit, DataInv
<1>5. ASSUME NEW t \in Callers PROVE GoodCall(call[t], data, heard, scene.scope)
  <2>1. call[t] = Idle
    BY <1>1 DEF CallsInit
  <2>2. KeyFits(Idle)
    BY IdleRecord DEF KeyFits, Keys, Lists
  <2> QED
    BY <2>1, <2>2, IdleRecord DEF GoodCall, Asking, Looking
<1>6. CachesGood
  BY <1>1 DEF CallsInit, CachesGood
<1> QED
  BY <1>4, <1>5, <1>6 DEF ListInv, CallsGood

LEMMA ListStep == ListInv /\ CallsNext => ListInv'
<1> SUFFICES ASSUME ListInv, CallsNext PROVE ListInv'
  OBVIOUS
<1>1. ASSUME NEW t \in Callers, ClientStep(t) \/ ServerStep(t) \/ RequestTimesOut(t) \/ HearAck(t) PROVE ListInv'
  <2>1. CachesGood'
    BY <1>1, StepCaches
  <2>2. DataInv' /\ CallsGood'
    BY <1>1, CallStepGood, GoodStepKeeps, LeftAloneKeeps DEF ListInv
  <2> QED
    BY <2>1, <2>2 DEF ListInv
<1>2. CASE \/ \E item \in Items : RegisterTool(item)
           \/ RegisterResource \/ RegisterResourceTemplate \/ RegisterPrompt \/ RegisterSkill \/ SendResourceUpdated
  BY <1>2, RegistersDoes, RegistersKeeps
<1> QED
  BY <1>1, <1>2, AnnounceKeeps, HearNoticeGood, SwitchContextKeeps DEF CallsNext

LEMMA ListNextKeeps == ListInv /\ [Next]_all => ListInv'
<1> SUFFICES ASSUME ListInv, [Next]_all PROVE ListInv'
  OBVIOUS
<1>1. CallsNext \/ UNCHANGED callVars
  BY DEF Next, all, vars
<1>2. CASE UNCHANGED callVars
  BY <1>2 DEF callVars, serverData, cacheVars, ListInv, DataInv, CallsGood, CachesGood
<1> QED
  BY <1>1, <1>2, ListStep

LEMMA ListInvHolds == ListInv => ListsAreTrue /\ PrivateStaysPrivate
<1> SUFFICES ASSUME ListInv PROVE ListsAreTrue /\ PrivateStaysPrivate
  OBVIOUS
<1>1. ASSUME NEW t \in Callers
      PROVE  /\ GoodCall(call[t], data, heard, scene.scope)
             /\ call[t].how = "hit" => call[t].at = "returned"
  BY DEF ListInv, CallsGood, GoodCall
<1>2. EveryItemListed
  BY <1>1 DEF EveryItemListed, GoodCall, Returned
<1>3. StaleOnlyByStraggler
  BY DEF ListInv, CachesGood, PublicEntry, PrivateEntry, GoodEntry, StaleOnlyByStraggler
<1>4. PrivateStaysPrivate
  BY <1>1 DEF PrivateStaysPrivate, GoodCall, Returned
<1> QED
  BY <1>2, <1>3, <1>4 DEF ListsAreTrue

(* ListPages and the cache: a list put together from pages has every item that was registered     *)
(* when it was begun, and an entry of the cache knows of every change the client was told of,     *)
(* whatever is registered between two pages, however often the cache is emptied, filled and       *)
(* evicted, for any size of page, number of threads and number of entries.                        *)
THEOREM ListsStayTrue == Spec => []ListsAreTrue
<1>1. Init => ListInv
  BY ListInitially
<1>2. ListInv /\ [Next]_all => ListInv'
  BY ListNextKeeps
<1>3. ListInv => ListsAreTrue
  BY ListInvHolds
<1> QED
  BY <1>1, <1>2, <1>3, PTL DEF Spec

(* CurrentCacheAuthContext, GetAny and CacheIfHinted: a call takes a private answer from the cache  *)
(* only when it was made for the context the call itself captured, however often the context is   *)
(* switched, captured, cleared and filed under by other threads in between.  The one exception is *)
(* by name: an answer that was asked for after the context had changed since it was captured.     *)
THEOREM PrivateAnswersStayPrivate == Spec => []PrivateStaysPrivate
<1>1. Init => ListInv
  BY ListInitially
<1>2. ListInv /\ [Next]_all => ListInv'
  BY ListNextKeeps
<1>3. ListInv => PrivateStaysPrivate
  BY ListInvHolds
<1> QED
  BY <1>1, <1>2, <1>3, PTL DEF Spec
================================================================================
