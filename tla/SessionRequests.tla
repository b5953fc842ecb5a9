---------------------------- MODULE SessionRequests ----------------------------
(***************************************************************************)
(* The outgoing half of McpSessionHandler: the table of pending requests   *)
(* and the five ways a request leaves it (response, error, timeout,        *)
(* cancellation, close), with the threads that race for it.                *)
(*                                                                         *)
(* Threads: the message loop, the timeout thread, the response worker      *)
(* (started together by Start), and application threads, any number of     *)
(* which may be inside RegisterRequest or CancelRequest at once.  Close    *)
(* runs on an application thread or inside a callback of one of the three. *)
(*                                                                         *)
(* A PendingRequest is owned by whoever moved its shared_ptr out of        *)
(* pending_: the variable held says which thread holds it and the outcome  *)
(* that thread will deliver.  Every region under pending_mutex_ or         *)
(* response_queue_mutex_ is one step; everything between two regions can   *)
(* interleave.                                                             *)
(***************************************************************************)
EXTENDS Naturals, Sequences, FiniteSets

CONSTANTS
    MaxRequests,     \* bound: how many ids next_request_id_ may hand out
    MaxTime,         \* bound: the steady clock stops here
    LastRegister,    \* bound: no request is registered after this instant
    Timeouts,        \* the timeouts callers pass
    CancelOnTimeout, \* the values of cancel_on_timeout callers pass
    Totals,          \* the values SetMaxTotalTimeout is called with (0 = off)
    Extension,       \* kProgressTimeoutExtension
    Tokens,          \* progress tokens
    IncomingFilters  \* whether the session has incoming filters

ASSUME ConstantsAssumption ==
    /\ MaxRequests \in Nat /\ MaxTime \in Nat /\ LastRegister \in Nat
    /\ Timeouts \subseteq Nat /\ Totals \subseteq Nat /\ Extension \in Nat
    /\ CancelOnTimeout \subseteq BOOLEAN /\ IncomingFilters \in BOOLEAN

Ids      == 1..MaxRequests
Outcomes == {"response", "error", "timeout", "closed", "cancelled"}
Threads  == {"loop", "timer", "worker"}

\* Who can own a PendingRequest that is no longer in pending_.  "register",
\* "cancel" and "enqueue" are points of the code where application threads
\* stand; "queue" is response_queue_.
Holders  == Threads \cup {"close", "register", "cancel", "enqueue", "queue"}

NoToken  == 0
NoId     == 0
NoCap    == 0

\* What the message loop can be handed.  A progress notification carries a
\* token, an answer the id of a request; so does notifications/cancelled, with
\* which the peer gives up a request of its own that may have the same id.
Message  == [kind : {"response", "error", "cancelled"}, id : Ids]
              \cup [kind : {"progress"}, token : Tokens]
NoMsg    == [kind |-> "none"]

VARIABLES
    now,               \* the steady clock
    closed,            \* closed_ (running_ is its negation once started)
    max_total,         \* max_total_timeout_
    next_request_id,   \* next_request_id_
    pending,           \* the keys of pending_
    deadline,          \* PendingRequest::deadline
    absolute,          \* absolute_deadlines_, NoCap where it has no entry
    token_map,         \* progress_token_map_, NoId where it has no entry
    cancel_on_timeout, \* the requests with PendingRequest::cancel_on_timeout
    sending,           \* registered, SendMessage not called yet
    sent,              \* handed to the transport
    held,              \* owner -> the <<request, outcome>> pairs it must deliver
    outcome,           \* request -> the outcomes delivered to its callbacks
    cancels,           \* request -> cancellations handed to the transport
    cancelled,         \* history: the requests CancelRequest took out of pending_
    loop, loop_msg,    \* message loop: where it stands, the message in its hand
    timer,             \* timeout thread
    worker,            \* response worker
    close, closer      \* how far Close has come, and the thread running it

reqVars    == <<next_request_id, sending, sent, cancel_on_timeout, max_total>>
tableVars  == <<pending, deadline, absolute, token_map>>
answerVars == <<held, outcome, cancels, cancelled>>
threadVars == <<loop, loop_msg, timer, worker>>
closeVars  == <<closed, close, closer>>
vars == <<now, reqVars, tableVars, answerVars, threadVars, closeVars>>

--------------------------------------------------------------------------------
(* Types *)

(* Every variable keeps to the values its C++ counterpart can take. *)
TypeOK ==
    /\ now \in Nat
    /\ closed \in BOOLEAN
    /\ max_total \in Nat
    /\ next_request_id \in Nat \ {0}
    /\ pending \subseteq Ids
    /\ deadline \in [Ids -> Nat]
    /\ absolute \in [Ids -> Nat]
    /\ token_map \in [Tokens -> Ids \cup {NoId}]
    /\ cancel_on_timeout \subseteq Ids
    /\ sending \subseteq Ids
    /\ sent \subseteq Ids
    /\ held \in [Holders -> SUBSET (Ids \X Outcomes)]
    /\ outcome \in [Ids -> Seq(Outcomes)]
    /\ cancels \in [Ids -> Nat]
    /\ cancelled \subseteq Ids
    /\ loop \in {"off", "recv", "sweep", "dispatch", "exited"}
    /\ loop_msg \in Message \cup {NoMsg}
    /\ timer \in {"off", "check", "sleep", "exited"}
    /\ worker \in {"off", "run", "exited"}
    /\ close \in {"idle", "loop", "timer", "worker", "collect", "fire", "done"}
    /\ closer \in Threads \cup {"app", "none"}

--------------------------------------------------------------------------------
(* Helpers *)

\* A thread inside Close is busy there until Close returns.
Free(t) == closer # t \/ close = "done"

Nobody(h) == held[h] = {}

\* EraseProgressTokens for every request of S.
EraseProgressTokensMutant(S) == token_map

EraseProgressTokens(S) ==
    [t \in Tokens |-> IF token_map[t] \in S THEN NoId ELSE token_map[t]]

\* The common tail of RemovePending, RemovePendingByRequestId, CheckTimeouts and
\* Close: the entries of S leave pending_ with their tokens and absolute deadlines.
TakePending(S) ==
    /\ pending' = pending \ S
    /\ token_map' = EraseProgressTokens(S)
    /\ absolute' = [r \in Ids |-> IF r \in S THEN NoCap ELSE absolute[r]]
    /\ UNCHANGED deadline

Hold(h, S, o) == held' = [held EXCEPT ![h] = @ \cup (S \X {o})]

\* The lookup of RemovePending and RemovePendingByRequestId.  Outgoing requests are
\* registered under the empty session id, which both fall back to.
FindPendingMutant(r) == TRUE

FindPending(r) == r \in pending

\* CheckTimeouts takes what is past its idle deadline or its absolute one.
ExpiredMutant == {r \in pending : now >= deadline[r]}

Expired ==
    {r \in pending : \/ now >= deadline[r]
                     \/ absolute[r] # NoCap /\ now >= absolute[r]}

--------------------------------------------------------------------------------
Init ==
    /\ now = 0 /\ closed = FALSE /\ max_total = 0 /\ next_request_id = 1
    /\ pending = {}
    /\ deadline = [r \in Ids |-> 0]
    /\ absolute = [r \in Ids |-> NoCap]
    /\ token_map = [t \in Tokens |-> NoId]
    /\ cancel_on_timeout = {} /\ sending = {} /\ sent = {} /\ cancelled = {}
    /\ held = [h \in Holders |-> {}]
    /\ outcome = [r \in Ids |-> <<>>]
    /\ cancels = [r \in Ids |-> 0]
    /\ loop = "off" /\ loop_msg = NoMsg /\ timer = "off" /\ worker = "off"
    /\ close = "idle" /\ closer = "none"

Tick == /\ now < MaxTime
        /\ now' = now + 1
        /\ UNCHANGED <<reqVars, tableVars, answerVars, threadVars, closeVars>>

\* Start throws after Close and does nothing the second time.
Start ==
    /\ ~closed /\ loop = "off"
    /\ loop' = "recv" /\ timer' = "check" /\ worker' = "run"
    /\ UNCHANGED <<now, reqVars, tableVars, answerVars, closeVars, loop_msg>>

SetMaxTotalTimeout(total) ==
    /\ max_total' = total
    /\ UNCHANGED <<now, next_request_id, sending, sent, cancel_on_timeout,
                   tableVars, answerVars, threadVars, closeVars>>

--------------------------------------------------------------------------------
(* Application threads *)

\* progress_token_map_[pt_key] = pending_key: the last request to use a token has it.
MapToken(token, r) == [token_map EXCEPT ![token] = r]

\* closed_ is read again under pending_mutex_.
RefusedByClose == closed

\* RegisterRequest up to the end of its locked region.  A session already closed
\* makes the caller deliver ConnectionClosed itself.
RegisterRequest(timeout, token, cot) ==
    LET r == next_request_id IN
    /\ r <= MaxRequests /\ now <= LastRegister
    /\ next_request_id' = r + 1
    /\ deadline' = [deadline EXCEPT ![r] = now + timeout]
    /\ cancel_on_timeout' = IF cot THEN cancel_on_timeout \cup {r} ELSE cancel_on_timeout
    /\ \/ /\ RefusedByClose
          /\ Hold("register", {r}, "closed")
          /\ UNCHANGED <<pending, absolute, token_map, sending>>
       \/ /\ ~RefusedByClose
          /\ pending' = pending \cup {r}
          /\ token_map' = IF token = NoToken THEN token_map ELSE MapToken(token, r)
          /\ absolute' = IF max_total > 0
                         THEN [absolute EXCEPT ![r] = now + max_total] ELSE absolute
          /\ sending' = sending \cup {r}
          /\ UNCHANGED held
    /\ UNCHANGED <<now, max_total, sent, outcome, cancels, cancelled,
                   threadVars, closeVars>>

\* The rest of RegisterRequest.  An outgoing filter may keep the message, and with
\* filters a closed session sends nothing; without them closed_ is not looked at.
SendMessage(r) ==
    /\ r \in sending
    /\ sending' = sending \ {r}
    /\ sent' \in {sent, sent \cup {r}}
    /\ UNCHANGED <<now, next_request_id, cancel_on_timeout, max_total, tableVars,
                   answerVars, threadVars, closeVars>>

\* CancelRequest, first region: RemovePendingByRequestId.  The id is known to the
\* caller once SendRequestWithOutcome has returned.
CancelRequest(r) ==
    /\ r < next_request_id /\ r \notin sending /\ FindPending(r)
    /\ TakePending({r})
    /\ Hold("cancel", {r}, "cancelled")
    /\ cancelled' = cancelled \cup {r}
    /\ UNCHANGED <<now, reqVars, outcome, cancels, threadVars, closeVars>>

\* CancelRequest, second part: CancelTransportRequest tells the peer.
CancelTransportRequest(r) ==
    /\ <<r, "cancelled">> \in held["cancel"]
    /\ cancels' = [cancels EXCEPT ![r] = @ + 1]
    /\ held' = [held EXCEPT !["cancel"]  = @ \ {<<r, "cancelled">>},
                            !["enqueue"] = @ \cup {<<r, "cancelled">>}]
    /\ UNCHANGED <<now, reqVars, tableVars, outcome, cancelled, threadVars, closeVars>>

\* CancelRequest, last part.  A closed session takes no more work: the request
\* is destroyed with its callbacks uncalled.
EnqueueCancellation(r) ==
    /\ <<r, "cancelled">> \in held["enqueue"]
    /\ held' = [held EXCEPT !["enqueue"] = @ \ {<<r, "cancelled">>},
                            !["queue"] = IF closed THEN @ ELSE @ \cup {<<r, "cancelled">>}]
    /\ UNCHANGED <<now, reqVars, tableVars, outcome, cancels, cancelled, threadVars,
                   closeVars>>

--------------------------------------------------------------------------------
(* Message loop and timeout thread *)

\* AsyncReceive returned a message and the session was still open.
LoopReceive(m) ==
    /\ loop = "recv" /\ Free("loop") /\ Nobody("loop") /\ ~closed
    /\ m.kind \in {"response", "error"} => m.id \in sent
    /\ loop' = "sweep" /\ loop_msg' = m
    /\ UNCHANGED <<now, reqVars, tableVars, answerVars, timer, worker, closeVars>>

\* CheckTimeouts before every dispatch, and every poll interval on its own thread.
LoopSweep ==
    /\ loop = "sweep"
    /\ loop' = "dispatch"
    /\ TakePending(Expired)
    /\ Hold("loop", Expired, "timeout")
    /\ UNCHANGED <<now, reqVars, outcome, cancels, cancelled, loop_msg, timer, worker,
                   closeVars>>

\* OnResponse and OnError: RemovePending, and the loop thread owns the request.
OnAnswer(r, kind) ==
    \/ /\ FindPending(r)
       /\ TakePending({r})
       /\ Hold("loop", {r}, kind)
    \/ /\ ~FindPending(r)
       /\ UNCHANGED <<tableVars, held>>

\* ResetTimeoutByProgressToken: an idle deadline nearer than the extension moves.
ResetTimeoutByProgressToken(t) ==
    /\ deadline' = [r \in Ids |->
           IF token_map[t] = r /\ r \in pending /\ deadline[r] < now + Extension
           THEN now + Extension ELSE deadline[r]]
    /\ UNCHANGED <<pending, absolute, token_map, held>>

\* DispatchMessage, after the loop has delivered the timeouts it found.
LoopDispatch ==
    /\ loop = "dispatch" /\ Free("loop") /\ Nobody("loop")
    /\ loop' = "recv" /\ loop_msg' = NoMsg
    /\ \/ /\ loop_msg.kind \in {"response", "error"}
          /\ OnAnswer(loop_msg.id, loop_msg.kind)
       \/ /\ loop_msg.kind = "progress"
          /\ ResetTimeoutByProgressToken(loop_msg.token)
       \/ /\ loop_msg.kind = "cancelled"     \* HandleCancelled looks at incoming
          /\ UNCHANGED <<tableVars, held>>   \* requests only
       \/ /\ IncomingFilters                 \* a filter kept the message
          /\ UNCHANGED <<tableVars, held>>
    /\ UNCHANGED <<now, reqVars, outcome, cancels, cancelled, timer, worker, closeVars>>

LoopExit ==
    /\ loop = "recv" /\ Free("loop") /\ Nobody("loop") /\ closed
    /\ loop' = "exited"
    /\ UNCHANGED <<now, reqVars, tableVars, answerVars, loop_msg, timer, worker, closeVars>>

TimerCheck ==
    /\ timer = "check" /\ Free("timer") /\ Nobody("timer")
    /\ timer' = IF closed THEN "exited" ELSE "sleep"
    /\ UNCHANGED <<now, reqVars, tableVars, answerVars, loop, loop_msg, worker, closeVars>>

TimerSweep ==
    /\ timer = "sleep"
    /\ timer' = "check"
    /\ TakePending(Expired)
    /\ Hold("timer", Expired, "timeout")
    /\ UNCHANGED <<now, reqVars, outcome, cancels, cancelled, loop, loop_msg, worker,
                   closeVars>>

--------------------------------------------------------------------------------
(* Delivery.  A callback may itself call Close, on the thread that runs it. *)

\* The head of Close, up to the closing of the message channel.
BeginClose(c) ==
    /\ ~closed
    /\ closed' = TRUE /\ close' = "loop" /\ closer' = c

\* DeliverOutcome by h.  A timed-out request is first cancelled at the peer.
DeliverOutcome(h, r, o) ==
    /\ <<r, o>> \in held[h]
    /\ h \in Threads => Free(h)
    /\ outcome' = [outcome EXCEPT ![r] = Append(@, o)]
    /\ held' = [held EXCEPT ![h] = @ \ {<<r, o>>}]
    /\ cancels' = IF o = "timeout" /\ r \in cancel_on_timeout
                  THEN [cancels EXCEPT ![r] = @ + 1] ELSE cancels
    /\ \/ UNCHANGED closeVars
       \/ h \in Threads /\ BeginClose(h)
    /\ UNCHANGED <<now, reqVars, tableVars, cancelled, threadVars>>

\* Who delivers, one request after the other.  DeliverCancellation, on the worker,
\* first looks at closed_.
Deliver(h) ==
    /\ h = "worker" => ~closed
    /\ \E r \in Ids, o \in Outcomes : DeliverOutcome(h, r, o)

\* DeliverCancellation once the session is closed: the item is discarded.
DiscardCancellation(r) ==
    /\ closed /\ Free("worker")
    /\ <<r, "cancelled">> \in held["worker"]
    /\ held' = [held EXCEPT !["worker"] = @ \ {<<r, "cancelled">>}]
    /\ UNCHANGED <<now, reqVars, tableVars, outcome, cancels, cancelled, threadVars,
                   closeVars>>

\* The items that are settled: a cancellation always is.
Ready == held["queue"]

\* One round of ResponseWorkerLoop as far as cancellations go: the queue is
\* drained, and a cancellation is ready at once.
WorkerDrain ==
    /\ worker = "run" /\ Free("worker") /\ Nobody("worker") /\ ~closed
    /\ held["queue"] # {}
    /\ held' = [held EXCEPT !["worker"] = Ready, !["queue"] = {}]
    /\ UNCHANGED <<now, reqVars, tableVars, outcome, cancels, cancelled, threadVars,
                   closeVars>>

\* The worker sees closed_: what it drained is cleared.
WorkerExit ==
    /\ worker = "run" /\ Free("worker") /\ Nobody("worker") /\ closed
    /\ worker' = "exited"
    /\ held' = [held EXCEPT !["queue"] = {}]
    /\ UNCHANGED <<now, reqVars, tableVars, outcome, cancels, cancelled, loop, loop_msg,
                   timer, closeVars>>

--------------------------------------------------------------------------------
(* Close *)

CloseByApp ==
    /\ BeginClose("app")
    /\ UNCHANGED <<now, reqVars, tableVars, answerVars, threadVars>>

Gone(t) == CASE t = "loop"   -> loop \in {"off", "exited"}
             [] t = "timer"  -> timer \in {"off", "exited"}
             [] t = "worker" -> worker \in {"off", "exited"}

AfterJoin == [loop |-> "timer", timer |-> "worker", worker |-> "collect"]

\* JoinThreadSafely: wait for the thread, or detach it when Close runs on it.
JoinThreadSafely(t) == Gone(t) \/ closer = t

Join(t) ==
    /\ close = t
    /\ JoinThreadSafely(t)
    /\ close' = AfterJoin[t]
    /\ UNCHANGED <<now, reqVars, tableVars, answerVars, threadVars, closed, closer>>

\* to_fire: what Close answers with ConnectionClosed.
ToFireMutant == {}

ToFire == pending

\* Everything still pending is taken under the lock, to be answered outside it.
Collect ==
    /\ close = "collect"
    /\ close' = "fire"
    /\ TakePending(pending)
    /\ Hold("close", ToFire, "closed")
    /\ UNCHANGED <<now, reqVars, outcome, cancels, cancelled, threadVars, closed, closer>>

CloseReturns ==
    /\ close = "fire" /\ Nobody("close")
    /\ close' = "done"
    /\ UNCHANGED <<now, reqVars, tableVars, answerVars, threadVars, closed, closer>>

--------------------------------------------------------------------------------
Next ==
    \/ Tick
    \/ Start
    \/ \E total \in Totals : SetMaxTotalTimeout(total)
    \/ \E timeout \in Timeouts, token \in Tokens \cup {NoToken}, cot \in CancelOnTimeout :
         RegisterRequest(timeout, token, cot)
    \/ \E r \in Ids : \/ SendMessage(r) \/ CancelRequest(r)
                      \/ CancelTransportRequest(r) \/ EnqueueCancellation(r)
                      \/ DiscardCancellation(r)
    \/ \E m \in Message : LoopReceive(m)
    \/ LoopSweep \/ LoopDispatch \/ LoopExit
    \/ TimerCheck \/ TimerSweep
    \/ \E h \in Threads \cup {"close", "register"} : Deliver(h)
    \/ WorkerDrain \/ WorkerExit
    \/ CloseByApp \/ (\E t \in Threads : Join(t)) \/ Collect \/ CloseReturns

Spec == Init /\ [][Next]_vars

\* The three threads of the session and a thread that is inside Close, CancelRequest
\* or a callback keep running, and time passes.  Nothing makes the peer answer, the
\* application call anything or a receive return while the session is open.
Fairness ==
    /\ WF_vars(Tick)
    /\ WF_vars(LoopSweep) /\ WF_vars(LoopDispatch) /\ WF_vars(LoopExit)
    /\ WF_vars(TimerCheck) /\ WF_vars(TimerSweep)
    /\ WF_vars(WorkerDrain) /\ WF_vars(WorkerExit)
    /\ \A h \in Threads \cup {"close", "register"} : WF_vars(Deliver(h))
    /\ \A r \in Ids : /\ WF_vars(CancelTransportRequest(r))
                       /\ WF_vars(EnqueueCancellation(r))
                       /\ WF_vars(DiscardCancellation(r))
    /\ \A t \in Threads : WF_vars(Join(t))
    /\ WF_vars(Collect) /\ WF_vars(CloseReturns)

FairSpec == Spec /\ Fairness

--------------------------------------------------------------------------------
(* Safety *)

(* Whatever races for a request (its answer, either thread's timeout sweep, a    *)
(* cancellation, Close), its callbacks run at most once: PendingRequest::callback *)
(* fulfils a promise, which cannot be done twice.                                *)
AtMostOnce == \A r \in Ids : Len(outcome[r]) <= 1

(* A request never disappears: until a callback has run it is in pending_ or in the *)
(* hands of a thread that will run it.  The exception is what the code allows       *)
(* itself: a cancelled request of a session that is closed.                         *)
NeverLost ==
    \A r \in 1..(next_request_id - 1) :
        \/ r \in pending
        \/ \E h \in Holders, o \in Outcomes : <<r, o>> \in held[h]
        \/ outcome[r] # <<>>
        \/ closed /\ r \in cancelled

(* Once Close has emptied pending_ nothing enters it again, although RegisterRequest *)
(* may be running on any number of threads: what it registers after that would hang. *)
NothingPendingAfterClose == close \in {"fire", "done"} => pending = {}

(* progress_token_map_ and absolute_deadlines_ never outlive the request they     *)
(* belong to, whichever of the five paths removed it.                             *)
SideTablesFollowPending ==
    /\ \A t \in Tokens : token_map[t] # NoId => token_map[t] \in pending
    /\ \A r \in Ids : absolute[r] # NoCap => r \in pending

(* The peer is told of a cancellation at most once per request, and never for a    *)
(* request whose answer the session has accepted or that Close has aborted.        *)
CancelsAreJustified ==
    \A r \in Ids :
        /\ cancels[r] <= 1
        /\ outcome[r] # <<>> /\ outcome[r][1] \in {"response", "error", "closed"}
              => cancels[r] = 0

(* The ownership discipline behind these: a PendingRequest is moved, never shared, *)
(* so a request is in pending_, or with exactly one owner for exactly one outcome,  *)
(* or settled; ids not handed out are nowhere; and the peer hears of a cancellation *)
(* only from the owner whose outcome it is.                                         *)
Cancelling == {"cancel", "enqueue", "queue", "worker"}

PendingUntouched ==
    \A r \in pending : r < next_request_id /\ outcome[r] = <<>> /\ cancels[r] = 0

OneOwner ==
    \A h \in Holders, r \in Ids, o \in Outcomes : <<r, o>> \in held[h] =>
        /\ r < next_request_id /\ r \notin pending /\ outcome[r] = <<>>
        /\ \A g \in Holders, q \in Outcomes : <<r, q>> \in held[g] => g = h /\ q = o

OwnerKnowsOutcome ==
    \A h \in Holders, r \in Ids, o \in Outcomes : <<r, o>> \in held[h] =>
        /\ o = "cancelled" <=> h \in Cancelling
        /\ o = "cancelled" => r \in cancelled
        /\ cancels[r] <= IF h \in {"enqueue", "queue", "worker"} THEN 1 ELSE 0

FreshUntouched ==
    \A r \in Ids : r >= next_request_id => outcome[r] = <<>> /\ cancels[r] = 0

Ownership == PendingUntouched /\ OneOwner /\ OwnerKnowsOutcome /\ FreshUntouched

(* A request is in one place only, and every table agrees on where. *)
TablesAgree ==
    TypeOK /\ Ownership /\ SideTablesFollowPending /\ NothingPendingAfterClose /\ CancelsAreJustified

--------------------------------------------------------------------------------
(* Liveness *)

Settled(r) == outcome[r] # <<>>

(* SetMaxTotalTimeout is a hard limit: progress notifications move the idle deadline *)
(* for ever, yet a request registered under a limit is settled, or was cancelled.    *)
TotalTimeoutSettles ==
    \A r \in Ids : (absolute[r] # NoCap /\ timer # "off")
                       ~> (Settled(r) \/ r \in cancelled)

(* Close returns, also when a callback calls it on one of the threads it joins.     *)
CloseTerminates == closed ~> close = "done"

(* A cancelled request is answered, unless the session is closed meanwhile.         *)
CancelSettles ==
    \A r \in Ids : (r \in cancelled /\ worker # "off") ~> (Settled(r) \/ closed)

(* Every request comes to an end, and so does Close. *)
EverythingEnds == TotalTimeoutSettles /\ CancelSettles /\ CloseTerminates
================================================================================
