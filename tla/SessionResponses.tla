---------------------------- MODULE SessionResponses ---------------------------
(***************************************************************************)
(* The incoming half of McpSessionHandler: from OnRequest to the answer on *)
(* the wire.                                                               *)
(*                                                                         *)
(* The message loop runs the handler of a request and hands its future to  *)
(* the response worker through response_queue_, which has a capacity.  The *)
(* worker polls the futures and sends the answers.  notifications/cancelled*)
(* raises the flag a handler polls, found under the key made of session id *)
(* and request id.  Close stops both threads.  Any thread may call it: one *)
(* of the application, or one of the two when it runs application code (a  *)
(* handler, a callback, a span handler); then it is not joined, and goes   *)
(* on with what it has in its hand when Close has returned.                *)
(*                                                                         *)
(* The condition variable is modelled with the mutex it needs: a notify    *)
(* that reaches nobody is lost, and the predicate is evaluated before the  *)
(* thread is asleep.                                                       *)
(***************************************************************************)
EXTENDS Naturals, Sequences, FiniteSets

CONSTANTS
    Requests,        \* the requests the peer may send, each at most once
    Cancellations,   \* outgoing requests whose cancellation passes the queue
    Arrivals,        \* which of the two may come: a behaviour plays one of these sets
    Session, Id,     \* request -> session id and request id, as sequences of characters
    Capacities,      \* the values SetResponseQueueCapacity is called with
    DefaultCapacity, \* kDefaultResponseQueueCapacity
    None             \* no request

ASSUME ConstantsAssumption ==
    /\ IsFiniteSet(Requests) /\ Requests \cap Cancellations = {} /\ None \notin Requests
    /\ Arrivals \subseteq SUBSET (Requests \cup Cancellations)
    /\ Session \in [Requests -> Seq(Nat)] /\ Id \in [Requests -> Seq(Nat)]
    /\ Capacities \subseteq Nat \ {0} /\ DefaultCapacity \in Nat \ {0}

Items == Requests \cup Cancellations

VARIABLES
    closed,       \* closed_
    capacity,     \* response_queue_capacity_
    outstanding,  \* outstanding_responses_
    stage,        \* where each item stands; see Stages
    future,       \* the future of a request: "none", "open" or "ready"
    flags,        \* incoming_cancel_flags_: key -> the request whose flag it holds
    raised,       \* the requests whose flag is in the table and set
    answers,      \* request -> answers handed to the transport
    loop, cur,    \* message loop: where it stands, the request in its hand
    worker,       \* response worker
    qlock,        \* response_queue_mutex_ when held across steps
    close,        \* how far Close has come
    closer,       \* the thread that runs Close
    within        \* history: what that thread had in its hand when it called Close

vars == <<closed, capacity, outstanding, stage, future, flags, raised, answers, loop, cur,
          worker, qlock, close, closer, within>>

\* new -> asked -> handling -> made -> queue -> waiting -> ready -> freed -> erased ->
\* sending -> done, or to done by way of refused.  An item is moved from container to
\* container, so it has one stage; the order within response_queue_ and waiting is left
\* out.  dropped: given up by Close.  absent: not among those that come.
Stages == {"new", "asked", "handling", "refused", "made", "queue", "waiting", "ready",
           "freed", "erased", "sending", "done", "dropped", "absent"}

In(s) == {i \in Items : stage[i] = s}

\* SessionRequestKey: the length of the session id goes before the two texts.
SessionRequestKey(r) == <<Len(Session[r])>> \o Session[r] \o Id[r]

Keys == {SessionRequestKey(r) : r \in Requests}

(* Every variable keeps to the values its C++ counterpart can take. *)
TypeOK ==
    /\ closed \in BOOLEAN
    /\ capacity \in Nat \ {0}
    /\ outstanding \in Nat
    /\ stage \in [Items -> Stages]
    /\ future \in [Requests -> {"none", "open", "ready"}]
    /\ flags \in [Keys -> Requests \cup {None}]
    /\ raised \subseteq Requests
    /\ answers \in [Requests -> Nat]
    /\ loop \in {"recv", "check", "handle", "refuse", "enqueue", "notify", "exited"}
    /\ cur \in Requests \cup {None}
    /\ worker \in {"drain", "pred", "gosleep", "asleep", "awake", "scan", "deliver", "poll",
                   "polling", "exited"}
    /\ qlock \in {"free", "worker"}
    /\ close \in {"idle", "joinloop", "barrier", "notify", "joinworker", "clear", "done"}
    /\ closer \in {"none", "app", "loop", "worker"}
    /\ within \in Items \cup {None}

Init ==
    /\ closed = FALSE /\ capacity = DefaultCapacity /\ outstanding = 0
    /\ \E coming \in Arrivals : stage = [i \in Items |-> IF i \in coming THEN "new" ELSE "absent"]
    /\ future = [r \in Requests |-> "none"]
    /\ flags = [k \in Keys |-> None] /\ raised = {}
    /\ answers = [r \in Requests |-> 0]
    /\ loop = "recv" /\ cur = None /\ worker = "drain" /\ qlock = "free" /\ close = "idle"
    /\ closer = "none" /\ within = None

--------------------------------------------------------------------------------
(* Helpers *)

\* EraseIncomingCancellationFlag.
EraseFlag(r) ==
    /\ flags' = [flags EXCEPT ![SessionRequestKey(r)] = None]
    /\ raised' = raised \ {r}

Answered(r) == [answers EXCEPT ![r] = @ + 1]

\* response_cv_.notify_one and notify_all: there is one thread to wake.
Notified == IF worker = "asleep" THEN "awake" ELSE worker

\* A thread inside Close is busy there until Close returns.
Free(t) == closer # t \/ close = "done"

LoopAt(p) == loop = p /\ Free("loop")

NotClose == UNCHANGED <<close, closer, within>>

\* The test of EnqueueResponse.
QueueFull == outstanding >= capacity

\* A refused answer is not queued as well.
AfterRefusalMutant == "queue"

AfterRefusal == "refused"

--------------------------------------------------------------------------------
(* Message loop *)

\* A peer uses an id again only after the answer to its last use.
PeerMaySend(r) ==
    /\ stage[r] = "new"
    /\ \A q \in Requests \ {r} :
           Session[q] = Session[r] /\ Id[q] = Id[r] => stage[q] \in {"new", "done", "absent"}

\* MessageLoop takes a request; behind this closed_ is not looked at before the queue.
\* CheckTimeouts, the span handler and on_request_cb_ run before it is refused or accepted.
Receive(r) ==
    /\ LoopAt("recv") /\ ~closed /\ PeerMaySend(r)
    /\ stage' = [stage EXCEPT ![r] = "asked"]
    /\ loop' = "check" /\ cur' = r
    /\ UNCHANGED <<closed, capacity, outstanding, future, flags, raised, answers, worker,
                   qlock>>
    /\ NotClose

\* OnRequest up to the handler: not valid in this era, malformed _meta, unsupported
\* version, unknown method, missing capability, bad requestState.
Reject ==
    /\ LoopAt("check")
    /\ stage' = [stage EXCEPT ![cur] = "refused"]
    /\ loop' = "refuse"
    /\ UNCHANGED <<closed, capacity, outstanding, future, flags, raised, answers, cur, worker,
                   qlock>>
    /\ NotClose

\* OnRequest passes its checks and registers the cancellation flag.
Accept ==
    /\ LoopAt("check")
    /\ stage' = [stage EXCEPT ![cur] = "handling"]
    /\ flags' = [flags EXCEPT ![SessionRequestKey(cur)] = cur]
    /\ loop' = "handle"
    /\ UNCHANGED <<closed, capacity, outstanding, future, raised, answers, cur, worker, qlock>>
    /\ NotClose

\* The handler throws: the flag goes, then the error.
HandlerThrows ==
    /\ LoopAt("handle")
    /\ stage' = [stage EXCEPT ![cur] = "refused"]
    /\ EraseFlag(cur)
    /\ loop' = "refuse"
    /\ UNCHANGED <<closed, capacity, outstanding, future, answers, cur, worker, qlock>>
    /\ NotClose

\* reject and SendErrorResponse: the span ends, and the error is handed to the transport
\* without another look at closed_.
SendErrorResponse ==
    /\ LoopAt("refuse")
    /\ stage' = [stage EXCEPT ![cur] = "done"]
    /\ answers' = Answered(cur)
    /\ loop' = "recv" /\ cur' = None
    /\ UNCHANGED <<closed, capacity, outstanding, future, flags, raised, worker, qlock>>
    /\ NotClose

\* The handler returns with its promise kept (or broken), or left to another thread.
HandlerReturns(f) ==
    /\ LoopAt("handle")
    /\ future' = [future EXCEPT ![cur] = f]
    /\ stage' = [stage EXCEPT ![cur] = "made"]
    /\ loop' = "enqueue"
    /\ UNCHANGED <<closed, capacity, outstanding, flags, raised, answers, cur, worker, qlock>>
    /\ NotClose

\* Another thread keeps the promise of r, or lets go of it.  Behind a dropped answer there
\* is no future that shows it.
Fulfil(r) ==
    /\ future[r] = "open" /\ stage[r] # "dropped"
    /\ future' = [future EXCEPT ![r] = "ready"]
    /\ UNCHANGED <<closed, capacity, outstanding, stage, flags, raised, answers, loop, cur,
                   worker, qlock>>
    /\ NotClose

\* EnqueueResponse.  A closed session drops the answer; a full queue refuses it.
EnqueueResponse ==
    /\ loop = "enqueue" /\ qlock = "free"
    /\ \/ /\ closed
          /\ stage' = [stage EXCEPT ![cur] = "dropped"]
          /\ loop' = "recv" /\ cur' = None
          /\ UNCHANGED <<outstanding, flags, raised>>
       \/ /\ ~closed /\ QueueFull
          /\ stage' = [stage EXCEPT ![cur] = AfterRefusal]
          /\ EraseFlag(cur)
          /\ loop' = "refuse"
          /\ UNCHANGED <<outstanding, cur>>
       \/ /\ ~closed /\ ~QueueFull
          /\ outstanding' = outstanding + 1
          /\ stage' = [stage EXCEPT ![cur] = "queue"]
          /\ loop' = "notify"
          /\ UNCHANGED <<flags, raised, cur>>
    /\ UNCHANGED <<closed, capacity, future, answers, worker, qlock>>
    /\ NotClose

LoopNotify ==
    /\ loop = "notify"
    /\ worker' = Notified
    /\ loop' = "recv" /\ cur' = None
    /\ UNCHANGED <<closed, capacity, outstanding, stage, future, flags, raised, answers,
                   qlock>>
    /\ NotClose

\* notifications/cancelled of the request with key k, which the loop may have taken before
\* closed_ was set.
FlagFound(k) == flags[k] # None

HandleCancelled(k) ==
    /\ LoopAt("recv") /\ FlagFound(k)
    /\ raised' = raised \cup {flags[k]}
    /\ UNCHANGED <<closed, capacity, outstanding, stage, future, flags, answers, loop, cur,
                   worker, qlock>>
    /\ NotClose

LoopExit ==
    /\ LoopAt("recv") /\ closed
    /\ loop' = "exited"
    /\ UNCHANGED <<closed, capacity, outstanding, stage, future, flags, raised, answers, cur,
                   worker, qlock>>
    /\ NotClose

--------------------------------------------------------------------------------
(* Application threads *)

SetResponseQueueCapacity(c) ==
    /\ qlock = "free"
    /\ capacity' = c
    /\ UNCHANGED <<closed, outstanding, stage, future, flags, raised, answers, loop, cur,
                   worker, qlock>>
    /\ NotClose

\* EnqueueCancellation: through the same queue, outside the count.  The notify that
\* follows is merged: only the worker could act in between, and it holds no stale view.
EnqueueCancellation(c) ==
    /\ stage[c] = "new" /\ qlock = "free"
    /\ stage' = [stage EXCEPT ![c] = IF closed THEN "dropped" ELSE "queue"]
    /\ worker' = IF closed THEN worker ELSE Notified
    /\ UNCHANGED <<closed, capacity, outstanding, future, flags, raised, answers, loop, cur,
                   qlock>>
    /\ NotClose

--------------------------------------------------------------------------------
(* Response worker *)

WorkerOnly == UNCHANGED <<closed, capacity, future, loop, cur, close, closer, within>>

Drop(S) == [i \in Items |-> IF i \in S THEN "dropped" ELSE stage[i]]

\* The locked region at the top of ResponseWorkerLoop.
WorkerDrain ==
    /\ worker = "drain" /\ qlock = "free"
    /\ LET all == In("queue") \cup In("waiting") IN
       \/ /\ closed
          /\ stage' = Drop(all)
          /\ worker' = "exited"
          /\ UNCHANGED qlock
       \/ /\ ~closed /\ all = {}
          /\ worker' = "pred" /\ qlock' = "worker"
          /\ UNCHANGED stage
       \/ /\ ~closed /\ all # {}
          /\ stage' = [i \in Items |-> IF i \in all THEN "waiting" ELSE stage[i]]
          /\ worker' = "scan"
          /\ UNCHANGED qlock
    /\ UNCHANGED <<outstanding, flags, raised, answers>> /\ WorkerOnly

\* response_cv_.wait with an empty waiting list: the predicate, under the lock.
WorkerPredicate ==
    /\ worker = "pred"
    /\ \/ closed /\ worker' = "drain" /\ qlock' = "free"
       \/ ~closed /\ worker' = "gosleep" /\ UNCHANGED qlock
    /\ UNCHANGED <<outstanding, stage, flags, raised, answers>> /\ WorkerOnly

WorkerSleeps ==
    /\ worker = "gosleep"
    /\ worker' = "asleep" /\ qlock' = "free"
    /\ UNCHANGED <<outstanding, stage, flags, raised, answers>> /\ WorkerOnly

WorkerWakes ==
    /\ worker = "awake" /\ qlock = "free"
    /\ \/ /\ In("queue") # {} \/ closed
          /\ worker' = "drain" /\ UNCHANGED qlock
       \/ /\ In("queue") = {} /\ ~closed
          /\ worker' = "gosleep" /\ qlock' = "worker"
    /\ UNCHANGED <<outstanding, stage, flags, raised, answers>> /\ WorkerOnly

\* What is settled leaves the waiting list.
WorkerScan ==
    LET settled == {i \in In("waiting") : i \in Cancellations \/ future[i] = "ready"} IN
    /\ worker = "scan"
    /\ stage' = [i \in Items |-> IF i \in settled THEN "ready" ELSE stage[i]]
    /\ worker' = IF settled = {} THEN "poll" ELSE "deliver"
    /\ UNCHANGED <<outstanding, flags, raised, answers, qlock>> /\ WorkerOnly

Delivering == In("freed") \cup In("erased") \cup In("sending")

\* While a cancellation is at "sending" its callback runs.
DeliverCancellation(c) ==
    /\ worker = "deliver" /\ Delivering = {} /\ stage[c] = "ready"
    /\ stage' = [stage EXCEPT ![c] = IF closed THEN "dropped" ELSE "sending"]
    /\ UNCHANGED <<outstanding, flags, raised, answers, worker, qlock>> /\ WorkerOnly

\* ReleaseResponseSlot, before the answer goes out.
SlotsAfterRelease == IF outstanding > 0 THEN outstanding - 1 ELSE 0

ReleaseResponseSlot(r) ==
    /\ worker = "deliver" /\ qlock = "free" /\ Delivering = {} /\ stage[r] = "ready"
    /\ outstanding' = SlotsAfterRelease
    /\ stage' = [stage EXCEPT ![r] = "freed"]
    /\ UNCHANGED <<flags, raised, answers, worker, qlock>> /\ WorkerOnly

\* DeliverResponse in three parts: closed_ is looked at twice on the way, and behind the
\* second look the span ends and the answer goes out.
EraseIncomingCancellationFlag(r) ==
    /\ stage[r] = "freed"
    /\ \/ closed /\ stage' = [stage EXCEPT ![r] = "dropped"] /\ UNCHANGED <<flags, raised>>
       \/ ~closed /\ stage' = [stage EXCEPT ![r] = "erased"] /\ EraseFlag(r)
    /\ UNCHANGED <<outstanding, answers, worker, qlock>> /\ WorkerOnly

DeliverResponse(r) ==
    /\ stage[r] = "erased"
    /\ stage' = [stage EXCEPT ![r] = IF closed THEN "dropped" ELSE "sending"]
    /\ UNCHANGED <<outstanding, flags, raised, answers, worker, qlock>> /\ WorkerOnly

CancellationDelivered(c) ==
    /\ stage[c] = "sending" /\ Free("worker")
    /\ stage' = [stage EXCEPT ![c] = "done"]
    /\ UNCHANGED <<outstanding, flags, raised, answers, worker, qlock>> /\ WorkerOnly

SendMessage(r) ==
    /\ stage[r] = "sending" /\ Free("worker")
    /\ stage' = [stage EXCEPT ![r] = "done"]
    /\ answers' = Answered(r)
    /\ UNCHANGED <<outstanding, flags, raised, worker, qlock>> /\ WorkerOnly

WorkerDelivered ==
    /\ worker = "deliver" /\ Delivering = {} /\ In("ready") = {}
    /\ worker' = "drain"
    /\ UNCHANGED <<outstanding, stage, flags, raised, answers, qlock>> /\ WorkerOnly

\* Nothing was settled: look at closed_ under the lock, then wait_for the poll interval.
WorkerPoll ==
    /\ worker = "poll" /\ qlock = "free"
    /\ \/ closed /\ stage' = Drop(In("waiting")) /\ worker' = "exited"
       \/ ~closed /\ worker' = "polling" /\ UNCHANGED stage
    /\ UNCHANGED <<outstanding, flags, raised, answers, qlock>> /\ WorkerOnly

\* wait_for returns at the latest after kResponsePollInterval.
PollReturnsMutant == In("queue") # {} \/ closed

PollReturns == TRUE

WorkerPolled ==
    /\ worker = "polling" /\ qlock = "free" /\ PollReturns
    /\ worker' = "drain"
    /\ UNCHANGED <<outstanding, stage, flags, raised, answers, qlock>> /\ WorkerOnly

--------------------------------------------------------------------------------
(* Close *)

CloseOnly == UNCHANGED <<capacity, outstanding, stage, future, answers, loop, cur, qlock>>

\* Where the loop runs application code: with a message that is no request, before a request
\* is accepted, in its handler, and while the span of a refused one ends.
LoopCalls == loop \in {"recv", "check", "handle", "refuse"}

\* Thread t calls Close with item h in its hand.
CloseBegins(t, h) ==
    /\ ~closed
    /\ \/ t = "app" /\ h = None
       \/ t = "loop" /\ LoopCalls /\ h = cur
       \/ t = "worker" /\ h \in In("sending")
    /\ closed' = TRUE /\ close' = "joinloop"
    /\ closer' = t /\ within' = h
    /\ UNCHANGED <<flags, raised, worker>> /\ CloseOnly

\* JoinThreadSafely of each of the two: a thread is not waited for when Close runs on it.
LoopJoined == loop = "exited" \/ closer = "loop"

CloseJoinsLoop ==
    /\ close = "joinloop" /\ LoopJoined
    /\ close' = "barrier"
    /\ UNCHANGED <<closed, closer, within, flags, raised, worker>> /\ CloseOnly

\* The empty locked region before notify_all.
BarrierPasses == qlock = "free"

CloseBarrier ==
    /\ close = "barrier" /\ BarrierPasses
    /\ close' = "notify"
    /\ UNCHANGED <<closed, closer, within, flags, raised, worker>> /\ CloseOnly

CloseNotifies ==
    /\ close = "notify"
    /\ worker' = Notified
    /\ close' = "joinworker"
    /\ UNCHANGED <<closed, closer, within, flags, raised>> /\ CloseOnly

WorkerJoinedMutant == TRUE

WorkerJoined == worker = "exited" \/ closer = "worker"

CloseJoinsWorker ==
    /\ close = "joinworker" /\ WorkerJoined
    /\ close' = "clear"
    /\ UNCHANGED <<closed, closer, within, flags, raised, worker>> /\ CloseOnly

CloseClears ==
    /\ close = "clear"
    /\ flags' = [k \in Keys |-> None] /\ raised' = {}
    /\ close' = "done"
    /\ UNCHANGED <<closed, closer, within, worker>> /\ CloseOnly

--------------------------------------------------------------------------------
\* The loop with a request in its hand, or told to stop.
LoopWorks ==
    \/ Reject \/ Accept \/ HandlerThrows \/ SendErrorResponse
    \/ \E f \in {"open", "ready"} : HandlerReturns(f)
    \/ EnqueueResponse \/ LoopNotify \/ LoopExit

LoopNext ==
    \/ \E r \in Requests : Receive(r)
    \/ \E k \in Keys : HandleCancelled(k)
    \/ LoopWorks

WorkerNext ==
    \/ WorkerDrain \/ WorkerPredicate \/ WorkerSleeps \/ WorkerWakes \/ WorkerScan
    \/ \E c \in Cancellations : DeliverCancellation(c) \/ CancellationDelivered(c)
    \/ \E r \in Requests : \/ ReleaseResponseSlot(r) \/ EraseIncomingCancellationFlag(r)
                           \/ DeliverResponse(r) \/ SendMessage(r)
    \/ WorkerDelivered \/ WorkerPoll \/ WorkerPolled

CloseNext ==
    \/ \E t \in {"app", "loop", "worker"}, h \in Items \cup {None} : CloseBegins(t, h)
    \/ CloseJoinsLoop \/ CloseBarrier \/ CloseNotifies \/ CloseJoinsWorker \/ CloseClears

Next ==
    \/ LoopNext \/ WorkerNext \/ CloseNext
    \/ \E r \in Requests : Fulfil(r)
    \/ \E c \in Capacities : SetResponseQueueCapacity(c)
    \/ \E c \in Cancellations : EnqueueCancellation(c)

Spec == Init /\ [][Next]_vars

\* The worker runs, Close runs once begun, and the loop runs while it has a request in
\* its hand or has been told to stop (handlers return).  Nothing makes a promise be kept.
Fairness ==
    /\ WF_vars(WorkerNext)
    /\ WF_vars(CloseNext /\ closed)
    /\ WF_vars(LoopWorks)

FairSpec == Spec /\ Fairness

--------------------------------------------------------------------------------
(* Safety *)

(* A request is answered at most once, by the loop or by the worker. *)
AtMostOneAnswer == \A r \in Requests : answers[r] <= 1

(* outstanding_responses_ counts exactly the answers that were accepted and not yet  *)
(* released, so that no slot leaks or is released twice, and stays within the        *)
(* largest capacity in force.                                                        *)
SlotAccounting ==
    /\ worker # "exited" =>
         outstanding = Cardinality({r \in Requests : stage[r] \in {"queue", "waiting", "ready"}})
    /\ \E c \in Capacities \cup {DefaultCapacity} : outstanding <= c

(* While a request is being worked on, the flag under its key is its own: two sessions *)
(* that use the same id, and an id used again after its answer, do not disturb it.     *)
(* Close clears the table when both threads are gone.                                  *)
FlagIsOwn ==
    close # "done" =>
        \A r \in Requests :
            stage[r] \in {"handling", "made", "queue", "waiting", "ready", "freed"}
              => flags[SessionRequestKey(r)] = r

(* Each request has one answer, one slot until then, and a flag that only it raises. *)
AnswersAccounted == TypeOK /\ AtMostOneAnswer /\ SlotAccounting /\ FlagIsOwn

(* After Close has returned no answer goes out, whichever thread called it, but to the *)
(* one request within which it was called: the loop or the worker, which Close does    *)
(* not wait for when it runs on it, still refuses or answers what it has in its hand.  *)
SilentAfterClose ==
    [][close = "done" => \A r \in Requests \ {within} : answers'[r] = answers[r]]_vars

--------------------------------------------------------------------------------
(* Liveness *)

(* An answer that is ready goes out, even if it became ready while the worker was idle *)
(* and nothing else arrives, unless the session is closed.                             *)
ReadyIsAnswered ==
    \A r \in Requests :
        (stage[r] \in {"queue", "waiting"} /\ future[r] = "ready")
            ~> (stage[r] = "done" \/ closed)

(* Close returns: it never waits for a promise that is not kept, and its notify is     *)
(* never lost.                                                                         *)
CloseTerminates == closed ~> close = "done"

(* What is ready is sent, and Close returns. *)
NothingHangs == ReadyIsAnswered /\ CloseTerminates
================================================================================
