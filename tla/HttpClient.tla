------------------------------- MODULE HttpClient -------------------------------
(***************************************************************************)
(* StreamableHttpClientTransport: the send loop, messages posted by        *)
(* detached threads, the listening stream and its reconnects, a POST's     *)
(* stream resumed with GET, cancellation, and Close; with the HTTP client  *)
(* (net::HttpClient on a TCP socket) each of them reads its answer with.   *)
(*                                                                         *)
(* Requests go through a queue and are posted one at a time; notifications *)
(* and answers are posted at once, each by a thread of its own.  Threads   *)
(* meet in the slots for the client that reads now (active_post_client_,   *)
(* listen_client_, resume_client_), through which Close and CancelRequest  *)
(* end a read that is waiting for the server.                              *)
(***************************************************************************)
EXTENDS Naturals, Sequences, FiniteSets

CONSTANTS
    Requests,        \* requests of the session, by their ids
    Helpers,         \* detached threads of LaunchImmediatePost
    AnswerId,        \* Helper -> the id in what it posts: a request's if it is an answer that
                     \* happens to carry the same id, NoId for a notification
    NoId,
    Starts,          \* instances tried: what is sent, and whether the transport listens
    MaxReconnects,   \* kMaxListenReconnectAttempts
    MaxBlocks        \* bound: blocks the server sends on a stream

Workers == {"sender", "listener"} \cup Helpers
Ids == Requests \cup {NoId}

ASSUME HttpClientAssumption ==
    /\ Helpers \cap {"sender", "listener", "nobody"} = {}
    /\ AnswerId \in [Helpers -> Ids] /\ NoId \notin Requests
    /\ Starts \subseteq [sent : SUBSET (Requests \cup Helpers), listens : BOOLEAN]
    /\ MaxReconnects \in Nat /\ MaxBlocks \in Nat

VARIABLES
    listens,     \* ShouldListenStream
    running,     \* running_
    pending,     \* requests that the session may still cancel
    unsent,      \* requests, and helpers, that the session has still to send
    queue,       \* send_queue_
    starting,    \* a caller of SendMessageAsync is about to start the listening stream
    requested,   \* listen_requested_
    at,          \* worker -> where it is
    job,         \* worker -> id, attempt, whether it resumes, and what it has read
    client,      \* worker -> its HttpClient
    closed,      \* worker -> closed_ of that client
    active,      \* active_post_key_ and active_post_client_
    listening,   \* listen_client_ is set
    resuming,    \* the worker of resume_client_
    cancelled,   \* cancelled_requests_
    picked,      \* CancelRequest has read the slot: the worker whose client it closes
    lastEvent,   \* last_event_id_ is not empty
    reconnects,  \* listen reconnects so far
    closer,      \* how far Close has got
    got          \* history: request -> what its POST has put into the channel

vars == <<listens, running, pending, unsent, queue, starting, requested, at, job, client, closed, active, listening,
          resuming, cancelled, picked, lastEvent, reconnects, closer, got>>
slots == <<active, listening, resuming>>
start == <<starting, requested>>
exchange == <<client, closed>>

NoWorker == "nobody"
NoSlot == [id |-> NoId, who |-> NoWorker]
Fresh == [id |-> NoId, attempt |-> 0, resumes |-> FALSE, reply |-> "none", blocks |-> 0, resolved |-> FALSE]
Replies == {"none", "json", "stream", "accepted", "challenge", "error"}

(* Every variable keeps to the values its C++ counterpart can take. *)
TypeOK ==
    /\ {listens, running, starting, requested, listening, lastEvent} \subseteq BOOLEAN
    /\ unsent \subseteq Requests \cup Helpers /\ pending \subseteq Requests /\ queue \in Seq(Requests)
    /\ at \in [Workers -> {"none", "loop", "checked", "asleep", "ready", "exchange", "answered",
                           "pause", "deleting", "ended"}]
    /\ job \in [Workers -> [id : Ids, attempt : 0..1, resumes : BOOLEAN, reply : Replies,
                            blocks : 0..MaxBlocks, resolved : BOOLEAN]]
    /\ client \in [Workers -> {"none", "new", "connecting", "head", "stream", "over", "broken"}]
    /\ closed \in [Workers -> BOOLEAN]
    /\ active \in [id : Ids, who : Workers \cup {NoWorker}]
    /\ resuming \in Workers \cup {NoWorker} /\ picked \in Workers \cup {NoWorker}
    /\ cancelled \subseteq Requests /\ reconnects \in 0..MaxReconnects
    /\ closer \in {"idle", "stopped", "signalled", "clients", "joining", "joined", "done"}
    /\ got \in [Requests -> SUBSET {"answer", "failure"}]

\* Start
Init ==
    /\ \E scene \in Starts :
          /\ unsent = scene.sent /\ pending = scene.sent \cap Requests /\ listens = scene.listens
    /\ running = TRUE /\ queue = <<>>
    /\ starting = FALSE /\ requested = FALSE
    /\ at = [w \in Workers |-> IF w = "sender" THEN "loop" ELSE "none"]
    /\ job = [w \in Workers |-> Fresh]
    /\ client = [w \in Workers |-> "none"] /\ closed = [w \in Workers |-> FALSE]
    /\ active = NoSlot /\ listening = FALSE /\ resuming = NoWorker
    /\ cancelled = {} /\ picked = NoWorker
    /\ lastEvent = FALSE /\ reconnects = 0 /\ closer = "idle"
    /\ got = [r \in Requests |-> {}]

--------------------------------------------------------------------------------
(* net::HttpClient *)

\* A client made for a request, not yet connected.
NewClient(w) == client' = [client EXCEPT ![w] = "new"] /\ UNCHANGED closed

NoClient(w) == client' = [client EXCEPT ![w] = "none"] /\ closed' = [closed EXCEPT ![w] = FALSE]

\* HttpClient::Close of the clients in W: the first one ends a read.  A socket that is just being
\* connected is opened again by the end of TcpSocket::Connect.
CloseClients(W) ==
    /\ closed' = [w \in Workers |-> closed[w] \/ (w \in W /\ client[w] \notin {"none", "over", "broken"})]
    /\ client' = [w \in Workers |-> IF w \in W /\ ~closed[w] /\ client[w] \in {"head", "stream"}
                                    THEN "broken" ELSE client[w]]

Reading(w) == at[w] = "exchange"

\* Request: a closed client throws at once.
BeginRequest(w) ==
    /\ Reading(w) /\ client[w] = "new"
    /\ client' = [client EXCEPT ![w] = IF closed[w] THEN "broken" ELSE "connecting"]
    /\ UNCHANGED <<listens, running, pending, unsent, queue, start, at, job, closed, slots, cancelled, picked, lastEvent,
                   reconnects, closer, got>>

\* TcpSocket::Connect: connected, refused, or out of time.
Connect(w) ==
    /\ Reading(w) /\ client[w] = "connecting"
    /\ \E to \in {"head", "broken"} : client' = [client EXCEPT ![w] = to]
    /\ UNCHANGED <<listens, running, pending, unsent, queue, start, at, job, closed, slots, cancelled, picked, lastEvent,
                   reconnects, closer, got>>

\* The head of a response, and with it all of a body of known length; or none before the timeout.
\* Only requests are answered with a stream.
ReadHead(w) ==
    /\ Reading(w) /\ client[w] = "head"
    /\ \/ /\ w \in {"sender", "listener"}
          /\ client' = [client EXCEPT ![w] = "stream"] /\ job' = [job EXCEPT ![w].reply = "stream"]
       \/ \E reply \in Replies \ {"none", "stream"} :
             /\ client' = [client EXCEPT ![w] = "over"] /\ job' = [job EXCEPT ![w].reply = reply]
       \/ client' = [client EXCEPT ![w] = "broken"] /\ UNCHANGED job
    /\ UNCHANGED <<listens, running, pending, unsent, queue, start, at, closed, slots, cancelled, picked, lastEvent,
                   reconnects, closer, got>>

\* StreamBody: the stream ends, stays silent for too long, or this client has been closed.
EndStream(w) ==
    /\ Reading(w) /\ client[w] = "stream"
    /\ \E to \in IF closed[w] THEN {"broken"} ELSE {"over", "broken"} : client' = [client EXCEPT ![w] = to]
    /\ UNCHANGED <<listens, running, pending, unsent, queue, start, at, job, closed, slots, cancelled, picked, lastEvent,
                   reconnects, closer, got>>

\* Something goes into the channel for a request.
Delivers(id, what) == got' = IF id = NoId THEN got ELSE [got EXCEPT ![id] = @ \cup {what}]

\* A block of a stream: DispatchSseBlock or ProcessListenBlock.  Its event id is stored and its
\* message is delivered.  A resumed stream is left once it has given the answer.
ReadBlock(w) ==
    /\ Reading(w) /\ client[w] = "stream" /\ ~closed[w] /\ job[w].blocks < MaxBlocks
    /\ lastEvent' \in {lastEvent, TRUE}
    /\ \/ /\ job[w].id # NoId /\ ~job[w].resolved
          /\ job' = [job EXCEPT ![w].blocks = @ + 1, ![w].resolved = TRUE]
          /\ client' = [client EXCEPT ![w] = IF job[w].resumes THEN "over" ELSE @]
          /\ Delivers(job[w].id, "answer")
       \/ job' = [job EXCEPT ![w].blocks = @ + 1] /\ UNCHANGED <<client, got>>
    /\ UNCHANGED <<listens, running, pending, unsent, queue, start, at, closed, slots, cancelled, picked, reconnects, closer>>

--------------------------------------------------------------------------------
(* Messages of the session *)

\* SendMessageAsync of a request
SendRequest(r) ==
    /\ running /\ r \in unsent /\ unsent' = unsent \ {r}
    /\ queue' = Append(queue, r)
    /\ at' = [at EXCEPT !["sender"] = IF @ = "asleep" THEN "loop" ELSE @]
    /\ at["sender"] # "checked"
    /\ UNCHANGED <<listens, running, pending, start, job, exchange, slots, cancelled, picked, lastEvent, reconnects, closer, got>>

\* SendMessageAsync of anything else (LaunchImmediatePost).  The first one is the notification
\* "initialized", which starts the listening stream.
SendNow(h) ==
    /\ running /\ h \in unsent /\ unsent' = unsent \ {h}
    /\ starting' = (starting \/ (listens /\ ~requested))
    /\ at' = [at EXCEPT ![h] = "ready"] /\ job' = [job EXCEPT ![h] = [Fresh EXCEPT !.id = AnswerId[h]]]
    /\ UNCHANGED <<listens, running, pending, queue, requested, exchange, slots, cancelled, picked, lastEvent, reconnects, closer, got>>

StartListenerMutant ==
    /\ starting /\ starting' = FALSE
    /\ IF ~requested
       THEN requested' = TRUE /\ at' = [at EXCEPT !["listener"] = "loop"]
       ELSE UNCHANGED <<requested, at>>
    /\ UNCHANGED <<listens, running, pending, unsent, queue, job, exchange, slots, cancelled, picked, lastEvent, reconnects, closer, got>>

\* MaybeStartListenStream, under listen_mutex_: the transport may have been closed in the meantime.
StartListener ==
    /\ starting /\ starting' = FALSE
    /\ IF running /\ ~requested
       THEN requested' = TRUE /\ at' = [at EXCEPT !["listener"] = "loop"]
       ELSE UNCHANGED <<requested, at>>
    /\ UNCHANGED <<listens, running, pending, unsent, queue, job, exchange, slots, cancelled, picked, lastEvent, reconnects, closer, got>>

--------------------------------------------------------------------------------
(* SendLoop *)

\* The next message, or none: the thread is about to sleep and still holds send_mutex_.
TakeMessage ==
    /\ at["sender"] = "loop"
    /\ \/ /\ ~running /\ at' = [at EXCEPT !["sender"] = "deleting"] /\ UNCHANGED <<queue, job>>
       \/ /\ running /\ queue # <<>> /\ queue' = Tail(queue)
          /\ at' = [at EXCEPT !["sender"] = "ready"]
          /\ job' = [job EXCEPT !["sender"] = [Fresh EXCEPT !.id = Head(queue)]]
       \/ running /\ queue = <<>> /\ at' = [at EXCEPT !["sender"] = "checked"] /\ UNCHANGED <<queue, job>>
    /\ UNCHANGED <<listens, running, pending, unsent, start, exchange, slots, cancelled, picked, lastEvent, reconnects, closer, got>>

\* The thread sleeps and gives the mutex back.
Sleep ==
    /\ at["sender"] = "checked" /\ at' = [at EXCEPT !["sender"] = "asleep"]
    /\ UNCHANGED <<listens, running, pending, unsent, queue, start, job, exchange, slots, cancelled, picked, lastEvent,
                   reconnects, closer, got>>

\* The end of the loop: DoDelete, which has its own client and a timeout.
DoDelete ==
    /\ at["sender"] = "deleting" /\ at' = [at EXCEPT !["sender"] = "ended"]
    /\ UNCHANGED <<listens, running, pending, unsent, queue, start, job, exchange, slots, cancelled, picked, lastEvent,
                   reconnects, closer, got>>

--------------------------------------------------------------------------------
(* DoPost *)

After(w) == IF w = "sender" THEN "loop" ELSE "ended"

Done(w) == at' = [at EXCEPT ![w] = After(w)] /\ job' = [job EXCEPT ![w] = Fresh]

\* ClearActivePost, by the thread of that client
ClearActivePost(w) == active' = IF active.who = w THEN NoSlot ELSE active

\* An attempt: a request that has been cancelled is not posted.
BeginPost(w) ==
    /\ at[w] = "ready"
    /\ IF job[w].id \in cancelled
       THEN cancelled' = cancelled \ {job[w].id} /\ Done(w) /\ UNCHANGED <<exchange, active>>
       ELSE /\ active' = [id |-> job[w].id, who |-> w] /\ NewClient(w)
            /\ at' = [at EXCEPT ![w] = "exchange"] /\ UNCHANGED <<cancelled, job>>
    /\ UNCHANGED <<listens, running, pending, unsent, queue, start, listening, resuming, picked, lastEvent, reconnects,
                   closer, got>>

Post(w) == Reading(w) /\ w # "listener" /\ ~job[w].resumes

\* The exchange throws: NotifyError, and nothing for the request itself.
PostFails(w) ==
    /\ Post(w) /\ client[w] = "broken"
    /\ ClearActivePost(w) /\ NoClient(w) /\ Done(w)
    /\ UNCHANGED <<listens, running, pending, unsent, queue, start, listening, resuming, cancelled, picked, lastEvent,
                   reconnects, closer, got>>

\* The exchange is over; what it brought for a cancelled request is dropped.
PostReturns(w) ==
    /\ Post(w) /\ client[w] = "over"
    /\ ClearActivePost(w) /\ NoClient(w)
    /\ cancelled' = cancelled \ {job[w].id}
    /\ IF job[w].id \in cancelled THEN Done(w) ELSE at' = [at EXCEPT ![w] = "answered"] /\ UNCHANGED job
    /\ UNCHANGED <<listens, running, pending, unsent, queue, start, listening, resuming, picked, lastEvent,
                   reconnects, closer, got>>

Answered(w, reply) == at[w] = "answered" /\ job[w].reply = reply


\* 401 or 403 with a handler that has a new token, a DPoP nonce, or a mismatch of headers after
\* which the tools' annotations have been read again: once more.
Retry(w) ==
    /\ Answered(w, "challenge") /\ job[w].attempt = 0
    /\ job' = [job EXCEPT ![w].attempt = 1] /\ at' = [at EXCEPT ![w] = "ready"]
    /\ UNCHANGED <<listens, running, pending, unsent, queue, start, exchange, slots, cancelled, picked, lastEvent,
                   reconnects, closer, got>>

\* Another error, or the same again: the body is a message of its own, a 404 without one is
\* reported as an expired session for the id in what was posted, and otherwise NotifyError is
\* called.
ReportError(w) ==
    /\ Answered(w, "challenge") \/ Answered(w, "error")
    /\ Done(w)
    /\ (w = "sender" /\ Delivers(job[w].id, "failure")) \/ UNCHANGED got
    /\ UNCHANGED <<listens, running, pending, unsent, queue, start, exchange, slots, cancelled, picked, lastEvent,
                   reconnects, closer>>

\* 202: nothing follows.
Accepted(w) ==
    /\ Answered(w, "accepted") /\ Done(w)
    /\ UNCHANGED <<listens, running, pending, unsent, queue, start, exchange, slots, cancelled, picked, lastEvent,
                   reconnects, closer, got>>

\* The answer as a JSON body
TakeJson(w) ==
    /\ Answered(w, "json") /\ Done(w)
    /\ (w = "sender" /\ Delivers(job[w].id, "answer")) \/ UNCHANGED got
    /\ UNCHANGED <<listens, running, pending, unsent, queue, start, exchange, slots, cancelled, picked, lastEvent,
                   reconnects, closer>>

UnfinishedMutant(w) == Answered(w, "stream") /\ running

\* The stream has ended and the answer was not on it.
Unfinished(w) == Answered(w, "stream") /\ running /\ ~job[w].resolved

\* The answer was on the stream, or the transport is closed.
StreamDone(w) ==
    /\ Answered(w, "stream") /\ ~Unfinished(w) /\ Done(w)
    /\ UNCHANGED <<listens, running, pending, unsent, queue, start, exchange, slots, cancelled, picked, lastEvent,
                   reconnects, closer, got>>

\* ResumePostStreamViaGet: after a pause, from the last event.
ResumePostStreamViaGet(w) ==
    /\ Unfinished(w) /\ ~job[w].resumes /\ lastEvent /\ job[w].id \notin cancelled
    /\ job' = [job EXCEPT ![w].resumes = TRUE, ![w].blocks = 0]
    /\ active' = [id |-> job[w].id, who |-> w] /\ resuming' = w
    /\ NewClient(w) /\ at' = [at EXCEPT ![w] = "exchange"]
    /\ UNCHANGED <<listens, running, pending, unsent, queue, start, listening, cancelled, picked, lastEvent, reconnects, closer, got>>

\* The GET is over, with the answer or without; whatever its status, only its stream counts.
ResumeEnds(w) ==
    /\ Reading(w) /\ job[w].resumes /\ client[w] \in {"over", "broken"}
    /\ ClearActivePost(w) /\ resuming' = NoWorker /\ NoClient(w)
    /\ at' = [at EXCEPT ![w] = "answered"] /\ job' = [job EXCEPT ![w].reply = "stream"]
    /\ UNCHANGED <<listens, running, pending, unsent, queue, start, listening, cancelled, picked, lastEvent, reconnects, closer, got>>

\* There is nothing to resume from, or it did not help: the request has failed.
ReportEnd(w) ==
    /\ Unfinished(w) /\ (job[w].resumes \/ ~lastEvent \/ job[w].id \in cancelled)
    /\ Done(w) /\ Delivers(job[w].id, "failure")
    /\ UNCHANGED <<listens, running, pending, unsent, queue, start, exchange, slots, cancelled, picked, lastEvent,
                   reconnects, closer>>

--------------------------------------------------------------------------------
(* The listening stream *)

\* RunListenStream and the first part of DoListenGet: the client is put in its slot under
\* listen_mutex_, and only while the transport is running.
BeginListen ==
    /\ at["listener"] = "loop"
    /\ IF running
       THEN /\ listening' = TRUE /\ NewClient("listener") /\ at' = [at EXCEPT !["listener"] = "exchange"]
            /\ job' = [job EXCEPT !["listener"] = Fresh]
       ELSE at' = [at EXCEPT !["listener"] = "ended"] /\ UNCHANGED <<listening, exchange, job>>
    /\ UNCHANGED <<listens, running, pending, unsent, queue, start, active, resuming, cancelled, picked, lastEvent,
                   reconnects, closer, got>>

\* Statuses that mean no listening stream: Unsupported and GivenUp.
NoListening == client["listener"] = "over" /\ job["listener"].reply \in {"challenge", "error"}

\* The GET ends; the thread pauses before the next one, or gives up.
ListenEnds ==
    /\ Reading("listener") /\ client["listener"] \in {"over", "broken"}
    /\ listening' = FALSE /\ NoClient("listener")
    /\ IF NoListening \/ reconnects = MaxReconnects
       THEN at' = [at EXCEPT !["listener"] = "ended"] /\ UNCHANGED reconnects
       ELSE at' = [at EXCEPT !["listener"] = "pause"] /\ reconnects' = reconnects + 1
    /\ UNCHANGED <<listens, running, pending, unsent, queue, start, job, active, resuming, cancelled, picked, lastEvent,
                   closer, got>>

\* SleepInterruptibly
Pause ==
    /\ at["listener"] = "pause" /\ at' = [at EXCEPT !["listener"] = "loop"]
    /\ UNCHANGED <<listens, running, pending, unsent, queue, start, job, exchange, slots, cancelled, picked, lastEvent,
                   reconnects, closer, got>>

--------------------------------------------------------------------------------
(* CancelRequest *)

\* The id is noted, entries that are too old are dropped, and the slot is read.
CancelRequest(r) ==
    /\ picked = NoWorker /\ r \in pending \ unsent /\ pending' = pending \ {r}
    /\ cancelled' \in {cancelled \cup {r}, {r}}
    /\ picked' = IF active.id = r THEN active.who ELSE NoWorker
    /\ UNCHANGED <<listens, running, unsent, queue, start, at, job, exchange, slots, lastEvent, reconnects, closer, got>>

\* The client is closed, without the mutex.  It may be gone by now: the call then reaches nothing,
\* or the client that took its place on the thread's stack.
CancelCloses ==
    /\ picked # NoWorker /\ picked' = NoWorker
    /\ CloseClients({picked})
    /\ UNCHANGED <<listens, running, pending, unsent, queue, start, at, job, slots, cancelled, lastEvent, reconnects, closer, got>>

--------------------------------------------------------------------------------
(* Close *)

CloseBegins ==
    /\ closer = "idle" /\ closer' = "stopped" /\ running' = FALSE
    /\ UNCHANGED <<listens, pending, unsent, queue, start, at, job, exchange, slots, cancelled, picked, lastEvent, reconnects, got>>

CloseSignalsMutant ==
    /\ closer = "stopped" /\ closer' = "signalled"
    /\ at' = [at EXCEPT !["sender"] = IF @ = "asleep" THEN "loop" ELSE @]
    /\ UNCHANGED <<listens, running, pending, unsent, queue, start, job, exchange, slots, cancelled, picked, lastEvent, reconnects, got>>

\* The send loop is woken under send_mutex_.
CloseSignals ==
    /\ closer = "stopped" /\ at["sender"] # "checked" /\ closer' = "signalled"
    /\ at' = [at EXCEPT !["sender"] = IF @ = "asleep" THEN "loop" ELSE @]
    /\ UNCHANGED <<listens, running, pending, unsent, queue, start, job, exchange, slots, cancelled, picked, lastEvent, reconnects, got>>

\* Clients in the slots of the listening and the resumed stream are closed; a POST's is not.
CloseSlots ==
    /\ closer = "signalled" /\ closer' = "clients"
    /\ CloseClients((IF listening THEN {"listener"} ELSE {}) \cup ({resuming} \ {NoWorker}))
    /\ UNCHANGED <<listens, running, pending, unsent, queue, start, at, job, slots, cancelled, picked, lastEvent, reconnects, got>>

\* The listening thread is joined if there is one now.
CloseTakes ==
    /\ closer = "clients"
    /\ closer' = IF at["listener"] = "none" THEN "joined" ELSE "joining"
    /\ UNCHANGED <<listens, running, pending, unsent, queue, start, at, job, exchange, slots, cancelled, picked, lastEvent,
                   reconnects, got>>

JoinListener ==
    /\ closer = "joining" /\ at["listener"] = "ended" /\ closer' = "joined"
    /\ UNCHANGED <<listens, running, pending, unsent, queue, start, at, job, exchange, slots, cancelled, picked, lastEvent,
                   reconnects, got>>

\* The send loop is joined and the channel is closed.
JoinSender ==
    /\ closer = "joined" /\ at["sender"] = "ended" /\ closer' = "done"
    /\ UNCHANGED <<listens, running, pending, unsent, queue, start, at, job, exchange, slots, cancelled, picked, lastEvent,
                   reconnects, got>>

--------------------------------------------------------------------------------
\* An exchange comes to an end by itself: connecting and reading have timeouts.
Proceeds(w) == BeginRequest(w) \/ Connect(w) \/ ReadHead(w)

Work(w) ==
    \/ Proceeds(w) \/ BeginPost(w) \/ PostFails(w) \/ PostReturns(w) \/ Retry(w) \/ ReportError(w)
    \/ Accepted(w) \/ TakeJson(w) \/ StreamDone(w) \/ ResumePostStreamViaGet(w) \/ ResumeEnds(w) \/ ReportEnd(w)

Listen == BeginListen \/ ListenEnds \/ Pause
SendLoop == TakeMessage \/ Sleep \/ DoDelete
Close == CloseSignals \/ CloseSlots \/ CloseTakes \/ JoinListener \/ JoinSender

Next ==
    \/ \E w \in Workers : Work(w) \/ ReadBlock(w) \/ EndStream(w)
    \/ \E r \in Requests : SendRequest(r) \/ CancelRequest(r)
    \/ \E h \in Helpers : SendNow(h)
    \/ StartListener \/ SendLoop \/ Listen \/ CancelCloses \/ CloseBegins \/ Close

Spec == Init /\ [][Next]_vars

\* Threads go on; a stream need not end (the server may keep it alive), except for a client that
\* has been closed.
FairSpec ==
    /\ Spec
    /\ \A w \in Workers : WF_vars(Work(w)) /\ WF_vars(closed[w] /\ EndStream(w))
    /\ WF_vars(Listen) /\ WF_vars(SendLoop) /\ WF_vars(Close)
    /\ WF_vars(StartListener) /\ WF_vars(CancelCloses)

--------------------------------------------------------------------------------
(* Properties *)

(* Once Close has returned neither the send loop nor the listening thread runs, even if a        *)
(* caller of SendMessageAsync was about to start the listening stream: both use the transport    *)
(* without owning it.                                                                            *)
NoThreadOutlivesClose == closer = "done" => at["sender"] = "ended" /\ at["listener"] \in {"none", "ended"}

(* The slots through which Close and CancelRequest reach a client name a client that exists,     *)
(* though three kinds of threads fill and empty them and every one may fail.                     *)
SlotsAreAlive ==
    /\ active # NoSlot => client[active.who] # "none"
    /\ listening => client["listener"] # "none"
    /\ resuming # NoWorker => client[resuming] # "none"

(* Nothing reaches for a transport, a thread or a client that is gone.                            *)
NothingDangles == TypeOK /\ NoThreadOutlivesClose /\ SlotsAreAlive

(* A request's POST does not both give its answer and report that it failed, however its stream  *)
(* was broken and resumed.                                                                       *)
AnsweredOrFailed == \A r \in Requests : got[r] # {"answer", "failure"}

(* Close returns while the server keeps a listening or a resumed stream open or says nothing     *)
(* at all; only a POST whose answer is a stream that the server keeps alive for ever holds it up. *)
CloseReturns ==
    \/ <>[](client["sender"] = "stream" /\ ~job["sender"].resumes)
    \/ (closer # "idle") ~> (closer = "done")
================================================================================
