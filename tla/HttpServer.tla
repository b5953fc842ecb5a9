------------------------------- MODULE HttpServer ------------------------------
(***************************************************************************)
(* The HTTP server (HttpServer, detail::http_server_impl::Impl).           *)
(*                                                                         *)
(* One thread accepts connections, each connection has a thread of its     *)
(* own, one thread sends keep-alive frames, any thread may broadcast an    *)
(* event to the SSE clients, and Stop tears all of it down, also when a    *)
(* request handler calls it.  What a request says is HttpLines' part;      *)
(* here a request is read or it is not, and its handler answers or opens   *)
(* an event stream.                                                        *)
(***************************************************************************)
EXTENDS Naturals, FiniteSets, Sequences

CONSTANTS
    Conns,           \* the connections clients try to make
    Outside,         \* a caller of Stop that is no connection's handler
    Limits,          \* the values of kMaxConnections that are tried
    MaxCasts         \* bound: broadcasts and keep-alive rounds

ASSUME HttpServerAssumption ==
    /\ IsFiniteSet(Conns) /\ Outside \notin Conns
    /\ Limits \subseteq Nat \ {0} /\ MaxCasts \in Nat

Senders == {"broadcast", "keepalive"}

VARIABLES
    limit,       \* kMaxConnections
    running,     \* running_
    listening,   \* listen_fd_ is open
    acceptor,    \* where the accept thread is, and the connection it is to start
    fds,         \* conn_fds_
    threads,     \* conn_threads_
    open,        \* connections whose socket is not closed
    at,          \* connection -> where its thread is
    clients,     \* sse_clients_, by connection
    ready,       \* connections whose SseSendBuffer is ready
    buffer,      \* connection -> frames its SseSendBuffer holds back
    wire,        \* connection -> what was written to its event stream, until it is done with
    sending,     \* sender -> the clients it has still to serve, of the copy it took
    casts,       \* rounds of broadcast and keep-alive begun
    keepalive,   \* the keep-alive thread runs
    stop,        \* where Stop is, who called it, the copies it took
    removed,     \* history: connection -> how often on_disconnect was called for it
    registered   \* history: connections that were SSE clients

vars == <<limit, running, listening, acceptor, fds, threads, open, at, clients, ready, buffer, wire,
          sending, casts, keepalive, stop, removed, registered>>

sse == <<clients, ready, buffer, wire, removed, registered>>

Places == {"none", "refused", "loop", "read", "handling", "stopping", "head", "live",
           "remove", "erase", "ended"}

StopSteps == {"no", "listener", "copy", "close", "keepalive", "accept", "join", "stopped"}

(* Every variable keeps to the values its C++ counterpart can take. *)
TypeOK ==
    /\ limit \in Limits /\ {running, listening, keepalive} \subseteq BOOLEAN
    /\ acceptor \in [at : {"reap", "poll", "spawn", "ended"}, conn : Conns \cup {Outside}]
    /\ fds \subseteq Conns /\ threads \subseteq Conns /\ open \subseteq Conns
    /\ at \in [Conns -> Places]
    /\ clients \subseteq Conns /\ ready \subseteq Conns /\ registered \subseteq Conns
    /\ buffer \in [Conns -> Nat] /\ removed \in [Conns -> Nat]
    /\ wire \in [Conns -> Seq({"head", "frame"})]
    /\ sending \in [Senders -> SUBSET Conns] /\ casts \in 0..MaxCasts
    /\ stop \in [at : StopSteps, origin : Conns \cup {Outside},
                 conns : SUBSET Conns, joining : SUBSET Conns]

Init ==
    /\ limit \in Limits
    /\ running = TRUE /\ listening = TRUE /\ keepalive \in BOOLEAN
    /\ acceptor = [at |-> "reap", conn |-> Outside]
    /\ fds = {} /\ threads = {} /\ open = Conns
    /\ at = [c \in Conns |-> "none"]
    /\ clients = {} /\ ready = {} /\ registered = {}
    /\ buffer = [c \in Conns |-> 0] /\ removed = [c \in Conns |-> 0]
    /\ wire = [c \in Conns |-> <<>>]
    /\ sending = [s \in Senders |-> {}] /\ casts = 0
    /\ stop = [at |-> "no", origin |-> Outside, conns |-> {}, joining |-> {}]

--------------------------------------------------------------------------------
(* AcceptLoop *)

Accepting(place, c) == acceptor' = [at |-> place, conn |-> c]

\* A round begins: threads that are done are joined, and the loop ends once Stop has begun.
Reap ==
    /\ acceptor.at = "reap"
    /\ IF running
       THEN threads' = {c \in threads : at[c] # "ended"} /\ Accepting("poll", Outside)
                /\ UNCHANGED listening
       ELSE Accepting("ended", Outside) /\ listening' = FALSE /\ UNCHANGED threads
    /\ UNCHANGED <<limit, running, fds, open, at, sse, sending, casts, keepalive, stop>>

\* poll times out, or accept fails on the closed listener.
PollIdle ==
    /\ acceptor.at = "poll"
    /\ Accepting(IF running THEN "reap" ELSE "ended", Outside)
    /\ listening' = (listening /\ running)
    /\ UNCHANGED <<limit, running, fds, threads, open, at, sse, sending, casts, keepalive, stop>>

OverLimit == Cardinality(fds) >= limit

\* A connection is accepted: it is listed, or refused with 503 when the list is full.
Accept(c) ==
    /\ acceptor.at = "poll" /\ listening /\ at[c] = "none" /\ c \in open
    /\ IF OverLimit
       THEN /\ at' = [at EXCEPT ![c] = "refused"] /\ open' = open \ {c}
            /\ Accepting("reap", Outside) /\ UNCHANGED fds
       ELSE /\ fds' = fds \cup {c} /\ Accepting("spawn", c) /\ UNCHANGED <<at, open>>
    /\ UNCHANGED <<limit, running, listening, threads, sse, sending, casts, keepalive, stop>>

\* Its thread is started; when that throws, the connection is taken off the list again.
Spawn ==
    LET c == acceptor.conn IN
    /\ acceptor.at = "spawn" /\ Accepting("reap", Outside)
    /\ \/ /\ threads' = threads \cup {c} /\ at' = [at EXCEPT ![c] = "loop"]
          /\ UNCHANGED <<fds, open>>
       \/ /\ fds' = fds \ {c} /\ open' = open \ {c} /\ at' = [at EXCEPT ![c] = "refused"]
          /\ UNCHANGED threads
    /\ UNCHANGED <<limit, running, listening, sse, sending, casts, keepalive, stop>>

--------------------------------------------------------------------------------
(* HandleConnection *)

Moves(c, from, to) == at[c] = from /\ at' = [at EXCEPT ![c] = to]

Rest == <<limit, running, listening, acceptor, threads, sending, casts, keepalive, stop>>

\* The next request is read as long as the server runs.
Loop(c) ==
    /\ Moves(c, "loop", IF running THEN "read" ELSE "erase")
    /\ UNCHANGED <<Rest, fds, open, sse>>

\* A whole request arrives and goes to its handler, or it is answered without one (OPTIONS,
\* a host that is not allowed, an unknown path).
ReadRequest(c) ==
    /\ c \in open
    /\ Moves(c, "read", "handling") \/ Moves(c, "read", "loop")
    /\ UNCHANGED <<Rest, fds, open, sse>>

\* The peer closes, sends nonsense or nothing in time, or the socket is closed.
ReadFails(c) ==
    /\ Moves(c, "read", "erase")
    /\ UNCHANGED <<Rest, fds, open, sse>>

\* The handler answers: the connection is kept or given up (Connection: close, a write that
\* throws).
Answer(c) ==
    /\ \/ Moves(c, "handling", "loop") /\ c \in open /\ UNCHANGED open
       \/ Moves(c, "handling", "erase") /\ UNCHANGED open
    /\ UNCHANGED <<Rest, fds, sse>>

\* An event stream that is closed behind its first body (sse_close_after_write).
AnswerStream(c) ==
    /\ Moves(c, "handling", "erase")
    /\ open' = open \ {c}
    /\ wire' = [wire EXCEPT ![c] = IF c \in open THEN <<"head">> ELSE <<>>]
    /\ UNCHANGED <<Rest, fds, clients, ready, buffer, removed, registered>>

\* An event stream that stays: the client is registered before its header is written.
AddSseClient(c) ==
    /\ Moves(c, "handling", "head")
    /\ clients' = clients \cup {c} /\ registered' = registered \cup {c}
    /\ UNCHANGED <<Rest, fds, open, ready, buffer, wire, removed>>

Frames(n) == [i \in 1..n |-> "frame"]

\* Header and first body are written, and behind them what the buffer has held back; then
\* on_connect is called.
MarkReady(c) ==
    /\ c \in open /\ Moves(c, "head", "live")
    /\ ready' = ready \cup {c}
    /\ wire' = [wire EXCEPT ![c] = @ \o <<"head">> \o Frames(buffer[c])]
    /\ buffer' = [buffer EXCEPT ![c] = 0]
    /\ UNCHANGED <<Rest, fds, open, clients, removed, registered>>

HeadFails(c) ==
    /\ Moves(c, "head", "remove")
    /\ UNCHANGED <<Rest, fds, open, sse>>

\* The read loop of an event stream ends: the server stops, the peer has gone, a read throws.
StreamEnds(c) ==
    /\ Moves(c, "live", "remove")
    /\ UNCHANGED <<Rest, fds, open, sse>>

\* RemoveSseClient, RemoveSseClientEntry: the callback is called by whoever takes it out.
TakeOut(c) ==
    /\ clients' = clients \ {c}
    /\ removed' = [removed EXCEPT ![c] = IF c \in clients THEN @ + 1 ELSE @]

RemoveSseClient(c) ==
    /\ Moves(c, "remove", "erase") /\ TakeOut(c)
    /\ UNCHANGED <<Rest, fds, open, ready, buffer, wire, registered>>

\* The thread takes its connection off the list and is done.
ConnectionEnds(c) ==
    /\ Moves(c, "erase", "ended")
    /\ fds' = fds \ {c} /\ open' = open \ {c} /\ wire' = [wire EXCEPT ![c] = <<>>]
    /\ UNCHANGED <<Rest, clients, ready, buffer, removed, registered>>

--------------------------------------------------------------------------------
(* BroadcastSse and KeepAliveLoop: both copy the clients under the lock and write without it *)

BeginSending(s, S) ==
    /\ sending[s] = {} /\ casts < MaxCasts /\ casts' = casts + 1
    /\ sending' = [sending EXCEPT ![s] = S]
    /\ UNCHANGED <<limit, running, listening, acceptor, fds, threads, open, at, sse, keepalive, stop>>

\* Which clients want the event is the caller's predicate.
BroadcastSse == \E S \in SUBSET clients : S # {} /\ BeginSending("broadcast", S)

KeepAlive == keepalive /\ running /\ clients # {} /\ BeginSending("keepalive", clients)

KeepAliveEnds ==
    /\ keepalive /\ ~running /\ sending["keepalive"] = {}
    /\ keepalive' = FALSE
    /\ UNCHANGED <<limit, running, listening, acceptor, fds, threads, open, at, sse, sending, casts, stop>>

SendMutant(c) ==
    /\ c \in open
    /\ wire' = [wire EXCEPT ![c] = Append(@, "frame")]
    /\ UNCHANGED <<buffer, clients, removed>>

\* SseSendBuffer::Send: held back until the buffer is ready, written from then on.
Send(c) ==
    /\ c \notin ready \/ c \in open
    /\ IF c \in ready
       THEN wire' = [wire EXCEPT ![c] = Append(@, "frame")] /\ UNCHANGED buffer
       ELSE buffer' = [buffer EXCEPT ![c] = @ + 1] /\ UNCHANGED wire
    /\ UNCHANGED <<clients, removed>>

\* The write throws (a slow or closed peer): the client is taken out.
SendFails(c) == c \in ready /\ TakeOut(c) /\ UNCHANGED <<buffer, wire>>

Deliver(s, c) ==
    /\ c \in sending[s]
    /\ Send(c) \/ SendFails(c)
    /\ sending' = [sending EXCEPT ![s] = @ \ {c}]
    /\ UNCHANGED <<limit, running, listening, acceptor, fds, threads, open, at, ready, registered,
                   casts, keepalive, stop>>

--------------------------------------------------------------------------------
(* Stop.  A thread of its own does the work; the caller waits for it. *)

StopAt(from, to) == stop.at = from /\ stop' = [stop EXCEPT !.at = to]

StopBegins(o) ==
    /\ stop.at = "no" /\ stop' = [stop EXCEPT !.at = "listener", !.origin = o]
    /\ running' = FALSE
    /\ IF o = Outside THEN UNCHANGED at ELSE Moves(o, "handling", "stopping")
    /\ UNCHANGED <<limit, listening, acceptor, fds, threads, open, sse, sending, casts, keepalive>>

CloseListener ==
    /\ StopAt("listener", "copy") /\ listening' = FALSE
    /\ UNCHANGED <<limit, running, acceptor, fds, threads, open, at, sse, sending, casts, keepalive>>

CopyConnections ==
    /\ stop.at = "copy" /\ stop' = [stop EXCEPT !.at = "close", !.conns = fds]
    /\ UNCHANGED <<limit, running, listening, acceptor, fds, threads, open, at, sse, sending, casts,
                   keepalive>>

CloseConnections ==
    /\ StopAt("close", "keepalive") /\ open' = open \ stop.conns
    /\ UNCHANGED <<limit, running, listening, acceptor, fds, threads, at, sse, sending, casts, keepalive>>

JoinKeepAlive ==
    /\ ~keepalive /\ StopAt("keepalive", "accept")
    /\ UNCHANGED <<limit, running, listening, acceptor, fds, threads, open, at, sse, sending, casts,
                   keepalive>>

JoinAcceptMutant ==
    /\ stop.at = "accept" /\ stop' = [stop EXCEPT !.at = "join", !.joining = threads]
    /\ threads' = {}
    /\ UNCHANGED <<limit, running, listening, acceptor, fds, open, at, sse, sending, casts, keepalive>>

JoinAccept ==
    /\ acceptor.at = "ended"
    /\ stop.at = "accept" /\ stop' = [stop EXCEPT !.at = "join", !.joining = threads]
    /\ threads' = {}
    /\ UNCHANGED <<limit, running, listening, acceptor, fds, open, at, sse, sending, casts, keepalive>>

JoinedMutant == stop.joining

\* The connection whose handler called Stop is detached, the others are joined.
Joined == {c \in stop.joining : c # stop.origin}

JoinConnections ==
    /\ \A c \in Joined : at[c] = "ended"
    /\ StopAt("join", "stopped") /\ fds' = {}
    /\ UNCHANGED <<limit, running, listening, acceptor, threads, open, at, sse, sending, casts, keepalive>>

\* Stop returns to the handler that called it, which then answers.
StopReturned(c) ==
    /\ stop.at = "stopped" /\ stop.origin = c /\ Moves(c, "stopping", "handling")
    /\ UNCHANGED <<Rest, fds, open, sse>>

--------------------------------------------------------------------------------
ConnStep(c) ==
    \/ Loop(c) \/ ReadRequest(c) \/ ReadFails(c)
    \/ Answer(c) \/ AnswerStream(c) \/ AddSseClient(c)
    \/ MarkReady(c) \/ HeadFails(c) \/ StreamEnds(c)
    \/ RemoveSseClient(c) \/ ConnectionEnds(c) \/ StopReturned(c)

StopStep ==
    \/ CloseListener \/ CopyConnections \/ CloseConnections
    \/ JoinKeepAlive \/ JoinAccept \/ JoinConnections

AcceptStep == Reap \/ PollIdle \/ Spawn \/ \E c \in Conns : Accept(c)

SendStep == KeepAliveEnds \/ \E s \in Senders, c \in Conns : Deliver(s, c)

Next ==
    \/ AcceptStep \/ StopStep \/ SendStep \/ BroadcastSse \/ KeepAlive
    \/ \E c \in Conns : ConnStep(c)
    \/ \E o \in Conns \cup {Outside} : StopBegins(o)

\* Threads run, every read of a connection has a deadline (30 s), every handler returns and
\* an event stream's read loop looks at running_ after each deadline; before Stop it may last.
Fairness ==
    /\ WF_vars(AcceptStep) /\ WF_vars(StopStep) /\ WF_vars(SendStep)
    /\ \A c \in Conns : WF_vars(at[c] # "live" /\ ConnStep(c)) /\ WF_vars(~running /\ StreamEnds(c))

Spec == Init /\ [][Next]_vars /\ Fairness

--------------------------------------------------------------------------------
(* When Stop returns, the accept thread, the keep-alive thread and every connection thread *)
(* have ended, but the one whose handler called Stop: a connection accepted while Stop was *)
(* at work is not missed.                                                                  *)
StopLeavesNoThread ==
    stop.at = "stopped" =>
        /\ acceptor.at = "ended" /\ ~keepalive
        /\ \A c \in Conns \ {stop.origin} : at[c] \in {"none", "refused", "ended"}

(* on_disconnect is called exactly once for a client that was registered and is one no     *)
(* more, whoever took it out: its own thread, a broadcast or the keep-alive.               *)
DisconnectOnce ==
    \A c \in Conns : removed[c] = IF c \in registered \ clients THEN 1 ELSE 0

(* An event that is broadcast while a stream is being opened is not written before the     *)
(* stream's header, and none of it is dropped: SseSendBuffer keeps it for MarkReady.       *)
FramesFollowHead ==
    \A c \in Conns :
        /\ wire[c] # <<>> => wire[c][1] = "head"
        /\ \A i \in 2..Len(wire[c]) : wire[c][i] = "frame"
        /\ c \in ready => buffer[c] = 0

(* Never more than kMaxConnections connections have a thread at work. *)
ConnectionLimit ==
    Cardinality({c \in Conns : at[c] \notin {"none", "refused", "ended"}}) <= limit

(* A connection within the limit is a header, then frames, then one farewell. *)
StreamsInOrder == TypeOK /\ ConnectionLimit /\ DisconnectOnce /\ FramesFollowHead

(* Stop returns, also when a handler calls it and is then among the threads to be joined,  *)
(* and when the keep-alive thread is asleep or a client does not read.                     *)
StopReturns == (stop.at # "no") ~> (stop.at = "stopped")
================================================================================
