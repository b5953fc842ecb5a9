------------------------------ MODULE HttpStreams ------------------------------
(***************************************************************************)
(* StreamableHttpServerTransport: sessions, requests that wait for their   *)
(* answer, notifications that ride on a request's stream, event streams    *)
(* and their replay.                                                       *)
(*                                                                         *)
(* Each POST and GET runs on the thread of its connection (HttpServer);    *)
(* answers and notifications come from threads of the session handler      *)
(* through SendMessageAsync.  They meet in the tables under pending_mutex_ *)
(* (pending_responses_ and the tables of held-open requests), in the       *)
(* sessions, the session store and the event store.                        *)
(*                                                                         *)
(* Authorization and the checks of headers and bodies that come before a   *)
(* session is looked up change nothing here (see HttpLines); a request     *)
(* they refuse does not appear.                                            *)
(***************************************************************************)
EXTENDS EventStore

CONSTANTS
    Sessions,      \* session ids that MakeSessionId hands out
    NoSession,     \* the empty session id
    Posts,         \* POST requests
    Gets,          \* GET requests of event streams
    Ids,           \* JSON-RPC ids, as numbers
    Nobody,        \* no POST
    Scenes,        \* instances tried: the POSTs and GETs that take part, and the two bounds:
                   \* messages the server sends by itself, and writes that throw
    Capacity,      \* kMaxHttpSessions
    MaxInflight,   \* kMaxStatelessInflight
    Window         \* kMaxSseReplayEvents

ASSUME HttpStreamsAssumption ==
    /\ Scenes \subseteq [who : SUBSET (Posts \cup Gets), notes : Nat, failures : Nat]
    /\ Owners = Sessions \cup {NoSession} /\ NoSession \notin Sessions /\ Nobody \notin Posts
    /\ Ids \subseteq Nat /\ {Capacity, MaxInflight, Window} \subseteq Nat

VARIABLES
    mode,       \* "stateless", "memory", or "durable": with a session store and a FileEventStore
    scene,      \* what has still to come: POSTs and GETs, messages, writes that throw
    sessions,   \* sessions_: session -> "none", "live", or "idle" once its time is over
    stored,     \* the session store: session -> the same
    used,       \* session ids handed out
    post,       \* POST -> its place, session, id, kind and answer
    pending,    \* pending_responses_: key -> the POST whose promise it holds
    held,       \* hold_open_requests_
    filters,    \* the keys of listen_filters_ whose filter selects list notifications
    route,      \* progress_token_routes_: token -> key
    frames,     \* request_stream_frames_: key -> sessions whose notifications are buffered
    inflight,   \* stateless_inflight_
    asked,      \* requests the session handler has and has not answered: POST and key
    events,     \* the event store
    stream,     \* GET or listening POST -> its place, session, what it was sent
    casting,    \* events appended and not yet broadcast: owner, number, whether it is filtered
    deleting,   \* sessions whose DELETE has still to empty the tables of requests
    failed      \* history: a write of the event store has thrown

tables == <<pending, held, filters, route, frames>>
store == <<events, casting, failed>>
known == <<sessions, stored, used>>
vars == <<mode, scene, known, post, tables, inflight, asked, store, stream, deleting>>

Keys == Owners \X Ids
Tokens == {"a"}
\* A request is plain, held open (modern), or held open to listen, with a filter that selects
\* list notifications or with one that does not.
Kinds == {"plain", "held", "listen", "quiet"}
Streams == Posts \cup Gets
Scene == [who : SUBSET Streams, notes : Nat, failures : Nat]
NoKey == <<NoSession, 0>>
Closed == <<NoSession, -1>>

\* A POST that has not come or has been answered.
Away == [at |-> "away", key |-> NoKey, kind |-> "plain", answer |-> NoKey]

\* A stream that is not there.
Shut == [at |-> "none", session |-> NoSession, deaf |-> FALSE, from |-> 0,
         fits |-> 0, got |-> {}, gap |-> {}]

(* Every variable keeps to the values its C++ counterpart can take. *)
TypeOK ==
    /\ mode \in {"stateless", "memory", "durable"} /\ scene \in Scene
    /\ {sessions, stored} \subseteq [Sessions -> {"none", "live", "idle"}]
    /\ used \subseteq Sessions /\ deleting \subseteq Sessions /\ asked \subseteq Posts \X Keys
    /\ post \in [Posts -> [at : {"away", "resolved", "admitted", "registered", "waiting", "expired"},
                           key : Keys \cup {NoKey}, kind : Kinds,
                           answer : Keys \cup {NoKey, Closed}]]
    /\ pending \in [Keys -> Posts \cup {Nobody}]
    /\ held \subseteq Keys /\ filters \subseteq Keys
    /\ route \in [Tokens -> Keys \cup {NoKey}]
    /\ frames \in [Keys -> SUBSET Owners]
    /\ inflight \in Nat /\ failed \in BOOLEAN
    /\ events \in Stores
    /\ \A c \in casting : c \in [owner : Owners, id : Nat, filtered : BOOLEAN]
    /\ stream \in [Streams -> [at : {"none", "opening", "open"}, session : Owners, deaf : BOOLEAN,
                               from : Nat, fits : Nat, got : SUBSET Nat, gap : SUBSET Nat]]

Init ==
    /\ mode \in {"stateless", "memory", "durable"} /\ scene \in Scenes
    /\ used \in {S \in SUBSET Sessions : Cardinality(S) <= IF mode = "stateless" THEN 0 ELSE Capacity}
    /\ sessions = [s \in Sessions |-> IF s \in used THEN "live" ELSE "none"]
    /\ stored = [s \in Sessions |-> IF s \in used /\ mode = "durable" THEN "live" ELSE "none"]
    /\ post = [p \in Posts |-> Away]
    /\ pending = [k \in Keys |-> Nobody] /\ held = {} /\ filters = {}
    /\ route = [t \in Tokens |-> NoKey] /\ frames = [k \in Keys |-> {}]
    /\ inflight = 0 /\ asked = {} /\ failed = FALSE
    /\ events = EmptyStore(mode = "durable")
    /\ casting = {} /\ deleting = {}
    /\ stream = [x \in Streams |-> Shut]

--------------------------------------------------------------------------------
(* Sessions *)

\* Time passes: a session has not been seen for kSessionIdleTimeoutMs, here and in the store.
GoesIdle(s) ==
    /\ sessions[s] = "live" \/ stored[s] = "live"
    /\ sessions' = [sessions EXCEPT ![s] = IF @ = "live" THEN "idle" ELSE @]
    /\ stored' = [stored EXCEPT ![s] = IF @ = "live" THEN "idle" ELSE @]
    /\ UNCHANGED <<mode, scene, used, post, tables, inflight, asked, store, stream, deleting>>

\* TouchSession succeeds: the session is known and is seen now.  The store decides if there is
\* one, and a session it knows is taken up here again.
Touch(s) ==
    /\ IF mode = "durable" THEN stored[s] = "live" ELSE sessions[s] = "live"
    /\ sessions' = [sessions EXCEPT ![s] = "live"]
    /\ UNCHANGED stored

\* It fails: what was left of the session is forgotten, here and (Load) in the store.
TouchFails(s) ==
    /\ IF mode = "durable" THEN stored[s] # "live" ELSE sessions[s] # "live"
    /\ sessions' = [sessions EXCEPT ![s] = "none"]
    /\ stored' = [stored EXCEPT ![s] = "none"]

Live(table) == {s \in Sessions : table[s] = "live"}

Swept(table) == [s \in Sessions |-> IF table[s] = "live" THEN "live" ELSE "none"]

\* ResolveSession for initialize without a session: idle sessions are swept, a new one is made
\* where there is room.
Create(s) ==
    /\ s \notin used /\ used' = used \cup {s}
    /\ Cardinality(Live(sessions)) < Capacity
    /\ sessions' = [Swept(sessions) EXCEPT ![s] = "live"]
    /\ IF mode = "durable"
       THEN Cardinality(Live(stored)) < Capacity /\ stored' = [Swept(stored) EXCEPT ![s] = "live"]
       ELSE UNCHANGED stored

\* No room: 503 (a session saved in the store first is removed from it again).
CreateFails ==
    /\ \/ Cardinality(Live(sessions)) >= Capacity
          /\ sessions' = Swept(sessions) /\ stored' = Swept(stored)
       \/ mode = "durable" /\ Cardinality(Live(stored)) >= Capacity
          /\ stored' = Swept(stored) /\ UNCHANGED sessions
    /\ UNCHANGED used

\* ResolveSession: a request names a session that is known, or none.
Resolve(s) ==
    /\ UNCHANGED used
    /\ \/ s = NoSession /\ UNCHANGED <<sessions, stored>>
       \/ mode # "stateless" /\ s \in used /\ Touch(s)

ResolveFails ==
    /\ mode # "stateless"
    /\ (\E s \in used : TouchFails(s) /\ UNCHANGED used) \/ CreateFails

--------------------------------------------------------------------------------
(* HandlePost *)

Key(p) == post[p].key

Comes(p) == p \in scene.who /\ scene' = [scene EXCEPT !.who = @ \ {p}]

Enters(p, k, kind) ==
    /\ Comes(p)
    /\ post' = [post EXCEPT ![p] = [at |-> "resolved", key |-> k, kind |-> kind, answer |-> NoKey]]

\* A request whose headers and body are in order gets its session; initialize may get a new one.
Arrive(p, s, i, kind) ==
    /\ Resolve(s) \/ (mode # "stateless" /\ s \in Sessions /\ kind = "plain" /\ Create(s))
    /\ Enters(p, <<s, i>>, kind)
    /\ UNCHANGED <<mode, tables, inflight, asked, store, stream, deleting>>

\* It does not: 404 or 503.
ArriveFails(p) ==
    /\ Comes(p) /\ ResolveFails
    /\ UNCHANGED <<mode, post, tables, inflight, asked, store, stream, deleting>>

Finish(p) == post' = [post EXCEPT ![p] = Away]

\* Parameter headers that do not match the body: 400; a closed channel, a busy stateless
\* server: 503.  A notification ends here as well, with 202.
Refuse(p) ==
    /\ post[p].at = "resolved" /\ Finish(p)
    /\ UNCHANGED <<mode, scene, known, tables, inflight, asked, store, stream, deleting>>

\* The count of requests in flight is read here and raised in the next step.
Admit(p) ==
    /\ post[p].at = "resolved"
    /\ mode = "stateless" => inflight < MaxInflight
    /\ post' = [post EXCEPT ![p].at = "admitted"]
    /\ UNCHANGED <<mode, scene, known, tables, inflight, asked, store, stream, deleting>>

Counted(p) == IF mode = "stateless" THEN 1 ELSE 0

\* The promise is entered, and with it what a held-open request needs.
Register(p) ==
    /\ post[p].at = "admitted" /\ post' = [post EXCEPT ![p].at = "registered"]
    /\ inflight' = inflight + Counted(p)
    /\ pending' = [pending EXCEPT ![Key(p)] = p]
    /\ held' = IF post[p].kind # "plain" THEN held \cup {Key(p)} ELSE held
    /\ filters' = IF post[p].kind = "listen" THEN filters \cup {Key(p)} ELSE filters
    /\ \/ UNCHANGED route
       \/ post[p].kind = "held" /\ \E t \in Tokens : route' = [route EXCEPT ![t] = Key(p)]
    /\ UNCHANGED <<mode, scene, known, frames, asked, store, stream, deleting>>

\* EraseRequestStreamStateLocked
EraseStreamState(k) ==
    /\ held' = held \ {k} /\ filters' = filters \ {k}
    /\ frames' = [frames EXCEPT ![k] = {}]
    /\ route' = [t \in Tokens |-> IF route[t] = k THEN NoKey ELSE route[t]]

\* The request goes to the session handler.
Forward(p) ==
    /\ post[p].at = "registered"
    /\ post' = [post EXCEPT ![p].at = "waiting"] /\ asked' = asked \cup {<<p, Key(p)>>}
    /\ UNCHANGED <<mode, scene, known, tables, inflight, store, stream, deleting>>

\* The request is given up: TrySend has failed (503), or its time is over (504).
GiveUp(p) ==
    /\ pending' = [pending EXCEPT ![Key(p)] = Nobody] /\ EraseStreamState(Key(p))
    /\ Finish(p) /\ inflight' = inflight - Counted(p)
    /\ UNCHANGED <<mode, scene, known, asked, store, stream, deleting>>

SendFails(p) == post[p].at = "registered" /\ GiveUp(p)

\* wait_until returns without an answer; the lock is taken in the next step.
Expire(p) ==
    /\ post[p].at = "waiting" /\ post[p].answer = NoKey
    /\ post' = [post EXCEPT ![p].at = "expired"]
    /\ UNCHANGED <<mode, scene, known, tables, inflight, asked, store, stream, deleting>>

Expired(p) == post[p].at = "expired" /\ GiveUp(p)

\* The answer is there: a held-open request takes its frames along, and a listening one
\* becomes an event stream, but for an error that is answered with 400 or 404.
TakeAnswer(p) ==
    /\ post[p].at = "waiting" /\ post[p].answer # NoKey
    /\ Finish(p) /\ inflight' = inflight - Counted(p)
    /\ IF post[p].kind = "plain"
       THEN UNCHANGED <<held, filters, route, frames>>
       ELSE EraseStreamState(Key(p))
    /\ \/ /\ post[p].kind \in {"listen", "quiet"}
          /\ stream' = [stream EXCEPT ![p] = [Shut EXCEPT !.at = "opening", !.session = Key(p)[1],
                                                          !.deaf = post[p].kind = "quiet"]]
       \/ /\ post[p].kind \in {"listen", "quiet"} => post[p].answer # Closed
          /\ UNCHANGED stream
    /\ UNCHANGED <<mode, scene, known, pending, asked, store, deleting>>

--------------------------------------------------------------------------------
(* SendMessageAsync *)

\* The text of j ends with the text of i.
EndsWith(j, i) == \E k \in 1..3 : i < 10^k /\ (k > 1 => i >= 10^(k-1)) /\ j % 10^k = i

MatchesMutant(s, i) ==
    IF pending[<<s, i>>] # Nobody THEN {<<s, i>>}
    ELSE LET C == {k \in Keys : pending[k] # Nobody /\ EndsWith(k[2], i)} IN
         IF Cardinality(C) = 1 THEN C ELSE {}

\* match_pending: the key itself, or for an answer of no session the one key that ends so.
Matches(s, i) ==
    IF pending[<<s, i>>] # Nobody THEN {<<s, i>>}
    ELSE LET C == {k \in Keys : pending[k] # Nobody /\ EndsWith(k[2], i)} IN
         IF s = NoSession /\ Cardinality(C) = 1 THEN C ELSE {}

\* A write of the file store throws.
Throws(n) ==
    /\ scene.failures > 0 /\ failed' = TRUE
    /\ scene' = [scene EXCEPT !.failures = @ - 1, !.notes = n]

\* An event is appended, to be broadcast in a later step; a stateless server keeps none.
\* n messages are left to be sent.
AppendEvent(o, filtered, n) ==
    \/ /\ mode = "stateless" /\ UNCHANGED <<events, failed, stream>>
       /\ casting' = casting \cup {[owner |-> o, id |-> 0, filtered |-> filtered]}
       /\ scene' = [scene EXCEPT !.notes = n]
    \/ /\ mode # "stateless" /\ events' = Appended(events, o)
       /\ casting' = casting \cup {[owner |-> o, id |-> NextId(events, o), filtered |-> filtered]}
       /\ stream' = [x \in Streams |->
                        IF stream[x].at = "opening"
                        THEN [stream[x] EXCEPT !.gap = @ \cup {NextId(events, o)}] ELSE stream[x]]
       /\ scene' = [scene EXCEPT !.notes = n] /\ UNCHANGED failed
    \/ /\ mode # "stateless" /\ Throws(n)
       /\ events' \in AppendFails(events, o) /\ UNCHANGED <<casting, stream>>

\* The session handler answers a request: the promise is kept, or the answer goes to the event
\* streams because the POST has gone.
Respond(p, k) ==
    /\ <<p, k>> \in asked /\ asked' = asked \ {<<p, k>>}
    /\ \/ \E m \in Matches(k[1], k[2]) :
              /\ post' = [post EXCEPT ![pending[m]].answer = k]
              /\ pending' = [pending EXCEPT ![m] = Nobody]
              /\ UNCHANGED <<store, stream, scene>>
       \/ /\ Matches(k[1], k[2]) = {} /\ AppendEvent(k[1], FALSE, scene.notes)
          /\ UNCHANGED <<post, pending>>
    /\ UNCHANGED <<mode, known, held, filters, route, frames, inflight, deleting>>

Belongs(k, s) == s = NoSession \/ k[1] = s

\* TryBufferRequestStreamNotification: the held-open requests a notification rides on.
\* Log messages count as buffered once any request is held open, whosever it is.
Carriers(kind, s) ==
    CASE kind = "progress" -> {k \in held : Belongs(k, s) /\ \E t \in Tokens : route[t] = k}
      [] kind = "message" -> {k \in held : Belongs(k, s)}
      [] kind = "list" -> {k \in filters \cap held : Belongs(k, s)}
      [] kind = "request" -> {}

Buffered(kind, s) == Carriers(kind, s) # {} \/ (kind = "message" /\ held # {})

\* The server sends a notification or a request of its own.
Notify(kind, s) ==
    /\ scene.notes > 0
    /\ \/ /\ Buffered(kind, s) /\ scene' = [scene EXCEPT !.notes = @ - 1]
          /\ frames' = [k \in Keys |-> frames[k] \cup IF k \in Carriers(kind, s) THEN {s} ELSE {}]
          /\ UNCHANGED <<store, stream>>
       \/ ~Buffered(kind, s) /\ AppendEvent(s, kind = "list", scene.notes - 1) /\ UNCHANGED frames
    /\ UNCHANGED <<mode, known, post, pending, held, filters, route, inflight, asked, deleting>>

\* TagMatchesSession and ListenTagAccepts
Accepts(x, c) ==
    /\ c.owner \in {NoSession, stream[x].session}
    /\ c.filtered => ~stream[x].deaf

\* BroadcastSse: the event goes to the streams registered now whose tag it fits.
Broadcast(c) ==
    /\ c \in casting /\ casting' = casting \ {c}
    /\ stream' = [x \in Streams |->
                     IF stream[x].at = "open" /\ Accepts(x, c)
                     THEN [stream[x] EXCEPT !.got = @ \cup {c.id}] ELSE stream[x]]
    /\ UNCHANGED <<mode, scene, known, post, tables, inflight, asked, events, failed,
                   deleting>>

--------------------------------------------------------------------------------
(* HandleGet, DELETE and Close *)

\* The n newest of some places in a log, and the numbers of the events there.
Newest(n, places) == {i \in places : Cardinality({j \in places : j > i}) < n}

Numbers(s, places) == {events.log[s][i] : i \in places}

ReplayMutant(s, from, fits) ==
    LET since == GetEventsSince(events, s, from) IN
    Numbers(s, {i \in since : Cardinality({j \in since : j < i}) < fits})

\* The replay: as many of the newest events behind Last-Event-ID as fit.
Replay(s, from, fits) == Numbers(s, Newest(fits, GetEventsSince(events, s, from)))

\* The replay is read; the stream is registered by the HTTP server when the handler is back.
\* kMaxSseReplayEvents and the budget of bytes say how many events fit: none when there is no
\* Last-Event-ID, when it is not a number, or when the store cannot be read.
HandleGet(g, s, from, fits) ==
    /\ g \in scene.who /\ stream[g] = Shut /\ Resolve(s) /\ (fits = 0 => from = 0)
    /\ stream' = [stream EXCEPT ![g] =
           [at |-> "opening", session |-> s, deaf |-> FALSE, from |-> from, fits |-> fits,
            got |-> IF mode = "stateless" THEN {} ELSE Replay(s, from, fits),
            gap |-> {c.id : c \in {d \in casting : d.owner = s}}]]
    /\ UNCHANGED <<mode, scene, post, tables, inflight, asked, store, deleting>>

Opened(x) ==
    /\ stream[x].at = "opening" /\ stream' = [stream EXCEPT ![x].at = "open"]
    /\ UNCHANGED <<mode, scene, known, post, tables, inflight, asked, store, deleting>>

\* The client of a stream goes away.
Dropped(x) ==
    /\ stream[x] # Shut /\ stream' = [stream EXCEPT ![x] = Shut]
    /\ UNCHANGED <<mode, scene, known, post, tables, inflight, asked, store, deleting>>

HasSession(s) ==
    IF mode = "durable" THEN stored[s] = "live" \/ sessions[s] # "none" ELSE sessions[s] = "live"

\* DELETE: the session goes from sessions_ and the store, its events are cleared.
Delete(s) ==
    /\ mode # "stateless" /\ HasSession(s)
    /\ sessions' = [sessions EXCEPT ![s] = "none"] /\ stored' = [stored EXCEPT ![s] = "none"]
    /\ \/ events' = Clear(events, s) /\ deleting' = deleting \cup {s} /\ UNCHANGED <<failed, scene>>
       \/ /\ Throws(scene.notes)
          /\ events' \in ClearFails(events, s) /\ UNCHANGED deleting
    /\ UNCHANGED <<mode, used, post, tables, inflight, asked, casting, stream>>

\* Then its requests are settled with SessionExpired and their entries go.
DeletePending(s) ==
    /\ s \in deleting /\ deleting' = deleting \ {s}
    /\ LET own == {k \in Keys : k[1] = s} IN
       /\ post' = [p \in Posts |->
                      IF \E k \in own : pending[k] = p
                      THEN [post[p] EXCEPT !.answer = Closed] ELSE post[p]]
       /\ pending' = [k \in Keys |-> IF k \in own THEN Nobody ELSE pending[k]]
       /\ held' = held \ own /\ filters' = filters \ own
       /\ frames' = [k \in Keys |-> IF k \in own THEN {} ELSE frames[k]]
       /\ route' = [t \in Tokens |-> IF route[t] \in own THEN NoKey ELSE route[t]]
    /\ UNCHANGED <<mode, scene, known, inflight, asked, store, stream>>

--------------------------------------------------------------------------------
PostStep(p) ==
    \/ Refuse(p) \/ Admit(p) \/ Register(p)
    \/ Forward(p) \/ SendFails(p) \/ TakeAnswer(p) \/ Expire(p) \/ Expired(p)

Next ==
    \/ \E s \in Sessions : GoesIdle(s) \/ Delete(s) \/ DeletePending(s)
    \/ \E p \in Posts :
           \/ PostStep(p) \/ ArriveFails(p) \/ \E k \in Keys : Respond(p, k)
           \/ \E s \in Owners, i \in Ids, kind \in Kinds : Arrive(p, s, i, kind)
    \/ \E s \in Owners, k \in {"progress", "message", "list", "request"} : Notify(k, s)
    \/ \E c \in casting : Broadcast(c)
    \/ \E g \in Gets, s \in Owners, from \in 0..MaxEvents, fits \in 0..Window :
           HandleGet(g, s, from, fits)
    \/ \E x \in Streams : Opened(x) \/ Dropped(x)

Spec == Init /\ [][Next]_vars

--------------------------------------------------------------------------------
Between == {"registered", "waiting", "expired"}

(* A POST of a session is settled by an answer to a request of the same session, or by one *)
(* of no session at all, and its stream carries notifications of that session only (or of  *)
(* none): keys keep the sessions apart, whatever timeouts, late answers and DELETE do.     *)
SessionsDoNotMix ==
    /\ \A p \in Posts : post[p].answer[1] \in {NoSession, Key(p)[1]}
    /\ \A k \in Keys : frames[k] \subseteq {NoSession, k[1]}

(* The tables hold nothing of a POST that has ended: each entry has a POST that is still   *)
(* in HandlePost, and stateless_inflight_ counts the POSTs there.                          *)
StateIsReleased ==
    LET busy == {Key(p) : p \in {q \in Posts : post[q].at \in Between}} IN
    /\ \A k \in Keys :
           pending[k] # Nobody => post[pending[k]].at \in Between /\ Key(pending[k]) = k
    /\ held \subseteq busy /\ filters \subseteq busy
    /\ \A k \in Keys : frames[k] # {} => k \in busy
    /\ \A t \in Tokens : route[t] \in busy \cup {NoKey}
    /\ inflight = IF mode = "stateless" THEN Cardinality({p \in Posts : post[p].at \in Between})
                  ELSE 0

(* What belongs to a POST of one session is seen by no other, and goes when the POST ends.  *)
SessionsKeepApart == TypeOK /\ SessionsDoNotMix /\ StateIsReleased

\* What is owed to an event stream: as many of the events the store retains for its session
\* behind Last-Event-ID as fit into a replay.
Owed(s) == Numbers(s.session, Newest(s.fits, GetEventsSince(events, s.session, s.from)))

\* Whether the stream is there and its numbers name one event each.
Resumed(s) == s.at # "none" /\ mode # "stateless" /\ ~failed

(* What HandleGet's replay owes to an event stream has been sent to it or is about to be   *)
(* broadcast.  Excepted is the gap: events that were on their way when the replay was read *)
(* or were appended before the stream was registered; and nothing is said once a write of  *)
(* the store has thrown, for then two events may have one number.                          *)
StreamMissesNothing ==
    \A g \in Gets : Resumed(stream[g]) =>
        Owed(stream[g]) \subseteq stream[g].got \cup stream[g].gap \cup {c.id : c \in casting}

(* The numbers of the events a store retains go up, from the oldest to the newest; a write *)
(* that failed may leave one number twice.                                                 *)
EventNumbersGoUp ==
    \A o \in Owners : LET log == events.log[o] IN
        \A i, j \in DOMAIN log : i < j =>
            log[i] < log[j] \/ (failed /\ log[i] = log[j])
================================================================================
