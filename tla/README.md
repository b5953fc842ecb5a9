# A verification of the MCP C++ SDK

TLA+ models of the parts of this repository whose correctness depends on the order in which
threads, messages, timeouts and crashes come, the TLC runs that check them on small instances,
and TLAPS proofs for every size. Paths are relative to the repository; `src/` in front of a path
is the directory the repository is kept in beside `tla/`.

## 1. The system

An MCP *session* is a JSON-RPC conversation between a client and a server over a transport. Both
sides run the same `McpSessionHandler` on top of an `ITransport`; `McpServer` and `McpClient` sit
above it, stores and caches beside them.

    McpClient / McpServer          requests, handlers, tasks, caches
        |  SendRequest, handlers, callbacks
    McpSessionHandler              pending_, response_queue_, three threads
        |  SendMessageAsync        ^ MessageChannel
    ITransport                     stdio, in-memory, SSE, WebSocket, Streamable HTTP
                                   (HttpServer, EventStore, SessionStore behind the last)

| component | state | operations | what is hard | what would make it correct |
|---|---|---|---|---|
| `McpSessionHandler`, outgoing (`src/protocol/McpSessionHandler.cpp`) | `pending_`, `progress_token_map_`, `absolute_deadlines_`, `closed_` | `RegisterRequest`, `CancelRequest`, `OnResponse`/`OnError`, `CheckTimeouts` (on two threads), `Close` | five paths take a request out of `pending_`, on any thread, and callbacks may call back | settled once, never lost, tables in step, `Close` returns |
| `McpSessionHandler`, incoming | `response_queue_`, `outstanding_responses_`, `incoming_cancel_flags_`, `subscriptions_` | `OnRequest`, `EnqueueResponse`, `ResponseWorkerLoop`, `HandleCancelled` | a bounded queue, futures polled by a worker, a condition variable, `Close` | one answer each, exact slots, a flag reaches its own request, no lost wakeup |
| `MessageChannel` (`include/mcp/protocol/MessageChannel.hpp`) | `queue_`, `closed_` | `Send`, `TrySend`, `AsyncReceive`, `Close` | two condition variables notified after the unlock | first in first out, no lost wakeup, `Close` frees everyone |
| task stores (`include/mcp/server/McpTaskStore.hpp`, `src/server/FileTaskStore.cpp`) | `tasks_`, a JSON-lines file | create, update, cancel, fail, park, advance, remove, load, rewrite | crashes and disk faults between memory, append and rewrite | what was acknowledged survives, an ended task stays ended |
| `McpServer` (`src/server/McpServer.cpp`) | registries, `running_task_cancel_flags_`, task threads | `HandleCallTool`, `tasks/*`, `SweepExpiredTasks` | tool threads, cancellation and expiry race for a task; `tasks/update` blocks the loop | one final status, no flag or thread left behind |
| `McpClient` (`src/client/McpClient.cpp`), `CancelToken`, `ResponseCache` | negotiated version, session, cache, handlers | connect, recover, cached reads, cancel | an expired session found by several threads at once; a stale cached value | one version on both sides, current lists, private answers kept apart |
| Streamable HTTP (`src/http/Streamable*.cpp`, `SessionStore.hpp`) | sessions, pending POSTs, streams, event numbers | POST, GET, DELETE, replay | streams break and resume; two sessions use equal ids | each answer reaches its request, a resumed stream gets what is retained |
| event stores (`src/http/EventStore.cpp`, `FileEventStore.cpp`) | events, cursor file | append, replay, trim, clear | a crash between the event and the cursor | numbers go up, whatever fails |
| `HttpServerImpl` (`src/http/HttpServerImpl.cpp`) | connections, SSE clients, threads | accept, handle, stop | `Stop` from a handler, the connection limit | all threads joined, the limit holds |
| `OAuthClientProvider` (`src/client/auth/`) | tokens, refresh in flight | get, refresh, revoke | coalesced refresh, re-entrance, revocation meanwhile | one refresh at a time, nobody waits for ever |
| JSON, protocol types, eras of the wire, URI templates, headers, HTTP/1.1 (`src/core`, `WireCodec.cpp`, `UriTemplate.hpp`, `McpParam*.hpp`, `HttpClient.cpp`) | none that is shared | conversions | two writers and readers of everything, bytes cut anywhere | what one end writes the other end reads |
| schema, sockets, TLS, processes, DPoP | none that is shared | I/O, checks | - | left to unit tests |

The last column is what one asks for. The code does not keep all of it: section 3 lists the cases
that the properties except by name, and the findings in `PROJECT.json` say where they are.

Components touch at few places: the session calls the transport and takes messages from its
channel; the worker and the loop share the response queue; server and client see the session only
through handlers and callbacks (which may run on any of its threads); the server reaches a task
store through `IMcpTaskStore`; the HTTP transport reaches the event store through `IEventStore`.

`PROJECT.json` lists every component, the hazards at their lines, the lines of source each
definition stands for, and the findings: places where this code does something else than a doc, a
comment or a test of the repository says, met while modelling it. The models follow the code, so
the properties state what does hold there; a property that excepts such a place says so.

## 2. The modules

| module | models | checked by | proved in |
|---|---|---|---|
| `SessionRequests` | outgoing half of `McpSessionHandler` | `SessionRequests`, `SessionRequestsLive` | `SessionRequestsProofs` |
| `SessionResponses`, `MCSessionResponses` | incoming half | `SessionResponses` | `SessionResponsesProofs` |
| `MessageChannel` | `MessageChannel.hpp` | `MessageChannel` | `TransportProofs` |
| `TaskStates` | which change of status each operation accepts | through the two below | - |
| `TaskStore` | what `IMcpTaskStore` promises (abstract) | as `Store!Spec` | `FileTaskStoreProofs` (implemented) |
| `FileTaskStore`, `MCFileTaskStore` | the file behind the store | `FileTaskStore` | `FileTaskStoreProofs` |
| `ServerTasks`, `MCServerTasks` | tool calls of `McpServer` that become tasks | `ServerTasks` | `ServerTasksProofs` |
| `HttpServer` | connection threads, broadcasts, `Stop` | `HttpServer` | `HttpServerProofs` |
| `EventStore` | both event stores, as operators on a record | through `HttpStreams` | `TransportProofs` |
| `HttpStreams`, `MCHttpStreams` | sessions, POSTs and event streams of the server transport | `HttpStreams` | `TransportProofs` |
| `OAuthTokens`, `MCOAuthTokens` | `OAuthClientProvider` and its token cache | `OAuthTokens` | `ClientTransportProofs` |
| `HttpClient`, `MCHttpClient` | the Streamable HTTP client transport | `HttpClient` | `ClientTransportProofs` |
| `Handshake` | version negotiation of client, server and session handler | `ClientServer` | `ClientServerProofs` |
| `ClientCalls` | calls, cache, recovery and subscriptions of `McpClient`, with the server's side | `ClientServer` | `ClientServerProofs` |
| `CancelTokens`, `UrlElicitation` | `CancelToken`; `McpServer::ElicitUrl` | `ClientServer` | `ClientServerProofs` |
| `ClientServer`, `MCClientServer` | the four above in one system | `ClientServer` | `ClientServerProofs` |
| `JsonRpc`, `Envelopes` | JSON-RPC messages, written by one end and read by the other | `Algorithms` | `SessionRequestsProofs` |
| `WireTypes`, `WireCodecs` | the protocol's structs, and what the two eras make of messages | `Algorithms` | - |
| `UriTemplates`, `HttpHeaders`, `JsonTexts` | the conversions their names say | `Algorithms` | - |
| `HttpTexts`, `HttpLines` | one HTTP connection, symbol by symbol: its writers, its readers | `Algorithms` | - |
| `Algorithms`, `MCAlgorithms` | an input written by one end and read by the other | `Algorithms` | - |

### SessionRequests

A request that `RegisterRequest` entered leaves `pending_` when some thread moves its `shared_ptr`
out; from then on that thread owns it and will run its callbacks. `pending` is the set of keys;
`held` maps each owner to the `<<request, outcome>>` pairs it has to deliver: the message loop, the
timeout thread, the response worker, `Close`, the points of `RegisterRequest` and `CancelRequest`
where application threads stand, and the queue to the worker. `outcome` is the history of
callbacks. Regions under `pending_mutex_` or `response_queue_mutex_` are single steps, everything
between them interleaves. `Close` may be called by the application or by a callback on one of the
three threads (`closer`), and then `JoinThreadSafely` detaches instead of joining. The clock is a
counter that any step may race with.

Each action is one region of a function: `RegisterRequest` up to the unlock, then `SendMessage`;
`CancelRequest`, `CancelTransportRequest`, `EnqueueCancellation` for the three parts of
cancelling; `LoopReceive`, `LoopSweep` (the `CheckTimeouts` at the head of the loop),
`LoopDispatch`, `LoopExit`; `TimerCheck`, `TimerSweep`; `WorkerDrain`, `WorkerExit`;
`CloseByApp`, `Join`, `Collect`, `CloseReturns`; `Deliver` for one call of `DeliverOutcome`, in
which the callback may call `Close`. The keys of `pending_` carry the session id in the code; as
the ids of outgoing requests come from one counter, a key is its id here.

`TablesAgree` joins what must hold of the tables together: one owner and one outcome for each
request (`Ownership`), no progress token or deadline of a request that is gone, nothing pending
behind `Close`, and no cancellation sent but by the owner of that outcome.

### SessionResponses

An incoming request goes through the stages `new, asked, handling, made, queue, waiting, ready,
freed, erased, sending, done`, or from `asked`, `handling` or `made` by way of `refused` to `done`;
each is a container or a point of a function, and an item is moved, so it has one stage. The loop
takes it (`Receive`), and refuses (`Reject`) or accepts it, runs its handler (`HandlerThrows`,
`HandlerReturns`) and passes the answer on (`EnqueueResponse`) or sends the error itself
(`SendErrorResponse`). `QueueFull` is the capacity test, which comes after the handler has run. The
worker is modelled with the mutex of its condition variable: it tests the predicate, and only then
falls asleep, so that the empty critical section in `Close` matters. The key of a cancellation flag
is built as in the code, from the length and the two texts (sequences of characters here).
`PeerMaySend` assumes that a peer uses an id again only after the answer. `Arrivals` says which
requests and cancellations come in one behaviour; the others stay `absent`.

`Close` may be called by the application, or by a handler, a callback or a span handler on the loop
or the worker (`closer`). `JoinThreadSafely` detaches that thread instead of joining it, and when
`Close` has returned it goes on: without another look at `closed_` it refuses or answers the request
it has in its hand (`within`). `SilentAfterClose` says that this is the only answer behind `Close`.
The timeout thread sends no answers; a `Close` on it is like one of the application here.

### MessageChannel

`queue`, `closed` and a place for each thread. Test and sleep are one step because both happen
under the mutex; the notify after the unlock is a step of its own, wakes one sleeper or is lost.
`SpuriousWakeup` is what `std::condition_variable` allows.

### TaskStates, TaskStore, FileTaskStore

`TaskStates` gives for each operation the states it may lead to from a given one (empty when it
refuses). `TaskStore` is the abstract store: a map on which each successful call acts in one step.
`FileTaskStore` is the code: memory is changed first, then a line is appended, then perhaps the
file is rewritten, and on failure memory is put back. A crash may come between any two of these.
The file is a sequence of lines; `open` says that the last one has no newline. A behaviour plays on
one `disk`, the set of things that may go wrong on it: `open_fails`, `compact_fails`,
`torn_write`, `load_fails`, `unterminated` (an old-format file that an append runs into; no run
plays on such a disk, see the findings).
`promised` is the history a caller keeps: for each task the states it must reckon with (one after
a success, more after an exception or a crash).

`CallsAreAtomic`: what a caller was told survives on disks whose opens and rewrites fail
(`AckedSurvives`), and a call that failed leaves nothing behind on disks where only opening can
fail (`RollbackIsComplete`). `TornTailForgiven`: a torn line costs only itself, until
something is appended behind it. `ImplementsStore` is the refinement. Its mapping, `Promises`, is what the next start would load (`Durable`) where only
opening can fail, and the empty store elsewhere: a failed rewrite leaves behind the record of a
call that threw, which no atomic store does.

### ServerTasks

The message loop handles one request at a time; `loop` is the request it is at and what it has read
so far, `worker` the place of each tool thread, `tasks` the store, whose methods are the operators
of `TaskStates`: a write is applied, refused or throws. The steps between two accesses to shared
state are one action: `CallTask`, `StartTask`, `Launch`, `Push` for a call that becomes a task;
`CallPlain` for one that does not; `CallRequired`, `RequiredEnds` for a tool that a modern client
may only call as a task, which runs on the loop; `UpdateRead`, `UpdateWrite`, `UpdateNotify`, then
`ParkAgain`, `ResumeNoTool` or `Resume` and `ResumeEnds` for `tasks/update`; `CancelRead`,
`CancelFlag`, `CancelWrite`, `CancelNotify` for `tasks/cancel`. The worker's actions follow the
lambdas `finish`, `fail_with`, `announce_stored_status` and `retire_task`; `guarded` says whether a
throw lands in a handler of the lambda. `CancelCall` is a `notifications/cancelled` for the call
itself, which shares its flag with the task until the answer is delivered.

`NoticesAgree`: both sides may announce the end of a task, and never two different ones.
`CancelHolds`: an acknowledged `tasks/cancel` stays. `NobodyForgotten` and `FlagsRetired`: a working
task has somebody who will end it, an ended one leaves no flag; `adrift` names the exceptions, a
write that fails with nothing left to catch it, a client that sets a parked task to working by
hand, and a parked task whose tool has been removed. `ToolsAreHeld`: a running tool has its future
in `pending_async_futures_`, or the loop is about to put it there; that `Close` waits for it does not
follow, and is not so (a finding): a future that is stored behind `Close`'s look at the list is
not waited for. `NothingLeftBehind` is the three.

### HttpServer

`at` is the place of each connection's thread between `loop` and `ended`; `fds`, `threads` and
`clients` are the server's three tables; `buffer`, `ready` and `wire` are a client's
`SseSendBuffer` and what reached the socket. The accept loop is `Reap`, `PollIdle`, `Accept`,
`Spawn`; a connection `ReadRequest`, then `Answer`, `AnswerStream`, or `AddSseClient` and
`MarkReady`. `BroadcastSse` and `KeepAlive` copy the clients under the lock and `Deliver` serves
the copy one by one without it. `Stop` (from `Outside` or from a handler, `origin`) is seven steps
with the copies it takes in `stop`. `StreamsInOrder` joins the limit, one `on_disconnect` for each
client that was registered, and the header before the first frame with nothing dropped between.

### EventStore, HttpStreams

A store is a record that tells which of the two classes it is; `AppendFails` and `ClearFails` are
the states that an exception or a crash in the middle of a method leaves. The file store trims by
the count that its cursor file has (`Tally`, `Trims`), which is stale when an earlier cursor was not
stored: the log then outgrows its limit for a while. `HttpStreams` has three
modes: `stateless`, `memory`, and `durable` with a session store and a `FileEventStore`. A POST
goes through `resolved, admitted, registered, waiting`, and `expired` when its timeout comes first;
`pending`, `held`, `filters`, `route` and `frames` are the tables under `pending_mutex_`. `Respond`
is an answer from the session handler, found by its session or, without one, by the end of the key
as in the code (`EndsWith`; ids 1 and 11 make the difference). `Notify` is a notification or a
request of the server, to the stream of a request (`Belongs`) or to the event store and then, in
`Broadcast`, to the streams. `HandleGet` reads the replay before the stream is registered; `fits` is how
many events the two limits of a replay (512 events, and the bytes they take) let through, 0 when
there is no valid `Last-Event-ID` or the store cannot be read. `gap` is what is under way when the
replay is read, or is appended before the stream is registered. `Delete` and `DeletePending` are the two lock regions of DELETE.

`SessionsKeepApart`: no answer or notification crosses sessions, and nothing of a POST stays
behind. `StreamMissesNothing`: of the newest events that the store retains behind `Last-Event-ID`, as many
as fit were replayed, and those that follow come by broadcast; excepted are the gap, and all that
follows a write of the store that threw. The gap is real (a finding): without it TLC finds the
property violated. `EventNumbersGoUp`: up, or equal after a failed write.

### OAuthTokens

A thread's `call` has its operation and its place: `GetAccessToken` up to the decision
(`GetAccessToken`, `Own`, `Wait`, `Reenter`, `Woken`), the refresh (`ReadTokens`, `Discover`,
`Exchange`, `StoreTokens` or `Rejected`, `Release`), the authorization flow under its mutex
(`Lock`, `RegisterClient`, `Ask`), `Revoke` and `ClearTokens`, `Challenge` for a 401. A callback of
the application may call `GetAccessToken` again from within a refresh. Tokens are numbered as the
server issues them; `server` is which refresh tokens it accepts. The time a token has `left` is
`fresh`, `soon` (within the margin) or `expired`, and only ages.

`NoStaleRefresh`: among callers of `GetAccessToken` alone no refresh uses a token that another one
has replaced (`mixed` records that something else has touched the cache). `IssuerIsPinned`:
metadata that names an issuer is from the issuer the cache is bound to.

### HttpClient

The workers are the send loop, the listening thread and the detached threads of
`LaunchImmediatePost`. Each makes `net::HttpClient`s (`client`, `closed`) and publishes them in the
slots `active`, `listening`, `resuming`, through which `CancelRequest` and `Close` reach a read.
A POST is `BeginPost`, `Post`, then by its answer `TakeJson`, `Accepted`, a stream read block by
block (`ReadBlock`, `EndStream`), `ResumePostStreamViaGet`, `Retry` or `ReportError`. `Close` is
`CloseBegins`, `CloseSignals`, `CloseSlots`, `CloseTakes`, the DELETE and the joins. `got` is what
the session was told of a request.

`NothingDangles`: behind `Close` no thread of the transport runs that uses it, and a slot names a
client that exists. `AnsweredOrFailed`: not both. `CloseReturns` names the one thing that holds
`Close` up, a POST's own stream that the server keeps alive.

### Handshake, ClientCalls, CancelTokens, UrlElicitation, ClientServer

`Handshake`: `me` is what the client knows, `version` and `default` what the server's session
handler keeps by session and for requests without one, `wire` the messages under way. Requests keep
their order, as they wait in the queue of one `SendLoop`; over HTTP notifications, each posted by a
thread of its own, overtake them, unless the transport is `local`. `Begin` decides by the `ConnectMode`;
`ProbeDiscover`, `AwaitProbe` and `HandshakeInitialize` are the client's side, `Discover`,
`Initialize`, `Initialized` the server's; `OtherDiscovers` is a second client of the server.

`ClientCalls`: a call is a record. It asks `cache_auth_context` whom it is for (`Captured`), clears
the private entries if that is news (`CurrentCacheAuthContext`), looks into the cache (`GetAny`) and
only then attaches an ETag and sends (`FirstRequest`), with other threads, notices and changes of the
context between any two of these. It goes on over `DoSendRequest` and
`Serve` (which computes what the server's handler answers: a page, `notModified` for an ETag, an input round, a
task, an error) to `NextPage`, `Store`, `InputRequired`, `PollTaskToCompletion`, `HeaderMismatch`
or `Throws`. The two partitions of the cache are sets of entries with their rank in the order of
last use, from which `EvictLocked` takes the least; whether an entry is still good is a choice of
`GetAny`. `etags` is the store of ETags in the order of `etag_order_`. Entries remember, as history,
for which context they were made, whether a notice overtook them, and whether they are `blank`: made
of a `notModified` answer that brought no items. `RecoverExpiredSession` starts the handshake again on the calling thread.
`RegisterTool` and its like change a registry, `Announce` sends the notice after the unlock,
`HearNotice` clears what it concerns. `SubscribeAsync`, `Listen`, `Acknowledge`, `HearAck` are a
subscription; `SwitchContext` changes what `cache_auth_context` returns.

`CancelTokens` has the two halves of `CancelSubscription` (`Attach` on the sending thread,
`Complete` with the outcome) against `Cancel`. `UrlElicitation` has the entry, the notification and
the watchdog that compete to settle a promise.

`ClientServer` joins them; a scene chooses which. `VersionsAgree`: a usable client and the server
go by one version. `ListsAreTrue`: what was listed is complete, and an entry of the cache is older
than a handled notice only if its request was under way then, or if one of the two is blank. `PrivateStaysPrivate`: a private answer is
found in the response cache only by a call that captured the context it was made for, whatever other
threads capture, clear and store meanwhile, unless it was asked for after the context had changed
(`switched`). That exception is real (a finding): the context is captured first and the request sent
later, so that an answer for the new context is filed under the old one, whose next call finds it.
Nor does the property speak of the bodies kept for ETags, which know no context (another finding). `SubscribedHears`: who has subscribed is sent every later
change, `HeldBack` notices excepted. `TokenLetsGo`: a token forgets settled requests and misses no pending one. `SettledOnce`: a
promise is set exactly once.

### JsonRpc, Envelopes, WireTypes, WireCodecs, UriTemplates, HttpHeaders, JsonTexts, HttpTexts, HttpLines, Algorithms

`JsonRpc` has the JSON values and the envelope: `Serialize` and `Parse` are `SerializeMessage` and
`DeserializeMessage`, with the metadata that goes into the parameters and comes out of them; which
messages a program can hold says `IsMessage`. `Envelopes` sends one message from end to end.
`WireTypes` is a table: for each struct its fields, each with key, rule (required, optional,
omitted when empty or default, ...) and kind; `Write` and `Read` interpret the rules as the
serializers do. `WireCodecs` adds the two eras and what the two sessions do with metadata and
results. `UriTemplates`, `HttpHeaders` and `JsonTexts` are the parsers and
writers their names say; `JsonTexts` works on bytes. In `HttpLines` a stream of symbols is
delivered in arbitrary pieces (`Arrive`) to the server's reader and to the client's, each as far as
its buffer allows; a conversation is several requests, perhaps sent before the first answer.

`Algorithms` takes an `errand`, lets `Send` write and `Receive` read it. `MCAlgorithms` enumerates
the errands: every struct with each optional field absent, empty and present, templates and values
that contain what ends them, byte strings around every rule of UTF-8 and of the JSON grammar,
annotations and header values, and the HTTP conversations. Its properties compare with reference
definitions written from the grammars (`IsJson`, `IsUtf8`, `Understood`, `Denotes`), never with the
reader under test. `TextsKept` is about values whose strings are well-formed UTF-8 and whose depth
is within the limit (`HoldsUtf8`, `MaxDepth`): `Dump` writes any other bytes as they are, and `Parse`
refuses the whole text, which the property states too.

## 3. The runs

All bounds are constants of the modules and named there. Every property has in `PROJECT.json` a
mutant of the code's model that TLC refutes it with, so none holds by construction.

| run | bounds and why they are enough | shows |
|---|---|---|
| `SessionRequests` | 2 requests, 1 token shared by both, clock 0..1, timeout 1, total limit 1 | every pair of the five exits collides, two requests meet in each sweep and in the token map, `Close` starts on each thread in each state; settled once, never lost, tables agree |
| `SessionRequestsLive` | 1 request, clock 0..3, progress extends by 2, total limit 0 or 2 | the total limit ends a request that progress keeps alive; `Close` returns; a cancellation is delivered while the session is open |
| `SessionResponses` | 3 requests (two sessions whose texts join to the same string, one reused id), or two of them and a cancellation, capacity 2 lowered to 1, `Close` by the application, the loop or the worker in each state | one answer each, slots, flags, no wakeup lost, and silence behind `Close` but for `within` |
| `MessageChannel` | 2 senders with 2 sends each, 2 receivers, 1 closer, queue of 2 | both condition variables have two sleepers, the queue fills and drains |
| `FileTaskStore` | 2 tasks, 3 lines, 2 mishaps, rewrite threshold 0 so that rewrites happen, three kinds of disk | nothing acknowledged is lost where opens and rewrites fail, a torn line costs only itself, and where only opens fail the file implements `TaskStore` |
| `ServerTasks` | 2 interchangeable calls, 2 writes that throw, both eras | loop and worker meet at every step of a task, a second call sweeps and pushes beside it, a failing write is followed by a failing handler of its exception |
| `HttpServer` | 2 connections, limit 1 or 2, 2 broadcasts or keep-alive rounds | the second connection is refused, accepted during `Stop`, or opens a stream while a broadcast serves a copy that does not have it; `Stop` from each origin in each state |
| `HttpStreams` | 2 sessions or none, 2 POSTs or 1 POST and 1 GET, ids 1 and 11, room for 1 session and 1 POST in flight, replay window 1 of 2 retained events, 1 failing write | equal ids in two sessions, an answer after a timeout, DELETE between two steps of a POST, a stream resumed before and behind the window, a count that is stale when the log is trimmed |
| `OAuthTokens` | 3 threads in ten pairings of operations, 3 tokens issued | one refreshes, one waits, one comes late or interferes; a refresh fails, is rejected, throws, is re-entered |
| `HttpClient` | 2 requests, or a request and a posting thread, 1 reconnect, 1 block for a stream | each pair of posting threads shares the slots, a stream breaks before and after its block, `CancelRequest` comes late, `Close` in each state |
| `ClientServer` | 2 threads, 3 sessions of which 1 expires, 3 items in pages of 1 (at most 2 read), cache of 1 entry, 2 ETags, 1 input round, 1 subscription; the scenes in `MCClientServer` | every pairing of eras; each operation with a change, a notice and a context switch beside it; the context changes and changes back between capture, lookup and request on two threads; `notModified` for a body that was evicted and for a later page; both threads recover or subscribe at once |
| `Algorithms` | some thirty thousand inputs, nesting 3, lines of 13 symbols, bodies of 3 | each rule of each conversion at its boundary, strings that are no UTF-8 included, and every cut of the HTTP conversations |

**Deadlock** is checked in `SessionRequests`, `SessionRequestsLive`, `MessageChannel` and
`FileTaskStore`. In the first two that shows nothing, as the application may call
`SetMaxTotalTimeout` at any time; that no thread is stuck there is `EverythingEnds`. It is not
checked in the others, because their systems come to rest: a session that is closed, a server that
has stopped, calls that have all returned, an errand that has been delivered, a scene that is used
up. A thread that is stuck there is found by the liveness properties
(`NothingHangs`, `StopReturns`, `CloseReturns`, `CallsReturn`), and by `NothingLeftBehind`, which
is about who is left in charge.

**Fairness.** Weak fairness on the steps of threads that run on their own: the loop, the timeout
thread, the worker, a thread inside `Close`, `CancelRequest` or a callback, the clock; for the
channel on every thread inside a call; for `HttpServer` on the accept thread, `Stop`, the senders
and each connection thread, as every read there has a deadline of 30 s (an open event stream need
not end before `Stop`); for `HttpClient` on its threads, and on the end of a read whose client was
closed; in `ClientServer` on the handshake, the client's and the server's steps of each call. The
operating system schedules runnable threads, and no lock is held across a wait. Strong fairness
stands in two places: on `Lock` in `OAuthTokens` (a thread that asks for `auth_flow_mutex_` again
and again is not passed over for ever) and on `PollingTimesOut` in `ClientServer` (a thread that
polls a task meets the deadline that was fixed when it began). There is no fairness on what others
decide: the peer need not answer, a handler need not keep its promise, the application need not
call anything, a message need not arrive, a server need not end a stream. A wakeup is fair only if
somebody notifies or, for the poll of the worker, the interval ends.

**What the runs do not contradict.** Thirty-eight findings stand in `PROJECT.json`. In most the code is
at odds with a sentence of the documentation, in some with itself. Where a property would otherwise
be false it excepts the case by name: `within` in `SilentAfterClose`, a closed session in
`EverythingEnds` and `NeverLost`, `gap` in `StreamMissesNothing`, `failed` there and in
`EventNumbersGoUp`, `switched` in `PrivateStaysPrivate`, `Clear` in `MatchInvertsExpand`,
`HoldsUtf8` in `TextsKept`, `overlap` and `HeldBack` in `SubscribedHears`, the straggler and `blank` in `ListsAreTrue`, `mixed` in
`NoStaleRefresh`, the first disjunct of `CloseReturns`, the answer with no session in
`SessionsKeepApart`, `adrift` in `ServerTasks`, the disks in `FileTaskStore`.

## 4. The proofs

`SessionRequestsProofs` proves for any number of requests, tokens, timeouts and any clock:

* `TypeCorrect`: `Spec => []TypeOK`.
* `OwnershipCorrect`: `Spec => []Ownership`. This is the inductive invariant behind the others: a
  request is in `pending_` and untouched, or with exactly one owner for exactly one outcome, or
  settled; ids not handed out are nowhere; a cancellation was sent only by the owner whose outcome
  it is. `AtMostOnce` alone is not inductive: a second owner would deliver a second time.
* `AtMostOnceCorrect`, `CancelsCorrect`, `NeverLostCorrect`, `SideTablesCorrect`,
  `NothingPendingAfterCloseCorrect`, each by one more induction on top of type and ownership; the
  last needs that `close` past its first step implies `closed`.
* `TablesAgreeCorrect` is the conjunction of these, the property of the run.

The only assumption is `ConstantsAssumption`, the types of the constants. Each step lemma has one
case per action; actions that move requests between owners share the lemmas on `TakePending` and
`Hold`.

The same module proves of the envelope:

* `EnvelopeKeptCorrect`, for every message there can be (`ErrandsAssumption`: `IsMessage` of each)
  and every range of error codes: what `SerializeMessage` wrote `DeserializeMessage` reads as the
  same message. `WrittenMembers` says which members an envelope has, so that its kind is told from
  them; `MetaTaken` that metadata which was merged into the parameters is all that is taken out of
  them, whatever metadata they held; `ErrorKept` that an error with a code in range is kept. Nothing
  is asked of the parameters: they may be no object, empty, or null. Metadata that is no object is
  kept too, but where the parameters hold metadata of their own `MergeMetaIntoParams` throws, and
  `IsMessage` leaves that out.

`TransportProofs` proves for any sets of sessions, request ids, POSTs and event streams and any limits
of the store (`HttpStreamsAssumption`, `EventStoreAssumption`):

* `EventNumbersGoUpCorrect`. The numbers of a log go up and lie below the number the next event
  gets; after a write of the file store that threw, the last one may be there twice (`Numbered`).
  `AppendedMeans`, `AppendFailsMeans` and `ClearMeans` say what each operation of the stores does to
  the one log it touches; they rest on lemmas about taking the first events off a sequence.
* `StreamMissesNothingCorrect`. What is owed to a stream (`Due`) has been sent, fell between replay
  and registration, or is still to be broadcast (`Informed`). An append adds its own number to what
  is owed and takes away only what the limits drop (`DueAppended`, `NewestAppended`); the replay is
  exactly what is owed when it is read, for any number of events that fit. What the theorem leaves
  out is what the property leaves out: the gap and the time behind a write that threw.
* `SessionsKeepApartCorrect`. Whatever a POST holds in a table has the key of a request that some
  counted POST holds open, and a promise is that of a POST without an answer (`TablesHold`); what a
  POST is answered with is of its own session or of none (`Fits`); the count of a stateless server is
  the number of POSTs under way (`Counts`). There is a lemma per group of actions that register,
  leave, answer or give up a POST.

The module also holds the proofs about `MessageChannel` (`ChannelSpec`), through which a transport
hands messages to its reader. For any finite sets of senders and receivers and any queue limit
(`ThreadsAssumption`, `BufferAssumption`):

* `ChannelTypeCorrect`, and `FifoCorrect`: what was received, followed by what is queued, is what was
  accepted, in that order.
* `ClosedWakesEveryoneCorrect`: a thread asleep on a closed channel has a `notify_all` still to
  come.
* `NoLostWakeupCorrect`. The argument is a count: every queued message (every free place) is
  covered by a thread that is awake on its side or about to notify it. A notify hands its duty to
  the sleeper it wakes, a thread that takes a message takes its cover with it, and a notify that
  finds no sleeper is no longer needed. The counting rests on the library's theorems on finite
  sets.
* `NobodyForgottenCorrect` is the conjunction of these, the property of the run.

`FileTaskStoreProofs` proves for any tasks, attributes, number of lines and of mishaps
(`FileAssumption`, `NoneAssumption`, `StatesAssumption`):

* `LatestAppend` and `LatestRewrite`, what the loader makes of an appended line and of a rewrite:
  the line has the say on the task it names and on no other. All that follows rests on these.
* `TypeCorrect`, for every disk.
* `AckedSurvivesCorrect` and `EndedStaysEndedCorrect`. Both speak of disks whose opens and rewrites
  fail. The inductive invariant `Kept` says that every line is whole (`Clean`), that each task
  outside the call is in a promised state in memory and in the file, and, for the task of the call,
  how far each of the two has come at each place of the call. `AckedSurvives` alone is not
  inductive: it does not say what a rollback restores or what a rewrite in the middle of a call
  writes. As the disk never changes (`SameDisk`), `disk \subseteq Handled => Kept` is an invariant
  of every behaviour.
* `TornTailForgivenCorrect`, for every disk on which lines end in a newline. `Kept` is `Clean` and
  `Accounted`, and `AccountedStep` keeps the second part under any step that does to the file what
  it is meant to do (`FileFollows`). Before the first mishap the file is `Clean` and every step does
  (`CleanFollows`); a torn line at the end leaves what is loaded alone (`TornLineForgiven`), and as
  long as it is the last line the file is not written. That is `TornKept`.
* `RollbackIsCompleteCorrect`, `ImplementsStoreCorrect`, `EndedOnDiskCorrect`, for disks where only
  opening can fail (`OnlyOpening`). The invariant is `Agrees`: file and memory are equal outside the
  call. With it, the append maps to the one step of `TaskStore` in which the call takes effect, and
  every other step to a stutter; on any other disk the mapping is constant. With `compact_fails` the
  first of them is false, as a finding in `PROJECT.json` explains.
* `CallsAreAtomicCorrect` joins type, survival and rollback, the property of the run.

None of them assumes anything about `Disks`: which disks a statement is about is part of the
statement.

`SessionResponsesProofs` proves for any requests, session ids, request ids and capacities
(`ConstantsAssumption`), about the incoming half:

* `KeyTellsApart`: the length in front of the session id makes `SessionRequestKey` injective,
  whatever the texts are. The flags rest on it.
* `SessionInvariant`, the inductive invariant: each request is at one stage, the one in the loop's
  hand included; the worker takes items out only while it delivers (`Threads`); the slots that are
  counted are those of the stages between `queue` and `ready`; a session does not use an id twice
  at a time (`IdsApart`), without which the flag of a key could be another request's.
* `ResponsesAccounted` is `AnswersAccounted`. `CloseIsSilent` is the action property
  `SilentAfterClose`. When `Close` returns each of the two threads has ended or is the one that
  called it (`Threads`); the worker delivers one item at a time (`OneOut`); and the caller has in its
  hand what it had when it called, or nothing any more (`Within`).

`ServerTasksProofs` proves for any finite set of calls and any number of failing writes
(`ServerAssumption`):

* `TasksInvariant`. None of the three properties is inductive: each relies on what the loop has read
  and not yet acted upon, and on where the thread of the task stands. `LoopHolds` and `WorkerHolds`
  say what may be relied on at each step, `OneEnding` that an ending which is told or about to be is
  the store's, `NoPast` that an id that was not handed out has no traces, `InCharge` that every task
  at work has a thread, the loop or an entry in `adrift`.
* `NoticesNeverDisagree`, `CancelsHold`, `NothingIsLeftBehind`: `NoticesAgree`, `CancelHolds` and
  `NothingLeftBehind`.

`HttpServerProofs` proves for any finite set of connections, any limit and any number of broadcasts
(`HttpServerAssumption`):

* `ServerInvariant`: a thread at work is in `conn_threads_` or in the copy `Stop` joins
  (`Threaded`), its connection in `conn_fds_` (`Listed`), the steps of `Stop` come in their order
  (`Stopped`), and what is on a wire starts with the header as soon as the buffer lets frames
  through (`Framed`).
* `StopIsThorough` and `StreamsKeepOrder`: `StopLeavesNoThread` and `StreamsInOrder`.

`ClientTransportProofs` proves for any requests, posting threads, reconnects and blocks
(`HttpClientAssumption`; its first part says that no posting thread is called like the two threads
the transport owns):

* `NothingDanglesCorrect`. That the listening thread has ended once `Close` has joined it needs
  that none is started behind it: `Close` takes `running_` back first, and `MaybeStartListenStream`
  looks at it under the mutex (`Closing`). A slot is filled by the worker whose client it names and
  emptied with that client; for the slot of the resumed stream this is so because only the send loop
  resumes, and it is in that GET (`Filled`, `Roles`).
* `AnsweredOrFailedCorrect`. It needs to know what the send loop knows of its request. A request is
  in one place of session, queue and send loop, and until it is posted the channel has nothing for
  it (`Once`); what the channel has for the request that is posted is the answer `resolved` stands
  for; and `resolved` is set by a stream only, so that a JSON body, an error and a stream without
  the answer find it unset (`Posted`).

The module also holds the proofs about `OAuthTokens` (`TokensSpec`), which gives the transport its
tokens. For any threads, issuers, tokens and mix of calls (`OAuthTokensAssumption`; its last part
says that the tokens a scene begins with are of an earlier time than those the server will number):

* `TypesHold`, and on it `IssuerPinned`: `IssuerIsPinned` is inductive with the types.
* `RefreshIsFresh`: `NoStaleRefresh`. The invariant, for as long as nothing but `GetAccessToken` has
  touched the cache: one thread refreshes, and it is the `owner` (`OneRefreshes`); from the read of
  the cache to the store of the answer the cache keeps the token that is presented
  (`PresentsCached`); tokens are numbered below what has been issued (`Numbered`).
  `RefreshIsExclusive` states the first of these.

`ClientServerProofs` proves for any number of threads, sessions, setups, requests, elicitations,
subscriptions and notices, any page size, limit of pages, cache and ETag store
(`HandshakeAssumption`, `ClientCallsAssumption`, `ClientServerAssumption`: the types of the
constants; that no thread is called as the two who are nobody's thread; that a scene uses the
tokens and elicitations there are):

* `TokensLetGo`. `TokenLetsGo` needs to know who removes a handler: `Attach`, which has not looked
  at `completed_` yet, or `Complete`, which will find the id (`HandlerOwned`).
* `PromisesSettledOnce`. An elicitation that was sent is in the table, in the hands of one who took
  it out, or settled (`OneHolder`).
* `ClientAndServerAgree`. The invariant follows the negotiation: requests on the wire are numbered
  in their order, and the last one is the one the client waits for (`WireInOrder`); a good answer is
  true when it is made and no request of before can make it false (`AnswerHolds`); nor can other
  clients, because the session has a version of its own or the version is the modern one
  (`Settled`). That requests keep their order is needed: overtaken by its `initialize`, a
  `server/discover` would change the version behind the client's back.
* `SubscribersHear`. With the handshake's invariant: where somebody has subscribed `initialized_` is
  set, so that notices are sent (`ReadyInv`, `NoticesSent`); an acknowledgement belongs to an entry
  (`EntriesKept`); as long as no two threads subscribe at once `pending_ack_id_` is reset by the
  acknowledgement of the one who waits (`AckIsOurs`).
* `ListsStayTrue` and `PrivateAnswersStayPrivate`, from one invariant (`ListInv`). A list in the
  making has every item it began with, or the item's place in the registry is at or behind the
  cursor (`Collected`); as a registry only grows, `Rank`, the place of an item, only grows
  (`RankGrows`), and a page brings what is at its cursor up to the next one (`PageDoes`). What the
  client has heard of a registry is in it (`DataInv`), so a call that began after the notice has all
  of it, and one that was under way is marked. As long as the context has not changed, the answers
  of a call are those of its context (`Owned`); entries say the same of what was filed
  (`CachesGood`), and using or evicting one changes only its rank (`Twin`).

Excepted from the last is an answer that a call asked for after the context had changed (`switched`):
that one is filed under the wrong context.

Left to TLC: liveness under fairness (and `ENABLED`), which this prover does not do; and what the
conversions behind `Algorithms` compute other than the envelope, as they are recursive and would
need induction over data.

## 5. Not modelled

* Two threads inside `McpSessionHandler::Close` at once: `closed_` is tested and set in two steps,
  both threads would join the same `std::thread`, which is undefined. The model lets one thread
  close.
* `HttpServerImpl::Stop` called by `on_disconnect` on the keep-alive thread, which `Stop` then joins
  (`HttpServerImpl.cpp`, 280 and 917-936), and `Close` of the Streamable HTTP client on one of the
  transport's own threads.
* In `HttpStreams`, `Notify` tests for a request's stream and appends to the store in one step
  (`StreamableHttpServerTransport.cpp`, 1540-1573): a POST that begins between the two is not seen.
* In `WireCodecs`, the refusal of a modern notification with an id, a result or an error
  (`WireCodec.cpp`, 236-238): no message that was parsed as a notification has one.
* A peer that reuses an id in flight (see `PeerMaySend`), and `requestState`.
* Contents of messages outside `Algorithms`, logging, tracing spans, filters other than that they
  may run later.
* Dirty reads of a task between the change in memory and the append.
* In `ServerTasks`: requests that only read, requests refused before they reach the store, and a
  notification that throws. Of `McpServer`, also completion, logging levels, sampling and roots:
  single requests without state of their own.
* Of the HTTP transports: token introspection and the metadata endpoints, the WinHTTP variant of
  the client, redirects, the limits on the number and total size of headers, the timeouts inside
  one read. Of TLS, sockets and WebSocket frames, nothing.
* Of OAuth: PKCE, the documents of client registration, device and JWT grants, which are formats.
* Of JSON: doubles that are written with an exponent, negative zero, the fallback for locales with
  another decimal point. The schema validator is a recursive checker of its own and is left to its
  tests.
* The ages of entries of the response cache: an entry may be too old at any lookup.
* In `Handshake`, a POST that the client transport gives up after `kHttpRequestTimeoutSeconds`, and
  that the server handles nevertheless.
* The stdio, SSE, WebSocket and in-memory transports: their reader threads parse and call
  `MessageChannel.Send`; what they share with the session is the channel. Processes, the
  extensions (triggers, DPoP, apps, server cards, skills' files), Windows' file code, and the
  examples.

## 6. Plan

Every safety property of the state machines is proved, and that a message survives its envelope.
What is left for proof are the codecs of `WireCodecs` and `HttpHeaders` that need no recursion; they
would have to leave the modules that have some. What is left for modelling: `Triggers` of the extensions, a small registry worth a module, and `requestState`, the one
piece of state of an incoming request that has none.
