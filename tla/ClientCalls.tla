------------------------------ MODULE ClientCalls ------------------------------
(***************************************************************************)
(* Calls of McpClient on McpServer: the response cache and what fills and  *)
(* empties it, paging, rounds of input, tasks, the recovery of an expired  *)
(* session, subscriptions and the notices of changed lists.                *)
(*                                                                         *)
(* Several threads call one client.  A call looks in the cache, sends its  *)
(* request and handles the answer, while notices are handled on the        *)
(* thread of the client's message loop and the application changes the     *)
(* context that private results belong to.  The server's registries change *)
(* under registry_mutex_; the notice follows after the lock is released.   *)
(***************************************************************************)
EXTENDS Handshake, Functions

CONSTANTS
    Scenes,             \* what the threads call and what may happen meanwhile
    PageSize,           \* page size of the server (page_size, kDefaultPageSize)
    MaxPages,           \* kMaxListPages
    MaxEntries,         \* entries of a partition of the cache (max_entries_per_scope)
    MaxEtags,           \* kMaxEtagEntries
    MaxRounds,          \* max_rounds
    Nobody,             \* no thread
    MaxSubscriptions    \* kMaxSubscriptionEntriesPerSession

Lists == {"tools", "resources", "templates", "prompts", "skills"}
Reads == {"doc", "skill", "directory"}
Keys == Lists \cup Reads
Items == 1 .. 3

Ops == [kind : {"list", "search", "read", "prompt", "tool", "toolAsTask", "plain", "subscribe"},
        key : Keys, mode : {"use", "refresh", "bypass"}]

\* setup: see Handshake; todo: what each thread calls; grows: how often each registry grows or
\* resource changes; switches: how often the context changes; scope: the cache hint of each
\* result; answers: what the server's tools answer; tasks: the client has the tasks extension;
\* progressive: enable_progressive_discovery; etags: enable_etag_cache.
ASSUME ClientCallsAssumption ==
    /\ \A s \in Scenes :
          /\ s.setup \in Setups /\ DOMAIN s.todo = Callers /\ \A t \in Callers : s.todo[t] \in Seq(Ops)
          /\ DOMAIN s.grows = Keys /\ DOMAIN s.scope = Keys
          /\ {"todo", "grows", "switches", "scope"} \subseteq DOMAIN s
    /\ {PageSize, MaxPages, MaxEntries, MaxEtags, MaxRounds, MaxSubscriptions} \subseteq Nat \ {0}
    /\ Nobody \notin Callers

VARIABLES
    scene,          \* the scene, used up as things happen
    call,           \* thread -> its call
    auth,           \* the context cache_auth_context returns
    lastAuth,       \* last_cache_auth_context_
    public, private,\* the partitions of the cache
    etags,          \* etag_entries_ in etag_order_
    data,           \* the server's registries and resources: key -> items
    cachedTools,    \* cached_tools_
    announcing,     \* changes whose notice has still to go out
    notices,        \* notices on their way
    heard,          \* history: key -> items the handled notices announced
    listens,        \* thread -> its subscriptions/listen request on the server's side
    subs,           \* the server's subscription entries, named for the threads
    pendingAck,     \* pending_ack_id_
    acks,           \* acknowledgements on their way
    overlap,        \* history: two threads were subscribing at once
    owed            \* history: changes a subscribed client has still to be sent

cacheVars == <<lastAuth, public, private, etags>>
serverData == <<data, cachedTools, announcing, owed>>
subVars == <<listens, subs, pendingAck, acks, overlap>>
callVars == <<scene, call, auth, cacheVars, serverData, notices, heard, subVars>>
vars == <<handshakeVars, callVars>>

NoResponse == [kind |-> "none", items |-> <<>>, next |-> 0, tag |-> <<>>]

\* A call that is not under way.  asks: the method of its request; ctx: the context it captured;
\* owner: contexts its answers were made for; base: the registry when it first asked the server; stale,
\* switched: history, whether a notice was handled since then and whether it sent a request after
\* the context had changed; blank: history, whether it took an answer without items (notModified) for
\* a page of the list; how: what became of it; retried: inside SendRequestWithMrtr's second attempt; again: CallTool's.
Idle == [at |-> "idle", asks |-> "none", key |-> "tools", mode |-> "use", ctx |-> 1, as |-> 1,
         owner |-> {}, etag |-> <<>>, session |-> 0, cursor |-> 0, pages |-> 0, items |-> <<>>, first |-> <<>>,
         base |-> {}, seen |-> 0, round |-> 0, retried |-> FALSE, again |-> FALSE, resp |-> NoResponse,
         stale |-> FALSE, switched |-> FALSE, blank |-> FALSE, how |-> "none"]

CallsInit ==
    /\ scene \in Scenes /\ setup = scene.setup
    /\ call = [t \in Callers |-> Idle]
    /\ auth = 1 /\ lastAuth = 1
    /\ public = {} /\ private = {} /\ etags = <<>>
    /\ data = [k \in Keys |-> {2}] /\ cachedTools = {} /\ announcing = {}
    /\ notices = {} /\ heard = [k \in Keys |-> {}]
    /\ listens = [t \in Callers |-> "none"] /\ subs = {} /\ pendingAck = Nobody /\ acks = {}
    /\ overlap = FALSE /\ owed = {}

Active(t) == call[t].at \notin {"idle", "returned"}

\* A thread makes its next call; the client is there and not closed.
Starts(t, kind) ==
    /\ ~Active(t) /\ me.state = "usable"
    /\ scene.todo[t] # <<>> /\ Head(scene.todo[t]).kind = kind
    /\ scene' = [scene EXCEPT !.todo[t] = Tail(@)]

\* The request of record c goes out: under the session and the context of the moment.
Send(c) == [c EXCEPT !.at = "sent", !.session = me.session, !.as = auth, !.resp = NoResponse,
                     !.switched = @ \/ auth # c.ctx]

Finish(c, items, how) == [c EXCEPT !.at = "returned", !.items = items, !.how = how]

\* The list CallTool fetches after a header mismatch: when it has it, the tool is called again.
Ended(c, items, how) ==
    IF c.asks = "Relist" /\ how \in {"hit", "value", "notModified"}
    THEN Send([c EXCEPT !.asks = "CallTool", !.items = <<>>, !.pages = 0, !.cursor = 0, !.etag = <<>>])
    ELSE Finish(c, items, how)

Set(t, c) == call' = [call EXCEPT ![t] = c]

--------------------------------------------------------------------------------
(* The cache *)

\* used: last_accessed, as the number of entries that were used before this one.
Entry(c) == [key |-> c.key, ctx |-> c.ctx, items |-> c.items, owner |-> c.owner, used |-> 0,
             stale |-> c.stale, switched |-> c.switched, blank |-> c.blank]

\* Lookup in each partition; private entries are filed under the context.
FoundPublic(cache, key) == {e \in cache : e.key = key}
FoundPrivateMutant(cache, key, ctx) == {e \in cache : e.key = key}
FoundPrivate(cache, key, ctx) == {e \in cache : e.key = key /\ e.ctx = ctx}

Before(cache, e) == Cardinality({d \in cache : d.used < e.used})
Without(cache, found) == {[e EXCEPT !.used = Before(cache \ found, e)] : e \in cache \ found}

\* e takes the place of found, as the last one used.
Used(cache, found, e) == Without(cache, found) \cup {[e EXCEPT !.used = Cardinality(cache \ found)]}

\* EvictLocked: the entry not used for the longest time goes first.
EvictLocked(cache) ==
    IF Cardinality(cache) > MaxEntries THEN Without(cache, {e \in cache : e.used = 0}) ELSE cache

\* Store, in a partition where found are the entries of the same name.
Filed(cache, found, e) == EvictLocked(Used(cache, found, e))

\* GetStoredEtag, GetStoredEtagBody.
StoredEtag(key) == {e \in Range(etags) : e.key = key}

\* StoreEtagBody: a key keeps its place in etag_order_.
StoreEtagBody(c) ==
    LET fresh == [key |-> c.key, tag |-> c.first, items |-> c.items] IN
    IF ~scene.etags \/ c.first = <<>> THEN etags
    ELSE IF StoredEtag(c.key) # {} THEN [i \in DOMAIN etags |-> IF etags[i].key = c.key THEN fresh ELSE etags[i]]
    ELSE Append(IF Len(etags) = MaxEtags THEN Tail(etags) ELSE etags, fresh)

\* CacheIfHinted.
CacheIfHinted(c) ==
    /\ public' = IF scene.scope[c.key] = "public"
                 THEN Filed(public, FoundPublic(public, c.key), Entry(c)) ELSE public
    /\ private' = IF scene.scope[c.key] = "private"
                  THEN Filed(private, FoundPrivate(private, c.key, c.ctx), Entry(c)) ELSE private

\* A call that may be answered from the cache asks cache_auth_context who it is for, under no lock.
Captured(t, asks, key, mode, again) ==
    /\ Set(t, [Idle EXCEPT !.at = "captured", !.asks = asks, !.key = key, !.mode = mode, !.ctx = auth, !.again = again])
    /\ UNCHANGED <<handshakeVars, auth, cacheVars, serverData, notices, heard, subVars>>

CachedCall(t, asks, key, mode) == Captured(t, asks, key, mode, FALSE)

\* CurrentCacheAuthContext, under cache_auth_mutex_: private entries go when the context that was
\* captured is not the last one seen here.  (Only "use" looks for an entry.)
CurrentCacheAuthContext(t) ==
    LET c == call[t] IN
    /\ c.at = "captured"
    /\ Set(t, [c EXCEPT !.at = IF c.mode = "use" THEN "looking" ELSE "missed"])
    /\ private' = IF c.ctx # lastAuth THEN {} ELSE private
    /\ lastAuth' = c.ctx
    /\ UNCHANGED <<handshakeVars, scene, auth, public, etags, serverData, notices, heard, subVars>>

\* GetAny: the answer is an entry that is still good, the public one first.  An entry found too old
\* is dropped.
GetAny(t) ==
    LET c == call[t]
        pub == FoundPublic(public, c.key)
        priv == FoundPrivate(private, c.key, c.ctx)
        hit(e) == Set(t, Ended([c EXCEPT !.owner = e.owner, !.switched = e.switched], e.items, "hit"))
    IN  /\ c.at = "looking"
        /\ \/ (\E e \in pub : hit(e) /\ public' = Used(public, pub, e)) /\ UNCHANGED private
           \/ /\ public' = Without(public, pub)
              /\ \E e \in priv : hit(e) /\ private' = Used(private, priv, e)
           \/ /\ Set(t, [c EXCEPT !.at = "missed"])
              /\ public' = Without(public, pub) /\ private' = Without(private, priv)
        /\ UNCHANGED <<handshakeVars, scene, auth, lastAuth, etags, serverData, notices, heard, subVars>>

\* MaybeAttachEtag and the first request, in whatever context it is by now.
FirstRequest(t) ==
    LET c == call[t]
        tagged == IF scene.etags /\ StoredEtag(c.key) # {} THEN (CHOOSE e \in StoredEtag(c.key) : TRUE).tag ELSE <<>>
    IN  /\ c.at = "missed"
        /\ Set(t, Send([c EXCEPT !.etag = tagged, !.base = data[c.key], !.stale = FALSE]))
        /\ UNCHANGED <<handshakeVars, scene, auth, cacheVars, serverData, notices, heard, subVars>>

NextKey(t) == Head(scene.todo[t]).key
NextMode(t) == Head(scene.todo[t]).mode

ListTools(t) == Starts(t, "list") /\ NextKey(t) = "tools" /\ CachedCall(t, "ListTools", "tools", "use")
ListResources(t) == Starts(t, "list") /\ NextKey(t) = "resources" /\ CachedCall(t, "ListResources", "resources", "use")
ListResourceTemplates(t) ==
    Starts(t, "list") /\ NextKey(t) = "templates" /\ CachedCall(t, "ListResourceTemplates", "templates", "use")
ListPrompts(t) == Starts(t, "list") /\ NextKey(t) = "prompts" /\ CachedCall(t, "ListPrompts", "prompts", "use")
ListSkills(t) == Starts(t, "list") /\ NextKey(t) = "skills" /\ CachedCall(t, "ListSkills", "skills", "use")
ReadResource(t) == Starts(t, "read") /\ NextKey(t) = "doc" /\ CachedCall(t, "ReadResource", "doc", NextMode(t))
GetSkill(t) == Starts(t, "read") /\ NextKey(t) = "skill" /\ CachedCall(t, "GetSkill", "skill", NextMode(t))
ReadDirectory(t) == Starts(t, "read") /\ NextKey(t) = "directory" /\ CachedCall(t, "ReadDirectory", "directory", NextMode(t))

\* Calls that do not use the cache.
Uncached(t, asks, key) ==
    /\ Set(t, Send([Idle EXCEPT !.asks = asks, !.key = key, !.ctx = auth, !.base = data[key]]))
    /\ UNCHANGED <<handshakeVars, auth, cacheVars, serverData, notices, heard, subVars>>

SearchTools(t) == Starts(t, "search") /\ Uncached(t, "SearchTools", "tools")
GetPrompt(t) == Starts(t, "prompt") /\ Uncached(t, "GetPrompt", "prompts")
CallTool(t) == Starts(t, "tool") /\ Uncached(t, "CallTool", "tools")
CallToolAsTask(t) == Starts(t, "toolAsTask") /\ Uncached(t, "CallToolAsTask", "tools")
\* Complete, Ping, GetTask, SubscribeResource, SetLoggingLevel and their like: DoSendRequest.
DoSendRequest(t) == Starts(t, "plain") /\ Uncached(t, "Plain", "tools")

--------------------------------------------------------------------------------
(* The server answers *)

\* The items of S, which are numbers, in their order.
Ordered(S) == [i \in 1 .. Cardinality(S) |-> CHOOSE x \in S : Cardinality({y \in S : y < x}) = i - 1]
Value(items, next) == [kind |-> "value", items |-> items, next |-> next, tag |-> <<items, next>>]
Only(kind) == [NoResponse EXCEPT !.kind = kind]

\* PaginateEntries: the cursor is an index.
Page(items, cursor) ==
    LET end == Min({cursor + PageSize, Len(items)})
    IN  Value(SubSeq(items, cursor + 1, end), IF end < Len(items) THEN end ELSE 0)

\* HandleListTools: a page in the order of the names, or the cached list, which is made when it
\* is not there.
CachedTools == IF cachedTools = {} THEN data["tools"] ELSE cachedTools

HandleListTools(c) ==
    IF scene.progressive THEN {Page(Ordered(data["tools"]), c.cursor)} ELSE {Value(Ordered(CachedTools), 0)}

HandleListResources(c) == {Page(Ordered(data["resources"]), c.cursor)}
HandleListResourceTemplates(c) == {Page(Ordered(data["templates"]), c.cursor)}
HandleListPrompts(c) == {Page(Ordered(data["prompts"]), c.cursor)}
HandleListSkills(c) == {Page(Ordered(data["skills"]), c.cursor)}

\* What a tool, a prompt or a resource answers instead of a value: it needs input, works on as a
\* task, fails, or (on a network) finds that headers and arguments do not match.
Instead(kinds) == {Only(kind) : kind \in kinds \cap scene.answers}

HandleReadResource == {Value(Ordered(data["doc"]), 0)} \cup Instead({"input", "error"})
HandleGetSkill == {Value(Ordered(data["skill"]), 0)} \cup Instead({"error"})
HandleReadDirectory == {Value(Ordered(data["directory"]), 0)} \cup Instead({"error"})
HandleGetPrompt == {Value(<<>>, 0)} \cup Instead({"input", "task", "error"})
HandleCallTool == {Value(<<>>, 0)} \cup Instead({"input", "stateOnly", "task", "mismatch", "error"})
HandleGetTask == {Value(<<>>, 0)} \cup Instead({"working", "failed"})

Handled(c) ==
    CASE c.asks \in {"ListTools", "SearchTools", "Relist"} -> HandleListTools(c)
      [] c.asks = "ListResources" -> HandleListResources(c)
      [] c.asks = "ListResourceTemplates" -> HandleListResourceTemplates(c)
      [] c.asks = "ListPrompts" -> HandleListPrompts(c)
      [] c.asks = "ListSkills" -> HandleListSkills(c)
      [] c.asks = "ReadResource" -> HandleReadResource
      [] c.asks = "GetSkill" -> HandleGetSkill
      [] c.asks = "ReadDirectory" -> HandleReadDirectory
      [] c.asks = "GetPrompt" -> HandleGetPrompt
      [] c.asks \in {"CallTool", "CallToolAsTask"} -> HandleCallTool
      [] c.asks = "GetTask" -> HandleGetTask
      [] OTHER -> {Value(<<>>, 0)}

\* Not McpServer, but a server that knows etags may say that nothing has changed; it names the etag.
NotModified(c) ==
    {[Only("notModified") EXCEPT !.tag = c.etag] : r \in {v \in Handled(c) : v.kind = "value" /\ v.tag = c.etag}}

\* RequireInitialized.
RequireInitialized(s) == Modern(VersionFor(s)) \/ s \in ready

Answers(c) ==
    IF c.session \notin alive \cup {0} THEN {Only("expired")}
    ELSE IF ~RequireInitialized(c.session) THEN {Only("refused")}
    ELSE Handled(c) \cup NotModified(c)

\* A local transport delivers what was sent before first.
InOrder == setup.local => wire = <<>>

Serve(t) ==
    LET c == call[t] IN
    /\ c.at = "sent" /\ c.asks # "Subscribe" /\ InOrder
    /\ \E r \in Answers(c) : Set(t, [c EXCEPT !.at = "answered", !.resp = r, !.owner = @ \cup {c.as}])
    /\ cachedTools' = IF c.asks \in {"ListTools", "SearchTools", "Relist"} /\ ~scene.progressive
                       THEN CachedTools ELSE cachedTools
    /\ UNCHANGED <<handshakeVars, scene, auth, cacheVars, data, announcing, owed, notices, heard, subVars>>

\* No answer in time.
RequestTimesOut(t) ==
    /\ call[t].at = "sent" /\ call[t].asks # "Subscribe" /\ scene.timeouts
    /\ Set(t, Finish(call[t], <<>>, "failed"))
    /\ UNCHANGED <<handshakeVars, scene, auth, cacheVars, serverData, notices, heard, subVars>>

--------------------------------------------------------------------------------
(* The client handles the answer *)

Others == <<handshakeVars, scene, auth, lastAuth, serverData, notices, heard, subVars>>
IsList(c) == c.asks \in {"ListTools", "ListResources", "ListResourceTemplates", "ListPrompts", "ListSkills",
                         "SearchTools", "Relist"}
IsRead(c) == c.asks \in {"ReadResource", "GetSkill", "ReadDirectory"}
WithMrtr(c) == IsRead(c) \/ c.asks \in {"GetPrompt", "CallTool", "CallToolAsTask"}

Answered(t, kinds) == call[t].at = "answered" /\ call[t].resp.kind \in kinds

\* ListPages, SearchTools: a page has come and there is another one.
NextPage(t) ==
    LET c == call[t]
        more == [c EXCEPT !.items = @ \o c.resp.items, !.pages = @ + 1, !.cursor = c.resp.next,
                          !.first = IF c.pages = 0 THEN c.resp.tag ELSE @]
    IN  /\ Answered(t, {"value"}) /\ IsList(c) /\ c.resp.next # 0
        /\ Set(t, IF c.pages + 1 < MaxPages THEN Send(more) ELSE Finish(c, <<>>, "failed"))
        /\ UNCHANGED <<Others, public, private, etags>>

\* The rest of a list or read call: when the first answer says that nothing has changed the body
\* is taken from the store of etags.  Anything else is stored there and in the cache, even an
\* answer without items whose body is gone, or that came for a later page.
Store(t) ==
    LET c == call[t]
        unmodified == c.resp.kind = "notModified"
        bodies == IF unmodified /\ c.pages = 0 THEN StoredEtag(c.key) ELSE {}
        got == [c EXCEPT !.items = @ \o c.resp.items, !.blank = unmodified,
                         !.first = IF c.pages = 0 THEN c.resp.tag ELSE @]
    IN  /\ Answered(t, {"value", "notModified"}) /\ (IsList(c) \/ IsRead(c))
        /\ c.resp.next = 0 /\ c.asks # "SearchTools"
        /\ \/ /\ \E e \in bodies : Set(t, Ended(c, e.items, "notModified"))
              /\ UNCHANGED <<public, private, etags>>
           \/ /\ bodies = {} /\ Set(t, Ended(got, got.items, "value"))
              /\ etags' = StoreEtagBody(got)
              /\ IF c.mode = "bypass" \/ (unmodified /\ c.pages = 0) THEN UNCHANGED <<public, private>>
                 ELSE CacheIfHinted(got)
        /\ UNCHANGED Others

\* A value that is not cached.
Found(t) ==
    LET c == call[t] IN
    /\ Answered(t, {"value"}) /\ c.resp.next = 0
    /\ c.asks = "SearchTools" \/ ~(IsList(c) \/ IsRead(c) \/ c.asks = "Subscribe")
    /\ Set(t, Finish(c, c.items \o c.resp.items, "value"))
    /\ UNCHANGED <<Others, public, private, etags>>

InputRequiredMutant(t) ==
    LET c == call[t] IN
    /\ Answered(t, {"input", "stateOnly"})
    /\ Set(t, IF c.round < MaxRounds THEN Send(c) ELSE Finish(c, <<>>, "failed"))
    /\ UNCHANGED <<Others, public, private, etags>>

\* TryFulfillInputRequired, and the rounds of SendRequestWithMrtrOnce.
InputRequired(t) ==
    LET c == call[t] IN
    /\ Answered(t, {"input", "stateOnly"})
    /\ Set(t, IF c.round < MaxRounds THEN Send([c EXCEPT !.round = @ + 1]) ELSE Finish(c, <<>>, "failed"))
    /\ UNCHANGED <<Others, public, private, etags>>

\* ResolveTaskResult: CallToolAsTask hands out the task, the other calls poll it.
ResolveTaskResult(t) ==
    LET c == call[t] IN
    /\ Answered(t, {"task"})
    /\ Set(t, IF ~scene.tasks THEN Finish(c, <<>>, "failed")
              ELSE IF c.asks = "CallToolAsTask" THEN Finish(c, <<>>, "value")
              ELSE Send([c EXCEPT !.asks = "GetTask"]))
    /\ UNCHANGED <<Others, public, private, etags>>

\* PollTaskToCompletion: the task is asked for until it has ended or the deadline has come.
PollTaskToCompletion(t) ==
    /\ Answered(t, {"working"}) /\ Set(t, Send(call[t]))
    /\ UNCHANGED <<Others, public, private, etags>>

PollingTimesOut(t) ==
    /\ Answered(t, {"working"}) /\ Set(t, Finish(call[t], <<>>, "failed"))
    /\ UNCHANGED <<Others, public, private, etags>>

\* CallTool: the headers did not match the arguments, once.
HeaderMismatch(t) ==
    LET c == call[t] IN
    /\ Answered(t, {"mismatch"})
    /\ IF c.asks = "CallTool" /\ ~c.again
       THEN public' = {} /\ private' = {} /\ Set(t, [c EXCEPT !.at = "relist"])
       ELSE UNCHANGED <<public, private>> /\ Set(t, Finish(c, <<>>, "failed"))
    /\ UNCHANGED <<Others, etags>>

RelistTools(t) ==
    /\ call[t].at = "relist" /\ UNCHANGED scene
    /\ Captured(t, "Relist", "tools", "use", TRUE)

\* Everything else is thrown; so is a session that has expired, unless it may be recovered.
MayRecover(c) == c.resp.kind = "expired" /\ WithMrtr(c) /\ ~c.retried

Throws(t) ==
    LET c == call[t] IN
    /\ Answered(t, {"expired", "refused", "error", "failed"}) /\ ~MayRecover(c) /\ c.asks # "Subscribe"
    /\ Set(t, Finish(c, <<>>, c.resp.kind))
    /\ UNCHANGED <<Others, public, private, etags>>

\* RecoverExpiredSession: the generation is read, then reinit_mutex_ is taken.
Observe(t) ==
    /\ call[t].at = "answered" /\ MayRecover(call[t])
    /\ Set(t, [call[t] EXCEPT !.at = "observed", !.seen = me.generation])
    /\ UNCHANGED <<Others, public, private, etags>>

Again(c) == Send([c EXCEPT !.round = 0, !.retried = TRUE])

RecoverExpiredSession(t) ==
    LET c == call[t] IN
    /\ c.at = "observed" /\ At("idle")
    /\ IF me.generation # c.seen THEN Set(t, Again(c)) /\ UNCHANGED hand
       ELSE Set(t, [c EXCEPT !.at = "negotiating"]) /\ hand' = [hand EXCEPT !.at = "begin", !.by = t]
    /\ UNCHANGED <<setup, serverVars, wire, answer, me, scene, auth, cacheVars, serverData, notices, heard, subVars>>

Recovered(t) ==
    LET c == call[t] IN
    /\ c.at = "negotiating" /\ hand.by = t
    /\ \/ At("agreed") /\ me' = [me EXCEPT !.generation = @ + 1] /\ Set(t, Again(c))
       \/ At("failed") /\ UNCHANGED me /\ Set(t, Finish(c, <<>>, "failed"))
    /\ hand' = [hand EXCEPT !.at = "idle"]
    /\ UNCHANGED <<setup, serverVars, wire, answer, scene, auth, cacheVars, serverData, notices, heard, subVars>>

--------------------------------------------------------------------------------
(* Registries and notices *)

Grows(key, item) ==
    /\ scene.grows[key] > 0 /\ item \in Items \ data[key]
    /\ scene' = [scene EXCEPT !.grows[key] = @ - 1]
    /\ data' = [data EXCEPT ![key] = @ \cup {item}]

\* A notice will go out; a client that has subscribed has to be sent it.
Changed(key) ==
    LET change == [key |-> key, seen |-> data'[key]] IN
    /\ announcing' = announcing \cup {change}
    /\ owed' = IF ~overlap /\ \E t \in Callers : call[t].how = "subscribed"
               THEN owed \cup {change} ELSE owed
    /\ UNCHANGED <<handshakeVars, call, auth, cacheVars, notices, heard, subVars>>

\* Tools are listed by name, the rest in the order of registration.
Newest(key) == Max(data[key]) + 1

RegisterToolMutant(item) == Grows("tools", item) /\ UNCHANGED cachedTools /\ Changed("tools")

RegisterTool(item) == Grows("tools", item) /\ cachedTools' = {} /\ Changed("tools")
RegisterResource == Grows("resources", Newest("resources")) /\ UNCHANGED cachedTools /\ Changed("resources")
RegisterResourceTemplate == Grows("templates", Newest("templates")) /\ UNCHANGED cachedTools /\ Changed("templates")
RegisterPrompt == Grows("prompts", Newest("prompts")) /\ UNCHANGED cachedTools /\ Changed("prompts")
\* Nobody is told of a skill.
RegisterSkill ==
    /\ Grows("skills", Newest("skills"))
    /\ UNCHANGED <<handshakeVars, call, auth, cacheVars, cachedTools, announcing, owed, notices, heard, subVars>>
\* The application changes a resource and calls SendResourceUpdated.
SendResourceUpdated == Grows("doc", Newest("doc")) /\ UNCHANGED cachedTools /\ Changed("doc")

\* SendListChangedNotification: in the modern era subscribers are told, before it everybody;
\* a resource that changed is a matter for subscribers alone.
Reaches(change) ==
    IF change.key # "doc" /\ 0 \notin ready THEN FALSE
    ELSE IF Modern(default) \/ change.key = "doc" THEN subs # {}
    ELSE TRUE

Announce(change) ==
    /\ change \in announcing /\ announcing' = announcing \ {change}
    /\ notices' = IF Reaches(change) THEN notices \cup {change} ELSE notices
    /\ owed' = IF Reaches(change) THEN owed \ {change} ELSE owed
    /\ UNCHANGED <<handshakeVars, scene, call, auth, cacheVars, data, cachedTools, heard, subVars>>

\* Invalidate: the key's entries of both partitions, under whatever context.
Invalidate(key) ==
    /\ public' = Without(public, FoundPublic(public, key))
    /\ private' = Without(private, FoundPublic(private, key))

\* The client handles a notice: a changed list empties the cache.
HearNotice(change) ==
    /\ change \in notices /\ notices' = notices \ {change}
    /\ heard' = [heard EXCEPT ![change.key] = @ \cup change.seen]
    /\ IF change.key = "doc" THEN Invalidate("doc") ELSE public' = {} /\ private' = {}
    /\ call' = [t \in Callers |-> IF Active(t) /\ call[t].key = change.key
                                 THEN [call[t] EXCEPT !.stale = TRUE] ELSE call[t]]
    /\ UNCHANGED <<handshakeVars, scene, auth, lastAuth, etags, serverData, subVars>>

\* The application acts for somebody else.
SwitchContext ==
    /\ scene.switches > 0 /\ scene' = [scene EXCEPT !.switches = @ - 1]
    /\ auth' = 3 - auth
    /\ UNCHANGED <<handshakeVars, call, cacheVars, serverData, notices, heard, subVars>>

--------------------------------------------------------------------------------
(* Subscriptions *)

NotSubs == <<handshakeVars, auth, cacheVars, serverData, notices, heard>>
Subscribing(t) == Active(t) /\ call[t].asks = "Subscribe"

SubscribeAsync(t) ==
    /\ Starts(t, "subscribe")
    /\ pendingAck' = t /\ overlap' = (overlap \/ \E u \in Callers : Subscribing(u))
    /\ listens' = [listens EXCEPT ![t] = "sent"]
    /\ Set(t, Send([Idle EXCEPT !.asks = "Subscribe", !.ctx = auth]))
    /\ UNCHANGED <<NotSubs, subs, acks>>

\* HandleSubscriptionsListen refuses, or enters the subscription and only then acknowledges it.  (When
\* there is no room it first drops entries older than kSubscriptionEntryTtl, an hour; none is here.)
Respond(t, kind) ==
    IF Subscribing(t) /\ call[t].at = "sent" THEN Set(t, [call[t] EXCEPT !.at = "answered", !.resp = Only(kind)])
    ELSE UNCHANGED call

ListenMutant(t) ==
    /\ listens[t] = "sent"
    /\ listens' = [listens EXCEPT ![t] = "entered"] /\ UNCHANGED <<call, subs>>
    /\ UNCHANGED <<NotSubs, scene, pendingAck, acks, overlap>>

Listen(t) ==
    LET s == call[t].session IN
    /\ listens[t] = "sent" /\ InOrder
    /\ \/ /\ \/ s \notin alive \cup {0} \/ ~Modern(VersionFor(s))
           \/ Cardinality(subs) >= MaxSubscriptions
        /\ listens' = [listens EXCEPT ![t] = "none"] /\ Respond(t, "refused") /\ UNCHANGED subs
       \/ /\ s \in alive \cup {0} /\ Modern(VersionFor(s)) /\ Cardinality(subs) < MaxSubscriptions
          /\ subs' = subs \cup {t} /\ listens' = [listens EXCEPT ![t] = "entered"] /\ UNCHANGED call
    /\ UNCHANGED <<NotSubs, scene, pendingAck, acks, overlap>>

Acknowledge(t) ==
    /\ listens[t] = "entered" /\ listens' = [listens EXCEPT ![t] = "none"]
    /\ acks' = acks \cup {t} /\ Respond(t, "value")
    /\ UNCHANGED <<NotSubs, scene, subs, pendingAck, overlap>>

\* The handler of notifications/subscriptions/acknowledged.
HearAck(t) ==
    /\ t \in acks /\ acks' = acks \ {t}
    /\ pendingAck' = IF pendingAck = t THEN Nobody ELSE pendingAck
    /\ UNCHANGED <<NotSubs, scene, call, listens, subs, overlap>>

\* SubscribeAsync returns: with the answer, without an acknowledgement to wait for, or too late.
Subscribed(t) ==
    /\ Subscribing(t)
    /\ \/ /\ call[t].at = "answered" /\ pendingAck' = Nobody
          /\ Set(t, Finish(call[t], <<>>, IF call[t].resp.kind = "value" THEN "subscribed" ELSE "refused"))
       \/ /\ call[t].at = "sent" /\ pendingAck = Nobody /\ UNCHANGED pendingAck
          /\ Set(t, Finish(call[t], <<>>, "subscribed"))
       \/ /\ call[t].at = "sent" /\ pendingAck # Nobody /\ pendingAck' = Nobody
          /\ scene.timeouts /\ Set(t, Finish(call[t], <<>>, "failed"))
    /\ UNCHANGED <<NotSubs, scene, listens, subs, acks, overlap>>

--------------------------------------------------------------------------------
ClientStep(t) ==
    \/ ListTools(t) \/ ListResources(t) \/ ListResourceTemplates(t) \/ ListPrompts(t) \/ ListSkills(t)
    \/ ReadResource(t) \/ GetSkill(t) \/ ReadDirectory(t)
    \/ SearchTools(t) \/ GetPrompt(t) \/ CallTool(t) \/ CallToolAsTask(t) \/ DoSendRequest(t)
    \/ CurrentCacheAuthContext(t) \/ GetAny(t) \/ FirstRequest(t)
    \/ NextPage(t) \/ Store(t) \/ Found(t) \/ InputRequired(t) \/ ResolveTaskResult(t)
    \/ HeaderMismatch(t) \/ RelistTools(t) \/ Throws(t)
    \/ Observe(t) \/ RecoverExpiredSession(t) \/ Recovered(t)
    \/ SubscribeAsync(t) \/ Subscribed(t) \/ PollTaskToCompletion(t) \/ PollingTimesOut(t)

ServerStep(t) == Serve(t) \/ Listen(t) \/ Acknowledge(t)

CallsNext ==
    \/ \E t \in Callers : ClientStep(t) \/ ServerStep(t) \/ RequestTimesOut(t) \/ HearAck(t)
    \/ \E item \in Items : RegisterTool(item)
    \/ RegisterResource \/ RegisterResourceTemplate \/ RegisterPrompt \/ RegisterSkill \/ SendResourceUpdated
    \/ \E change \in announcing : Announce(change)
    \/ \E change \in notices : HearNotice(change)
    \/ SwitchContext

--------------------------------------------------------------------------------
(* Properties *)

\* An entry of the cache knows of every change whose notice the client has handled, unless its
\* request was under way when the notice was handled: HearNotice empties the cache of what
\* there is, and nothing else may bring an old answer in.  (Nor does an entry that is blank.)
StaleOnlyByStraggler ==
    \A e \in public \cup private : e.stale \/ e.blank \/ heard[e.key] \subseteq Range(e.items)

\* A private answer is found in the cache only by a call that captured the context it was made for,
\* whatever other threads capture, clear, look up and store in between and whenever the answers
\* come.  A call that sends a request after the context has changed is the exception: it files what
\* it gets for the new context under the old one, whose next call finds it (`switched`), against
\* docs/en/reference/client.md:149, "giving per-tenant isolation".
PrivateStaysPrivate ==
    \A t \in Callers :
        LET c == call[t] IN
        (c.how = "hit" /\ scene.scope[c.key] = "private" /\ ~c.switched) => c.owner = {c.ctx}

\* A list put together from pages holds every item that was registered when it was begun: what
\* is registered between two pages may make items come twice, never leave one out.  (A list is
\* blank when notModified answers for a later page than the first, or when the body it stands for
\* was dropped from the store of etags meanwhile.)
EveryItemListed ==
    \A t \in Callers :
        LET c == call[t] IN
        (c.at = "returned" /\ IsList(c) /\ c.how = "value" /\ ~c.blank) => c.base \subseteq Range(c.items)

\* A list is what the server had when it was asked for, or is known to be older.
ListsAreTrue == EveryItemListed /\ StaleOnlyByStraggler

\* A pinned client asks nobody for a version: a server that has not been initialized otherwise
\* is not IsRunning() and keeps the notices of its registrations back, whoever has subscribed.
HeldBack(change) == setup.mode = "Pin" /\ change.key # "doc"

\* SubscribeAsync has returned: the server has the subscription, and every later change whose
\* notice has gone out has been sent to the client.  Two threads that subscribe at once share
\* pending_ack_id_ and may each take the other's acknowledgement for its own.
SubscribedHears ==
    ~overlap => /\ \A t \in Callers : call[t].how = "subscribed" => t \in subs
                /\ \A change \in owed : change \in announcing \/ HeldBack(change)
================================================================================
