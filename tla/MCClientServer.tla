------------------------------ MODULE MCClientServer ------------------------------
(* Scenes for ClientServer. *)
EXTENDS ClientServer

CONSTANTS a, b

Setup(mode, local, supported, pin, shared) ==
    [mode |-> mode, local |-> local, supported |-> supported, pin |-> pin, shared |-> shared]

Old == {2, 4}
All == Versions

MCSetups ==
    {Setup(m, l, s, 0, FALSE) : m \in {"Auto", "Legacy"}, l \in BOOLEAN, s \in {Old, All}}
    \cup {Setup("Auto", FALSE, All, 0, TRUE), Setup("Legacy", FALSE, All, 0, TRUE), Setup("Pin", TRUE, All, 5, FALSE),
          Setup("Auto", FALSE, Old, 2, FALSE)}

Op(kind, key, mode) == [kind |-> kind, key |-> key, mode |-> mode]
List(key) == Op("list", key, "use")
Read(mode) == Op("read", "doc", mode)
Tool(kind) == Op(kind, "tools", "use")

Quiet == [k \in Keys |-> 0]
Public == [k \in Keys |-> "public"]
Private == [k \in Keys |-> "private"]

Base == [setup |-> Setup("Auto", TRUE, All, 0, FALSE), todo |-> [t \in Callers |-> <<>>], grows |-> Quiet,
         switches |-> 0, scope |-> Public, answers |-> {}, tasks |-> TRUE, progressive |-> FALSE,
         etags |-> FALSE, timeouts |-> FALSE, tokens |-> {}, elicits |-> {}]

Two(x, y) == a :> x @@ b :> y

Handshakes == {[Base EXCEPT !.setup = s, !.todo = Two(<<Tool("plain")>>, <<>>)] : s \in MCSetups}

\* Two threads list tools that change.
Caching ==
    {[Base EXCEPT !.todo = Two(<<List("tools"), List("tools")>>, <<List("tools")>>),
                  !.grows = [Quiet EXCEPT !["tools"] = 2], !.scope = x[1], !.etags = x[2], !.setup.mode = x[3]]
        : x \in {<<Public, TRUE, "Auto">>, <<Private, TRUE, "Auto">>, <<Private, FALSE, "Auto">>,
                 <<Public, FALSE, "Legacy">>}}

\* Lists that have not changed: bodies are dropped from the store of etags, or a page is like the
\* first one was.
Unmodified ==
    {[Base EXCEPT !.todo = Two(<<List("tools"), List("tools")>>, <<List("resources"), List("prompts")>>), !.etags = TRUE],
     [Base EXCEPT !.todo = Two(<<List("tools"), List("tools")>>, <<>>), !.grows = [Quiet EXCEPT !["tools"] = 1],
                  !.progressive = TRUE, !.etags = TRUE]}

\* Pages, while tools are registered.
Paging ==
    {[Base EXCEPT !.todo = Two(<<List("tools")>>, <<Tool("search")>>), !.progressive = TRUE,
                  !.grows = [Quiet EXCEPT !["tools"] = 2], !.setup.mode = "Legacy"]}

\* A resource is read in the modes there are, changes, and is read for two contexts, by a client that
\* hears of the change or not.
Reading ==
    {[Base EXCEPT !.todo = Two(<<Read("use"), Read(x[1])>>, x[2] \o <<Read("use")>>),
                  !.grows = [Quiet EXCEPT !["doc"] = 1], !.scope = x[3], !.switches = x[4]]
        : x \in {<<"use", <<Tool("subscribe")>>, Private, 1>>, <<"refresh", <<>>, Private, 1>>,
                 <<"bypass", <<>>, Private, 1>>, <<"refresh", <<Tool("subscribe")>>, Public, 0>>,
                 <<"bypass", <<Tool("subscribe")>>, Public, 0>>}}

\* The other lists and reads, one after the other.
Rest ==
    {[Base EXCEPT !.todo = Two(<<List(k), List(k)>>, <<>>), !.grows = [Quiet EXCEPT ![k] = 1], !.scope = s]
        : k \in {"resources", "templates", "prompts", "skills"}, s \in {Public, Private}}
    \cup {[Base EXCEPT !.todo = Two(<<Op("read", k, "use"), Op("read", k, "use")>>, <<>>), !.answers = {"error"}]
        : k \in {"skill", "directory"}}

\* Tools and prompts, and what they may answer.
Tools ==
    {[Base EXCEPT !.todo = Two(<<Tool(k)>>, <<List("tools")>>), !.tasks = t, !.timeouts = TRUE,
                  !.answers = {"input", "stateOnly", "task", "mismatch", "error", "working", "failed"}]
        : k \in {"tool", "toolAsTask", "prompt"}, t \in BOOLEAN}

\* The session expires under two threads.
Recovery ==
    {[Base EXCEPT !.setup = Setup(m, FALSE, All, 0, s), !.todo = Two(<<Tool("tool")>>, <<Tool("tool")>>)]
        : m \in {"Auto", "Legacy"}, s \in BOOLEAN}

\* Two threads subscribe while the list of tools changes.
Subscriptions ==
    {[Base EXCEPT !.todo = Two(<<Tool("subscribe"), List("tools")>>, x), !.grows = [Quiet EXCEPT !["tools"] = 1],
                  !.timeouts = t]
        : x \in {<<>>, <<Tool("subscribe")>>}, t \in BOOLEAN}
    \cup {[Base EXCEPT !.setup = Setup("Pin", TRUE, All, 5, FALSE), !.todo = Two(<<Tool("subscribe")>>, <<>>),
                      !.grows = [Quiet EXCEPT !["tools"] = 1]]}

\* A context, another one and the first again, while two threads read.
Tenants ==
    {[Base EXCEPT !.todo = Two(<<Read("use"), Read("use")>>, <<Read("use")>>), !.scope = Private, !.switches = 2]}

Asides == {[Base EXCEPT !.tokens = {a, b}], [Base EXCEPT !.elicits = {a, b}]}

MCScenes == Handshakes \cup Caching \cup Unmodified \cup Paging \cup Reading \cup Rest \cup Tools \cup Recovery
            \cup Subscriptions \cup Tenants \cup Asides
================================================================================
