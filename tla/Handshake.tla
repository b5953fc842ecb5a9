------------------------------- MODULE Handshake -------------------------------
(***************************************************************************)
(* How a client and a server come to a protocol version: McpClient's       *)
(* VersionNegotiation against the initialize and server/discover handlers  *)
(* of McpServer, the era check of the session handler and the sessions of  *)
(* the Streamable HTTP transport.                                          *)
(*                                                                         *)
(* A client negotiates when it is created and again when its session has   *)
(* expired.  The server keeps a version for each session and one for       *)
(* requests without a session, which also stands in for sessions that have *)
(* none yet.  On a network a request waits in a queue until the one before *)
(* is answered, while notifications are posted by threads of their own.    *)
(***************************************************************************)
EXTENDS Naturals, Sequences, SequencesExt, FiniteSetsExt

CONSTANTS
    Creator,        \* the thread that creates the client
    Callers,        \* threads that call it
    Setups,         \* the pairs of client and server tried
    MaxSessions,    \* sessions the server has room for (kMaxHttpSessions)
    MaxExpiries     \* bound: sessions that expire

\* kProtocolVersions, oldest first; 0 stands for none.
Versions == 1 .. 5
Latest == 5
Legacy == 4
DefaultNegotiated == 2

Modern(v) == v >= Latest

\* mode: ConnectMode; local: an in-memory or stdio transport, which has no sessions and keeps
\* messages in order; supported, pin: supported_protocol_versions and protocol_version of the
\* server; shared: other clients use the server too.
ASSUME HandshakeAssumption ==
    /\ Setups \subseteq [mode : {"Auto", "Legacy", "Pin"}, local : BOOLEAN,
                         supported : SUBSET Versions \ {{}}, pin : 0 .. 5, shared : BOOLEAN]
    /\ MaxSessions \in Nat /\ MaxExpiries \in Nat /\ Creator \notin Callers

VARIABLES
    setup,
    default,    \* negotiated_version_ of the server's session handler
    version,    \* negotiated_version of its session_states_
    alive,      \* sessions of the HTTP transport
    expired,    \* sessions that have expired
    ready,      \* initialized sessions (client_sessions_, and initialized_ for none)
    wire,       \* messages on their way to the server
    hand,       \* the negotiation: its step, the thread, the request it waits for
    answer,     \* its answer
    me          \* the client: usable or not, negotiation_, session id, session_generation_, and
                \* whether its last negotiation succeeded

serverVars == <<default, version, alive, expired, ready>>
clientVars == <<hand, answer, me>>
handshakeVars == <<setup, serverVars, wire, clientVars>>

Sessions == 1 .. MaxSessions
Threads == Callers \cup {Creator}
NoAnswer == [kind |-> "none", version |-> 0]
At(step) == hand.at = step

HandshakeInit ==
    /\ setup \in Setups
    /\ default = setup.pin /\ version = [s \in Sessions |-> 0]
    /\ alive = {} /\ expired = {} /\ ready = {}
    /\ wire = <<>>
    /\ hand = [at |-> "begin", by |-> Creator, n |-> 0]
    /\ answer = NoAnswer
    /\ me = [state |-> "connecting", version |-> 0, modern |-> FALSE, session |-> 0, generation |-> 0,
             agreed |-> FALSE]

HandshakeTypeOK ==
    /\ setup \in Setups /\ default \in 0 .. 5 /\ version \in [Sessions -> 0 .. 5]
    /\ alive \subseteq Sessions /\ expired \subseteq Sessions /\ ready \subseteq 0 .. MaxSessions
    /\ hand.at \in {"idle", "begin", "probe", "init", "agreed", "failed"}
    /\ hand.by \in Threads /\ hand.n \in Nat
    /\ answer.kind \in {"none", "ok", "unsupported", "refused"} /\ answer.version \in 0 .. 5
    /\ me.state \in {"connecting", "usable", "failed"} /\ me.version \in 0 .. 5
    /\ me.modern \in BOOLEAN /\ me.session \in 0 .. MaxSessions /\ me.generation \in Nat
    /\ me.agreed \in BOOLEAN

--------------------------------------------------------------------------------
(* The server *)

\* VersionFor: a session without a version of its own has the one of requests without a session.
VersionFor(s) == IF s # 0 /\ version[s] # 0 THEN version[s] ELSE default

\* SetNegotiatedProtocolVersion.
SetVersion(s, v) ==
    /\ default' = IF s = 0 THEN v ELSE default
    /\ version' = IF s = 0 THEN version ELSE [version EXCEPT ![s] = v]

\* MarkSessionInitialized also sets initialized_.
MarkInitialized(s) == ready' = ready \cup {0, s}

\* Message number i reaches the server.  On a network it overtakes those before it when it or they
\* are notifications (SendLoop and LaunchImmediatePost).
Takes(i, kind) ==
    /\ i \in 1 .. Len(wire) /\ wire[i].kind = kind
    /\ \A j \in 1 .. i - 1 : ~setup.local /\ "initialized" \in {kind, wire[j].kind}
    /\ wire' = RemoveAt(wire, i)

\* An answer nobody waits for any more is dropped by the client.
Reply(m, kind, v) ==
    answer' = IF m.n = hand.n /\ hand.at \in {"probe", "init"}
              THEN [kind |-> kind, version |-> v] ELSE answer

\* The answer to server/discover lists the versions; the client picks the newest it knows.
SelectSharedVersion == Max(setup.supported \cap Versions)

\* server/discover: refused in a session that is gone or a legacy one, and when the version the
\* request declares is not one of the server's.  The session is the client's when the request
\* leaves the queue.
Discover(i) ==
    LET m == wire[i]
        s == me.session
        gone == s \notin alive \cup {0} \/ (VersionFor(s) # 0 /\ ~Modern(VersionFor(s)))
    IN  /\ Takes(i, "discover")
        /\ \/ gone /\ Reply(m, "refused", 0) /\ UNCHANGED <<default, version, ready>>
           \/ /\ ~gone /\ Latest \notin setup.supported
              /\ Reply(m, "unsupported", 0) /\ UNCHANGED <<default, version, ready>>
           \/ /\ ~gone /\ Latest \in setup.supported
              /\ SetVersion(s, IF setup.pin # 0 THEN setup.pin ELSE Latest)
              /\ MarkInitialized(s)
              /\ Reply(m, "ok", SelectSharedVersion)
        /\ UNCHANGED <<setup, alive, expired, hand, me>>

\* Another client of the same server discovers.
OtherDiscovers ==
    /\ setup.shared /\ ~setup.local /\ Latest \in setup.supported
    /\ VersionFor(0) = 0 \/ Modern(VersionFor(0))
    /\ SetVersion(0, IF setup.pin # 0 THEN setup.pin ELSE Latest) /\ MarkInitialized(0)
    /\ UNCHANGED <<setup, alive, expired, wire, clientVars>>

\* What HandleInitialize settles on for the version the client declares.
Selected(declared) ==
    IF setup.pin # 0 THEN setup.pin
    ELSE IF declared = 0 THEN DefaultNegotiated
    ELSE IF declared \in setup.supported /\ ~Modern(declared) THEN declared
    ELSE Legacy

\* HandleInitialize in session s; the era check lets initialize pass where nothing is negotiated.
InitializeSessionMutant(m, s) ==
    IF VersionFor(s) # 0 /\ Modern(VersionFor(s))
    THEN Reply(m, "refused", 0) /\ UNCHANGED <<default, version>>
    ELSE SetVersion(s, Legacy) /\ Reply(m, "ok", Selected(m.declared))

InitializeSession(m, s) ==
    IF VersionFor(s) # 0 /\ Modern(VersionFor(s))
    THEN Reply(m, "refused", 0) /\ UNCHANGED <<default, version>>
    ELSE SetVersion(s, Selected(m.declared)) /\ Reply(m, "ok", Selected(m.declared))

\* initialize comes without a session: the HTTP transport makes one where it has room.  The
\* client keeps the id from the answer's header, whatever the answer and however late.
Initialize(i) ==
    LET m == wire[i]
        free == Sessions \ (alive \cup expired)
        s == IF setup.local THEN 0 ELSE Min(free)
    IN  /\ Takes(i, "initialize")
        /\ \/ ~setup.local /\ free = {}
              /\ Reply(m, "refused", 0) /\ UNCHANGED <<default, version, alive, me>>
           \/ /\ setup.local \/ free # {}
              /\ InitializeSession(m, s)
              /\ alive' = IF setup.local THEN alive ELSE alive \cup {s}
              /\ me' = [me EXCEPT !.session = s]
        /\ UNCHANGED <<setup, expired, ready, hand>>

\* notifications/initialized is dropped in the modern era and in a session that is gone.  Its
\* session is the client's when it was handed to its thread, or one of later.
Initialized(i) ==
    /\ Takes(i, "initialized")
    /\ \E s \in {wire[i].session, me.session} :
          IF Modern(VersionFor(s)) \/ s \notin alive \cup {0} THEN UNCHANGED ready ELSE MarkInitialized(s)
    /\ UNCHANGED <<setup, default, version, alive, expired, clientVars>>

\* A session expires: idle too long.
Expires(s) ==
    /\ s \in alive /\ Cardinality(expired) < MaxExpiries
    /\ alive' = alive \ {s} /\ expired' = expired \cup {s}
    /\ UNCHANGED <<setup, default, version, ready, wire, clientVars>>

--------------------------------------------------------------------------------
(* The client *)

Message(kind, session, n, by) ==
    [kind |-> kind, session |-> session, n |-> n, by |-> by,
     declared |-> IF kind = "initialize" THEN Legacy ELSE Latest]

\* A handshake request goes out and is waited for.
Ask(step, kind) ==
    /\ hand' = [hand EXCEPT !.at = step, !.n = @ + 1]
    /\ wire' = Append(wire, Message(kind, 0, hand.n + 1, hand.by))
    /\ answer' = NoAnswer

\* The negotiation has a result; the client's session handler switches to its codec.
Agree(v, modern) ==
    /\ hand' = [hand EXCEPT !.at = "agreed"] /\ answer' = NoAnswer
    /\ me' = [me EXCEPT !.version = v, !.modern = modern, !.agreed = TRUE]

Fail ==
    /\ hand' = [hand EXCEPT !.at = "failed"] /\ answer' = NoAnswer
    /\ me' = [me EXCEPT !.agreed = FALSE]

\* VersionNegotiation::Negotiate.
Begin ==
    /\ At("begin")
    /\ \/ setup.mode = "Pin" /\ Agree(Latest, TRUE) /\ UNCHANGED wire
       \/ setup.mode = "Legacy" /\ Ask("init", "initialize") /\ UNCHANGED me
       \/ setup.mode = "Auto" /\ Ask("probe", "discover") /\ UNCHANGED me
    /\ UNCHANGED <<setup, serverVars>>

\* ProbeDiscover has its answer.  (The second probe is for a server that refuses the latest
\* version and lists it; this one does not.)
ProbeDiscover ==
    /\ At("probe") /\ answer.kind # "none"
    /\ IF answer.kind = "ok" THEN Agree(answer.version, TRUE) /\ UNCHANGED wire
       ELSE Ask("init", "initialize") /\ UNCHANGED me
    /\ UNCHANGED <<setup, serverVars>>

\* HandshakeInitialize sends its notification before it looks at the answer.
Notify == wire' = Append(wire, Message("initialized", me.session, 0, hand.by))

HandshakeInitialize ==
    /\ At("init") /\ answer.kind # "none"
    /\ IF answer.kind = "ok" THEN Agree(answer.version, FALSE) ELSE Fail
    /\ Notify
    /\ UNCHANGED <<setup, serverVars>>

\* No answer in time, or the request failed: a local peer is taken for one that does not know
\* server/discover; on a network that is an error, and so it is for initialize.
AwaitProbe ==
    /\ At("probe")
    /\ IF setup.local THEN Ask("init", "initialize") /\ UNCHANGED me ELSE Fail /\ UNCHANGED wire
    /\ UNCHANGED <<setup, serverVars>>

InitializeTimesOut ==
    /\ At("init") /\ Fail /\ Notify
    /\ UNCHANGED <<setup, serverVars>>

\* Create returns, or throws.
Created ==
    /\ hand.at \in {"agreed", "failed"} /\ hand.by = Creator
    /\ me' = [me EXCEPT !.state = IF At("agreed") THEN "usable" ELSE "failed"]
    /\ hand' = [hand EXCEPT !.at = "idle"]
    /\ UNCHANGED <<setup, serverVars, wire, answer>>

HandshakeNext ==
    \/ \E i \in 1 .. Len(wire) : Discover(i) \/ Initialize(i) \/ Initialized(i)
    \/ OtherDiscovers \/ \E s \in Sessions : Expires(s)
    \/ Begin \/ ProbeDiscover \/ HandshakeInitialize \/ AwaitProbe \/ InitializeTimesOut \/ Created

\* A client whose negotiation has succeeded and the session it uses, or requests without one,
\* go by the same version.  (A pinned client has asked nobody.)
VersionsAgree ==
    /\ HandshakeTypeOK
    /\ (me.state = "usable" /\ At("idle") /\ me.agreed /\ setup.mode # "Pin" /\ me.session \in alive \cup {0})
           => VersionFor(me.session) = me.version
================================================================================
