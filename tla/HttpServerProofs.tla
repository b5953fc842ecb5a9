---------------------------- MODULE HttpServerProofs ---------------------------
(***************************************************************************)
(* Proofs about HttpServer for any number of connections, any limit and    *)
(* any number of broadcasts.                                               *)
(***************************************************************************)
EXTENDS HttpServer, FiniteSetTheorems, SequenceTheorems, TLAPS

--------------------------------------------------------------------------------
(* The inductive invariant *)

\* A connection thread is at work in these places.
Working == {"loop", "read", "handling", "stopping", "head", "live", "remove", "erase"}

\* The connection has not become an event stream yet.
BeforeStream == {"none", "refused", "loop", "read", "handling", "stopping"}

(* conn_fds_ lists every connection whose thread is at work, and the one about to get a thread,   *)
(* until Stop clears it, and never more than the limit.                                           *)
Listed ==
  /\ stop.at # "stopped" => \A c \in Conns : at[c] \in Working => c \in fds
  /\ acceptor.at = "spawn" => acceptor.conn \in fds /\ at[acceptor.conn] = "none"
  /\ Cardinality(fds) <= limit

(* conn_threads_, or the copy Stop joins, holds every thread at work.                             *)
Threaded ==
  \A c \in Conns : at[c] \in Working =>
     c \in IF stop.at \in {"join", "stopped"} THEN stop.joining ELSE threads

(* Stop goes on only when the keep-alive thread and then the accept thread have ended.            *)
Stopped ==
  /\ stop.at \in {"accept", "join", "stopped"} => ~keepalive
  /\ stop.at \in {"join", "stopped"} => acceptor.at = "ended"
  /\ stop.at = "stopped" => \A c \in Conns : at[c] \in Working => c = stop.origin

(* A client is registered once in the life of its connection, and taken out once.                 *)
Registered ==
  /\ ready \subseteq registered /\ clients \subseteq registered
  /\ \A c \in Conns : at[c] \in BeforeStream => c \notin registered
  /\ \A c \in Conns : at[c] = "head" => c \in registered \ ready
  /\ DisconnectOnce

(* What is on the wire begins with the header as soon as the buffer lets frames through.          *)
Framed ==
  /\ FramesFollowHead
  /\ \A c \in Conns : at[c] \in BeforeStream \cup {"head"} => wire[c] = <<>>
  /\ \A c \in ready \cap open : wire[c] # <<>>

IInv == TypeOK /\ Listed /\ Threaded /\ Stopped /\ Registered /\ Framed

--------------------------------------------------------------------------------
(* Types *)

(* The type invariant, variable by variable. *)
LEMMA Types ==
  TypeOK <=>
    /\ limit \in Limits /\ running \in BOOLEAN /\ listening \in BOOLEAN /\ keepalive \in BOOLEAN
    /\ acceptor \in [at : {"reap", "poll", "spawn", "ended"}, conn : Conns \cup {Outside}]
    /\ fds \subseteq Conns /\ threads \subseteq Conns /\ open \subseteq Conns
    /\ at \in [Conns -> Places]
    /\ clients \subseteq Conns /\ ready \subseteq Conns /\ registered \subseteq Conns
    /\ buffer \in [Conns -> Nat] /\ removed \in [Conns -> Nat]
    /\ wire \in [Conns -> Seq({"head", "frame"})]
    /\ sending \in [Senders -> SUBSET Conns] /\ casts \in 0..MaxCasts
    /\ stop \in [at : StopSteps, origin : Conns \cup {Outside},
                 conns : SUBSET Conns, joining : SUBSET Conns]
BY Zenon DEF TypeOK

(* A frame behind what is on a wire, and a header with frames, are again what a wire may carry. *)
LEMMA WireType ==
  /\ \A n \in Nat : <<"head">> \o Frames(n) \in Seq({"head", "frame"})
  /\ \A w \in Seq({"head", "frame"}) : Append(w, "frame") \in Seq({"head", "frame"})
  /\ \A n \in Nat : Frames(n) \in Seq({"head", "frame"}) /\ Len(Frames(n)) = n
<1>1. ASSUME NEW n \in Nat PROVE Frames(n) \in Seq({"head", "frame"}) /\ Len(Frames(n)) = n
  BY DEF Frames
<1>2. <<"head">> \in Seq({"head", "frame"})
  OBVIOUS
<1>3. ASSUME NEW n \in Nat PROVE <<"head">> \o Frames(n) \in Seq({"head", "frame"})
  BY <1>1, <1>2
<1> QED BY <1>1, <1>3

(* The initial state is well typed. *)
LEMMA InitTypeOK == Init => TypeOK
<1> SUFFICES ASSUME Init PROVE TypeOK
  OBVIOUS
<1>1. /\ limit \in Limits /\ running \in BOOLEAN /\ listening \in BOOLEAN /\ keepalive \in BOOLEAN
  BY Zenon DEF Init
<1>2. /\ acceptor \in [at : {"reap", "poll", "spawn", "ended"}, conn : Conns \cup {Outside}]
      /\ fds \subseteq Conns /\ threads \subseteq Conns /\ open \subseteq Conns
      /\ clients \subseteq Conns /\ ready \subseteq Conns /\ registered \subseteq Conns
      /\ buffer \in [Conns -> Nat] /\ removed \in [Conns -> Nat]
  BY DEF Init
<1>3. at \in [Conns -> Places] /\ wire \in [Conns -> Seq({"head", "frame"})]
  BY DEF Init, Places
<1>4. sending \in [Senders -> SUBSET Conns] /\ casts \in 0..MaxCasts
  BY HttpServerAssumption DEF Init
<1>5. stop \in [at : StopSteps, origin : Conns \cup {Outside}, conns : SUBSET Conns, joining : SUBSET Conns]
  BY DEF Init, StopSteps
<1> QED BY <1>1, <1>2, <1>3, <1>4, <1>5, Types, Zenon

(* A step of a connection's thread moves that thread, from a place where it is at work; it takes  *)
(* its connection off the list when it ends, and touches nothing that belongs to the others.      *)
LEMMA ConnMoves ==
  ASSUME TypeOK, NEW c \in Conns, ConnStep(c)
  PROVE  /\ at[c] \in Working /\ at' = [at EXCEPT ![c] = at'[c]] /\ at'[c] \in Working \cup {"ended"}
         /\ UNCHANGED fds \/ (fds' = fds \ {c} /\ at'[c] = "ended")
         /\ UNCHANGED Rest
         /\ open' \in {open, open \ {c}}
<1>0. at \in [Conns -> Places]
  BY DEF TypeOK
<1>1. ASSUME NEW from, NEW to, Moves(c, from, to)
      PROVE  at[c] = from /\ at' = [at EXCEPT ![c] = at'[c]] /\ at'[c] = to
  BY <1>1, <1>0 DEF Moves
<1> USE DEF Working
<1>2. CASE Loop(c)
  BY <1>1, <1>2 DEF Loop
<1>3. CASE ReadRequest(c) \/ ReadFails(c)
  BY <1>1, <1>3 DEF ReadRequest, ReadFails
<1>4. CASE Answer(c) \/ AnswerStream(c) \/ AddSseClient(c)
  BY <1>1, <1>4 DEF Answer, AnswerStream, AddSseClient
<1>5. CASE MarkReady(c) \/ HeadFails(c) \/ StreamEnds(c)
  BY <1>1, <1>5 DEF MarkReady, HeadFails, StreamEnds
<1>6. CASE RemoveSseClient(c) \/ StopReturned(c)
  BY <1>1, <1>6 DEF RemoveSseClient, StopReturned
<1>7. CASE ConnectionEnds(c)
  BY <1>1, <1>7 DEF ConnectionEnds
<1> QED BY <1>2, <1>3, <1>4, <1>5, <1>6, <1>7 DEF ConnStep

(* Every step of a connection's thread keeps what it touches in its type. *)
LEMMA ConnTypes ==
  ASSUME TypeOK, NEW c \in Conns, ConnStep(c) PROVE TypeOK'
<1>1. /\ at' \in [Conns -> Places] /\ fds' \subseteq Conns /\ open' \subseteq Conns /\ UNCHANGED Rest
  <2>1. at \in [Conns -> Places] /\ fds \subseteq Conns /\ open \subseteq Conns
    BY DEF TypeOK
  <2>2. at'[c] \in Places
    BY ConnMoves DEF Working, Places
  <2> QED BY <2>1, <2>2, ConnMoves, Zenon
<1>2. /\ clients' \subseteq Conns /\ ready' \subseteq Conns /\ registered' \subseteq Conns
      /\ buffer' \in [Conns -> Nat] /\ removed' \in [Conns -> Nat]
      /\ wire' \in [Conns -> Seq({"head", "frame"})]
  <2>0. /\ clients \subseteq Conns /\ ready \subseteq Conns /\ registered \subseteq Conns
        /\ buffer \in [Conns -> Nat] /\ removed \in [Conns -> Nat]
        /\ wire \in [Conns -> Seq({"head", "frame"})]
    BY DEF TypeOK
  <2>1. CASE UNCHANGED sse
    BY <2>0, <2>1 DEF sse
  <2>2. CASE AnswerStream(c)
    <3>1. (IF c \in open THEN <<"head">> ELSE <<>>) \in Seq({"head", "frame"})
      <4>1. <<"head">> \in Seq({"head", "frame"}) /\ <<>> \in Seq({"head", "frame"})
        OBVIOUS
      <4> QED BY <4>1, Zenon
    <3> QED BY <2>0, <2>2, <3>1 DEF AnswerStream
  <2>3. CASE AddSseClient(c)
    BY <2>0, <2>3 DEF AddSseClient
  <2>4. CASE MarkReady(c)
    <3>1. wire[c] \o <<"head">> \o Frames(buffer[c]) \in Seq({"head", "frame"})
      BY <2>0, WireType
    <3> QED BY <2>0, <2>4, <3>1 DEF MarkReady
  <2>5. CASE RemoveSseClient(c)
    BY <2>0, <2>5 DEF RemoveSseClient, TakeOut
  <2>6. CASE ConnectionEnds(c)
    BY <2>0, <2>6 DEF ConnectionEnds
  <2> QED
    BY <2>1, <2>2, <2>3, <2>4, <2>5, <2>6, Zenon
       DEF ConnStep, Loop, ReadRequest, ReadFails, Answer, HeadFails, StreamEnds, StopReturned
<1> QED BY <1>1, <1>2, Zenon DEF TypeOK, Rest

(* Every step of a sender keeps what it touches in its type. *)
LEMMA DeliverTypes ==
  ASSUME TypeOK, NEW s \in Senders, NEW c \in Conns, Deliver(s, c) PROVE TypeOK'
<1>0. /\ clients \subseteq Conns /\ buffer \in [Conns -> Nat] /\ removed \in [Conns -> Nat]
      /\ wire \in [Conns -> Seq({"head", "frame"})] /\ sending \in [Senders -> SUBSET Conns]
  BY DEF TypeOK
<1>1. sending' \in [Senders -> SUBSET Conns]
  BY <1>0 DEF Deliver
<1>2. clients' \subseteq Conns /\ removed' \in [Conns -> Nat]
  <2>1. CASE Send(c)
    BY <1>0, <2>1 DEF Send
  <2>2. CASE SendFails(c)
    BY <1>0, <2>2 DEF SendFails, TakeOut
  <2> QED BY <2>1, <2>2 DEF Deliver
<1>3. buffer' \in [Conns -> Nat] /\ wire' \in [Conns -> Seq({"head", "frame"})]
  <2>1. Append(wire[c], "frame") \in Seq({"head", "frame"})
    BY <1>0, WireType
  <2>2. CASE Send(c)
    <3>1. buffer[c] + 1 \in Nat
      BY <1>0
    <3> QED BY <2>1, <2>2, <1>0, <3>1 DEF Send
  <2>3. CASE SendFails(c)
    BY <2>3, <1>0 DEF SendFails
  <2> QED BY <2>2, <2>3 DEF Deliver
<1> QED BY <1>1, <1>2, <1>3, Zenon DEF TypeOK, Deliver

(* Every step keeps every variable of the server in its type. *)
LEMMA TypeOKStep == TypeOK /\ Listed /\ [Next]_vars => TypeOK'
<1> SUFFICES ASSUME TypeOK, Listed, [Next]_vars PROVE TypeOK'
  OBVIOUS
<1>0. /\ acceptor \in [at : {"reap", "poll", "spawn", "ended"}, conn : Conns \cup {Outside}]
      /\ fds \subseteq Conns /\ threads \subseteq Conns /\ open \subseteq Conns
      /\ at \in [Conns -> Places] /\ casts \in 0..MaxCasts /\ MaxCasts \in Nat
      /\ clients \subseteq Conns /\ sending \in [Senders -> SUBSET Conns]
      /\ stop \in [at : StopSteps, origin : Conns \cup {Outside}, conns : SUBSET Conns, joining : SUBSET Conns]
  BY HttpServerAssumption DEF TypeOK
<1>b. running \in BOOLEAN /\ listening \in BOOLEAN /\ keepalive \in BOOLEAN
  BY Types, Zenon
<1>p. /\ "loop" \in Places /\ "refused" \in Places /\ "stopping" \in Places
      /\ "listener" \in StopSteps /\ "copy" \in StopSteps /\ "close" \in StopSteps /\ "keepalive" \in StopSteps
      /\ "accept" \in StopSteps /\ "join" \in StopSteps /\ "stopped" \in StopSteps
  BY DEF Places, StopSteps
<1> DEFINE Acc == acceptor' \in [at : {"reap", "poll", "spawn", "ended"}, conn : Conns \cup {Outside}]
           Stp == stop' \in [at : StopSteps, origin : Conns \cup {Outside}, conns : SUBSET Conns, joining : SUBSET Conns]
<1>a. ASSUME NEW place \in {"reap", "poll", "spawn", "ended"}, NEW c \in Conns \cup {Outside}, Accepting(place, c)
      PROVE  Acc
  BY <1>a DEF Accepting
<1>s. ASSUME NEW from, NEW to \in StopSteps, StopAt(from, to) PROVE Stp
  BY <1>s, <1>0 DEF StopAt
<1>1. CASE Reap
  <2>1. Acc /\ threads' \subseteq Conns
    BY <1>1, <1>a, <1>0 DEF Reap
  <2>2. listening' \in BOOLEAN
    BY <1>1, <1>b, Zenon DEF Reap
  <2> QED BY <1>1, <2>1, <2>2, Zenon DEF TypeOK, Reap, sse
<1>2. CASE PollIdle
  <2>1. Acc
    BY <1>2, <1>a DEF PollIdle
  <2>2. listening' \in BOOLEAN
    BY <1>2, <1>b, Zenon DEF PollIdle
  <2> QED BY <1>2, <2>1, <2>2, Zenon DEF TypeOK, PollIdle, sse
<1>3. CASE Spawn
  <2>1. Acc
    BY <1>3, <1>a DEF Spawn
  <2>2. at' \in [Conns -> Places]
    BY <1>3, <1>0, <1>p DEF Spawn
  <2>3. fds' \subseteq Conns /\ open' \subseteq Conns
    BY <1>3, <1>0 DEF Spawn
  <2>4. threads' \subseteq Conns
    <3>1. acceptor.conn \in Conns
      BY <1>3, <1>0 DEF Spawn, Listed
    <3> QED BY <1>3, <1>0, <3>1 DEF Spawn
  <2> QED BY <1>3, <2>1, <2>2, <2>3, <2>4, Zenon DEF TypeOK, Spawn, sse
<1>4. ASSUME NEW c \in Conns, Accept(c) PROVE TypeOK'
  <2>1. Acc
    BY <1>4, <1>a DEF Accept
  <2>2. at' \in [Conns -> Places] /\ fds' \subseteq Conns /\ open' \subseteq Conns
    BY <1>4, <1>0, <1>p DEF Accept
  <2> QED BY <1>4, <2>1, <2>2, Zenon DEF TypeOK, Accept, sse
<1>5. CASE StopStep
  <2>1. Stp
    <3>1. CASE CloseListener \/ CloseConnections \/ JoinKeepAlive \/ JoinConnections
      BY <3>1, <1>s, <1>p, Zenon DEF CloseListener, CloseConnections, JoinKeepAlive, JoinConnections
    <3>2. CASE CopyConnections \/ JoinAccept
      BY <3>2, <1>0, <1>p DEF CopyConnections, JoinAccept
    <3> QED BY <1>5, <3>1, <3>2, Zenon DEF StopStep
  <2>2. open' \subseteq Conns /\ threads' \subseteq Conns /\ fds' \subseteq Conns
    BY <1>5, <1>0 DEF StopStep, CloseListener, CopyConnections, CloseConnections, JoinKeepAlive, JoinAccept,
                      JoinConnections
  <2>3. listening' \in BOOLEAN
    BY <1>5, <1>b, Zenon DEF StopStep, CloseListener, CopyConnections, CloseConnections, JoinKeepAlive,
                             JoinAccept, JoinConnections
  <2> QED
    BY <1>5, <2>1, <2>2, <2>3, Zenon
       DEF TypeOK, StopStep, CloseListener, CopyConnections, CloseConnections, JoinKeepAlive, JoinAccept,
           JoinConnections, sse
<1>6. CASE KeepAliveEnds
  BY <1>6, Zenon DEF TypeOK, KeepAliveEnds, sse
<1>7. ASSUME NEW s \in Senders, NEW S \in SUBSET clients, BeginSending(s, S) PROVE TypeOK'
  <2>1. sending' \in [Senders -> SUBSET Conns] /\ casts' \in 0..MaxCasts
    BY <1>7, <1>0 DEF BeginSending
  <2> QED BY <1>7, <2>1, Zenon DEF TypeOK, BeginSending, sse
<1>8. CASE BroadcastSse \/ KeepAlive
  BY <1>7, <1>8 DEF BroadcastSse, KeepAlive, Senders
<1>9. ASSUME NEW o \in Conns \cup {Outside}, StopBegins(o) PROVE TypeOK'
  <2>1. Stp
    BY <1>9, <1>0, <1>p DEF StopBegins
  <2>2. at' \in [Conns -> Places]
    BY <1>9, <1>0, <1>p DEF StopBegins, Moves
  <2>3. running' \in BOOLEAN
    BY <1>9, Zenon DEF StopBegins
  <2> QED BY <1>9, <2>1, <2>2, <2>3, Zenon DEF TypeOK, StopBegins, sse
<1>10. CASE UNCHANGED vars
  BY <1>10, Zenon DEF TypeOK, vars
<1> QED
  BY <1>1, <1>2, <1>3, <1>4, <1>5, <1>6, <1>8, <1>9, <1>10, ConnTypes, DeliverTypes, Zenon
     DEF Next, AcceptStep, SendStep

--------------------------------------------------------------------------------
(* The steps of the other threads *)

\* What the invariant says of is left alone.
Control == <<limit, acceptor, fds, threads, at, stop>>
Streams == <<at, open, clients, ready, buffer, wire, removed, registered>>

(* Senders and the closing of the keep-alive thread leave the connections' control alone; the     *)
(* accept thread and Stop leave the streams alone, but for what they close and start.              *)
LEMMA Frame ==
  /\ SendStep \/ BroadcastSse \/ KeepAlive =>
       UNCHANGED Control /\ (keepalive' => keepalive) /\ UNCHANGED <<open, ready, registered>>
  /\ BroadcastSse \/ KeepAlive \/ KeepAliveEnds => UNCHANGED Streams
  /\ AcceptStep => UNCHANGED <<limit, sse, stop, keepalive>>
  /\ StopStep => UNCHANGED <<limit, acceptor, at, sse, keepalive>>
  /\ \A o : StopBegins(o) => UNCHANGED <<limit, acceptor, fds, threads, open, sse, keepalive>>
<1> USE DEF Control, Streams, sse
<1>1. ASSUME NEW s, NEW S, BeginSending(s, S) PROVE UNCHANGED <<Control, Streams, keepalive>>
  BY <1>1 DEF BeginSending
<1>2. BroadcastSse \/ KeepAlive => UNCHANGED <<Control, Streams, keepalive>>
  BY <1>1, Zenon DEF BroadcastSse, KeepAlive
<1>3. KeepAliveEnds => UNCHANGED <<Control, Streams>> /\ ~keepalive'
  BY DEF KeepAliveEnds
<1>4. \A s \in Senders, c \in Conns : Deliver(s, c) => UNCHANGED <<Control, keepalive, open, ready, registered>>
  BY DEF Deliver
<1>5. SendStep \/ BroadcastSse \/ KeepAlive =>
        UNCHANGED Control /\ (keepalive' => keepalive) /\ UNCHANGED <<open, ready, registered>>
  <2>1. SendStep => UNCHANGED Control /\ (keepalive' => keepalive) /\ UNCHANGED <<open, ready, registered>>
    <3>1. CASE KeepAliveEnds
      BY <1>3, <3>1
    <3>2. CASE \E s \in Senders, c \in Conns : Deliver(s, c)
      <4>1. UNCHANGED <<Control, open, ready, registered>> /\ keepalive' = keepalive
        BY <1>4, <3>2
      <4> QED BY <4>1
    <3> QED BY <3>1, <3>2, Zenon DEF SendStep
  <2>2. BroadcastSse \/ KeepAlive => UNCHANGED <<Control, open, ready, registered>> /\ keepalive' = keepalive
    BY <1>2
  <2> QED BY <2>1, <2>2
<1>6. AcceptStep => UNCHANGED <<limit, sse, stop, keepalive>>
  BY DEF AcceptStep, Reap, PollIdle, Spawn, Accept
<1>7. StopStep => UNCHANGED <<limit, acceptor, at, sse, keepalive>>
  BY DEF StopStep, CloseListener, CopyConnections, CloseConnections, JoinKeepAlive, JoinAccept, JoinConnections
<1>8. \A o : StopBegins(o) => UNCHANGED <<limit, acceptor, fds, threads, open, sse, keepalive>>
  BY DEF StopBegins
<1>9. BroadcastSse \/ KeepAlive \/ KeepAliveEnds => UNCHANGED Streams
  BY <1>2, <1>3
<1> QED BY <1>5, <1>6, <1>7, <1>8, <1>9, Zenon

(* The list of connections stays within the limit. *)
LEMMA ListFinite == TypeOK => IsFiniteSet(fds) /\ Cardinality(fds) \in Nat /\ limit \in Nat /\ limit >= 1
<1> SUFFICES ASSUME TypeOK PROVE IsFiniteSet(fds) /\ Cardinality(fds) \in Nat /\ limit \in Nat /\ limit >= 1
  OBVIOUS
<1>1. fds \subseteq Conns /\ limit \in Nat \ {0}
  BY HttpServerAssumption DEF TypeOK
<1>2. IsFiniteSet(fds)
  BY <1>1, HttpServerAssumption, FS_Subset
<1> QED BY <1>1, <1>2, FS_CardinalityType

(* Every step keeps the list of connections complete and within the limit. *)
LEMMA ListedStep ==
  ASSUME TypeOK, Listed, Threaded, Stopped, [Next]_vars PROVE Listed'
<1>0. /\ at \in [Conns -> Places] /\ fds \subseteq Conns /\ acceptor.at \in {"reap", "poll", "spawn", "ended"}
      /\ acceptor \in [at : {"reap", "poll", "spawn", "ended"}, conn : Conns \cup {Outside}]
      /\ stop \in [at : StopSteps, origin : Conns \cup {Outside}, conns : SUBSET Conns, joining : SUBSET Conns]
      /\ IsFiniteSet(fds) /\ Cardinality(fds) \in Nat /\ limit \in Nat /\ limit >= 1
  BY ListFinite DEF TypeOK
<1>c. \A c : Cardinality(fds \ {c}) <= limit
  <2> SUFFICES ASSUME NEW c PROVE Cardinality(fds \ {c}) <= limit
    OBVIOUS
  <2>1. Cardinality(fds \ {c}) = IF c \in fds THEN Cardinality(fds) - 1 ELSE Cardinality(fds)
    BY <1>0, FS_RemoveElement, Zenon
  <2> QED BY <2>1, <1>0 DEF Listed
<1>1. CASE UNCHANGED vars
  BY <1>1 DEF vars, Listed
<1>2. CASE SendStep \/ BroadcastSse \/ KeepAlive
  BY <1>2, Frame DEF Listed, Control
<1>3. ASSUME NEW c \in Conns, ConnStep(c) PROVE Listed'
  <2>1. /\ at[c] \in Working /\ at' = [at EXCEPT ![c] = at'[c]] /\ at'[c] \in Working \cup {"ended"}
        /\ UNCHANGED fds \/ (fds' = fds \ {c} /\ at'[c] = "ended")
        /\ UNCHANGED <<limit, acceptor, stop>>
    BY <1>3, ConnMoves DEF Rest
  <2>2. \A d \in Conns : at'[d] \in Working => at[d] \in Working
    BY <2>1, <1>0
  <2>3. stop'.at # "stopped" => \A d \in Conns : at'[d] \in Working => d \in fds'
    BY <2>1, <2>2, <1>0 DEF Listed, Working
  <2>4. acceptor.at = "spawn" => acceptor.conn # c
    BY <2>1 DEF Listed, Working
  <2>5. Cardinality(fds') <= limit'
    BY <2>1, <1>c DEF Listed
  <2>6. acceptor'.at = "spawn" => acceptor'.conn \in fds' /\ at'[acceptor'.conn] = "none"
    BY <2>1, <2>4, <1>0 DEF Listed
  <2> QED BY <2>3, <2>5, <2>6 DEF Listed
<1>4. CASE AcceptStep
  <2>0. UNCHANGED <<limit, stop>>
    BY <1>4, Frame
  <2>1. CASE Reap \/ PollIdle
    BY <2>1, <2>0 DEF Reap, PollIdle, Accepting, Listed
  <2>2. CASE Spawn
    <3>1. /\ acceptor.conn \in fds /\ at[acceptor.conn] = "none" /\ acceptor'.at = "reap"
      BY <2>2 DEF Spawn, Listed, Accepting
    <3>2. \A d \in Conns : at'[d] \in Working => d \in fds' \/ stop.at = "stopped"
      BY <2>2, <3>1, <1>0 DEF Spawn, Listed, Working
    <3>3. Cardinality(fds') <= limit
      BY <2>2, <1>c DEF Spawn, Listed
    <3> QED BY <3>1, <3>2, <3>3, <2>0 DEF Listed
  <2>3. ASSUME NEW c \in Conns, Accept(c) PROVE Listed'
    <3>1. CASE OverLimit
      BY <2>3, <3>1, <2>0, <1>0 DEF Accept, Accepting, Listed, Working
    <3>2. CASE ~OverLimit
      <4>1. Cardinality(fds') <= limit
        <5>1. Cardinality(fds \cup {c}) = IF c \in fds THEN Cardinality(fds) ELSE Cardinality(fds) + 1
          BY <1>0, FS_AddElement, Zenon
        <5>2. fds' = fds \cup {c} /\ limit' = limit
          BY <2>3, <3>2 DEF Accept
        <5>3. ~(Cardinality(fds) >= limit)
          BY <3>2 DEF OverLimit
        <5> HIDE DEF OverLimit
        <5> QED BY <1>0, <5>1, <5>2, <5>3
      <4> QED BY <2>3, <3>2, <4>1, <2>0, <1>0 DEF Accept, Accepting, Listed
    <3> QED BY <3>1, <3>2
  <2> QED BY <1>4, <2>1, <2>2, <2>3 DEF AcceptStep
<1>5. CASE StopStep
  <2>0. UNCHANGED <<limit, acceptor, at>>
    BY <1>5, Frame
  <2>1. CASE JoinConnections
    <3>1. acceptor.at = "ended" /\ stop'.at = "stopped" /\ fds' = {}
      BY <2>1, <1>0 DEF JoinConnections, StopAt, Stopped
    <3>2. Cardinality({}) = 0
      BY FS_EmptySet
    <3> QED BY <3>1, <3>2, <2>0, <1>0 DEF Listed
  <2>2. CASE ~JoinConnections
    <3>1. UNCHANGED fds /\ stop.at # "stopped"
      BY <1>5, <2>2 DEF StopStep, CloseListener, CopyConnections, CloseConnections, JoinKeepAlive, JoinAccept,
                        StopAt
    <3> QED BY <3>1, <2>0 DEF Listed
  <2> QED BY <2>1, <2>2
<1>6. ASSUME NEW o \in Conns \cup {Outside}, StopBegins(o) PROVE Listed'
  <2>1. UNCHANGED <<limit, acceptor, fds>> /\ stop.at = "no"
    BY <1>6, Frame DEF StopBegins
  <2>2. UNCHANGED at \/ (at[o] = "handling" /\ at' = [at EXCEPT ![o] = "stopping"])
    BY <1>6 DEF StopBegins, Moves
  <2>3. \A d \in Conns : at'[d] \in Working => at[d] \in Working
    BY <2>2, <1>0 DEF Working
  <2>4. acceptor.at = "spawn" => at'[acceptor.conn] = "none"
    BY <2>2, <1>0 DEF Listed
  <2> QED BY <2>1, <2>3, <2>4 DEF Listed
<1> QED BY <1>1, <1>2, <1>3, <1>4, <1>5, <1>6, Zenon DEF Next

(* Every step keeps every thread at work among those that are joined. *)
LEMMA ThreadedStep ==
  ASSUME TypeOK, Listed, Threaded, Stopped, [Next]_vars PROVE Threaded'
<1>0. /\ at \in [Conns -> Places] /\ fds \subseteq Conns
      /\ stop \in [at : StopSteps, origin : Conns \cup {Outside}, conns : SUBSET Conns, joining : SUBSET Conns]
  BY DEF TypeOK
<1>1. CASE UNCHANGED vars
  BY <1>1 DEF vars, Threaded
<1>2. CASE SendStep \/ BroadcastSse \/ KeepAlive
  BY <1>2, Frame DEF Threaded, Control
<1>3. ASSUME NEW c \in Conns, ConnStep(c) PROVE Threaded'
  <2>1. /\ at[c] \in Working /\ at' = [at EXCEPT ![c] = at'[c]]
        /\ UNCHANGED <<threads, stop>>
    BY <1>3, ConnMoves DEF Rest
  <2>2. \A d \in Conns : at'[d] \in Working => at[d] \in Working
    BY <2>1, <1>0
  <2> QED BY <2>1, <2>2 DEF Threaded
<1>4. CASE AcceptStep
  <2>0. UNCHANGED stop
    BY <1>4, Frame
  <2>1. CASE Reap
    BY <2>1, <2>0 DEF Reap, Threaded, Working
  <2>2. CASE PollIdle
    BY <2>2, <2>0 DEF PollIdle, Threaded
  <2>3. CASE Spawn
    BY <2>3, <2>0, <1>0 DEF Spawn, Threaded, Stopped, Working
  <2>4. ASSUME NEW c \in Conns, Accept(c) PROVE Threaded'
    BY <2>4, <2>0, <1>0 DEF Accept, Threaded, Working
  <2> QED BY <1>4, <2>1, <2>2, <2>3, <2>4 DEF AcceptStep
<1>5. CASE StopStep
  <2>0. UNCHANGED at
    BY <1>5, Frame
  <2>1. CASE CloseListener \/ CopyConnections \/ CloseConnections \/ JoinKeepAlive
    <3>1. UNCHANGED threads /\ {stop.at, stop'.at} \cap {"join", "stopped"} = {}
      BY <2>1, <1>0 DEF CloseListener, CopyConnections, CloseConnections, JoinKeepAlive, StopAt
    <3> QED BY <3>1, <2>0 DEF Threaded
  <2>2. CASE JoinAccept
    <3>1. stop.at = "accept" /\ stop'.at = "join" /\ stop'.joining = threads
      BY <2>2, <1>0 DEF JoinAccept
    <3> QED BY <3>1, <2>0 DEF Threaded
  <2>3. CASE JoinConnections
    <3>1. stop.at = "join" /\ stop'.at = "stopped" /\ stop'.joining = stop.joining /\ UNCHANGED threads
      BY <2>3, <1>0 DEF JoinConnections, StopAt
    <3> QED BY <3>1, <2>0 DEF Threaded
  <2> QED BY <1>5, <2>1, <2>2, <2>3 DEF StopStep
<1>6. ASSUME NEW o \in Conns \cup {Outside}, StopBegins(o) PROVE Threaded'
  <2>1. UNCHANGED threads /\ stop.at = "no" /\ stop'.at = "listener"
    BY <1>6, <1>0, Frame DEF StopBegins
  <2>2. UNCHANGED at \/ (at[o] = "handling" /\ at' = [at EXCEPT ![o] = "stopping"])
    BY <1>6 DEF StopBegins, Moves
  <2>3. \A d \in Conns : at'[d] \in Working => at[d] \in Working
    BY <2>2, <1>0 DEF Working
  <2> QED BY <2>1, <2>3 DEF Threaded
<1> QED BY <1>1, <1>2, <1>3, <1>4, <1>5, <1>6, Zenon DEF Next

(* Every step keeps what Stop has seen to an end ended. *)
LEMMA StoppedStep ==
  ASSUME TypeOK, Listed, Threaded, Stopped, [Next]_vars PROVE Stopped'
<1>0. /\ at \in [Conns -> Places]
      /\ stop \in [at : StopSteps, origin : Conns \cup {Outside}, conns : SUBSET Conns, joining : SUBSET Conns]
  BY DEF TypeOK
<1>1. CASE UNCHANGED vars
  BY <1>1 DEF vars, Stopped
<1>2. CASE SendStep \/ BroadcastSse \/ KeepAlive
  <2>1. UNCHANGED Control /\ (keepalive' => keepalive)
    BY <1>2, Frame
  <2> QED BY <2>1 DEF Stopped, Control
<1>3. ASSUME NEW c \in Conns, ConnStep(c) PROVE Stopped'
  <2>1. /\ at[c] \in Working /\ at' = [at EXCEPT ![c] = at'[c]]
        /\ UNCHANGED <<acceptor, stop, keepalive>>
    BY <1>3, ConnMoves DEF Rest
  <2>2. \A d \in Conns : at'[d] \in Working => at[d] \in Working
    BY <2>1, <1>0
  <2> QED BY <2>1, <2>2 DEF Stopped
<1>4. CASE AcceptStep
  <2>1. UNCHANGED <<stop, keepalive>> /\ acceptor.at # "ended"
    BY <1>4, Frame DEF AcceptStep, Reap, PollIdle, Spawn, Accept
  <2> QED BY <2>1 DEF Stopped
<1>5. CASE StopStep
  <2>0. UNCHANGED <<acceptor, at, keepalive>>
    BY <1>5, Frame
  <2>1. CASE CloseListener \/ CopyConnections \/ CloseConnections
    <3>1. stop'.at \in {"copy", "close", "keepalive"}
      BY <2>1, <1>0 DEF CloseListener, CopyConnections, CloseConnections, StopAt
    <3> QED BY <3>1 DEF Stopped
  <2>2. CASE JoinKeepAlive
    <3>1. stop'.at = "accept" /\ ~keepalive
      BY <2>2, <1>0 DEF JoinKeepAlive, StopAt
    <3> QED BY <3>1, <2>0 DEF Stopped
  <2>3. CASE JoinAccept
    <3>1. stop.at = "accept" /\ stop'.at = "join" /\ acceptor.at = "ended"
      BY <2>3, <1>0 DEF JoinAccept
    <3> QED BY <3>1, <2>0 DEF Stopped
  <2>4. CASE JoinConnections
    <3>1. stop.at = "join" /\ stop'.at = "stopped" /\ stop'.origin = stop.origin /\ threads' = threads
      BY <2>4, <1>0 DEF JoinConnections, StopAt
    <3>2. acceptor.at = "ended" /\ ~keepalive
      BY <3>1 DEF Stopped
    <3>3. \A c \in Conns : at[c] \in Working => c = stop.origin
      BY <2>4, <3>1 DEF JoinConnections, Joined, Threaded, Working
    <3> QED BY <3>1, <3>2, <3>3, <2>0 DEF Stopped
  <2> QED BY <1>5, <2>1, <2>2, <2>3, <2>4 DEF StopStep
<1>6. ASSUME NEW o \in Conns \cup {Outside}, StopBegins(o) PROVE Stopped'
  <2>1. stop'.at = "listener"
    BY <1>6, <1>0 DEF StopBegins
  <2> QED BY <2>1 DEF Stopped
<1> QED BY <1>1, <1>2, <1>3, <1>4, <1>5, <1>6, Zenon DEF Next

--------------------------------------------------------------------------------
(* Event streams *)

(* A step that is not the start of an event stream brings no connection back in front of it.      *)
LEMMA NoWayBack ==
  ASSUME TypeOK, Listed, [Next]_vars, NEW d \in Conns
  PROVE  /\ at'[d] \in BeforeStream => at[d] \in BeforeStream
         /\ at'[d] = "head" => at[d] = "head" \/ AddSseClient(d)
<1>0. at \in [Conns -> Places]
  BY DEF TypeOK
<1> USE DEF BeforeStream
<1>1. CASE UNCHANGED at
  BY <1>1
<1>2. ASSUME NEW c \in Conns, ConnStep(c)
      PROVE  /\ at'[d] \in BeforeStream => at[d] \in BeforeStream
             /\ at'[d] = "head" => at[d] = "head" \/ AddSseClient(d)
  <2>1. CASE d # c
    BY <1>2, <2>1, <1>0, ConnMoves
  <2>2. CASE d = c
    <3>1. ASSUME NEW from, NEW to, Moves(c, from, to) PROVE at[c] = from /\ at'[c] = to
      BY <3>1, <1>0 DEF Moves
    <3>2. CASE AddSseClient(c)
      BY <2>2, <3>1, <3>2 DEF AddSseClient
    <3>3. CASE Loop(c) \/ ReadRequest(c) \/ ReadFails(c) \/ Answer(c) \/ StopReturned(c)
      <4>1. at[c] \in BeforeStream /\ at'[c] # "head"
        BY <3>1, <3>3 DEF Loop, ReadRequest, ReadFails, Answer, StopReturned
      <4> QED BY <4>1, <2>2
    <3>4. CASE AnswerStream(c) \/ MarkReady(c) \/ HeadFails(c) \/ StreamEnds(c) \/ RemoveSseClient(c)
               \/ ConnectionEnds(c)
      <4>1. at'[c] \in {"live", "remove", "erase", "ended"}
        BY <3>1, <3>4 DEF AnswerStream, MarkReady, HeadFails, StreamEnds, RemoveSseClient, ConnectionEnds
      <4> QED BY <4>1, <2>2
    <3> QED BY <1>2, <3>2, <3>3, <3>4 DEF ConnStep
  <2> QED BY <2>1, <2>2
<1>3. CASE AcceptStep
  <2>1. CASE Reap \/ PollIdle
    BY <2>1, <1>1 DEF Reap, PollIdle
  <2>2. CASE Spawn
    BY <2>2, <1>0 DEF Spawn, Listed
  <2>3. ASSUME NEW c \in Conns, Accept(c)
        PROVE  at'[d] = at[d] \/ (at[d] = "none" /\ at'[d] = "refused")
    BY <2>3, <1>0 DEF Accept
  <2> QED BY <1>3, <2>1, <2>2, <2>3 DEF AcceptStep
<1>4. ASSUME NEW o \in Conns \cup {Outside}, StopBegins(o)
      PROVE  at'[d] = at[d] \/ (at[d] = "handling" /\ at'[d] = "stopping")
  BY <1>4, <1>0 DEF StopBegins, Moves
<1>5. CASE StopStep \/ SendStep \/ BroadcastSse \/ KeepAlive \/ UNCHANGED vars
  BY <1>5, <1>1, Frame DEF Control, vars
<1> QED BY <1>1, <1>2, <1>3, <1>4, <1>5 DEF Next

(* Of the clients, steps only take out with on_disconnect, register a handling connection or mark *)
(* ready one whose header is being written.                                                       *)
LEMMA SseSteps ==
  ASSUME TypeOK, [Next]_vars
  PROVE  \/ UNCHANGED <<clients, ready, removed, registered>>
         \/ \E c \in Conns : AddSseClient(c) \/ MarkReady(c)
         \/ \E c \in Conns : TakeOut(c) /\ UNCHANGED <<ready, registered>>
<1>1. CASE AcceptStep \/ StopStep \/ BroadcastSse \/ KeepAlive \/ KeepAliveEnds \/ UNCHANGED vars
           \/ \E o \in Conns \cup {Outside} : StopBegins(o)
  BY <1>1, Frame DEF sse, Streams, vars
<1>2. ASSUME NEW c \in Conns, ConnStep(c)
      PROVE  \/ UNCHANGED <<clients, ready, removed, registered>>
             \/ AddSseClient(c) \/ MarkReady(c)
             \/ TakeOut(c) /\ UNCHANGED <<ready, registered>>
  BY <1>2 DEF ConnStep, Loop, ReadRequest, ReadFails, Answer, AnswerStream, HeadFails, StreamEnds,
              RemoveSseClient, ConnectionEnds, StopReturned, sse
<1>3. ASSUME NEW s \in Senders, NEW c \in Conns, Deliver(s, c)
      PROVE  \/ UNCHANGED <<clients, ready, removed, registered>>
             \/ TakeOut(c) /\ UNCHANGED <<ready, registered>>
  BY <1>3 DEF Deliver, Send, SendFails
<1> QED BY <1>1, <1>2, <1>3, Zenon DEF Next, SendStep

(* Every step keeps registration and disconnection in step. *)
LEMMA RegisteredStep ==
  ASSUME TypeOK, Listed, Registered, [Next]_vars PROVE Registered'
<1>0. /\ at \in [Conns -> Places] /\ removed \in [Conns -> Nat] /\ clients \subseteq Conns
      /\ ready \subseteq registered /\ clients \subseteq registered
      /\ \A c \in Conns : at[c] \in BeforeStream => c \notin registered
      /\ \A c \in Conns : at[c] = "head" => c \in registered \ ready
      /\ \A c \in Conns : removed[c] = IF c \in registered \ clients THEN 1 ELSE 0
  BY DEF TypeOK, Registered, DisconnectOnce
<1>n. \A d \in Conns : /\ at'[d] \in BeforeStream => at[d] \in BeforeStream
                       /\ at'[d] = "head" => at[d] = "head" \/ AddSseClient(d)
  BY NoWayBack
<1>1. CASE \E c \in Conns : AddSseClient(c)
  <2>1. PICK c \in Conns : AddSseClient(c)
    BY <1>1
  <2>2. /\ at[c] = "handling" /\ at'[c] = "head" /\ \A d \in Conns \ {c} : at'[d] = at[d]
        /\ clients' = clients \cup {c} /\ registered' = registered \cup {c} /\ UNCHANGED <<ready, removed>>
    BY <2>1, <1>0 DEF AddSseClient, Moves
  <2>3. c \notin registered
    BY <2>2, <1>0 DEF BeforeStream
  <2>4. \A d \in Conns : at'[d] = "head" => d \in registered' \ ready'
    BY <2>2, <2>3, <1>0
  <2>5. \A d \in Conns : at'[d] \in BeforeStream => d \notin registered'
    BY <2>2, <1>0 DEF BeforeStream
  <2>6. \A d \in Conns : removed'[d] = IF d \in registered' \ clients' THEN 1 ELSE 0
    BY <2>2, <2>3, <1>0
  <2> QED BY <2>2, <2>4, <2>5, <2>6, <1>0 DEF Registered, DisconnectOnce
<1>2. CASE \E c \in Conns : MarkReady(c)
  <2>1. PICK c \in Conns : MarkReady(c)
    BY <1>2
  <2>2. /\ at[c] = "head" /\ at'[c] = "live" /\ \A d \in Conns \ {c} : at'[d] = at[d]
        /\ ready' = ready \cup {c} /\ UNCHANGED <<clients, registered, removed>>
    BY <2>1, <1>0 DEF MarkReady, Moves
  <2> QED BY <2>2, <1>0 DEF Registered, DisconnectOnce, BeforeStream
<1>3. CASE ~(\E c \in Conns : AddSseClient(c)) /\ UNCHANGED <<ready, registered>>
  <2>1. \A d \in Conns : at'[d] = "head" => d \in registered' \ ready'
    BY <1>3, <1>0, <1>n
  <2>2. \A d \in Conns : at'[d] \in BeforeStream => d \notin registered'
    BY <1>3, <1>0, <1>n
  <2>3. CASE UNCHANGED <<clients, removed>>
    BY <2>1, <2>2, <2>3, <1>3, <1>0 DEF Registered, DisconnectOnce
  <2>4. CASE \E c \in Conns : TakeOut(c)
    <3>1. PICK c \in Conns : TakeOut(c)
      BY <2>4
    <3>2. clients' \subseteq registered' /\ \A d \in Conns : removed'[d] = IF d \in registered' \ clients' THEN 1 ELSE 0
      BY <3>1, <1>3, <1>0 DEF TakeOut
    <3> QED BY <3>2, <2>1, <2>2, <1>3, <1>0 DEF Registered, DisconnectOnce
  <2> QED BY <1>1, <1>2, <1>3, <2>3, <2>4, SseSteps
<1> QED BY <1>1, <1>2, <1>3, SseSteps

\* What may be on a wire: nothing, or a header and frames.
HeadFirst(w) == (w # <<>> => w[1] = "head") /\ \A i \in 2..Len(w) : w[i] = "frame"

(* A header with the frames that were held back, and a frame behind a header, are in order. *)
LEMMA HeadFirstKept ==
  /\ HeadFirst(<<>>) /\ HeadFirst(<<"head">>)
  /\ \A n \in Nat : HeadFirst(<<>> \o <<"head">> \o Frames(n)) /\ <<>> \o <<"head">> \o Frames(n) # <<>>
  /\ \A w \in Seq({"head", "frame"}) :
        w # <<>> /\ HeadFirst(w) => HeadFirst(Append(w, "frame")) /\ Append(w, "frame") # <<>>
<1>1. HeadFirst(<<>>) /\ HeadFirst(<<"head">>)
  BY DEF HeadFirst
<1>2. ASSUME NEW n \in Nat
      PROVE  HeadFirst(<<>> \o <<"head">> \o Frames(n)) /\ <<>> \o <<"head">> \o Frames(n) # <<>>
  <2> DEFINE h == <<"head">>
             w == <<>> \o <<"head">> \o Frames(n)
  <2>1. h \in Seq({"head", "frame"}) /\ Len(h) = 1 /\ h[1] = "head" /\ <<>> \o h = h
    OBVIOUS
  <2>2. Frames(n) \in Seq({"head", "frame"}) /\ Len(Frames(n)) = n /\ \A i \in 1..n : Frames(n)[i] = "frame"
    BY WireType DEF Frames
  <2>3. w = h \o Frames(n)
    BY <2>1
  <2> HIDE DEF w, h
  <2>4. /\ Len(w) = 1 + n
        /\ \A i \in 1..(1 + n) : w[i] = IF i <= 1 THEN h[i] ELSE Frames(n)[i - 1]
    <3>1. /\ Len(h \o Frames(n)) = Len(h) + Len(Frames(n))
          /\ \A i \in 1..(Len(h) + Len(Frames(n))) :
                (h \o Frames(n))[i] = IF i <= Len(h) THEN h[i] ELSE Frames(n)[i - Len(h)]
      BY <2>1, <2>2, ConcatProperties
    <3> QED BY <3>1, <2>1, <2>2, <2>3
  <2>5. HeadFirst(w) /\ w # <<>>
    BY <2>1, <2>2, <2>4 DEF HeadFirst
  <2> QED BY <2>5 DEF w
<1>3. ASSUME NEW w \in Seq({"head", "frame"}), w # <<>>, HeadFirst(w)
      PROVE  HeadFirst(Append(w, "frame")) /\ Append(w, "frame") # <<>>
  BY <1>3 DEF HeadFirst
<1> QED BY <1>1, <1>2, <1>3

(* Of the event streams, steps only close sockets, write a header, end a connection or send.      *)
LEMMA WireSteps ==
  ASSUME TypeOK, [Next]_vars
  PROVE  \/ UNCHANGED <<wire, buffer, ready>> /\ open' \subseteq open
         \/ \E c \in Conns : AnswerStream(c) \/ MarkReady(c) \/ ConnectionEnds(c)
         \/ \E c \in Conns : Send(c) /\ UNCHANGED <<at, open, ready>>
<1>1. CASE BroadcastSse \/ KeepAlive \/ KeepAliveEnds \/ UNCHANGED vars \/ \E o \in Conns \cup {Outside} : StopBegins(o)
  BY <1>1, Frame DEF sse, Streams, vars
<1>2. CASE AcceptStep \/ StopStep
  <2>1. UNCHANGED <<wire, buffer, ready>>
    BY <1>2, Frame DEF sse
  <2>2. open' \subseteq open
    BY <1>2 DEF AcceptStep, Reap, PollIdle, Spawn, Accept, StopStep, CloseListener, CopyConnections,
                CloseConnections, JoinKeepAlive, JoinAccept, JoinConnections
  <2> QED BY <2>1, <2>2
<1>3. ASSUME NEW c \in Conns, ConnStep(c)
      PROVE  \/ UNCHANGED <<wire, buffer, ready>> /\ open' \subseteq open
             \/ AnswerStream(c) \/ MarkReady(c) \/ ConnectionEnds(c)
  BY <1>3 DEF ConnStep, Loop, ReadRequest, ReadFails, Answer, AddSseClient, HeadFails, StreamEnds,
              RemoveSseClient, StopReturned, sse
<1>4. ASSUME NEW s \in Senders, NEW c \in Conns, Deliver(s, c)
      PROVE  \/ UNCHANGED <<wire, buffer, ready>> /\ open' \subseteq open
             \/ Send(c) /\ UNCHANGED <<at, open, ready>>
  BY <1>4 DEF Deliver, SendFails
<1> QED BY <1>1, <1>2, <1>3, <1>4, Zenon DEF Next, SendStep

(* Every step keeps the header in front. *)
LEMMA FramedStep ==
  ASSUME TypeOK, Listed, Registered, Framed, [Next]_vars PROVE Framed'
<1>0. /\ at \in [Conns -> Places] /\ wire \in [Conns -> Seq({"head", "frame"})] /\ buffer \in [Conns -> Nat]
      /\ ready \subseteq Conns /\ open \subseteq Conns
      /\ \A c \in Conns : HeadFirst(wire[c]) /\ (c \in ready => buffer[c] = 0)
      /\ \A c \in Conns : at[c] \in BeforeStream \cup {"head"} => wire[c] = <<>> /\ c \notin ready
      /\ \A c \in Conns : c \in ready /\ c \in open => wire[c] # <<>>
  BY DEF TypeOK, Framed, FramesFollowHead, HeadFirst, Registered
<1>n. \A d \in Conns : at'[d] \in BeforeStream \cup {"head"} => at[d] \in BeforeStream \cup {"head"}
  <2>1. \A d \in Conns : AddSseClient(d) => at[d] \in BeforeStream
    BY DEF AddSseClient, Moves, BeforeStream
  <2> QED BY <2>1, NoWayBack
<1>q. ASSUME \A c \in Conns : HeadFirst(wire'[c]) /\ (c \in ready' => buffer'[c] = 0),
             \A c \in Conns : at'[c] \in BeforeStream \cup {"head"} => wire'[c] = <<>>,
             \A c \in ready' \cap open' : wire'[c] # <<>>
      PROVE  Framed'
  BY <1>q DEF Framed, FramesFollowHead, HeadFirst
<1>1. CASE UNCHANGED <<wire, buffer, ready>> /\ open' \subseteq open
  BY <1>1, <1>0, <1>n, <1>q
<1>2. ASSUME NEW c \in Conns, AnswerStream(c) PROVE Framed'
  <2>1. /\ at[c] = "handling" /\ at'[c] = "erase" /\ open' \subseteq open /\ UNCHANGED <<ready, buffer>>
        /\ wire'[c] \in {<<"head">>, <<>>} /\ \A d \in Conns \ {c} : wire'[d] = wire[d]
    BY <1>2, <1>0 DEF AnswerStream, Moves
  <2>2. HeadFirst(wire'[c]) /\ c \notin ready
    BY <2>1, <1>0, HeadFirstKept DEF BeforeStream
  <2>3. \A d \in Conns : HeadFirst(wire'[d]) /\ (d \in ready' => buffer'[d] = 0)
    BY <2>1, <2>2, <1>0
  <2>4. \A d \in Conns : at'[d] \in BeforeStream \cup {"head"} => wire'[d] = <<>>
    BY <2>1, <1>0, <1>n DEF BeforeStream
  <2>5. \A d \in ready' \cap open' : wire'[d] # <<>>
    BY <2>1, <2>2, <1>0
  <2> QED BY <2>3, <2>4, <2>5, <1>q
<1>3. ASSUME NEW c \in Conns, MarkReady(c) PROVE Framed'
  <2>1. /\ at[c] = "head" /\ at'[c] = "live" /\ open' = open /\ ready' = ready \cup {c}
        /\ wire'[c] = wire[c] \o <<"head">> \o Frames(buffer[c]) /\ buffer'[c] = 0
        /\ \A d \in Conns \ {c} : wire'[d] = wire[d] /\ buffer'[d] = buffer[d]
    BY <1>3, <1>0 DEF MarkReady, Moves
  <2>2. wire[c] = <<>> /\ buffer[c] \in Nat
    BY <2>1, <1>0
  <2>3. HeadFirst(wire'[c]) /\ wire'[c] # <<>>
    BY <2>1, <2>2, HeadFirstKept
  <2>4. \A d \in Conns : HeadFirst(wire'[d]) /\ (d \in ready' => buffer'[d] = 0)
    BY <2>1, <2>3, <1>0
  <2>5. \A d \in Conns : at'[d] \in BeforeStream \cup {"head"} => wire'[d] = <<>>
    BY <2>1, <1>0, <1>n DEF BeforeStream
  <2>6. \A d \in ready' \cap open' : wire'[d] # <<>>
    BY <2>1, <2>3, <1>0
  <2> QED BY <2>4, <2>5, <2>6, <1>q
<1>4. ASSUME NEW c \in Conns, ConnectionEnds(c) PROVE Framed'
  <2>1. /\ wire'[c] = <<>> /\ open' = open \ {c} /\ UNCHANGED <<ready, buffer>>
        /\ \A d \in Conns \ {c} : wire'[d] = wire[d]
    BY <1>4, <1>0 DEF ConnectionEnds
  <2>2. \A d \in Conns : HeadFirst(wire'[d]) /\ (d \in ready' => buffer'[d] = 0)
    BY <2>1, <1>0, HeadFirstKept
  <2>3. \A d \in Conns : at'[d] \in BeforeStream \cup {"head"} => wire'[d] = <<>>
    BY <2>1, <1>0, <1>n
  <2>4. \A d \in ready' \cap open' : wire'[d] # <<>>
    BY <2>1, <1>0
  <2> QED BY <2>2, <2>3, <2>4, <1>q
<1>5. ASSUME NEW c \in Conns, Send(c), UNCHANGED <<at, open, ready>> PROVE Framed'
  <2>1. CASE c \in ready
    <3>1. /\ c \in open /\ wire'[c] = Append(wire[c], "frame") /\ UNCHANGED buffer
          /\ \A d \in Conns \ {c} : wire'[d] = wire[d]
      BY <1>5, <2>1, <1>0 DEF Send
    <3>2. HeadFirst(wire'[c]) /\ wire'[c] # <<>>
      BY <3>1, <2>1, <1>0, HeadFirstKept
    <3>3. \A d \in Conns : HeadFirst(wire'[d]) /\ (d \in ready' => buffer'[d] = 0)
      BY <1>5, <3>1, <3>2, <1>0
    <3>4. \A d \in Conns : at'[d] \in BeforeStream \cup {"head"} => wire'[d] = <<>>
      BY <1>5, <2>1, <3>1, <1>0
    <3>5. \A d \in ready' \cap open' : wire'[d] # <<>>
      BY <1>5, <3>1, <3>2, <1>0
    <3> QED BY <3>3, <3>4, <3>5, <1>q
  <2>2. CASE c \notin ready
    <3>1. UNCHANGED wire /\ \A d \in Conns \ {c} : buffer'[d] = buffer[d]
      BY <1>5, <2>2, <1>0 DEF Send
    <3> QED BY <1>5, <2>2, <3>1, <1>0, <1>q
  <2> QED BY <2>1, <2>2
<1> QED BY <1>1, <1>2, <1>3, <1>4, <1>5, WireSteps, Zenon

--------------------------------------------------------------------------------
(* Theorems *)

(* The invariant holds initially: nothing is connected. *)
LEMMA InitIInv == Init => IInv
<1> SUFFICES ASSUME Init PROVE IInv
  OBVIOUS
<1>1. Cardinality({}) = 0 /\ limit \in Nat
  BY FS_EmptySet, HttpServerAssumption DEF Init
<1>2. Listed
  BY <1>1 DEF Init, Listed, Working
<1>3. Threaded /\ Stopped
  BY DEF Init, Threaded, Stopped, Working
<1>4. Registered
  BY DEF Init, Registered, DisconnectOnce
<1>5. Framed
  BY DEF Init, Framed, FramesFollowHead
<1> QED BY <1>2, <1>3, <1>4, <1>5, InitTypeOK DEF IInv

(* The invariant is inductive, and it holds of the server. *)
THEOREM ServerInvariant == Spec => []IInv
<1>1. IInv /\ [Next]_vars => IInv'
  BY TypeOKStep, ListedStep, ThreadedStep, StoppedStep, RegisteredStep, FramedStep DEF IInv
<1> QED BY <1>1, InitIInv, PTL DEF Spec

(* When Stop returns, the accept thread, the keep-alive thread and every connection thread have   *)
(* ended, but the one whose handler called Stop: Stop joins the accept thread before it takes the  *)
(* list of the threads it joins, so that no connection is accepted behind its back.                *)
THEOREM StopIsThorough == Spec => []StopLeavesNoThread
<1>1. IInv => StopLeavesNoThread
  <2> SUFFICES ASSUME IInv, stop.at = "stopped"
               PROVE  /\ acceptor.at = "ended" /\ ~keepalive
                      /\ \A c \in Conns \ {stop.origin} : at[c] \in {"none", "refused", "ended"}
    BY DEF StopLeavesNoThread
  <2>1. \A c \in Conns \ {stop.origin} : at[c] \in Places /\ at[c] \notin Working
    BY DEF IInv, Stopped, TypeOK
  <2> QED BY <2>1 DEF IInv, Stopped, Places, Working
<1> QED BY <1>1, ServerInvariant, PTL

(* No more connection threads than kMaxConnections are at work, also while Stop tears the list    *)
(* down; on_disconnect is called once for every client, whoever takes it out; and what is         *)
(* broadcast while a stream is opened follows its header.                                         *)
THEOREM StreamsKeepOrder == Spec => []StreamsInOrder
<1>1. IInv => ConnectionLimit
  <2> SUFFICES ASSUME IInv PROVE ConnectionLimit
    OBVIOUS
  <2> DEFINE W == {c \in Conns : at[c] \notin {"none", "refused", "ended"}}
  <2>1. \A c \in W : c \in Conns /\ at[c] \in Working
    BY DEF IInv, TypeOK, Places, Working
  <2>2. /\ IsFiniteSet(fds) /\ Cardinality(fds) \in Nat /\ limit \in Nat /\ limit >= 1
        /\ Cardinality(fds) <= limit
    BY ListFinite DEF IInv, Listed
  <2>3. CASE stop.at # "stopped"
    <3>1. W \subseteq fds
      BY <2>1, <2>3 DEF IInv, Listed
    <3>2. Cardinality(W) <= Cardinality(fds) /\ Cardinality(W) \in Nat
      BY <3>1, <2>2, FS_Subset, FS_CardinalityType
    <3>3. Cardinality(W) <= limit
      BY <3>2, <2>2
    <3> QED BY <3>3 DEF ConnectionLimit
  <2>4. CASE stop.at = "stopped"
    <3>1. W \subseteq {stop.origin}
      BY <2>1, <2>4 DEF IInv, Stopped
    <3>2. Cardinality({stop.origin}) = 1 /\ IsFiniteSet({stop.origin})
      BY FS_Singleton
    <3>3. Cardinality(W) <= 1 /\ Cardinality(W) \in Nat
      BY <3>1, <3>2, FS_Subset, FS_CardinalityType
    <3>4. Cardinality(W) <= limit
      BY <3>3, <2>2
    <3> QED BY <3>4 DEF ConnectionLimit
  <2> QED BY <2>3, <2>4
<1>2. IInv => StreamsInOrder
  BY <1>1 DEF IInv, Registered, Framed, StreamsInOrder
<1> QED BY <1>2, ServerInvariant, PTL
================================================================================
