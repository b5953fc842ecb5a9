------------------------- MODULE ClientTransportProofs ------------------------
(***************************************************************************)
(* The streamable HTTP client transport for any requests, threads,         *)
(* reconnects and blocks: nothing reaches for what is gone, and a request  *)
(* is answered or fails.  Then the OAuth client that gives it its tokens,  *)
(* for any threads and issuers: the issuer stays pinned and no refresh is  *)
(* stale.                                                                  *)
(***************************************************************************)
EXTENDS HttpClient, OAuthTokens, SequenceTheorems, TLAPS

--------------------------------------------------------------------------------
(* Types *)

Jobs == [id : Ids, attempt : 0..1, resumes : BOOLEAN, reply : Replies,
         blocks : 0..MaxBlocks, resolved : BOOLEAN]
Spots == {"none", "loop", "checked", "asleep", "ready", "exchange", "answered",
          "pause", "deleting", "ended"}
Phases == {"none", "new", "connecting", "head", "stream", "over", "broken"}
Steps == {"idle", "stopped", "signalled", "clients", "joining", "joined", "done"}
Slots == [id : Ids, who : Workers \cup {NoWorker}]

(* TypeOK, a variable at a time. *)
Typed ==
    /\ listens \in BOOLEAN /\ running \in BOOLEAN /\ starting \in BOOLEAN /\ requested \in BOOLEAN
    /\ listening \in BOOLEAN /\ lastEvent \in BOOLEAN
    /\ unsent \subseteq Requests \cup Helpers /\ pending \subseteq Requests /\ queue \in Seq(Requests)
    /\ at \in [Workers -> Spots] /\ job \in [Workers -> Jobs] /\ client \in [Workers -> Phases]
    /\ closed \in [Workers -> BOOLEAN]
    /\ active \in Slots
    /\ resuming \in Workers \cup {NoWorker} /\ picked \in Workers \cup {NoWorker}
    /\ cancelled \subseteq Requests /\ reconnects \in 0..MaxReconnects
    /\ closer \in Steps
    /\ got \in [Requests -> SUBSET {"answer", "failure"}]

LEMMA Names ==
    /\ "sender" \in Workers /\ "listener" \in Workers /\ Helpers \subseteq Workers
    /\ "sender" \notin Helpers /\ "listener" \notin Helpers /\ NoWorker \notin Workers
    /\ NoId \in Ids /\ NoId \notin Requests /\ Requests \subseteq Ids
    /\ \A h \in Helpers : AnswerId[h] \in Ids
    /\ MaxBlocks \in Nat /\ MaxReconnects \in Nat
BY HttpClientAssumption DEF Workers, Ids, NoWorker

(* What becomes of a job. *)
LEMMA JobTypes ==
    /\ \A id \in Ids : [Fresh EXCEPT !.id = id] \in Jobs
    /\ Fresh \in Jobs /\ Fresh.id = NoId
    /\ \A j \in Jobs : /\ j.id \in Ids /\ j.blocks \in 0..MaxBlocks
                      /\ j.resolved \in BOOLEAN /\ j.resumes \in BOOLEAN
    /\ \A j \in Jobs, r \in Replies : [j EXCEPT !.reply = r] \in Jobs
    /\ \A j \in Jobs : [j EXCEPT !.attempt = 1] \in Jobs
    /\ \A j \in Jobs : [j EXCEPT !.resumes = TRUE, !.blocks = 0] \in Jobs
    /\ \A j \in Jobs : j.blocks < MaxBlocks => [j EXCEPT !.blocks = j.blocks + 1] \in Jobs
    /\ \A j \in Jobs : j.blocks < MaxBlocks => [j EXCEPT !.blocks = j.blocks + 1, !.resolved = TRUE] \in Jobs
<1> USE Names DEF Jobs
<1>1. Fresh \in Jobs /\ Fresh.id = NoId /\ \A id \in Ids : [Fresh EXCEPT !.id = id] \in Jobs
  <2>1. "none" \in Replies /\ 0 \in 0..1 /\ 0 \in 0..MaxBlocks
      BY DEF Replies
  <2>2. ASSUME NEW id \in Ids
        PROVE  [id |-> id, attempt |-> 0, resumes |-> FALSE, reply |-> "none", blocks |-> 0,
                resolved |-> FALSE] \in Jobs
      BY <2>1
  <2>3. Fresh \in Jobs /\ Fresh.id = NoId
      BY <2>2 DEF Fresh
  <2>4. \A j \in Jobs, id \in Ids : [j EXCEPT !.id = id] \in Jobs
      OBVIOUS
  <2> QED BY <2>3, <2>4
<1>2. ASSUME NEW j \in Jobs
      PROVE  /\ j.id \in Ids /\ j.blocks \in 0..MaxBlocks /\ j.resolved \in BOOLEAN /\ j.resumes \in BOOLEAN
             /\ j.attempt \in 0..1 /\ j.reply \in Replies
    OBVIOUS
<1>3. \A j \in Jobs, r \in Replies : [j EXCEPT !.reply = r] \in Jobs
    OBVIOUS
<1>4. \A j \in Jobs : [j EXCEPT !.attempt = 1] \in Jobs
    OBVIOUS
<1>5. \A j \in Jobs : [j EXCEPT !.resumes = TRUE, !.blocks = 0] \in Jobs
  <2>1. 0 \in 0..MaxBlocks
      OBVIOUS
  <2> QED BY <2>1
<1>6. ASSUME NEW j \in Jobs, j.blocks < MaxBlocks
      PROVE  [j EXCEPT !.blocks = @ + 1] \in Jobs /\ [j EXCEPT !.blocks = @ + 1, !.resolved = TRUE] \in Jobs
  <2>1. j.blocks + 1 \in 0..MaxBlocks
      BY <1>6
  <2> QED BY <2>1
<1> QED BY <1>1, <1>2, <1>3, <1>4, <1>5, <1>6

(* What an exchange does to the clients and to what requests were given. *)
LEMMA ClientTypes ==
    ASSUME Typed
    PROVE  /\ \A w \in Workers : NewClient(w) => client' \in [Workers -> Phases] /\ closed' = closed
           /\ \A w \in Workers : NoClient(w) => client' \in [Workers -> Phases] /\ closed' \in [Workers -> BOOLEAN]
           /\ \A W : CloseClients(W) => client' \in [Workers -> Phases] /\ closed' \in [Workers -> BOOLEAN]
           /\ \A id \in Ids : Delivers(id, "answer") \/ Delivers(id, "failure") =>
                             got' \in [Requests -> SUBSET {"answer", "failure"}]
           /\ \A w \in Workers : ClearActivePost(w) => active' \in Slots
           /\ \A w \in Workers : Done(w) => at' \in [Workers -> Spots] /\ job' \in [Workers -> Jobs]
<1> USE DEF Typed
<1>1. \A w \in Workers : NewClient(w) => client' \in [Workers -> Phases] /\ closed' = closed
    BY DEF NewClient, Phases
<1>2. \A w \in Workers : NoClient(w) => client' \in [Workers -> Phases] /\ closed' \in [Workers -> BOOLEAN]
    BY DEF NoClient, Phases
<1>3. \A W : CloseClients(W) => client' \in [Workers -> Phases] /\ closed' \in [Workers -> BOOLEAN]
    BY DEF CloseClients, Phases
<1>4. \A id \in Ids : Delivers(id, "answer") \/ Delivers(id, "failure") =>
                    got' \in [Requests -> SUBSET {"answer", "failure"}]
    BY Names DEF Delivers, Ids
<1>5. \A w \in Workers : ClearActivePost(w) => active' \in Slots
    BY Names DEF ClearActivePost, NoSlot, Slots
<1>6. \A w \in Workers : Done(w) => at' \in [Workers -> Spots] /\ job' \in [Workers -> Jobs]
  <2> SUFFICES ASSUME NEW w \in Workers, Done(w)
               PROVE  at' \in [Workers -> Spots] /\ job' \in [Workers -> Jobs]
      OBVIOUS
  <2>1. After(w) \in Spots
      BY DEF After, Spots
  <2> QED BY <2>1, JobTypes DEF Done
<1> QED BY <1>1, <1>2, <1>3, <1>4, <1>5, <1>6

(* What becomes of a worker's job. *)
LEMMA JobMoves ==
    ASSUME job \in [Workers -> Jobs], NEW w \in Workers
    PROVE  /\ \A r \in Replies : [job EXCEPT ![w].reply = r] \in [Workers -> Jobs]
           /\ [job EXCEPT ![w].attempt = 1] \in [Workers -> Jobs]
           /\ [job EXCEPT ![w].resumes = TRUE, ![w].blocks = 0] \in [Workers -> Jobs]
           /\ job[w].blocks < MaxBlocks => [job EXCEPT ![w].blocks = @ + 1] \in [Workers -> Jobs]
           /\ job[w].blocks < MaxBlocks =>
                  [job EXCEPT ![w].blocks = @ + 1, ![w].resolved = TRUE] \in [Workers -> Jobs]
           /\ \A j \in Jobs : [job EXCEPT ![w] = j] \in [Workers -> Jobs]
<1> DEFINE j == job[w]
<1>1. j \in Jobs
    OBVIOUS
<1>2. \A r \in Replies : [job EXCEPT ![w].reply = r] \in [Workers -> Jobs]
    BY <1>1, JobTypes
<1>3. [job EXCEPT ![w].attempt = 1] \in [Workers -> Jobs]
    BY <1>1, JobTypes
<1>4. [job EXCEPT ![w].resumes = TRUE, ![w].blocks = 0] \in [Workers -> Jobs]
    BY <1>1, JobTypes
<1>5. job[w].blocks < MaxBlocks => [job EXCEPT ![w].blocks = @ + 1] \in [Workers -> Jobs]
    BY <1>1, JobTypes
<1>6. job[w].blocks < MaxBlocks =>
          [job EXCEPT ![w].blocks = @ + 1, ![w].resolved = TRUE] \in [Workers -> Jobs]
    BY <1>1, JobTypes
<1>7. \A x \in Jobs : [job EXCEPT ![w] = x] \in [Workers -> Jobs]
    OBVIOUS
<1> QED BY <1>2, <1>3, <1>4, <1>5, <1>6, <1>7

(* Every step keeps to the types. *)
LEMMA TypeStep ==
    ASSUME Typed, Next
    PROVE  Typed'
<1> USE DEF Typed
<1>1. ASSUME NEW w \in Workers, BeginRequest(w) PROVE Typed'
  <2>1. client' \in [Workers -> Phases]
      BY <1>1, ClientTypes, Names DEF BeginRequest, Phases
  <2> QED BY <1>1, ClientTypes, <2>1 DEF BeginRequest, slots, start, exchange
<1>2. ASSUME NEW w \in Workers, Connect(w) PROVE Typed'
  <2>1. client' \in [Workers -> Phases]
      BY <1>2, ClientTypes, Names DEF Connect, Phases
  <2> QED BY <1>2, ClientTypes, <2>1 DEF Connect, slots, start, exchange
<1>3. ASSUME NEW w \in Workers, ReadHead(w) PROVE Typed'
  <2>1. client' \in [Workers -> Phases]
      BY <1>3, ClientTypes, Names DEF ReadHead, Phases
  <2>2. job' \in [Workers -> Jobs]
    <3>1. \/ \E reply \in Replies : job' = [job EXCEPT ![w].reply = reply]
          \/ job' = job
        BY <1>3 DEF ReadHead, Replies
    <3>2. ASSUME NEW reply \in Replies, job' = [job EXCEPT ![w].reply = reply] PROVE job' \in [Workers -> Jobs]
        BY <3>2, JobMoves
    <3> QED BY <3>1, <3>2
  <2> QED BY <1>3, ClientTypes, <2>1, <2>2 DEF ReadHead, slots, start, exchange
<1>4. ASSUME NEW w \in Workers, BeginPost(w) PROVE Typed'
  <2>1. cancelled' \subseteq Requests
      BY <1>4, ClientTypes, Names DEF BeginPost
  <2>2. at' \in [Workers -> Spots]
      BY <1>4, ClientTypes, Names DEF BeginPost, Spots
  <2>3. job' \in [Workers -> Jobs]
      BY <1>4, ClientTypes, JobTypes, JobMoves, Names DEF BeginPost
  <2>4. client' \in [Workers -> Phases]
      BY <1>4, ClientTypes, Names DEF BeginPost, exchange
  <2>5. closed' \in [Workers -> BOOLEAN]
      BY <1>4, ClientTypes, Names DEF BeginPost, exchange
  <2>6. active' \in Slots
    <3>1. active' = active \/ active' = [id |-> job[w].id, who |-> w]
        BY <1>4 DEF BeginPost
    <3>2. job[w].id \in Ids
        BY JobTypes
    <3> QED BY <3>1, <3>2 DEF Slots
  <2> QED BY <1>4, ClientTypes, <2>1, <2>2, <2>3, <2>4, <2>5, <2>6 DEF BeginPost, slots, start, exchange
<1>5. ASSUME NEW w \in Workers, PostFails(w) PROVE Typed'
    BY <1>5, ClientTypes DEF PostFails, slots, start, exchange
<1>6. ASSUME NEW w \in Workers, PostReturns(w) PROVE Typed'
  <2>1. cancelled' \subseteq Requests
      BY <1>6, ClientTypes, Names DEF PostReturns
  <2>2. at' \in [Workers -> Spots]
      BY <1>6, ClientTypes, Names DEF PostReturns, Spots
  <2>3. job' \in [Workers -> Jobs]
      BY <1>6, ClientTypes, JobTypes, JobMoves, Names DEF PostReturns
  <2> QED BY <1>6, ClientTypes, <2>1, <2>2, <2>3 DEF PostReturns, slots, start, exchange
<1>7. ASSUME NEW w \in Workers, Retry(w) PROVE Typed'
  <2>1. job' \in [Workers -> Jobs]
      BY <1>7, ClientTypes, JobTypes, JobMoves, Names DEF Retry
  <2>2. at' \in [Workers -> Spots]
      BY <1>7, ClientTypes, Names DEF Retry, Spots
  <2> QED BY <1>7, ClientTypes, <2>1, <2>2 DEF Retry, slots, start, exchange
<1>8. ASSUME NEW w \in Workers, ReportError(w) PROVE Typed'
  <2>1. got' \in [Requests -> SUBSET {"answer", "failure"}]
      BY <1>8, ClientTypes, JobTypes, Names DEF ReportError
  <2> QED BY <1>8, ClientTypes, <2>1 DEF ReportError, slots, start, exchange
<1>9. ASSUME NEW w \in Workers, Accepted(w) PROVE Typed'
    BY <1>9, ClientTypes DEF Accepted, slots, start, exchange
<1>10. ASSUME NEW w \in Workers, TakeJson(w) PROVE Typed'
  <2>1. got' \in [Requests -> SUBSET {"answer", "failure"}]
      BY <1>10, ClientTypes, JobTypes, Names DEF TakeJson
  <2> QED BY <1>10, ClientTypes, <2>1 DEF TakeJson, slots, start, exchange
<1>11. ASSUME NEW w \in Workers, StreamDone(w) PROVE Typed'
    BY <1>11, ClientTypes DEF StreamDone, slots, start, exchange
<1>12. ASSUME NEW w \in Workers, ResumePostStreamViaGet(w) PROVE Typed'
  <2>1. job' \in [Workers -> Jobs]
      BY <1>12, ClientTypes, JobTypes, JobMoves, Names DEF ResumePostStreamViaGet
  <2>2. active' \in Slots
    <3>1. active' = [id |-> job[w].id, who |-> w]
        BY <1>12 DEF ResumePostStreamViaGet
    <3>2. job[w].id \in Ids
        BY JobTypes
    <3> QED BY <3>1, <3>2 DEF Slots
  <2>3. at' \in [Workers -> Spots]
      BY <1>12, ClientTypes, Names DEF ResumePostStreamViaGet, Spots
  <2>4. resuming' \in Workers \cup {NoWorker}
      BY <1>12, ClientTypes, Names DEF ResumePostStreamViaGet
  <2> QED BY <1>12, ClientTypes, <2>1, <2>2, <2>3, <2>4 DEF ResumePostStreamViaGet, slots, start,
     exchange
<1>13. ASSUME NEW w \in Workers, ResumeEnds(w) PROVE Typed'
  <2>1. at' \in [Workers -> Spots]
      BY <1>13, ClientTypes, Names DEF ResumeEnds, Spots
  <2>2. job' \in [Workers -> Jobs]
      BY <1>13, ClientTypes, JobTypes, JobMoves, Names DEF ResumeEnds, Replies
  <2> QED BY <1>13, ClientTypes, <2>1, <2>2 DEF ResumeEnds, slots, start, exchange
<1>14. ASSUME NEW w \in Workers, ReportEnd(w) PROVE Typed'
  <2>1. got' \in [Requests -> SUBSET {"answer", "failure"}]
      BY <1>14, ClientTypes, JobTypes, Names DEF ReportEnd, Unfinished
  <2> QED BY <1>14, ClientTypes, <2>1 DEF ReportEnd, slots, start, exchange
<1>15. ASSUME NEW w \in Workers, ReadBlock(w) PROVE Typed'
  <2>1. lastEvent' \in BOOLEAN
      BY <1>15, ClientTypes, Names DEF ReadBlock
  <2>2. job' \in [Workers -> Jobs]
    <3>1. /\ job[w].blocks < MaxBlocks
          /\ \/ job' = [job EXCEPT ![w].blocks = @ + 1, ![w].resolved = TRUE]
             \/ job' = [job EXCEPT ![w].blocks = @ + 1]
        BY <1>15 DEF ReadBlock
    <3>2. CASE job' = [job EXCEPT ![w].blocks = @ + 1, ![w].resolved = TRUE]
        BY <3>1, <3>2, JobMoves
    <3>3. CASE job' = [job EXCEPT ![w].blocks = @ + 1]
        BY <3>1, <3>3, JobMoves
    <3> QED BY <3>1, <3>2, <3>3
  <2>3. client' \in [Workers -> Phases]
      BY <1>15, ClientTypes, Names DEF ReadBlock, Phases
  <2>4. got' \in [Requests -> SUBSET {"answer", "failure"}]
      BY <1>15, ClientTypes, JobTypes, Names DEF ReadBlock
  <2> QED BY <1>15, ClientTypes, <2>1, <2>2, <2>3, <2>4 DEF ReadBlock, slots, start, exchange
<1>16. ASSUME NEW w \in Workers, EndStream(w) PROVE Typed'
  <2>1. client' \in [Workers -> Phases]
      BY <1>16, ClientTypes, Names DEF EndStream, Phases
  <2> QED BY <1>16, ClientTypes, <2>1 DEF EndStream, slots, start, exchange
<1>17. ASSUME NEW r \in Requests, SendRequest(r) PROVE Typed'
  <2>1. queue' \in Seq(Requests)
      BY <1>17, ClientTypes, Names DEF SendRequest
  <2>2. at' \in [Workers -> Spots]
      BY <1>17, ClientTypes, Names DEF SendRequest, Spots
  <2> QED BY <1>17, ClientTypes, <2>1, <2>2 DEF SendRequest, slots, start, exchange
<1>18. ASSUME NEW r \in Requests, CancelRequest(r) PROVE Typed'
  <2>1. cancelled' \subseteq Requests
      BY <1>18, ClientTypes, Names DEF CancelRequest
  <2>2. picked' \in Workers \cup {NoWorker}
      BY <1>18, ClientTypes, Names DEF CancelRequest, Slots
  <2> QED BY <1>18, ClientTypes, <2>1, <2>2 DEF CancelRequest, slots, start, exchange
<1>19. ASSUME NEW h \in Helpers, SendNow(h) PROVE Typed'
  <2>1. at' \in [Workers -> Spots]
      BY <1>19, ClientTypes, Names DEF SendNow, Spots
  <2>2. job' \in [Workers -> Jobs]
      BY <1>19, ClientTypes, JobTypes, JobMoves, Names DEF SendNow
  <2> QED BY <1>19, ClientTypes, <2>1, <2>2 DEF SendNow, slots, start, exchange
<1>20. CASE StartListener
  <2>1. requested' \in BOOLEAN
      BY <1>20, ClientTypes, Names DEF StartListener
  <2>2. at' \in [Workers -> Spots]
      BY <1>20, ClientTypes, Names DEF StartListener, Spots
  <2> QED BY <1>20, ClientTypes, <2>1, <2>2 DEF StartListener, slots, start, exchange
<1>21. CASE TakeMessage
  <2>1. at' \in [Workers -> Spots]
      BY <1>21, ClientTypes, Names DEF TakeMessage, Spots
  <2>2. queue' \in Seq(Requests)
    <3>1. queue' = queue \/ (queue # <<>> /\ queue' = Tail(queue))
        BY <1>21 DEF TakeMessage
    <3> QED BY <3>1, HeadTailProperties, SMTT(30)
  <2>3. job' \in [Workers -> Jobs]
    <3>1. \/ job' = job
          \/ queue # <<>> /\ job' = [job EXCEPT !["sender"] = [Fresh EXCEPT !.id = Head(queue)]]
        BY <1>21 DEF TakeMessage
    <3>2. queue # <<>> => Head(queue) \in Ids
        BY HeadTailProperties, Names
    <3>3. queue # <<>> => [Fresh EXCEPT !.id = Head(queue)] \in Jobs
        BY <3>2, JobTypes
    <3>4. ASSUME NEW x \in Jobs PROVE [job EXCEPT !["sender"] = x] \in [Workers -> Jobs]
        BY Names
    <3> QED BY <3>1, <3>3, <3>4
  <2> QED BY <1>21, ClientTypes, <2>1, <2>2, <2>3 DEF TakeMessage, slots, start, exchange
<1>22. CASE Sleep
  <2>1. at' \in [Workers -> Spots]
      BY <1>22, ClientTypes, Names DEF Sleep, Spots
  <2> QED BY <1>22, ClientTypes, <2>1 DEF Sleep, slots, start, exchange
<1>23. CASE DoDelete
  <2>1. at' \in [Workers -> Spots]
      BY <1>23, ClientTypes, Names DEF DoDelete, Spots
  <2> QED BY <1>23, ClientTypes, <2>1 DEF DoDelete, slots, start, exchange
<1>24. CASE BeginListen
  <2>1. client' \in [Workers -> Phases]
      BY <1>24, ClientTypes, Names DEF BeginListen, exchange
  <2>2. closed' \in [Workers -> BOOLEAN]
      BY <1>24, ClientTypes, Names DEF BeginListen, exchange
  <2>3. at' \in [Workers -> Spots]
      BY <1>24, ClientTypes, Names DEF BeginListen, Spots
  <2>4. job' \in [Workers -> Jobs]
    <3>1. job' = job \/ job' = [job EXCEPT !["listener"] = Fresh]
        BY <1>24 DEF BeginListen
    <3> QED BY <3>1, JobTypes, Names
  <2> QED BY <1>24, ClientTypes, <2>1, <2>2, <2>3, <2>4 DEF BeginListen, slots, start, exchange
<1>25. CASE ListenEnds
  <2>1. at' \in [Workers -> Spots]
      BY <1>25, ClientTypes, Names DEF ListenEnds, Spots
  <2>2. reconnects' \in 0..MaxReconnects
      BY <1>25, ClientTypes, Names DEF ListenEnds
  <2>3. NoClient("listener") /\ "listener" \in Workers
      BY <1>25, Names DEF ListenEnds
  <2> QED BY <1>25, ClientTypes, <2>1, <2>2, <2>3 DEF ListenEnds, slots, start, exchange
<1>26. CASE Pause
  <2>1. at' \in [Workers -> Spots]
      BY <1>26, ClientTypes, Names DEF Pause, Spots
  <2> QED BY <1>26, ClientTypes, <2>1 DEF Pause, slots, start, exchange
<1>27. CASE CancelCloses
    BY <1>27, ClientTypes DEF CancelCloses, slots, start, exchange
<1>28. CASE CloseBegins
  <2>1. closer' \in Steps
      BY <1>28, ClientTypes, Names DEF CloseBegins, Steps
  <2> QED BY <1>28, ClientTypes, <2>1 DEF CloseBegins, slots, start, exchange
<1>29. CASE CloseSignals
  <2>1. at' \in [Workers -> Spots]
      BY <1>29, ClientTypes, Names DEF CloseSignals, Spots
  <2>2. closer' \in Steps
      BY <1>29, ClientTypes, Names DEF CloseSignals, Steps
  <2> QED BY <1>29, ClientTypes, <2>1, <2>2 DEF CloseSignals, slots, start, exchange
<1>30. CASE CloseSlots
  <2>1. closer' \in Steps
      BY <1>30, ClientTypes, Names DEF CloseSlots, Steps
  <2> QED BY <1>30, ClientTypes, <2>1 DEF CloseSlots, slots, start, exchange
<1>31. CASE CloseTakes
  <2>1. closer' \in Steps
      BY <1>31, ClientTypes, Names DEF CloseTakes, Steps
  <2> QED BY <1>31, ClientTypes, <2>1 DEF CloseTakes, slots, start, exchange
<1>32. CASE JoinListener
  <2>1. closer' \in Steps
      BY <1>32, ClientTypes, Names DEF JoinListener, Steps
  <2> QED BY <1>32, ClientTypes, <2>1 DEF JoinListener, slots, start, exchange
<1>33. CASE JoinSender
  <2>1. closer' \in Steps
      BY <1>33, ClientTypes, Names DEF JoinSender, Steps
  <2> QED BY <1>33, ClientTypes, <2>1 DEF JoinSender, slots, start, exchange
<1> QED
    BY Zenon, <1>1, <1>2, <1>3, <1>4, <1>5, <1>6, <1>7, <1>8, <1>9, <1>10, <1>11, <1>12, <1>13, <1>14,
       <1>15, <1>16, <1>17, <1>18, <1>19, <1>20, <1>21, <1>22, <1>23, <1>24, <1>25, <1>26, <1>27,
       <1>28, <1>29, <1>30, <1>31, <1>32, <1>33 DEF Next, Work, Proceeds, SendLoop, Listen, Close

--------------------------------------------------------------------------------
(* The invariant *)

(* Who can be where: only the sender gets its answer as a stream that it resumes, and the *)
(* listener posts nothing.                                                                *)
Roles ==
    /\ at["listener"] \in {"none", "loop", "exchange", "pause", "ended"}
    /\ job["listener"].id = NoId /\ ~job["listener"].resumes
    /\ \A h \in Helpers : client[h] # "stream" /\ job[h].reply # "stream" /\ ~job[h].resumes

(* Close goes on only when what it waits for has ended, and nothing starts behind it. *)
Closing ==
    /\ closer # "idle" => ~running
    /\ closer \in {"joined", "done"} => at["listener"] \in {"none", "ended"}
    /\ closer = "done" => at["sender"] = "ended"

(* A slot names a worker that is in an exchange of that kind. *)
Filled ==
    /\ active # NoSlot => active.who \in Workers \ {"listener"} /\ client[active.who] # "none"
    /\ listening => client["listener"] # "none"
    /\ resuming # NoWorker => /\ resuming = "sender" /\ client["sender"] # "none"
                            /\ at["sender"] = "exchange" /\ job["sender"].resumes

(* What the sender has read says where it is: an answer is found on a stream only. *)
Posted ==
    LET j == job["sender"] IN
    /\ at["sender"] = "ready" => ~j.resolved /\ ~j.resumes
    /\ at["sender"] = "exchange" =>
           /\ client["sender"] = "stream" => j.reply = "stream"
           /\ client["sender"] \in {"new", "connecting", "head"} /\ ~j.resumes => ~j.resolved
    /\ at["sender"] \in {"exchange", "answered"} /\ ~j.resumes /\ j.resolved => j.reply = "stream"
    /\ at["sender"] = "answered" /\ j.resumes => j.reply = "stream"

(* A request is posted by one exchange: until then the channel has nothing for it. *)
Once ==
    /\ \A r \in Requests :
           (r \in unsent \/ \E i \in DOMAIN queue : queue[i] = r) => got[r] = {} /\ job["sender"].id # r
    /\ \A i \in DOMAIN queue : queue[i] \notin unsent
    /\ \A i, k \in DOMAIN queue : i # k => queue[i] # queue[k]
    /\ job["sender"].id # NoId =>
           \/ got[job["sender"].id] = {}
           \/ job["sender"].resolved /\ got[job["sender"].id] = {"answer"}
    /\ AnsweredOrFailed

Inv == Typed /\ Roles /\ Closing /\ Filled /\ Posted /\ Once

(* Workers keep to their roles. *)
LEMMA RolesStep ==
    ASSUME Typed, Roles, Next
    PROVE  Roles'
<1> USE Names DEF Roles
<1>0. /\ at \in [Workers -> Spots] /\ job \in [Workers -> Jobs] /\ client \in [Workers -> Phases]
      /\ Fresh.id = NoId
    BY JobTypes DEF Typed
<1>1. ASSUME NEW w \in Workers, BeginRequest(w) PROVE Roles'
    BY <1>0, <1>1 DEF BeginRequest, Reading, slots, start, exchange, Jobs, Workers
<1>2. ASSUME NEW w \in Workers, Connect(w) PROVE Roles'
    BY <1>0, <1>2 DEF Connect, Reading, slots, start, exchange, Jobs, Workers
<1>3. ASSUME NEW w \in Workers, ReadHead(w) PROVE Roles'
    BY <1>0, <1>3 DEF ReadHead, Reading, slots, start, exchange, Jobs, Replies, Workers
<1>4. ASSUME NEW w \in Workers, BeginPost(w) PROVE Roles'
  <2>1. CASE job[w].id \in cancelled
      BY <1>0, <1>4, <2>1 DEF BeginPost, Done, After, NewClient, exchange, Fresh
  <2>2. CASE ~(job[w].id \in cancelled)
      BY <1>0, <1>4, <2>2 DEF BeginPost, Done, After, NewClient, exchange, Fresh
  <2> QED BY <2>1, <2>2
<1>5. ASSUME NEW w \in Workers, PostFails(w) PROVE Roles'
    BY <1>0, <1>5 DEF PostFails, Reading, Post, NoClient, ClearActivePost, Done, After, start,
       exchange, Fresh, Jobs, Workers
<1>6. ASSUME NEW w \in Workers, PostReturns(w) PROVE Roles'
  <2>1. CASE job[w].id \in cancelled
      BY <1>0, <1>6, <2>1 DEF PostReturns, Done, After, NoClient, ClearActivePost, exchange,
         Reading, Post, Fresh
  <2>2. CASE ~(job[w].id \in cancelled)
      BY <1>0, <1>6, <2>2 DEF PostReturns, Done, After, NoClient, ClearActivePost, exchange,
         Reading, Post, Fresh
  <2> QED BY <2>1, <2>2
<1>7. ASSUME NEW w \in Workers, Retry(w) PROVE Roles'
    BY <1>0, <1>7 DEF Retry, Answered, slots, start, exchange, Jobs, Workers
<1>8. ASSUME NEW w \in Workers, ReportError(w) PROVE Roles'
    BY <1>0, <1>8 DEF ReportError, Answered, Done, After, Delivers, slots, start, exchange, Fresh,
       Jobs, Workers
<1>9. ASSUME NEW w \in Workers, Accepted(w) PROVE Roles'
    BY <1>0, <1>9 DEF Accepted, Answered, Done, After, slots, start, exchange, Fresh, Jobs, Workers
<1>10. ASSUME NEW w \in Workers, TakeJson(w) PROVE Roles'
    BY <1>0, <1>10 DEF TakeJson, Answered, Done, After, Delivers, slots, start, exchange, Fresh,
       Jobs, Workers
<1>11. ASSUME NEW w \in Workers, StreamDone(w) PROVE Roles'
    BY <1>0, <1>11 DEF StreamDone, Answered, Unfinished, Done, After, slots, start, exchange, Fresh,
       Jobs, Workers
<1>12. ASSUME NEW w \in Workers, ResumePostStreamViaGet(w) PROVE Roles'
    BY <1>0, <1>12 DEF ResumePostStreamViaGet, Answered, Unfinished, NewClient, start, exchange,
       Jobs, Workers
<1>13. ASSUME NEW w \in Workers, ResumeEnds(w) PROVE Roles'
    BY <1>0, <1>13 DEF ResumeEnds, Reading, NoClient, ClearActivePost, start, exchange, Jobs, Workers
<1>14. ASSUME NEW w \in Workers, ReportEnd(w) PROVE Roles'
    BY <1>0, <1>14 DEF ReportEnd, Answered, Unfinished, Done, After, Delivers, slots, start,
       exchange, Fresh, Jobs, Workers
<1>15. ASSUME NEW w \in Workers, ReadBlock(w) PROVE Roles'
    BY <1>0, <1>15 DEF ReadBlock, Reading, Delivers, slots, start, exchange, Jobs, Workers
<1>16. ASSUME NEW w \in Workers, EndStream(w) PROVE Roles'
    BY <1>0, <1>16 DEF EndStream, Reading, slots, start, exchange, Jobs, Workers
<1>17. ASSUME NEW r \in Requests, SendRequest(r) PROVE Roles'
    BY <1>0, <1>17 DEF SendRequest, slots, start, exchange, Jobs, Workers
<1>18. ASSUME NEW r \in Requests, CancelRequest(r) PROVE Roles'
    BY <1>0, <1>18 DEF CancelRequest, slots, start, exchange, Jobs, Workers
<1>19. ASSUME NEW h \in Helpers, SendNow(h) PROVE Roles'
    BY <1>0, <1>19 DEF SendNow, slots, exchange, Fresh, Jobs, Workers
<1>20. CASE StartListener
    BY <1>0, <1>20 DEF StartListener, slots, exchange, Jobs, Workers
<1>21. CASE TakeMessage
    BY <1>0, <1>21 DEF TakeMessage, slots, start, exchange, Fresh, Jobs, Workers
<1>22. CASE Sleep
    BY <1>0, <1>22 DEF Sleep, slots, start, exchange, Jobs, Workers
<1>23. CASE DoDelete
    BY <1>0, <1>23 DEF DoDelete, slots, start, exchange, Jobs, Workers
<1>24. CASE BeginListen
  <2>1. CASE running
      BY <1>0, <1>24, <2>1 DEF BeginListen, NewClient, exchange, Fresh
  <2>2. CASE ~(running)
      BY <1>0, <1>24, <2>2 DEF BeginListen, NewClient, exchange, Fresh
  <2> QED BY <2>1, <2>2
<1>25. CASE ListenEnds
    BY <1>0, <1>25 DEF ListenEnds, Reading, NoClient, start, exchange, Jobs, Workers
<1>26. CASE Pause
    BY <1>0, <1>26 DEF Pause, slots, start, exchange, Jobs, Workers
<1>27. CASE CancelCloses
    BY <1>0, <1>27 DEF CancelCloses, CloseClients, slots, start, Jobs, Workers
<1>28. CASE CloseBegins
    BY <1>0, <1>28 DEF CloseBegins, slots, start, exchange, Jobs, Workers
<1>29. CASE CloseSignals
    BY <1>0, <1>29 DEF CloseSignals, slots, start, exchange, Jobs, Workers
<1>30. CASE CloseSlots
    BY <1>0, <1>30 DEF CloseSlots, CloseClients, slots, start, Jobs, Workers
<1>31. CASE CloseTakes
    BY <1>0, <1>31 DEF CloseTakes, slots, start, exchange, Jobs, Workers
<1>32. CASE JoinListener
    BY <1>0, <1>32 DEF JoinListener, slots, start, exchange, Jobs, Workers
<1>33. CASE JoinSender
    BY <1>0, <1>33 DEF JoinSender, slots, start, exchange, Jobs, Workers
<1> QED
    BY Zenon, <1>1, <1>2, <1>3, <1>4, <1>5, <1>6, <1>7, <1>8, <1>9, <1>10, <1>11, <1>12, <1>13, <1>14,
       <1>15, <1>16, <1>17, <1>18, <1>19, <1>20, <1>21, <1>22, <1>23, <1>24, <1>25, <1>26, <1>27,
       <1>28, <1>29, <1>30, <1>31, <1>32, <1>33 DEF Next, Work, Proceeds, SendLoop, Listen, Close

(* Close goes on when what it waits for has ended, and nothing starts behind it. *)
LEMMA ClosingStep ==
    ASSUME Typed, Roles, Closing, Next
    PROVE  Closing'
<1> USE Names DEF Closing
<1>0. /\ at \in [Workers -> Spots] /\ job \in [Workers -> Jobs] /\ client \in [Workers -> Phases]
      /\ Fresh.id = NoId
    BY JobTypes DEF Typed
<1>1. ASSUME NEW w \in Workers, BeginRequest(w) PROVE Closing'
    BY <1>0, <1>1 DEF BeginRequest, Reading, slots, start, exchange
<1>2. ASSUME NEW w \in Workers, Connect(w) PROVE Closing'
    BY <1>0, <1>2 DEF Connect, Reading, slots, start, exchange
<1>3. ASSUME NEW w \in Workers, ReadHead(w) PROVE Closing'
    BY <1>0, <1>3 DEF ReadHead, Reading, slots, start, exchange
<1>4. ASSUME NEW w \in Workers, BeginPost(w) PROVE Closing'
    BY <1>0, <1>4 DEF BeginPost, NewClient, Done, After, start, exchange
<1>5. ASSUME NEW w \in Workers, PostFails(w) PROVE Closing'
    BY <1>0, <1>5 DEF PostFails, Reading, Post, NoClient, ClearActivePost, Done, After, start, exchange
<1>6. ASSUME NEW w \in Workers, PostReturns(w) PROVE Closing'
    BY <1>0, <1>6 DEF PostReturns, Reading, Post, NoClient, ClearActivePost, Done, After, start,
       exchange
<1>7. ASSUME NEW w \in Workers, Retry(w) PROVE Closing'
    BY <1>0, <1>7 DEF Retry, Answered, slots, start, exchange
<1>8. ASSUME NEW w \in Workers, ReportError(w) PROVE Closing'
    BY <1>0, <1>8 DEF ReportError, Answered, Done, After, Delivers, slots, start, exchange
<1>9. ASSUME NEW w \in Workers, Accepted(w) PROVE Closing'
    BY <1>0, <1>9 DEF Accepted, Answered, Done, After, slots, start, exchange
<1>10. ASSUME NEW w \in Workers, TakeJson(w) PROVE Closing'
    BY <1>0, <1>10 DEF TakeJson, Answered, Done, After, Delivers, slots, start, exchange
<1>11. ASSUME NEW w \in Workers, StreamDone(w) PROVE Closing'
    BY <1>0, <1>11 DEF StreamDone, Answered, Unfinished, Done, After, slots, start, exchange
<1>12. ASSUME NEW w \in Workers, ResumePostStreamViaGet(w) PROVE Closing'
    BY <1>0, <1>12 DEF ResumePostStreamViaGet, Answered, Unfinished, NewClient, start, exchange
<1>13. ASSUME NEW w \in Workers, ResumeEnds(w) PROVE Closing'
    BY <1>0, <1>13 DEF ResumeEnds, Reading, NoClient, ClearActivePost, start, exchange
<1>14. ASSUME NEW w \in Workers, ReportEnd(w) PROVE Closing'
    BY <1>0, <1>14 DEF ReportEnd, Answered, Unfinished, Done, After, Delivers, slots, start, exchange
<1>15. ASSUME NEW w \in Workers, ReadBlock(w) PROVE Closing'
    BY <1>0, <1>15 DEF ReadBlock, Reading, Delivers, slots, start, exchange
<1>16. ASSUME NEW w \in Workers, EndStream(w) PROVE Closing'
    BY <1>0, <1>16 DEF EndStream, Reading, slots, start, exchange
<1>17. ASSUME NEW r \in Requests, SendRequest(r) PROVE Closing'
    BY <1>0, <1>17 DEF SendRequest, slots, start, exchange
<1>18. ASSUME NEW r \in Requests, CancelRequest(r) PROVE Closing'
    BY <1>0, <1>18 DEF CancelRequest, slots, start, exchange
<1>19. ASSUME NEW h \in Helpers, SendNow(h) PROVE Closing'
    BY <1>0, <1>19 DEF SendNow, slots, exchange
<1>20. CASE StartListener
    BY <1>0, <1>20 DEF StartListener, slots, exchange
<1>21. CASE TakeMessage
    BY <1>0, <1>21 DEF TakeMessage, slots, start, exchange
<1>22. CASE Sleep
    BY <1>0, <1>22 DEF Sleep, slots, start, exchange
<1>23. CASE DoDelete
    BY <1>0, <1>23 DEF DoDelete, slots, start, exchange
<1>24. CASE BeginListen
    BY <1>0, <1>24 DEF BeginListen, NewClient, start, exchange
<1>25. CASE ListenEnds
    BY <1>0, <1>25 DEF ListenEnds, Reading, NoClient, start, exchange
<1>26. CASE Pause
    BY <1>0, <1>26 DEF Pause, slots, start, exchange
<1>27. CASE CancelCloses
    BY <1>0, <1>27 DEF CancelCloses, CloseClients, slots, start
<1>28. CASE CloseBegins
    BY <1>0, <1>28 DEF CloseBegins, slots, start, exchange
<1>29. CASE CloseSignals
    BY <1>0, <1>29 DEF CloseSignals, slots, start, exchange
<1>30. CASE CloseSlots
    BY <1>0, <1>30 DEF CloseSlots, CloseClients, slots, start
<1>31. CASE CloseTakes
    BY <1>0, <1>31 DEF CloseTakes, slots, start, exchange
<1>32. CASE JoinListener
    BY <1>0, <1>32 DEF JoinListener, slots, start, exchange
<1>33. CASE JoinSender
    BY <1>0, <1>33 DEF JoinSender, slots, start, exchange
<1> QED
    BY Zenon, <1>1, <1>2, <1>3, <1>4, <1>5, <1>6, <1>7, <1>8, <1>9, <1>10, <1>11, <1>12, <1>13, <1>14,
       <1>15, <1>16, <1>17, <1>18, <1>19, <1>20, <1>21, <1>22, <1>23, <1>24, <1>25, <1>26, <1>27,
       <1>28, <1>29, <1>30, <1>31, <1>32, <1>33 DEF Next, Work, Proceeds, SendLoop, Listen, Close

(* A slot is filled by the worker whose client it names, and emptied with it. *)
LEMMA FilledStep ==
    ASSUME Typed, Roles, Filled, Next
    PROVE  Filled'
<1> USE Names DEF Filled
<1>0. /\ at \in [Workers -> Spots] /\ job \in [Workers -> Jobs] /\ client \in [Workers -> Phases]
      /\ Fresh.id = NoId
    BY JobTypes DEF Typed
<1>1. ASSUME NEW w \in Workers, BeginRequest(w) PROVE Filled'
    BY <1>0, <1>1 DEF BeginRequest, Reading, slots, start, exchange, NoSlot
<1>2. ASSUME NEW w \in Workers, Connect(w) PROVE Filled'
    BY <1>0, <1>2 DEF Connect, Reading, slots, start, exchange, NoSlot
<1>3. ASSUME NEW w \in Workers, ReadHead(w) PROVE Filled'
    BY <1>0, <1>3 DEF ReadHead, Reading, slots, start, exchange, NoSlot, Jobs
<1>4. ASSUME NEW w \in Workers, BeginPost(w) PROVE Filled'
  <2>1. CASE job[w].id \in cancelled
      BY <1>0, <1>4, <2>1 DEF BeginPost, Done, After, NewClient, exchange, NoSlot
  <2>2. CASE ~(job[w].id \in cancelled)
    <3>1. /\ w # "listener" /\ at[w] = "ready" /\ active' = [id |-> job[w].id, who |-> w]
          /\ client' = [client EXCEPT ![w] = "new"]
          /\ listening' = listening /\ resuming' = resuming /\ job' = job /\ at' = [at EXCEPT ![w] = "exchange"]
        BY <1>0, <1>4, <2>2 DEF BeginPost, NewClient, Roles
    <3>2. active'.who = w /\ client'[w] = "new" /\ \A x \in Workers \ {w} : client'[x] = client[x] /\ at'[x] = at[x]
        BY <1>0, <3>1
    <3> QED BY <3>1, <3>2
  <2> QED BY <2>1, <2>2
<1>5. ASSUME NEW w \in Workers, PostFails(w) PROVE Filled'
    BY <1>0, <1>5 DEF PostFails, Reading, Post, NoClient, ClearActivePost, Done, After, start,
       exchange, NoSlot, Fresh
<1>6. ASSUME NEW w \in Workers, PostReturns(w) PROVE Filled'
    BY <1>0, <1>6 DEF PostReturns, Reading, Post, NoClient, ClearActivePost, Done, After, start,
       exchange, NoSlot, Fresh
<1>7. ASSUME NEW w \in Workers, Retry(w) PROVE Filled'
    BY <1>0, <1>7 DEF Retry, Answered, slots, start, exchange, NoSlot
<1>8. ASSUME NEW w \in Workers, ReportError(w) PROVE Filled'
    BY <1>0, <1>8 DEF ReportError, Answered, Done, After, Delivers, slots, start, exchange, NoSlot,
       Fresh
<1>9. ASSUME NEW w \in Workers, Accepted(w) PROVE Filled'
    BY <1>0, <1>9 DEF Accepted, Answered, Done, After, slots, start, exchange, NoSlot, Fresh
<1>10. ASSUME NEW w \in Workers, TakeJson(w) PROVE Filled'
    BY <1>0, <1>10 DEF TakeJson, Answered, Done, After, Delivers, slots, start, exchange, NoSlot, Fresh
<1>11. ASSUME NEW w \in Workers, StreamDone(w) PROVE Filled'
    BY <1>0, <1>11 DEF StreamDone, Answered, Unfinished, Done, After, slots, start, exchange,
       NoSlot, Fresh
<1>12. ASSUME NEW w \in Workers, ResumePostStreamViaGet(w) PROVE Filled'
  <2>1. w = "sender"
      BY <1>12 DEF ResumePostStreamViaGet, Unfinished, Answered, Roles, Workers
  <2>2. active'.who = w /\ client'[w] = "new" /\ at'[w] = "exchange" /\ job'[w].resumes /\ resuming' = w
      BY <1>0, <1>12 DEF ResumePostStreamViaGet, NewClient, Jobs
  <2> QED BY <1>0, <1>12, <2>1, <2>2 DEF ResumePostStreamViaGet, NewClient
<1>13. ASSUME NEW w \in Workers, ResumeEnds(w) PROVE Filled'
  <2>1. w = "sender"
      BY <1>13 DEF ResumeEnds, Reading, Roles, Workers
  <2>2. resuming' = NoWorker /\ listening' = listening /\ \A x \in Workers \ {w} : client'[x] = client[x]
      BY <1>0, <1>13 DEF ResumeEnds, NoClient
  <2>3. active' # NoSlot => active' = active /\ active.who # w
      BY <1>13 DEF ResumeEnds, ClearActivePost
  <2> QED BY <2>1, <2>2, <2>3
<1>14. ASSUME NEW w \in Workers, ReportEnd(w) PROVE Filled'
    BY <1>0, <1>14 DEF ReportEnd, Answered, Unfinished, Done, After, Delivers, slots, start,
       exchange, NoSlot, Fresh
<1>15. ASSUME NEW w \in Workers, ReadBlock(w) PROVE Filled'
    BY <1>0, <1>15 DEF ReadBlock, Reading, Delivers, slots, start, exchange, NoSlot, Jobs
<1>16. ASSUME NEW w \in Workers, EndStream(w) PROVE Filled'
    BY <1>0, <1>16 DEF EndStream, Reading, slots, start, exchange, NoSlot
<1>17. ASSUME NEW r \in Requests, SendRequest(r) PROVE Filled'
    BY <1>0, <1>17 DEF SendRequest, slots, start, exchange, NoSlot
<1>18. ASSUME NEW r \in Requests, CancelRequest(r) PROVE Filled'
    BY <1>0, <1>18 DEF CancelRequest, slots, start, exchange, NoSlot
<1>19. ASSUME NEW h \in Helpers, SendNow(h) PROVE Filled'
    BY <1>0, <1>19 DEF SendNow, slots, exchange, NoSlot, Fresh
<1>20. CASE StartListener
    BY <1>0, <1>20 DEF StartListener, slots, exchange, NoSlot
<1>21. CASE TakeMessage
    BY <1>0, <1>21 DEF TakeMessage, slots, start, exchange, NoSlot, Fresh
<1>22. CASE Sleep
    BY <1>0, <1>22 DEF Sleep, slots, start, exchange, NoSlot
<1>23. CASE DoDelete
    BY <1>0, <1>23 DEF DoDelete, slots, start, exchange, NoSlot
<1>24. CASE BeginListen
    BY <1>0, <1>24 DEF BeginListen, NewClient, start, exchange, NoSlot, Fresh
<1>25. CASE ListenEnds
    BY <1>0, <1>25 DEF ListenEnds, Reading, NoClient, start, exchange, NoSlot
<1>26. CASE Pause
    BY <1>0, <1>26 DEF Pause, slots, start, exchange, NoSlot
<1>27. CASE CancelCloses
    BY <1>0, <1>27 DEF CancelCloses, CloseClients, slots, start, NoSlot
<1>28. CASE CloseBegins
    BY <1>0, <1>28 DEF CloseBegins, slots, start, exchange, NoSlot
<1>29. CASE CloseSignals
    BY <1>0, <1>29 DEF CloseSignals, slots, start, exchange, NoSlot
<1>30. CASE CloseSlots
    BY <1>0, <1>30 DEF CloseSlots, CloseClients, slots, start, NoSlot
<1>31. CASE CloseTakes
    BY <1>0, <1>31 DEF CloseTakes, slots, start, exchange, NoSlot
<1>32. CASE JoinListener
    BY <1>0, <1>32 DEF JoinListener, slots, start, exchange, NoSlot
<1>33. CASE JoinSender
    BY <1>0, <1>33 DEF JoinSender, slots, start, exchange, NoSlot
<1> QED
    BY Zenon, <1>1, <1>2, <1>3, <1>4, <1>5, <1>6, <1>7, <1>8, <1>9, <1>10, <1>11, <1>12, <1>13, <1>14,
       <1>15, <1>16, <1>17, <1>18, <1>19, <1>20, <1>21, <1>22, <1>23, <1>24, <1>25, <1>26, <1>27,
       <1>28, <1>29, <1>30, <1>31, <1>32, <1>33 DEF Next, Work, Proceeds, SendLoop, Listen, Close

(* An answer on a stream is all that sets resolved. *)
LEMMA PostedStep ==
    ASSUME Typed, Roles, Posted, Next
    PROVE  Posted'
<1> USE Names DEF Posted
<1>0. /\ at \in [Workers -> Spots] /\ job \in [Workers -> Jobs] /\ client \in [Workers -> Phases]
      /\ Fresh.id = NoId
    BY JobTypes DEF Typed
<1>1. ASSUME NEW w \in Workers, BeginRequest(w) PROVE Posted'
    BY <1>0, <1>1 DEF BeginRequest, Reading, slots, start, exchange, Workers
<1>2. ASSUME NEW w \in Workers, Connect(w) PROVE Posted'
    BY <1>0, <1>2 DEF Connect, Reading, slots, start, exchange, Workers
<1>3. ASSUME NEW w \in Workers, ReadHead(w) PROVE Posted'
  <2>1. CASE w # "sender"
    <3>1. client'["sender"] = client["sender"] /\ job'["sender"] = job["sender"] /\ at' = at
        BY <1>0, <1>3, <2>1 DEF ReadHead
    <3> QED BY <3>1
  <2>2. CASE w = "sender"
    <3>1. at["sender"] = "exchange" /\ client["sender"] = "head" /\ at' = at
        BY <1>3, <2>2 DEF ReadHead, Reading
    <3>2. job'["sender"].resolved = job["sender"].resolved /\ job'["sender"].resumes = job["sender"].resumes
        BY <1>0, <1>3, <2>2 DEF ReadHead, Jobs
    <3>3. \/ client'["sender"] = "stream" /\ job'["sender"].reply = "stream"
          \/ client'["sender"] \in {"over", "broken"}
        BY <1>0, <1>3, <2>2 DEF ReadHead, Jobs
    <3>4. job["sender"].resolved => job["sender"].resumes
        BY <3>1
    <3> QED BY <3>1, <3>2, <3>3, <3>4
  <2> QED BY <2>1, <2>2
<1>4. ASSUME NEW w \in Workers, BeginPost(w) PROVE Posted'
    BY <1>0, <1>4 DEF BeginPost, NewClient, Done, After, start, exchange, Workers
<1>5. ASSUME NEW w \in Workers, PostFails(w) PROVE Posted'
    BY <1>0, <1>5 DEF PostFails, Reading, Post, NoClient, ClearActivePost, Done, After, start,
       exchange, Workers
<1>6. ASSUME NEW w \in Workers, PostReturns(w) PROVE Posted'
    BY <1>0, <1>6 DEF PostReturns, Reading, Post, NoClient, ClearActivePost, Done, After, start,
       exchange, Workers
<1>7. ASSUME NEW w \in Workers, Retry(w) PROVE Posted'
    BY <1>0, <1>7 DEF Retry, Answered, slots, start, exchange, Workers
<1>8. ASSUME NEW w \in Workers, ReportError(w) PROVE Posted'
    BY <1>0, <1>8 DEF ReportError, Answered, Done, After, Delivers, slots, start, exchange, Workers
<1>9. ASSUME NEW w \in Workers, Accepted(w) PROVE Posted'
    BY <1>0, <1>9 DEF Accepted, Answered, Done, After, slots, start, exchange, Workers
<1>10. ASSUME NEW w \in Workers, TakeJson(w) PROVE Posted'
    BY <1>0, <1>10 DEF TakeJson, Answered, Done, After, Delivers, slots, start, exchange, Workers
<1>11. ASSUME NEW w \in Workers, StreamDone(w) PROVE Posted'
    BY <1>0, <1>11 DEF StreamDone, Answered, Unfinished, Done, After, slots, start, exchange, Workers
<1>12. ASSUME NEW w \in Workers, ResumePostStreamViaGet(w) PROVE Posted'
    BY <1>0, <1>12 DEF ResumePostStreamViaGet, Answered, Unfinished, NewClient, start, exchange, Workers
<1>13. ASSUME NEW w \in Workers, ResumeEnds(w) PROVE Posted'
    BY <1>0, <1>13 DEF ResumeEnds, Reading, NoClient, ClearActivePost, start, exchange, Workers
<1>14. ASSUME NEW w \in Workers, ReportEnd(w) PROVE Posted'
    BY <1>0, <1>14 DEF ReportEnd, Answered, Unfinished, Done, After, Delivers, slots, start,
       exchange, Workers
<1>15. ASSUME NEW w \in Workers, ReadBlock(w) PROVE Posted'
  <2>1. CASE w # "sender"
    <3>1. client'["sender"] = client["sender"] /\ job'["sender"] = job["sender"] /\ at' = at
        BY <1>0, <1>15, <2>1 DEF ReadBlock
    <3> QED BY <3>1
  <2>2. CASE w = "sender"
    <3>1. at["sender"] = "exchange" /\ client["sender"] = "stream" /\ at' = at
        BY <1>15, <2>2 DEF ReadBlock, Reading
    <3>2. job'["sender"].reply = job["sender"].reply /\ job'["sender"].resumes = job["sender"].resumes
        BY <1>0, <1>15, <2>2 DEF ReadBlock, Jobs
    <3>3. client'["sender"] \in {"stream", "over"}
        BY <1>0, <1>15, <2>2, <3>1 DEF ReadBlock
    <3> QED BY <3>1, <3>2, <3>3
  <2> QED BY <2>1, <2>2
<1>16. ASSUME NEW w \in Workers, EndStream(w) PROVE Posted'
    BY <1>0, <1>16 DEF EndStream, Reading, slots, start, exchange, Workers
<1>17. ASSUME NEW r \in Requests, SendRequest(r) PROVE Posted'
    BY <1>0, <1>17 DEF SendRequest, slots, start, exchange, Workers
<1>18. ASSUME NEW r \in Requests, CancelRequest(r) PROVE Posted'
    BY <1>0, <1>18 DEF CancelRequest, slots, start, exchange, Workers
<1>19. ASSUME NEW h \in Helpers, SendNow(h) PROVE Posted'
    BY <1>0, <1>19 DEF SendNow, slots, exchange, Workers
<1>20. CASE StartListener
    BY <1>0, <1>20 DEF StartListener, slots, exchange, Workers
<1>21. CASE TakeMessage
  <2>1. \/ at'["sender"] \in {"deleting", "checked"}
        \/ at'["sender"] = "ready" /\ ~job'["sender"].resolved /\ ~job'["sender"].resumes
    <3>1. PICK x : x = [Fresh EXCEPT !.id = Head(queue)]
        OBVIOUS
    <3>2. \/ at' = [at EXCEPT !["sender"] = "deleting"] \/ at' = [at EXCEPT !["sender"] = "checked"]
          \/ at' = [at EXCEPT !["sender"] = "ready"] /\ job' = [job EXCEPT !["sender"] = x]
        BY <1>21, <3>1 DEF TakeMessage
    <3>3. ~x.resolved /\ ~x.resumes
        BY <3>1 DEF Fresh
    <3> QED BY <1>0, <3>2, <3>3
  <2> QED BY <2>1
<1>22. CASE Sleep
    BY <1>0, <1>22 DEF Sleep, slots, start, exchange, Workers
<1>23. CASE DoDelete
    BY <1>0, <1>23 DEF DoDelete, slots, start, exchange, Workers
<1>24. CASE BeginListen
    BY <1>0, <1>24 DEF BeginListen, NewClient, start, exchange, Workers
<1>25. CASE ListenEnds
    BY <1>0, <1>25 DEF ListenEnds, Reading, NoClient, start, exchange, Workers
<1>26. CASE Pause
    BY <1>0, <1>26 DEF Pause, slots, start, exchange, Workers
<1>27. CASE CancelCloses
    BY <1>0, <1>27 DEF CancelCloses, CloseClients, slots, start, Workers
<1>28. CASE CloseBegins
    BY <1>0, <1>28 DEF CloseBegins, slots, start, exchange, Workers
<1>29. CASE CloseSignals
    BY <1>0, <1>29 DEF CloseSignals, slots, start, exchange, Workers
<1>30. CASE CloseSlots
    BY <1>0, <1>30 DEF CloseSlots, CloseClients, slots, start, Workers
<1>31. CASE CloseTakes
    BY <1>0, <1>31 DEF CloseTakes, slots, start, exchange, Workers
<1>32. CASE JoinListener
    BY <1>0, <1>32 DEF JoinListener, slots, start, exchange, Workers
<1>33. CASE JoinSender
    BY <1>0, <1>33 DEF JoinSender, slots, start, exchange, Workers
<1> QED
    BY Zenon, <1>1, <1>2, <1>3, <1>4, <1>5, <1>6, <1>7, <1>8, <1>9, <1>10, <1>11, <1>12, <1>13, <1>14,
       <1>15, <1>16, <1>17, <1>18, <1>19, <1>20, <1>21, <1>22, <1>23, <1>24, <1>25, <1>26, <1>27,
       <1>28, <1>29, <1>30, <1>31, <1>32, <1>33 DEF Next, Work, Proceeds, SendLoop, Listen, Close

(* A step that sends nothing and delivers nothing, and leaves the sender its request or takes it. *)
LEMMA OnceKept ==
    ASSUME Once, unsent' \subseteq unsent, UNCHANGED <<queue, got>>,
           \/ job'["sender"].id = NoId
           \/ job'["sender"].id = job["sender"].id /\ (job["sender"].resolved => job'["sender"].resolved)
    PROVE  Once'
BY Names DEF Once, AnsweredOrFailed

(* The sender delivers what becomes of its request, for the first time. *)
LEMMA OnceDelivered ==
    ASSUME Once, Typed, UNCHANGED <<unsent, queue>>,
           NEW what \in {"answer", "failure"}, NEW r \in Requests, job["sender"].id = r, got[r] = {},
           got' = [got EXCEPT ![r] = @ \cup {what}],
           \/ job'["sender"].id = NoId
           \/ job'["sender"].id = r /\ job'["sender"].resolved /\ what = "answer"
    PROVE  Once'
<1>1. got'[r] = {what} /\ \A s \in Requests \ {r} : got'[s] = got[s]
    BY DEF Typed
<1>2. AnsweredOrFailed'
    BY <1>1 DEF Once, AnsweredOrFailed
<1>3. \A s \in Requests : s \in unsent \/ (\E i \in DOMAIN queue : queue[i] = s) => s # r
    BY DEF Once
<1> QED BY <1>1, <1>2, <1>3, Names DEF Once

(* A request goes from the session into the queue. *)
LEMMA SendRequestOnce ==
    ASSUME Typed, Once, NEW r \in Requests, SendRequest(r)
    PROVE  Once'
<1>1. /\ r \in unsent /\ unsent' = unsent \ {r} /\ queue' = Append(queue, r) /\ got' = got /\ job' = job
      /\ queue \in Seq(Requests)
    BY DEF SendRequest, Typed
<1>2. /\ Len(queue) \in Nat /\ Len(queue') = Len(queue) + 1
      /\ DOMAIN queue = 1..Len(queue) /\ DOMAIN queue' = 1..Len(queue) + 1
      /\ queue'[Len(queue) + 1] = r /\ \A i \in 1..Len(queue) : queue'[i] = queue[i]
    BY <1>1, AppendProperties, LenProperties
<1>3. \A i \in DOMAIN queue' : queue'[i] = r \/ (i \in DOMAIN queue /\ queue'[i] = queue[i])
    BY <1>2
<1>4. \A i \in DOMAIN queue : queue[i] # r
    BY <1>1 DEF Once
<1>5. \A i, k \in DOMAIN queue' : i # k => queue'[i] # queue'[k]
    BY <1>2, <1>3, <1>4 DEF Once
<1>6. \A i \in DOMAIN queue' : queue'[i] \notin unsent'
    BY <1>1, <1>3 DEF Once
<1>7. \A s \in Requests :
          s \in unsent' \/ (\E i \in DOMAIN queue' : queue'[i] = s) => got'[s] = {} /\ job'["sender"].id # s
    BY <1>1, <1>3 DEF Once
<1> QED BY <1>1, <1>5, <1>6, <1>7 DEF Once, AnsweredOrFailed

(* The send loop takes the first request of the queue. *)
LEMMA TakeMessageOnce ==
    ASSUME Typed, Once, TakeMessage
    PROVE  Once'
<1>1. CASE UNCHANGED <<queue, job>>
    BY <1>1, OnceKept DEF TakeMessage
<1>2. CASE queue # <<>> /\ queue' = Tail(queue) /\ job' = [job EXCEPT !["sender"] = [Fresh EXCEPT !.id = Head(queue)]]
  <2>1. PICK r : r = Head(queue)
      OBVIOUS
  <2>2. /\ queue \in Seq(Requests) /\ Len(queue) \in Nat /\ Len(queue) > 0 /\ Len(queue') = Len(queue) - 1
        /\ DOMAIN queue = 1..Len(queue) /\ DOMAIN queue' = 1..Len(queue) - 1
        /\ r = queue[1] /\ \A i \in 1..Len(queue) - 1 : queue'[i] = queue[i + 1]
      BY <1>2, <2>1, HeadTailProperties, LenProperties, EmptySeq DEF Typed
  <2>3. \A i \in DOMAIN queue' : i + 1 \in DOMAIN queue /\ i + 1 # 1 /\ queue'[i] = queue[i + 1]
      BY <2>2
  <2>4. r \in Requests /\ 1 \in DOMAIN queue /\ got[r] = {}
      BY <2>2 DEF Once
  <2>5. job'["sender"].id = r
    <3>1. PICK x : x = [Fresh EXCEPT !.id = r]
        OBVIOUS
    <3>2. job' = [job EXCEPT !["sender"] = x] /\ job \in [Workers -> Jobs]
        BY <1>2, <2>1, <3>1 DEF Typed
    <3>3. x.id = r
        BY <3>1 DEF Fresh
    <3> QED BY <3>2, <3>3, Names
  <2>6. unsent' = unsent /\ got' = got
      BY DEF TakeMessage
  <2>7. \A i, k \in DOMAIN queue' : i # k => queue'[i] # queue'[k]
    <3>1. \A i, k \in DOMAIN queue' : i # k => i + 1 # k + 1
        BY <2>2
    <3> QED BY <2>3, <3>1 DEF Once
  <2>8. \A i \in DOMAIN queue' : queue'[i] \notin unsent' /\ queue'[i] # r
      BY <2>2, <2>3, <2>4, <2>6 DEF Once
  <2>9. \A s \in Requests :
            s \in unsent' \/ (\E i \in DOMAIN queue' : queue'[i] = s) => got'[s] = {} /\ job'["sender"].id # s
      BY <2>2, <2>3, <2>4, <2>5, <2>6, <2>8 DEF Once
  <2> QED BY <2>4, <2>5, <2>6, <2>7, <2>8, <2>9 DEF Once, AnsweredOrFailed
<1> QED BY <1>1, <1>2 DEF TakeMessage

(* What the sender has read of an answer that is not a stream has no answer on it. *)
LEMMA FirstTime ==
    ASSUME Typed, Posted, Once, at["sender"] = "answered", job["sender"].id # NoId,
           job["sender"].reply # "stream" \/ ~job["sender"].resolved
    PROVE  job["sender"].id \in Requests /\ got[job["sender"].id] = {}
<1>1. ~job["sender"].resolved
    BY JobTypes, Names DEF Posted, Typed
<1>2. job["sender"].id \in Requests
    BY JobTypes, Names DEF Typed, Ids
<1> QED BY <1>1, <1>2 DEF Once

(* Each request is answered or fails once. *)
LEMMA OnceStep ==
    ASSUME Typed, Roles, Posted, Once, Next
    PROVE  Once'
<1>0. /\ at \in [Workers -> Spots] /\ job \in [Workers -> Jobs] /\ client \in [Workers -> Phases]
      /\ Fresh.id = NoId
    BY JobTypes DEF Typed
<1> DEFINE Keeps == \/ job'["sender"].id = NoId
                    \/ job'["sender"].id = job["sender"].id /\ (job["sender"].resolved => job'["sender"].resolved)
<1>a. ASSUME job' = job PROVE Keeps
    BY <1>a
<1>b. ASSUME NEW w \in Workers, Done(w) PROVE Keeps
    BY <1>0, <1>b, Names DEF Done
<1>1. ASSUME NEW w \in Workers, BeginRequest(w) PROVE Once'
    BY <1>1, <1>a, OnceKept DEF BeginRequest
<1>2. ASSUME NEW w \in Workers, Connect(w) PROVE Once'
    BY <1>2, <1>a, OnceKept DEF Connect
<1>3. ASSUME NEW w \in Workers, ReadHead(w) PROVE Once'
  <2>1. Keeps
      BY <1>0, <1>3, Names DEF ReadHead, Jobs
  <2> QED BY <1>3, <2>1, OnceKept DEF ReadHead
<1>4. ASSUME NEW w \in Workers, BeginPost(w) PROVE Once'
    BY <1>4, <1>a, <1>b, OnceKept DEF BeginPost
<1>5. ASSUME NEW w \in Workers, PostFails(w) PROVE Once'
    BY <1>5, <1>b, OnceKept DEF PostFails
<1>6. ASSUME NEW w \in Workers, PostReturns(w) PROVE Once'
    BY <1>6, <1>a, <1>b, OnceKept DEF PostReturns
<1>7. ASSUME NEW w \in Workers, Retry(w) PROVE Once'
  <2>1. Keeps
      BY <1>0, <1>7, Names DEF Retry, Jobs
  <2> QED BY <1>7, <2>1, OnceKept DEF Retry
<1>8. ASSUME NEW w \in Workers, ReportError(w) PROVE Once'
  <2>1. CASE got' = got
      BY <1>8, <2>1, <1>b, OnceKept DEF ReportError
  <2>2. CASE got' # got
    <3>1. w = "sender" /\ Done(w) /\ UNCHANGED <<unsent, queue>> /\ at[w] = "answered"
          /\ (job[w].reply # "stream" \/ ~job[w].resolved)
        BY <1>8, <2>2 DEF ReportError, Answered, Roles, Workers
    <3>2. job[w].id # NoId /\ got' = [got EXCEPT ![job[w].id] = @ \cup {"failure"}]
        BY <1>8, <2>2 DEF ReportError, Delivers
    <3>3. job'["sender"].id = NoId
        BY <1>0, <3>1 DEF Done
    <3> QED BY <3>1, <3>2, <3>3, FirstTime, OnceDelivered
  <2> QED BY <2>1, <2>2
<1>9. ASSUME NEW w \in Workers, Accepted(w) PROVE Once'
    BY <1>9, <1>b, OnceKept DEF Accepted
<1>10. ASSUME NEW w \in Workers, TakeJson(w) PROVE Once'
  <2>1. CASE got' = got
      BY <1>10, <2>1, <1>b, OnceKept DEF TakeJson
  <2>2. CASE got' # got
    <3>1. w = "sender" /\ Done(w) /\ UNCHANGED <<unsent, queue>> /\ at[w] = "answered"
          /\ (job[w].reply # "stream" \/ ~job[w].resolved)
        BY <1>10, <2>2 DEF TakeJson, Answered, Roles, Workers
    <3>2. job[w].id # NoId /\ got' = [got EXCEPT ![job[w].id] = @ \cup {"answer"}]
        BY <1>10, <2>2 DEF TakeJson, Delivers
    <3>3. job'["sender"].id = NoId
        BY <1>0, <3>1 DEF Done
    <3> QED BY <3>1, <3>2, <3>3, FirstTime, OnceDelivered
  <2> QED BY <2>1, <2>2
<1>11. ASSUME NEW w \in Workers, StreamDone(w) PROVE Once'
    BY <1>11, <1>b, OnceKept DEF StreamDone
<1>12. ASSUME NEW w \in Workers, ResumePostStreamViaGet(w) PROVE Once'
  <2>1. Keeps
      BY <1>0, <1>12, Names DEF ResumePostStreamViaGet, Jobs
  <2> QED BY <1>12, <2>1, OnceKept DEF ResumePostStreamViaGet
<1>13. ASSUME NEW w \in Workers, ResumeEnds(w) PROVE Once'
  <2>1. Keeps
      BY <1>0, <1>13, Names DEF ResumeEnds, Jobs
  <2> QED BY <1>13, <2>1, OnceKept DEF ResumeEnds
<1>14. ASSUME NEW w \in Workers, ReportEnd(w) PROVE Once'
  <2>1. CASE got' = got
      BY <1>14, <2>1, <1>b, OnceKept DEF ReportEnd
  <2>2. CASE got' # got
    <3>1. w = "sender" /\ Done(w) /\ UNCHANGED <<unsent, queue>> /\ at[w] = "answered"
          /\ (job[w].reply # "stream" \/ ~job[w].resolved)
        BY <1>14, <2>2 DEF ReportEnd, Answered, Unfinished, Roles, Workers
    <3>2. job[w].id # NoId /\ got' = [got EXCEPT ![job[w].id] = @ \cup {"failure"}]
        BY <1>14, <2>2 DEF ReportEnd, Delivers
    <3>3. job'["sender"].id = NoId
        BY <1>0, <3>1 DEF Done
    <3> QED BY <3>1, <3>2, <3>3, FirstTime, OnceDelivered
  <2> QED BY <2>1, <2>2
<1>15. ASSUME NEW w \in Workers, ReadBlock(w) PROVE Once'
  <2>1. CASE got' = got
    <3>1. Keeps
        BY <1>0, <1>15, Names DEF ReadBlock, Jobs
    <3> QED BY <1>15, <2>1, <3>1, OnceKept DEF ReadBlock
  <2>2. CASE got' # got
    <3>1. /\ job[w].id # NoId /\ ~job[w].resolved /\ UNCHANGED <<unsent, queue>> /\ client[w] = "stream"
          /\ job' = [job EXCEPT ![w].blocks = @ + 1, ![w].resolved = TRUE]
          /\ got' = [got EXCEPT ![job[w].id] = @ \cup {"answer"}]
        BY <1>15, <2>2 DEF ReadBlock, Delivers
    <3>2. w = "sender"
        BY <3>1 DEF Roles, Workers
    <3>3. job'["sender"].id = job["sender"].id /\ job'["sender"].resolved
        BY <1>0, <3>1, <3>2 DEF Jobs
    <3>4. job["sender"].id \in Requests
        BY <1>0, <3>1, <3>2, JobTypes, Names DEF Ids
    <3>5. got[job["sender"].id] = {}
        BY <3>1, <3>2 DEF Once
    <3> QED BY <3>1, <3>2, <3>3, <3>4, <3>5, OnceDelivered
  <2> QED BY <2>1, <2>2
<1>16. ASSUME NEW w \in Workers, EndStream(w) PROVE Once'
    BY <1>16, <1>a, OnceKept DEF EndStream
<1>17. ASSUME NEW r \in Requests, SendRequest(r) PROVE Once'
    BY <1>17, SendRequestOnce
<1>18. ASSUME NEW r \in Requests, CancelRequest(r) PROVE Once'
    BY <1>18, <1>a, OnceKept DEF CancelRequest
<1>19. ASSUME NEW h \in Helpers, SendNow(h) PROVE Once'
  <2>1. Keeps
      BY <1>0, <1>19, Names DEF SendNow, Jobs
  <2> QED BY <1>19, <2>1, OnceKept DEF SendNow
<1>20. CASE StartListener
    BY <1>20, <1>a, OnceKept DEF StartListener
<1>21. CASE TakeMessage
    BY <1>21, TakeMessageOnce
<1>22. CASE Sleep
    BY <1>22, <1>a, OnceKept DEF Sleep
<1>23. CASE DoDelete
    BY <1>23, <1>a, OnceKept DEF DoDelete
<1>24. CASE BeginListen
  <2>1. Keeps
      BY <1>0, <1>24, Names DEF BeginListen, Jobs
  <2> QED BY <1>24, <2>1, OnceKept DEF BeginListen
<1>25. CASE ListenEnds
    BY <1>25, <1>a, OnceKept DEF ListenEnds
<1>26. CASE Pause
    BY <1>26, <1>a, OnceKept DEF Pause
<1>27. CASE CancelCloses
    BY <1>27, <1>a, OnceKept DEF CancelCloses
<1>28. CASE CloseBegins
    BY <1>28, <1>a, OnceKept DEF CloseBegins
<1>29. CASE CloseSignals
    BY <1>29, <1>a, OnceKept DEF CloseSignals
<1>30. CASE CloseSlots
    BY <1>30, <1>a, OnceKept DEF CloseSlots
<1>31. CASE CloseTakes
    BY <1>31, <1>a, OnceKept DEF CloseTakes
<1>32. CASE JoinListener
    BY <1>32, <1>a, OnceKept DEF JoinListener
<1>33. CASE JoinSender
    BY <1>33, <1>a, OnceKept DEF JoinSender
<1> QED
    BY Zenon, <1>1, <1>2, <1>3, <1>4, <1>5, <1>6, <1>7, <1>8, <1>9, <1>10, <1>11, <1>12, <1>13, <1>14,
       <1>15, <1>16, <1>17, <1>18, <1>19, <1>20, <1>21, <1>22, <1>23, <1>24, <1>25, <1>26, <1>27,
       <1>28, <1>29, <1>30, <1>31, <1>32, <1>33 DEF Next, Work, Proceeds, SendLoop, Listen, Close

LEMMA InitInv == Init => Inv
<1> SUFFICES ASSUME Init PROVE Inv
    OBVIOUS
<1> USE Names
<1>1. PICK scene \in Starts : unsent = scene.sent /\ pending = scene.sent \cap Requests /\ listens = scene.listens
    BY DEF Init
<1>2. scene.sent \subseteq Requests \cup Helpers /\ scene.listens \in BOOLEAN
    BY HttpClientAssumption
<1>3. Typed
  <2>1. unsent \subseteq Requests \cup Helpers /\ pending \subseteq Requests /\ listens \in BOOLEAN
      BY <1>1, <1>2
  <2>2. at \in [Workers -> Spots] /\ client \in [Workers -> Phases] /\ closed \in [Workers -> BOOLEAN] /\ closer \in Steps
      BY DEF Init, Spots, Phases, Steps
  <2>3. job \in [Workers -> Jobs]
      BY JobTypes DEF Init
  <2>4. active \in Slots
      BY DEF Init, NoSlot, Slots
  <2>5. queue \in Seq(Requests) /\ cancelled \subseteq Requests /\ reconnects \in 0..MaxReconnects
      BY EmptySeq DEF Init
  <2>6. got \in [Requests -> SUBSET {"answer", "failure"}]
      BY DEF Init
  <2> QED BY <2>1, <2>2, <2>3, <2>4, <2>5, <2>6 DEF Typed, Init
<1>4. Roles /\ Closing /\ Filled /\ Posted
    BY DEF Init, Roles, Closing, Filled, Posted, Fresh
<1>5. Once
  <2>0. DOMAIN queue = {}
      BY <1>3, EmptySeq, LenProperties DEF Init, Typed
  <2>1. DOMAIN queue = {} /\ (\A r \in Requests : got[r] = {}) /\ job["sender"].id = NoId
      BY <2>0, JobTypes DEF Init
  <2> QED BY <2>1 DEF Once, AnsweredOrFailed
<1> QED BY <1>3, <1>4, <1>5 DEF Inv

LEMMA NextInv == Inv /\ [Next]_vars => Inv'
<1> SUFFICES ASSUME Inv, [Next]_vars PROVE Inv'
    OBVIOUS
<1>1. CASE Next
    BY <1>1, TypeStep, RolesStep, ClosingStep, FilledStep, PostedStep, OnceStep DEF Inv
<1>2. CASE UNCHANGED vars
    BY <1>2 DEF Inv, vars, Typed, Roles, Closing, Filled, Posted, Once, AnsweredOrFailed
<1> QED BY <1>1, <1>2

LEMMA Always == Spec => []Inv
<1> QED BY InitInv, NextInv, PTL DEF Spec

--------------------------------------------------------------------------------
(* Close waits for the threads it owns, MaybeStartListenStream starts none behind it, and the  *)
(* slots of Close and CancelRequest name clients that exist, for any number of threads.        *)
THEOREM NothingDanglesCorrect == Spec => []NothingDangles
<1>1. Inv => TypeOK
    BY DEF Inv, Typed, TypeOK, Jobs, Spots, Phases, Slots, Steps
<1>2. Inv => NoThreadOutlivesClose /\ SlotsAreAlive
    BY DEF Inv, Closing, Filled, NoThreadOutlivesClose, SlotsAreAlive
<1> QED BY <1>1, <1>2, Always, PTL DEF NothingDangles

(* DoPost gives a request its answer or reports that it failed, never both, however many times *)
(* its stream breaks, is resumed, or is cancelled.                                             *)
THEOREM AnsweredOrFailedCorrect == Spec => []AnsweredOrFailed
<1>1. Inv => AnsweredOrFailed
    BY DEF Inv, Once
<1> QED BY <1>1, Always, PTL

--------------------------------------------------------------------------------
(* The OAuth client: what a call is, and the issuers there are *)

Calls == [op : Operations, at : Places, nested : BOOLEAN, next : Places, old : Tokens, reply : Tokens]
AllIssuers == Issuers \cup {ServerUrl, NoIssuer}

--------------------------------------------------------------------------------
(* The OAuth client: types *)

(* A thread without a call, and a call that is over, are calls like any other. *)
LEMMA IdleType == /\ None \in Tokens /\ Idle \in Calls
                  /\ \A c \in Calls : Over(c) \in Calls
<1>1. None \in Tokens
  BY DEF None, Tokens
<1>2. Idle \in Calls
  BY <1>1 DEF Idle, Calls, Operations, Places
<1>3. ASSUME NEW c \in Calls PROVE Over(c) \in Calls
  BY <1>2, <1>3 DEF Over, Calls, Places
<1> QED BY <1>1, <1>2, <1>3

(* A call whose place and one other field change is still a call. *)
LEMMA FieldsType ==
  ASSUME NEW c \in Calls, NEW p \in Places, NEW q \in Places, NEW k \in Tokens
  PROVE  /\ [c EXCEPT !.at = p, !.reply = k] \in Calls
         /\ [c EXCEPT !.at = p, !.old = k] \in Calls
         /\ [c EXCEPT !.at = p, !.next = q] \in Calls
         /\ [c EXCEPT !.at = p, !.nested = TRUE] \in Calls
         /\ [c EXCEPT !.at = p, !.next = q, !.old = k] \in Calls
BY DEF Calls

(* So are all the calls, when those fields of one of them change. *)
LEMMA UpdateType ==
  ASSUME call \in [Threads -> Calls], NEW t \in Threads, NEW p \in Places, NEW q \in Places,
         NEW k \in Tokens
  PROVE  /\ [call EXCEPT ![t].at = p, ![t].reply = k] \in [Threads -> Calls]
         /\ [call EXCEPT ![t].at = p, ![t].old = k] \in [Threads -> Calls]
         /\ [call EXCEPT ![t].at = p, ![t].next = q] \in [Threads -> Calls]
         /\ [call EXCEPT ![t].at = p, ![t].nested = TRUE] \in [Threads -> Calls]
<1>1. /\ [call EXCEPT ![t].at = p, ![t].reply = k]
           = [call EXCEPT ![t] = [call[t] EXCEPT !.at = p, !.reply = k]]
      /\ [call EXCEPT ![t].at = p, ![t].old = k]
           = [call EXCEPT ![t] = [call[t] EXCEPT !.at = p, !.old = k]]
      /\ [call EXCEPT ![t].at = p, ![t].next = q]
           = [call EXCEPT ![t] = [call[t] EXCEPT !.at = p, !.next = q]]
      /\ [call EXCEPT ![t].at = p, ![t].nested = TRUE]
           = [call EXCEPT ![t] = [call[t] EXCEPT !.at = p, !.nested = TRUE]]
  OBVIOUS
<1> QED BY <1>1, FieldsType, Zenon

(* Moving one thread's call, and ending it, keep the calls in their type. *)
LEMMA MoveType ==
  ASSUME call \in [Threads -> Calls], NEW t \in Threads
  PROVE  /\ \A place \in Places : Goes(t, place) => call' \in [Threads -> Calls]
         /\ Returns(t) => call' \in [Threads -> Calls]
<1>1. ASSUME NEW place \in Places, Goes(t, place) PROVE call' \in [Threads -> Calls]
  BY <1>1 DEF Goes, Calls
<1>2. ASSUME Returns(t) PROVE call' \in [Threads -> Calls]
  BY <1>2, IdleType DEF Returns
<1> QED BY <1>1, <1>2

(* The places the actions name are places. *)
LEMMA PlaceNames ==
  /\ "idle" \in Places /\ "get" \in Places /\ "entering" \in Places
  /\ "waiting" \in Places /\ "woken" \in Places /\ "reading" \in Places
  /\ "discovering" \in Places /\ "posting" \in Places /\ "replied" \in Places
  /\ "notifying" \in Places /\ "leaving" \in Places /\ "registering" \in Places
  /\ "deciding" \in Places /\ "locking" \in Places /\ "asking" \in Places
  /\ "revoking" \in Places /\ "clearing" \in Places /\ "challenged" \in Places
  /\ \A op \in Operations : First(op) \in Places
BY DEF Places, Operations, First

(* The initial state is well typed. *)
LEMMA InitTypeOK == TokensInit => TokensTypeOK
<1> SUFFICES ASSUME TokensInit PROVE TokensTypeOK
  OBVIOUS
<1> PICK s \in Scenes :
      /\ tokens = s.tokens /\ anchor = s.anchor /\ todo = s.calls
      /\ metadata = IF s.known THEN [set |-> TRUE, issuer |-> s.anchor, named |-> TRUE] ELSE NoMetadata
      /\ bound = metadata.issuer
  BY DEF TokensInit
<1>1. /\ s.tokens \in Tokens /\ s.anchor \in Issuers \cup {NoIssuer} /\ s.known \in BOOLEAN
      /\ s.calls \in [Threads -> Operations \cup {"none"}]
  BY OAuthTokensAssumption
<1>2. /\ metadata \in [set : BOOLEAN, issuer : AllIssuers, named : BOOLEAN] /\ bound \in AllIssuers
  <2>1. CASE s.known
    BY <2>1, <1>1 DEF AllIssuers
  <2>2. CASE ~s.known
    BY <2>2, <1>1 DEF AllIssuers, NoMetadata
  <2> QED BY <2>1, <2>2
<1>3. tokens.refresh \in Nat
  BY <1>1 DEF Tokens
<1>4. server \in [valid : SUBSET Nat, issued : Nat]
  BY <1>3 DEF TokensInit
<1>5. call \in [Threads -> Calls]
  BY IdleType DEF TokensInit
<1>6. registered \in BOOLEAN /\ mixed \in BOOLEAN
  BY Zenon DEF TokensInit
<1>7. {tokens, disk} \subseteq Tokens /\ {owner, flow} \subseteq Threads \cup {Nobody} /\ spent \subseteq Nat
  BY <1>1 DEF TokensInit
<1> QED BY <1>1, <1>2, <1>4, <1>5, <1>6, <1>7 DEF TokensTypeOK, AllIssuers, Calls

(* The actions about metadata and issuers keep them in their types. *)
LEMMA IssuerType ==
  ASSUME TokensTypeOK
  PROVE  /\ Discovered => {anchor', bound'} \subseteq AllIssuers
                          /\ metadata' \in [set : BOOLEAN, issuer : AllIssuers, named : BOOLEAN]
         /\ Documented => {anchor', bound'} \subseteq AllIssuers
                          /\ metadata' \in [set : BOOLEAN, issuer : AllIssuers, named : BOOLEAN]
         /\ metadata' = [metadata EXCEPT !.set = TRUE] /\ Bind
              => {anchor', bound'} \subseteq AllIssuers
                 /\ metadata' \in [set : BOOLEAN, issuer : AllIssuers, named : BOOLEAN]
<1> USE DEF AllIssuers, TokensTypeOK
<1>1. ASSUME Documented
      PROVE  /\ {anchor', bound'} \subseteq AllIssuers
             /\ metadata' \in [set : BOOLEAN, issuer : AllIssuers, named : BOOLEAN]
  BY <1>1 DEF Documented, Bind, Allows
<1>2. ASSUME Discovered
      PROVE  /\ {anchor', bound'} \subseteq AllIssuers
             /\ metadata' \in [set : BOOLEAN, issuer : AllIssuers, named : BOOLEAN]
  <2>1. CASE Documented
    BY <1>1, <2>1
  <2>2. CASE metadata' = [set |-> TRUE, issuer |-> ServerUrl, named |-> FALSE] /\ UNCHANGED <<bound, anchor>>
    BY <2>2
  <2> QED BY <1>2, <2>1, <2>2, Zenon DEF Discovered
<1>3. ASSUME metadata' = [metadata EXCEPT !.set = TRUE], Bind
      PROVE  /\ {anchor', bound'} \subseteq AllIssuers
             /\ metadata' \in [set : BOOLEAN, issuer : AllIssuers, named : BOOLEAN]
  <2>1. metadata' \in [set : BOOLEAN, issuer : AllIssuers, named : BOOLEAN]
    BY <1>3
  <2> QED BY <2>1, <1>3 DEF Bind
<1> QED BY <1>1, <1>2, <1>3

(* Every step keeps every variable of the provider in its type. *)
LEMMA TypeOKStep == TokensTypeOK /\ [TokensNext]_oauthVars => TokensTypeOK'
<1> SUFFICES ASSUME TokensTypeOK, [TokensNext]_oauthVars PROVE TokensTypeOK'
  OBVIOUS
<1> USE DEF Calls, AllIssuers
<1>0. /\ {tokens, disk} \subseteq Tokens /\ {anchor, bound} \subseteq AllIssuers
      /\ metadata \in [set : BOOLEAN, issuer : AllIssuers, named : BOOLEAN]
      /\ registered \in BOOLEAN /\ mixed \in BOOLEAN
      /\ {owner, flow} \subseteq Threads \cup {Nobody} /\ call \in [Threads -> Calls]
      /\ todo \in [Threads -> Operations \cup {"none"}] /\ spent \subseteq Nat
      /\ server \in [valid : SUBSET Nat, issued : Nat] /\ None \in Tokens
  BY IdleType DEF TokensTypeOK
<1> HIDE DEF Calls, AllIssuers
<1> DEFINE CallOK == call' \in [Threads -> Calls]
           TokensOK == {tokens', disk'} \subseteq Tokens
           IssuerOK == /\ {anchor', bound'} \subseteq AllIssuers
                       /\ metadata' \in [set : BOOLEAN, issuer : AllIssuers, named : BOOLEAN]
           RestOK == /\ registered' \in BOOLEAN /\ mixed' \in BOOLEAN
                     /\ {owner', flow'} \subseteq Threads \cup {Nobody}
                     /\ todo' \in [Threads -> Operations \cup {"none"}] /\ spent' \subseteq Nat
           ServerOK == server' \in [valid : SUBSET Nat, issued : Nat]
           AllOK == CallOK /\ TokensOK /\ IssuerOK /\ RestOK /\ ServerOK
<1>q. AllOK => TokensTypeOK'
  BY DEF TokensTypeOK, Calls, AllIssuers
<1>u. UNCHANGED issuer => IssuerOK
  BY <1>0 DEF issuer
<1>f. /\ \A t \in Threads : \A p \in Places : Goes(t, p) => CallOK
      /\ \A t \in Threads : Returns(t) => CallOK
      /\ \A t \in Threads : call[t] \in Calls
  BY <1>0, MoveType
<1>1. CASE Age
  <2>1. tokens' \in Tokens
    BY <1>0, <1>1 DEF Age, Tokens
  <2> QED BY <1>1, <2>1, <1>0, <1>u, <1>q DEF Age, history
<1>2. ASSUME NEW t \in Threads, Call(t) PROVE AllOK
  <2>1. todo[t] \in Operations
    BY <1>0, <1>2 DEF Call
  <2>2. [Idle EXCEPT !.op = todo[t], !.at = First(todo[t]), !.next = "deciding"] \in Calls
    BY <2>1, IdleType, PlaceNames DEF Calls
  <2>3. CallOK
    BY <2>2, <1>2, <1>0 DEF Call
  <2>4. mixed' \in BOOLEAN
    BY <1>2, <1>0, Zenon DEF Call
  <2>5. /\ TokensOK /\ ServerOK /\ registered' \in BOOLEAN /\ {owner', flow'} \subseteq Threads \cup {Nobody}
        /\ todo' \in [Threads -> Operations \cup {"none"}] /\ spent' \subseteq Nat
    BY <1>2, <1>0 DEF Call
  <2> QED BY <2>3, <2>4, <2>5, <1>2, <1>u DEF Call
<1>3. ASSUME NEW t \in Threads, Spurious(t) PROVE AllOK
  BY <1>3, <1>0, <1>u, <1>f, PlaceNames DEF Spurious, history
<1>4. ASSUME NEW t \in Threads, Step(t) PROVE AllOK
  <2> USE PlaceNames DEF history
  <2>1. CASE GetAccessToken(t)
    BY <2>1, <1>0, <1>u, <1>f DEF GetAccessToken
  <2>2. CASE Own(t)
    BY <2>2, <1>0, <1>u, <1>f DEF Own
  <2>3. CASE Reenter(t)
    BY <2>3, <1>0, <1>u, <1>f DEF Reenter
  <2>4. CASE Wait(t)
    BY <2>4, <1>0, <1>u, <1>f DEF Wait
  <2>5. CASE Woken(t)
    BY <2>5, <1>0, <1>u, <1>f DEF Woken
  <2>6. CASE Leave(t)
    <3>1. CASE Guarded(t)
      <4>1. \A u \in Threads : [call[u] EXCEPT !.at = "woken"] \in Calls
        BY <1>f DEF Calls
      <4>2. CallOK
        BY <2>6, <3>1, <4>1, <1>f, IdleType DEF Leave, Release
      <4> QED BY <2>6, <3>1, <4>2, <1>0, <1>u DEF Leave, Release
    <3>2. CASE ~Guarded(t)
      BY <2>6, <3>2, <1>0, <1>u, <1>f DEF Leave
    <3> QED BY <3>1, <3>2
  <2>7. CASE ReadTokens(t)
    <3>1. /\ [call[t] EXCEPT !.at = "leaving", !.reply = None] \in Calls
          /\ \A p \in Places : [call[t] EXCEPT !.at = p, !.next = "posting", !.old = tokens] \in Calls
      BY <1>f, <1>0, FieldsType
    <3>2. CallOK
      BY <2>7, <3>1, <1>0 DEF ReadTokens
    <3> QED BY <2>7, <3>2, <1>0, <1>u DEF ReadTokens
  <2>i. ASSUME NEW kept \in Nat, Issue(t, kept) PROVE CallOK /\ ServerOK
    <3>1. server.issued + 1 \in Nat /\ server.issued \in Nat /\ server.valid \subseteq Nat
      BY <1>0
    <3>2. PICK left \in {"fresh", "soon"} :
             call' = [call EXCEPT ![t].at = "replied",
                                  ![t].reply = [access |-> server.issued + 1,
                                                refresh |-> IF kept > 0 THEN kept ELSE server.issued + 1,
                                                left |-> left, ours |-> TRUE]]
      BY <2>i DEF Issue
    <3>3. [access |-> server.issued + 1, refresh |-> IF kept > 0 THEN kept ELSE server.issued + 1,
           left |-> left, ours |-> TRUE] \in Tokens
      BY <3>1 DEF Tokens
    <3>4. CallOK
      BY <3>2, <3>3, <1>0, UpdateType
    <3>5. ServerOK
      BY <2>i, <3>1 DEF Issue
    <3> QED BY <3>4, <3>5
  <2>r. call[t].old.refresh \in Nat
    BY <1>f DEF Calls, Tokens
  <2>8. CASE Present(t)
    <3>1. CASE \E kept \in {0, call[t].old.refresh} : Issue(t, kept)
      <4>1. CallOK /\ ServerOK
        BY <3>1, <2>i, <2>r
      <4> QED BY <2>8, <4>1, <1>0, <1>u DEF Present
    <3>2. CASE call' = [call EXCEPT ![t].at = "replied", ![t].reply = None] /\ UNCHANGED server
      <4>1. CallOK
        BY <3>2, <1>0, UpdateType
      <4> QED BY <2>8, <3>2, <4>1, <1>0, <1>u DEF Present
    <3>3. CASE /\ call' = [call EXCEPT ![t].at = "leaving", ![t].reply = None]
               /\ server' \in {server, [server EXCEPT !.valid = @ \ {call[t].old.refresh}]}
      <4>1. CallOK
        BY <3>3, <1>0, UpdateType
      <4>2. ServerOK
        BY <3>3, <1>0
      <4> QED BY <2>8, <4>1, <4>2, <1>0, <1>u DEF Present
    <3> QED BY <2>8, <3>1, <3>2, <3>3 DEF Present
  <2>9. CASE Exchange(t)
    <3>1. CallOK /\ ServerOK
      BY <2>9, <2>i, <1>0, <1>f DEF Exchange
    <3> QED BY <2>9, <3>1, <1>0, <1>u DEF Exchange
  <2>10. CASE StoreTokens(t)
    <3>1. call[t].reply \in Tokens
      BY <1>f DEF Calls
    <3>2. spent' \subseteq Nat
      BY <2>10, <2>r, <1>0 DEF StoreTokens
    <3>3. CallOK /\ TokensOK
      BY <2>10, <3>1, <1>0, <1>f DEF StoreTokens
    <3> QED BY <2>10, <3>2, <3>3, <1>0, <1>u DEF StoreTokens
  <2>11. CASE Rejected(t)
    <3>1. CallOK
      <4>1. [call EXCEPT ![t].at = "locking", ![t].old = None] \in [Threads -> Calls]
        BY <1>0, UpdateType
      <4> QED BY <2>11, <4>1, <1>f DEF Rejected
    <3> QED BY <2>11, <3>1, <1>0, <1>u DEF Rejected
  <2>12. CASE Notify(t)
    <3>1. CallOK
      <4>1. [call EXCEPT ![t].at = "get", ![t].nested = TRUE] \in [Threads -> Calls]
        BY <1>0, UpdateType
      <4> QED BY <2>12, <4>1, <1>f DEF Notify
    <3> QED BY <2>12, <3>1, <1>0, <1>u DEF Notify
  <2>13. CASE Discover(t)
    <3>1. call[t].next \in Places
      BY <1>f DEF Calls
    <3>2. AfterMetadata(t) \in Places
      BY <3>1 DEF AfterMetadata
    <3>3. CallOK
      BY <2>13, <3>2, <1>f DEF Discover
    <3>4. IssuerOK
      BY <2>13, <1>u, IssuerType DEF Discover
    <3> QED BY <2>13, <3>3, <3>4, <1>0 DEF Discover
  <2>14. CASE FetchClientMetadataDocument(t)
    BY <2>14, <1>0, <1>u, <1>f DEF FetchClientMetadataDocument
  <2>15. CASE RegisterClient(t)
    BY <2>15, <1>0, <1>u, <1>f DEF RegisterClient
  <2>16. CASE Decide(t)
    <3>1. TokensOK
      BY <2>16, <1>0 DEF Decide
    <3>2. CallOK
      BY <2>16, <1>f DEF Decide
    <3> QED BY <2>16, <3>1, <3>2, <1>0, <1>u DEF Decide
  <2>17. CASE Challenge(t)
    <3>1. IssuerOK
      BY <2>17, <1>u, IssuerType DEF Challenge
    <3> QED BY <2>17, <3>1, <1>0, <1>f DEF Challenge
  <2>18. CASE Lock(t)
    <3>1. \A p \in Places : [call EXCEPT ![t].at = p, ![t].next = "asking"] \in [Threads -> Calls]
      BY <1>0, UpdateType
    <3> QED BY <2>18, <3>1, <1>0, <1>u DEF Lock
  <2>19. CASE Ask(t)
    BY <2>19, <1>0, <1>u, <1>f DEF Ask
  <2>20. CASE Revoke(t)
    <3>1. ServerOK
      BY <2>20, <1>0 DEF Revoke
    <3> QED BY <2>20, <3>1, <1>0, <1>u, <1>f DEF Revoke
  <2>21. CASE ClearTokens(t)
    BY <2>21, <1>0, <1>u, <1>f DEF ClearTokens
  <2> QED
    BY <1>4, <2>1, <2>2, <2>3, <2>4, <2>5, <2>6, <2>7, <2>8, <2>9, <2>10, <2>11, <2>12, <2>13, <2>14,
       <2>15, <2>16, <2>17, <2>18, <2>19, <2>20, <2>21, Zenon DEF Step
<1>5. CASE UNCHANGED oauthVars
  BY <1>5, <1>0, <1>q, <1>u DEF oauthVars, issuer
<1> HIDE DEF AllOK
<1> QED BY <1>1, <1>2, <1>3, <1>4, <1>5, <1>q, Zenon DEF TokensNext

(* Every variable keeps to the values its C++ counterpart can take. *)
THEOREM TypesHold == TokensSpec => []TokensTypeOK
<1> QED BY InitTypeOK, TypeOKStep, PTL DEF TokensSpec

--------------------------------------------------------------------------------
(* The issuer *)

(* Metadata that names its issuer is only taken from the issuer the token cache is bound to:      *)
(* IssuerBindingAllows compares with both bindings, and EnforceIssuerBinding never moves the      *)
(* cache's binding once it is set.                                                                *)
THEOREM IssuerPinned == TokensSpec => []IssuerIsPinned
<1>1. TokensInit => IssuerIsPinned
  BY DEF TokensInit, IssuerIsPinned, NoMetadata
<1>2. TokensTypeOK /\ IssuerIsPinned /\ [TokensNext]_oauthVars => IssuerIsPinned'
  <2> SUFFICES ASSUME TokensTypeOK, IssuerIsPinned, [TokensNext]_oauthVars PROVE IssuerIsPinned'
    OBVIOUS
  <2> USE DEF IssuerIsPinned
  <2>1. CASE UNCHANGED issuer
    BY <2>1 DEF issuer
  <2>2. ASSUME Documented PROVE IssuerIsPinned'
    BY <2>2 DEF Documented, Bind, Allows
  <2>3. ASSUME NEW t \in Threads, Discover(t) PROVE IssuerIsPinned'
    BY <2>1, <2>2, <2>3 DEF Discover, Discovered
  <2>4. ASSUME NEW t \in Threads, Challenge(t) PROVE IssuerIsPinned'
    <3>1. CASE metadata' = [metadata EXCEPT !.set = TRUE] /\ Bind
      BY <3>1 DEF Bind, TokensTypeOK
    <3> QED BY <3>1, <2>1, <2>2, <2>4, Zenon DEF Challenge
  <2>5. CASE UNCHANGED oauthVars
    BY <2>5, <2>1 DEF oauthVars
  <2>6. CASE Age
    BY <2>6, <2>1 DEF Age
  <2>7. ASSUME NEW t \in Threads, Step(t) \/ Spurious(t) \/ Call(t) PROVE IssuerIsPinned'
    BY <2>7, <2>1, <2>3, <2>4, Zenon
       DEF Step, Spurious, Call, GetAccessToken, Own, Reenter, Wait, Woken, Leave, ReadTokens, Present,
           Exchange, StoreTokens, Rejected, Notify, FetchClientMetadataDocument, RegisterClient, Decide,
           Lock, Ask, Revoke, ClearTokens
  <2> QED BY <2>5, <2>6, <2>7 DEF TokensNext
<1> QED BY <1>1, <1>2, TypesHold, PTL DEF TokensSpec

--------------------------------------------------------------------------------
(* The shared refresh *)

Refreshing == {"reading", "discovering", "posting", "replied", "notifying", "leaving"}

(* Only the thread that holds the in-flight flag is in a refresh, or in a call that the           *)
(* token_update_handler of a refresh makes.                                                       *)
OneRefreshes ==
  \A t \in Threads :
     /\ call[t].op = "get"
     /\ call[t].at \in Refreshing \cup {"idle", "get", "entering", "waiting", "woken"}
     /\ call[t].at \in Refreshing \/ call[t].nested => owner = t
     /\ call[t].nested => call[t].at \in {"get", "entering"}
     /\ call[t].at = "discovering" => call[t].next = "posting"

(* From the read of the cache to the store of the answer the cache keeps the refresh token that    *)
(* is presented, and the answer brings that token again or one nobody has had.                    *)
PresentsCached ==
  \A t \in Threads :
     /\ call[t].at \in {"discovering", "posting", "replied"}
          => call[t].old.refresh # 0 /\ call[t].old.refresh = tokens.refresh
     /\ call[t].at = "replied" /\ call[t].reply # None
          => call[t].reply.refresh \notin spent /\ call[t].reply.refresh <= server.issued

(* Tokens are numbered as they are handed out, and the cache holds none that was replaced. *)
Numbered ==
  /\ \A n \in spent : 0 < n /\ n <= server.issued
  /\ tokens.refresh <= server.issued /\ tokens.refresh \notin spent

(* The inductive invariant. *)
RefreshInv == ~mixed => OneRefreshes /\ PresentsCached /\ Numbered

(* The refresh invariant holds initially: nobody calls, and the cached token is number 0 or 1. *)
LEMMA RefreshInit == TokensInit => RefreshInv
<1> SUFFICES ASSUME TokensInit PROVE RefreshInv
  OBVIOUS
<1>1. PICK s \in Scenes : tokens = s.tokens
  BY DEF TokensInit
<1>2. tokens.refresh \in {0, 1}
  BY <1>1, OAuthTokensAssumption
<1>3. OneRefreshes /\ PresentsCached
  BY DEF TokensInit, OneRefreshes, PresentsCached, Idle, Refreshing
<1>4. Numbered
  BY <1>2 DEF TokensInit, Numbered
<1> QED BY <1>3, <1>4 DEF RefreshInv

(* A step that changes neither the tokens nor what the server has issued, and in one thread's     *)
(* call only places outside the part from read to store, keeps what that part relies on.          *)
LEMMA KeepsPresents ==
  ASSUME TokensTypeOK, PresentsCached, Numbered, NEW t \in Threads, NEW c,
         call' = [call EXCEPT ![t] = c], c.at \notin {"discovering", "posting", "replied"},
         tokens'.refresh = tokens.refresh, UNCHANGED <<server, spent>>
  PROVE  PresentsCached' /\ Numbered'
<1>1. Numbered'
  BY DEF Numbered
<1>2. ASSUME NEW u \in Threads
      PROVE  /\ call'[u].at \in {"discovering", "posting", "replied"}
                  => call'[u].old.refresh # 0 /\ call'[u].old.refresh = tokens'.refresh
             /\ call'[u].at = "replied" /\ call'[u].reply # None
                  => call'[u].reply.refresh \notin spent' /\ call'[u].reply.refresh <= server'.issued
  <2>1. CASE u = t
    BY <2>1 DEF TokensTypeOK
  <2>2. CASE u # t
    <3>1. call'[u] = call[u]
      BY <2>2 DEF TokensTypeOK
    <3> QED BY <3>1 DEF PresentsCached
  <2> QED BY <2>1, <2>2
<1> QED BY <1>1, <1>2 DEF PresentsCached

(* Changing the call of one thread keeps the refresh exclusive if that call does. *)
LEMMA KeepsOne ==
  ASSUME TokensTypeOK, OneRefreshes, NEW t \in Threads, NEW c, call' = [call EXCEPT ![t] = c], UNCHANGED owner,
         /\ c.op = "get"
         /\ c.at \in Refreshing \cup {"idle", "get", "entering", "waiting", "woken"}
         /\ c.at \in Refreshing \/ c.nested => owner = t
         /\ c.nested => c.at \in {"get", "entering"}
         /\ c.at = "discovering" => c.next = "posting"
  PROVE  OneRefreshes'
BY DEF TokensTypeOK, OneRefreshes

(* Every step keeps the refresh exclusive as long as only GetAccessToken is called. *)
LEMMA OneRefreshesStep ==
  ASSUME TokensTypeOK, OneRefreshes, [TokensNext]_oauthVars, ~mixed' PROVE OneRefreshes'
<1>1. CASE Age \/ UNCHANGED oauthVars
  BY <1>1 DEF Age, oauthVars, OneRefreshes
<1>2. ASSUME NEW t \in Threads, Step(t) \/ Spurious(t) \/ Call(t) PROVE OneRefreshes'
  <2> DEFINE c == call[t]
  <2>0. /\ c.op = "get"
        /\ c.at \in Refreshing \cup {"idle", "get", "entering", "waiting", "woken"}
        /\ c.at \in Refreshing \/ c.nested => owner = t
        /\ c.nested => c.at \in {"get", "entering"}
        /\ c.at = "discovering" => c.next = "posting"
        /\ c \in Calls
    BY DEF OneRefreshes, TokensTypeOK, Calls
  <2>1. CASE Call(t)
    BY <2>1, <2>0, KeepsOne, OAuthTokensAssumption DEF Call, Idle, First, At, TokensTypeOK, Refreshing
  <2>2. CASE Spurious(t)
    BY <2>2, <2>0, KeepsOne DEF Spurious, Goes, At, Refreshing, Calls
  <2>3. CASE GetAccessToken(t)
    <3>1. c.at = "get" /\ UNCHANGED owner /\ (Returns(t) \/ Goes(t, "entering"))
      BY <2>3 DEF GetAccessToken, At
    <3>2. CASE Returns(t)
      BY <3>1, <3>2, <2>0, KeepsOne DEF Returns, Over, Idle, Refreshing, Calls
    <3>3. CASE Goes(t, "entering")
      BY <3>1, <3>3, <2>0, KeepsOne DEF Goes, Refreshing, Calls
    <3> QED BY <3>1, <3>2, <3>3
  <2>4. CASE Own(t)
    <3>1. \A u \in Threads : call[u].at \notin Refreshing /\ ~call[u].nested
      BY <2>4, OAuthTokensAssumption DEF Own, OneRefreshes
    <3> QED BY <2>4, <3>1, <2>0 DEF Own, Goes, At, OneRefreshes, TokensTypeOK, Refreshing
  <2>5. CASE Reenter(t)
    BY <2>5, <2>0, KeepsOne DEF Reenter, Returns, Over, Idle, At, Refreshing, Calls
  <2>6. CASE Wait(t)
    BY <2>6, <2>0, KeepsOne DEF Wait, Goes, At, Refreshing, Calls
  <2>7. CASE Woken(t)
    BY <2>7, <2>0, KeepsOne DEF Woken, Returns, Over, Idle, Goes, At, Refreshing, Calls
  <2>8. CASE Leave(t)
    <3>1. c.at = "leaving" /\ owner = t /\ ~c.nested /\ Guarded(t)
      BY <2>8, <2>0 DEF Leave, At, Guarded, Refreshing
    <3>2. \A u \in Threads \ {t} : call[u].at \notin Refreshing /\ ~call[u].nested
      BY <3>1 DEF OneRefreshes
    <3>3. \A u \in Threads : call'[u] = IF u = t THEN Idle
                                        ELSE IF call[u].at = "waiting" THEN [call[u] EXCEPT !.at = "woken"]
                                        ELSE call[u]
      BY <2>8, <3>1 DEF Leave, Release, Over, At
    <3>4. ASSUME NEW u \in Threads
          PROVE  /\ call'[u].op = "get"
                 /\ call'[u].at \in {"idle", "get", "entering", "waiting", "woken"}
                 /\ ~call'[u].nested
      <4>1. CASE u = t
        <5>1. call'[u] = Idle
          BY <3>3, <4>1
        <5> QED BY <5>1 DEF Idle
      <4>2. CASE u # t
        <5>1. /\ call[u].op = "get" /\ ~call[u].nested /\ call[u] \in Calls
              /\ call[u].at \in {"idle", "get", "entering", "waiting", "woken"}
          BY <3>2, <4>2 DEF OneRefreshes, TokensTypeOK, Calls
        <5> QED BY <3>3, <4>2, <5>1 DEF Calls
      <4> QED BY <4>1, <4>2
    <3> QED BY <3>4 DEF OneRefreshes, Refreshing
  <2>9. CASE ReadTokens(t)
    BY <2>9, <2>0, KeepsOne DEF ReadTokens, At, Refreshing, Calls
  <2>10. CASE Present(t) \/ Exchange(t)
    <3>1. UNCHANGED owner /\ c.at = "posting"
      BY <2>10 DEF Present, Exchange, At
    <3>2. ASSUME NEW p \in {"replied", "leaving"}, NEW k, call' = [call EXCEPT ![t].at = p, ![t].reply = k]
          PROVE  OneRefreshes'
      <4> DEFINE d == [c EXCEPT !.at = p, !.reply = k]
      <4>1. call' = [call EXCEPT ![t] = d]
        BY <3>2
      <4>2. d.op = c.op /\ d.at = p /\ d.nested = c.nested
        BY <2>0 DEF Calls
      <4> HIDE DEF d
      <4> QED BY <4>1, <4>2, <3>1, <2>0, KeepsOne DEF Refreshing
    <3>3. ASSUME Goes(t, "leaving") PROVE OneRefreshes'
      BY <3>1, <3>3, <2>0, KeepsOne DEF Goes, Refreshing, Calls
    <3>4. ASSUME NEW kept, Issue(t, kept) PROVE OneRefreshes'
      BY <3>2, <3>4, Zenon DEF Issue
    <3> QED BY <2>10, <3>2, <3>3, <3>4, Zenon DEF Present, Exchange
  <2>11. CASE StoreTokens(t)
    BY <2>11, <2>0, KeepsOne DEF StoreTokens, Goes, At, Refreshing, Calls
  <2>12. CASE Rejected(t)
    BY <2>12, <2>0, KeepsOne DEF Rejected, Goes, At, Refreshing, Calls
  <2>13. CASE Notify(t)
    BY <2>13, <2>0, KeepsOne DEF Notify, Goes, At, Refreshing, Calls
  <2>14. CASE Discover(t)
    BY <2>14, <2>0, KeepsOne DEF Discover, AfterMetadata, Goes, At, Refreshing, Calls
  <2>15. ~(FetchClientMetadataDocument(t) \/ RegisterClient(t) \/ Decide(t) \/ Challenge(t) \/ Lock(t)
             \/ Ask(t) \/ Revoke(t) \/ ClearTokens(t))
    BY <2>0 DEF FetchClientMetadataDocument, RegisterClient, Decide, Challenge, Lock, Ask, Revoke,
                ClearTokens, At, Refreshing
  <2> QED
    BY <1>2, <2>1, <2>2, <2>3, <2>4, <2>5, <2>6, <2>7, <2>8, <2>9, <2>10, <2>11, <2>12, <2>13, <2>14, <2>15,
       Zenon DEF Step
<1> QED BY <1>1, <1>2, Zenon DEF TokensNext

(* Every step of GetAccessToken presents what the cache holds, and stores what nobody has had.    *)
LEMMA PresentsStep ==
  ASSUME TokensTypeOK, OneRefreshes, PresentsCached, Numbered, [TokensNext]_oauthVars, ~mixed'
  PROVE  PresentsCached' /\ Numbered'
<1>1. CASE UNCHANGED oauthVars
  BY <1>1 DEF oauthVars, PresentsCached, Numbered
<1>2. CASE Age
  <2>1. tokens'.refresh = tokens.refresh
    BY <1>2 DEF Age, TokensTypeOK, Tokens
  <2> QED BY <1>2, <2>1 DEF Age, history, PresentsCached, Numbered
<1>3. ASSUME NEW t \in Threads, Step(t) \/ Spurious(t) \/ Call(t) PROVE PresentsCached' /\ Numbered'
  <2> DEFINE c == call[t]
             Quiet == tokens' = tokens /\ UNCHANGED <<server, spent>>
  <2>0. /\ c.op = "get" /\ c \in Calls
        /\ c.at \in Refreshing \cup {"idle", "get", "entering", "waiting", "woken"}
        /\ c.at \in Refreshing => owner = t /\ \A u \in Threads \ {t} : call[u].at \notin Refreshing
        /\ c.at = "discovering" => c.next = "posting"
    BY DEF OneRefreshes, TokensTypeOK, Calls
  <2>s. ASSUME NEW d, call' = [call EXCEPT ![t] = d]
        PROVE  call'[t] = d /\ \A u \in Threads \ {t} : call'[u] = call[u]
    BY <2>s DEF TokensTypeOK
  <2>k. ASSUME NEW d, call' = [call EXCEPT ![t] = d], Quiet, d.at \notin {"discovering", "posting", "replied"}
        PROVE  PresentsCached' /\ Numbered'
    BY <2>k, KeepsPresents
  <2>g. ASSUME NEW p \in Places, Goes(t, p), Quiet, p \notin {"discovering", "posting", "replied"}
        PROVE  PresentsCached' /\ Numbered'
    <3>1. [c EXCEPT !.at = p].at = p
      BY <2>0 DEF Calls
    <3> QED BY <2>g, <2>k, <3>1 DEF Goes
  <2>r. ASSUME Returns(t), Quiet PROVE PresentsCached' /\ Numbered'
    <3>1. Over(c).at \in {"idle", "leaving"}
      BY <2>0 DEF Over, Idle, Calls
    <3> QED BY <2>r, <2>k, <3>1 DEF Returns
  <2> USE PlaceNames DEF history
  <2>1. CASE Call(t)
    <3>1. todo[t] = "get"
      BY <2>1, OAuthTokensAssumption DEF Call, TokensTypeOK
    <3>2. [Idle EXCEPT !.op = todo[t], !.at = First(todo[t]), !.next = "deciding"].at = "get"
      BY <3>1 DEF Idle, First
    <3> QED BY <2>1, <2>k, <3>2 DEF Call
  <2>2. CASE Spurious(t)
    BY <2>2, <2>g DEF Spurious
  <2>3. CASE GetAccessToken(t) \/ Own(t) \/ Reenter(t) \/ Wait(t) \/ Woken(t)
    BY <2>3, <2>g, <2>r DEF GetAccessToken, Own, Reenter, Wait, Woken
  <2>4. CASE Leave(t)
    <3>1. \A u \in Threads : call'[u].at \notin {"discovering", "posting", "replied"}
      <4>1. \A u \in Threads \ {t} : call[u].at \notin Refreshing /\ call[u] \in Calls
        BY <2>4, <2>0 DEF Leave, At, Refreshing, TokensTypeOK, Calls
      <4>2. Over(c).at \in {"idle", "leaving"}
        BY <2>0 DEF Over, Idle, Calls
      <4>3. \A u \in Threads : \/ u = t /\ call'[u] = Over(c)
                               \/ u # t /\ call'[u] \in {call[u], [call[u] EXCEPT !.at = "woken"]}
        <5>1. CASE Guarded(t)
          BY <2>4, <5>1 DEF Leave, Release
        <5>2. CASE ~Guarded(t)
          <6>1. call'[t] = Over(c) /\ \A u \in Threads \ {t} : call'[u] = call[u]
            BY <2>s, <2>4, <5>2, Zenon DEF Leave, Returns
          <6> QED BY <6>1
        <5> QED BY <5>1, <5>2
      <4>4. \A u \in Threads \ {t} : [call[u] EXCEPT !.at = "woken"].at = "woken"
        BY <4>1 DEF Calls
      <4> QED BY <4>1, <4>2, <4>3, <4>4 DEF Refreshing
    <3>2. Quiet
      BY <2>4 DEF Leave
    <3> QED BY <3>1, <3>2 DEF PresentsCached, Numbered
  <2>5. CASE ReadTokens(t)
    <3>1. Quiet /\ c.at = "reading"
      BY <2>5 DEF ReadTokens, At
    <3>2. CASE tokens.refresh = 0
      <4>1. [c EXCEPT !.at = "leaving", !.reply = None].at = "leaving"
        BY <2>0 DEF Calls
      <4> QED BY <2>5, <2>k, <3>1, <3>2, <4>1 DEF ReadTokens
    <3>3. CASE tokens.refresh # 0
      <4>1. PICK p \in {"discovering", "posting"} :
               call' = [call EXCEPT ![t] = [c EXCEPT !.at = p, !.next = "posting", !.old = tokens]]
        BY <2>5, <3>3 DEF ReadTokens
      <4>2. [c EXCEPT !.at = p, !.next = "posting", !.old = tokens].old = tokens
            /\ [c EXCEPT !.at = p, !.next = "posting", !.old = tokens].at = p
        BY <2>0 DEF Calls
      <4>3. \A u \in Threads : \/ call'[u] = call[u]
                               \/ u = t /\ call'[u].at = p /\ call'[u].old = tokens
        <5>1. call'[t] = [c EXCEPT !.at = p, !.next = "posting", !.old = tokens]
              /\ \A u \in Threads \ {t} : call'[u] = call[u]
          BY <2>s, <4>1, Zenon
        <5> QED BY <5>1, <4>2
      <4> QED BY <3>1, <3>3, <4>3 DEF PresentsCached, Numbered
    <3> QED BY <3>2, <3>3
  <2>o. c.at \in {"discovering", "posting", "replied"} =>
          /\ c.old.refresh # 0 /\ c.old.refresh = tokens.refresh /\ c.old # None
          /\ \A u \in Threads \ {t} : call[u].at \notin {"discovering", "posting", "replied"}
    BY <2>0 DEF PresentsCached, Refreshing, None
  <2>6. CASE Present(t)
    <3>1. tokens' = tokens /\ spent' = spent /\ c.at = "posting"
      BY <2>6 DEF Present, At
    <3>2. CASE \E kept \in {0, c.old.refresh} : Issue(t, kept)
      <4>1. PICK kept \in {0, c.old.refresh}, left \in {"fresh", "soon"} :
               /\ call' = [call EXCEPT ![t].at = "replied",
                                       ![t].reply = [access |-> server.issued + 1,
                                                     refresh |-> IF kept > 0 THEN kept ELSE server.issued + 1,
                                                     left |-> left, ours |-> TRUE]]
               /\ server'.issued = server.issued + 1
        <5>1. PICK kept \in {0, c.old.refresh} : Issue(t, kept)
          BY <3>2
        <5> QED BY <5>1, Zenon DEF Issue
      <4> DEFINE n == IF kept > 0 THEN kept ELSE server.issued + 1
                 k == [access |-> server.issued + 1, refresh |-> n, left |-> left, ours |-> TRUE]
      <4>2. server.issued \in Nat /\ c.old.refresh \in Nat /\ spent \subseteq Nat
        BY <2>0 DEF TokensTypeOK, Calls, Tokens
      <4>3. n \notin spent /\ n <= server'.issued
        BY <3>1, <2>o, <4>1, <4>2 DEF Numbered
      <4>4. Numbered'
        BY <3>1, <4>1, <4>2, <2>o DEF Numbered
      <4>5. [c EXCEPT !.at = "replied", !.reply = k].old = c.old
            /\ [c EXCEPT !.at = "replied", !.reply = k].at = "replied"
            /\ [c EXCEPT !.at = "replied", !.reply = k].reply = k /\ k.refresh = n
        BY <2>0 DEF Calls
      <4>6. call' = [call EXCEPT ![t] = [c EXCEPT !.at = "replied", !.reply = k]]
        BY <4>1
      <4> HIDE DEF k, n
      <4>7. \A u \in Threads : \/ u # t /\ call'[u] = call[u]
                               \/ u = t /\ call'[u].at = "replied" /\ call'[u].old = c.old
                                        /\ call'[u].reply.refresh = n
        <5>1. call'[t] = [c EXCEPT !.at = "replied", !.reply = k] /\ \A u \in Threads \ {t} : call'[u] = call[u]
          BY <2>s, <4>6, Zenon
        <5> QED BY <5>1, <4>5
      <4> QED BY <2>o, <3>1, <4>3, <4>4, <4>7 DEF PresentsCached
    <3>3. ASSUME NEW p \in {"replied", "leaving"}, call' = [call EXCEPT ![t].at = p, ![t].reply = None],
                 server'.issued = server.issued
          PROVE  PresentsCached' /\ Numbered'
      <4>1. [c EXCEPT !.at = p, !.reply = None].old = c.old
            /\ [c EXCEPT !.at = p, !.reply = None].at = p /\ [c EXCEPT !.at = p, !.reply = None].reply = None
        BY <2>0 DEF Calls
      <4>2. call' = [call EXCEPT ![t] = [c EXCEPT !.at = p, !.reply = None]]
        BY <3>3
      <4>3. \A u \in Threads : \/ u # t /\ call'[u] = call[u]
                               \/ u = t /\ call'[u].at = p /\ call'[u].old = c.old /\ call'[u].reply = None
        <5>1. call'[t] = [c EXCEPT !.at = p, !.reply = None] /\ \A u \in Threads \ {t} : call'[u] = call[u]
          BY <2>s, <4>2, Zenon
        <5> QED BY <5>1, <4>1
      <4> QED BY <2>o, <3>1, <3>3, <4>3 DEF PresentsCached, Numbered
    <3>4. ASSUME server' \in {server, [server EXCEPT !.valid = @ \ {c.old.refresh}]}
          PROVE  server'.issued = server.issued
      BY <3>4 DEF TokensTypeOK
    <3> QED BY <2>6, <3>2, <3>3, <3>4 DEF Present
  <2>7. ~Exchange(t)
    BY <2>o DEF Exchange, At
  <2>8. CASE StoreTokens(t)
    <3>1. /\ tokens' = c.reply /\ c.at = "replied" /\ c.reply # None /\ UNCHANGED server
          /\ spent' = IF c.reply.refresh # c.old.refresh THEN spent \cup {c.old.refresh} ELSE spent
      BY <2>8, <2>o DEF StoreTokens, At
    <3>2. c.reply.refresh \notin spent /\ c.reply.refresh <= server.issued
      BY <3>1 DEF PresentsCached
    <3>3. Numbered'
      <4>1. c.old.refresh \in Nat
        BY <2>0 DEF Calls, Tokens
      <4> QED BY <3>1, <3>2, <2>o, <4>1 DEF Numbered
    <3>4. \A u \in Threads : call'[u].at \notin {"discovering", "posting", "replied"}
      <4>1. PICK p \in {"notifying", "leaving"} : Goes(t, p)
        BY <2>8 DEF StoreTokens
      <4>2. [c EXCEPT !.at = p].at = p
        BY <2>0 DEF Calls
      <4>3. \A u \in Threads : \/ u # t /\ call'[u] = call[u]
                               \/ u = t /\ call'[u].at = p
        <5>1. call'[t] = [c EXCEPT !.at = p] /\ \A u \in Threads \ {t} : call'[u] = call[u]
          BY <2>s, <4>1, Zenon DEF Goes
        <5> QED BY <5>1, <4>2
      <4> QED BY <2>o, <3>1, <4>3
    <3> QED BY <3>3, <3>4 DEF PresentsCached
  <2>9. CASE Rejected(t)
    <3>1. c.at = "replied" /\ tokens' = None /\ Goes(t, "leaving") /\ UNCHANGED <<server, spent>>
      BY <2>9, <2>0 DEF Rejected, At
    <3>2. Numbered'
      BY <3>1, IdleType DEF Numbered, None, TokensTypeOK
    <3>3. [c EXCEPT !.at = "leaving"].at = "leaving"
      BY <2>0 DEF Calls
    <3>4. \A u \in Threads : call'[u].at \notin {"discovering", "posting", "replied"}
      BY <2>o, <3>1, <3>3 DEF Goes, TokensTypeOK
    <3> QED BY <3>2, <3>4 DEF PresentsCached
  <2>10. CASE Notify(t)
    <3>1. [c EXCEPT !.at = "get", !.nested = TRUE].at = "get"
      BY <2>0 DEF Calls
    <3>2. CASE call' = [call EXCEPT ![t].at = "get", ![t].nested = TRUE]
      <4>1. call' = [call EXCEPT ![t] = [c EXCEPT !.at = "get", !.nested = TRUE]]
        BY <3>2
      <4> QED BY <2>10, <3>1, <4>1, <2>k DEF Notify
    <3> QED BY <2>10, <3>2, <2>g DEF Notify
  <2>11. CASE Discover(t)
    <3>1. c.at = "discovering" /\ Quiet /\ (Goes(t, "posting") \/ Goes(t, "leaving"))
      BY <2>11, <2>0 DEF Discover, At, AfterMetadata
    <3>2. CASE Goes(t, "posting")
      <4>1. [c EXCEPT !.at = "posting"].old = c.old /\ [c EXCEPT !.at = "posting"].at = "posting"
        BY <2>0 DEF Calls
      <4>2. \A u \in Threads : \/ u # t /\ call'[u] = call[u]
                               \/ u = t /\ call'[u].at = "posting" /\ call'[u].old = c.old
        <5>1. call'[t] = [c EXCEPT !.at = "posting"] /\ \A u \in Threads \ {t} : call'[u] = call[u]
          BY <2>s, <3>2, Zenon DEF Goes
        <5> QED BY <5>1, <4>1
      <4> QED BY <2>o, <3>1, <4>2 DEF PresentsCached, Numbered
    <3> QED BY <3>1, <3>2, <2>g
  <2>12. ~(FetchClientMetadataDocument(t) \/ RegisterClient(t) \/ Decide(t) \/ Challenge(t) \/ Lock(t)
             \/ Ask(t) \/ Revoke(t) \/ ClearTokens(t))
    BY <2>0 DEF FetchClientMetadataDocument, RegisterClient, Decide, Challenge, Lock, Ask, Revoke,
                ClearTokens, At, Refreshing
  <2> QED
    BY <1>3, <2>1, <2>2, <2>3, <2>4, <2>5, <2>6, <2>7, <2>8, <2>9, <2>10, <2>11, <2>12, Zenon DEF Step
<1> QED BY <1>1, <1>2, <1>3, Zenon DEF TokensNext

(* The refresh invariant is inductive: other calls than GetAccessToken end its claim for good. *)
LEMMA RefreshStep == TokensTypeOK /\ RefreshInv /\ [TokensNext]_oauthVars => RefreshInv'
<1> SUFFICES ASSUME TokensTypeOK, RefreshInv, [TokensNext]_oauthVars, ~mixed'
             PROVE  (OneRefreshes /\ PresentsCached /\ Numbered)'
  BY Zenon DEF RefreshInv
<1>1. ASSUME mixed PROVE FALSE
  <2>1. CASE Age \/ UNCHANGED oauthVars
    BY <1>1, <2>1 DEF Age, oauthVars, history
  <2>2. ASSUME NEW t \in Threads, Call(t) \/ Spurious(t) PROVE FALSE
    BY <1>1, <2>2 DEF Call, Spurious, history
  <2>3. ASSUME NEW t \in Threads, Step(t) PROVE FALSE
    <3>1. CASE GetAccessToken(t) \/ Own(t) \/ Reenter(t) \/ Wait(t) \/ Woken(t) \/ Leave(t) \/ ReadTokens(t)
                 \/ Notify(t) \/ Discover(t)
      BY <1>1, <3>1 DEF GetAccessToken, Own, Reenter, Wait, Woken, Leave, ReadTokens, Notify, Discover, history
    <3>2. CASE Present(t) \/ Exchange(t) \/ StoreTokens(t) \/ Rejected(t)
      BY <1>1, <3>2 DEF Present, Exchange, StoreTokens, Rejected, history
    <3>3. CASE FetchClientMetadataDocument(t) \/ RegisterClient(t) \/ Decide(t) \/ Challenge(t) \/ Lock(t)
                 \/ Ask(t) \/ Revoke(t) \/ ClearTokens(t)
      BY <1>1, <3>3 DEF FetchClientMetadataDocument, RegisterClient, Decide, Challenge, Lock, Ask, Revoke,
                        ClearTokens, history
    <3> QED BY <2>3, <3>1, <3>2, <3>3, Zenon DEF Step
  <2> QED BY <2>1, <2>2, <2>3, Zenon DEF TokensNext
<1> QED BY <1>1, OneRefreshesStep, PresentsStep DEF RefreshInv

(* No refresh of GetAccessToken presents a refresh token that another refresh has already         *)
(* replaced: RefreshTokensCoalesced lets one thread at a time from the read of the cache to its   *)
(* store.                                                                                         *)
THEOREM RefreshIsFresh == TokensSpec => []NoStaleRefresh
<1>1. TokensTypeOK /\ RefreshInv => NoStaleRefresh
  BY DEF RefreshInv, PresentsCached, Numbered, NoStaleRefresh, At
<1> QED BY <1>1, RefreshInit, RefreshStep, TypesHold, PTL DEF TokensSpec

(* Among calls of GetAccessToken at most one thread at a time talks to the authorization server   *)
(* and stores what it answers.                                                                    *)
THEOREM RefreshIsExclusive ==
  TokensSpec => [](~mixed => \A t, u \in Threads :
                          At(t, "posting") /\ call[u].at \in {"posting", "replied"} => t = u)
<1>1. RefreshInv => (~mixed => \A t, u \in Threads :
                          At(t, "posting") /\ call[u].at \in {"posting", "replied"} => t = u)
  BY DEF RefreshInv, OneRefreshes, Refreshing, At
<1> QED BY <1>1, RefreshInit, RefreshStep, TypesHold, PTL DEF TokensSpec
================================================================================
