-------------------------------- MODULE ServerTasks ----------------------------
(***************************************************************************)
(* Tool calls of McpServer that become tasks.                              *)
(*                                                                         *)
(* tools/call, tasks/update and tasks/cancel run on the message loop, one  *)
(* after the other; a tool runs on a thread of its own (std::async), or on *)
(* the loop itself when the client requires a task or resumes one.  Loop   *)
(* and workers meet in the task store, whose methods are single steps      *)
(* (TaskStates), and in running_task_cancel_flags_.  Close waits for the   *)
(* workers and then joins the loop.                                        *)
(*                                                                         *)
(* Requests that only read (tasks/get, tasks/result, tasks/list) change    *)
(* nothing and are left out, as are requests refused before they reach the *)
(* store: no extension, wrong header, foreign owner.                       *)
(***************************************************************************)
EXTENDS TaskStates, Naturals, FiniteSets

CONSTANTS
    MaxFailures,   \* bound: writes of the store that throw
    Nobody         \* the loop has no request

ASSUME ServerAssumption ==
    MaxFailures \in Nat /\ IsFiniteSet(Ids) /\ Attrs # {} /\ Nobody \notin Ids

VARIABLES
    modern,     \* the era of the session
    tasks,      \* the task store
    flags,      \* the keys of running_task_cancel_flags_
    raised,     \* calls whose cancel flag is set
    fresh,      \* tasks whose flag was made by tasks/update and is not the flag of the call
    worker,     \* call -> where its thread is, and whether a throw there is caught
    loop,       \* the request the loop is at: the call it is about, the step, what it read
    futures,    \* pending_async_futures_
    closing,    \* where Close is
    failures,   \* writes that have thrown
    noted,      \* history: call -> the endings notified
    reply,      \* history: call -> how the last tasks/cancel was answered
    adrift      \* history: tasks that nobody was left for (see NobodyForgotten)

vars == <<modern, tasks, flags, fresh, raised, worker, loop, futures, closing, failures,
          noted, reply, adrift>>

Places == {"none", "tool", "plain", "update", "finish", "park", "cancel", "caught",
           "fail", "announce", "notify", "retire", "done"}

Steps == {"idle", "create", "notify", "push", "required", "update", "updated", "resume", "resumed",
          "flag", "cancel", "cancelled"}

Ends == {"Completed", "Failed", "Cancelled"}

Kinds == {"result", "bare", "input"}

\* How a tool ends: with a result, with a request for input, by a throw that stands for such
\* a request (ElicitationInputRequired), or by another throw.
Outcomes == {"result", "input", "elicit", "error"}

(* Every variable keeps to the values its C++ counterpart can take. *)
TypeOK ==
    /\ modern \in BOOLEAN
    /\ tasks \in [Ids -> States \cup {Absent}]
    /\ flags \subseteq Ids /\ fresh \subseteq Ids /\ raised \subseteq Ids
    /\ worker \in [Ids -> [at : Places, guarded : BOOLEAN, status : Statuses]]
    /\ loop \in [id : Ids \cup {Nobody}, at : Steps, kind : Kinds, ended : BOOLEAN]
    /\ futures \subseteq Ids
    /\ closing \in {"no", "waiting", "joining", "closed"}
    /\ failures \in Nat
    /\ noted \in [Ids -> SUBSET Ends]
    /\ reply \in [Ids -> {"none", "ack", "refused"}]
    /\ adrift \subseteq Ids

Idle == [id |-> Nobody, at |-> "idle", kind |-> "bare", ended |-> FALSE]

Init ==
    /\ modern \in BOOLEAN
    /\ tasks = [i \in Ids |-> Absent]
    /\ flags = {} /\ fresh = {} /\ raised = {}
    /\ worker = [i \in Ids |-> [at |-> "none", guarded |-> TRUE, status |-> "Working"]]
    /\ loop = Idle
    /\ futures = {} /\ closing = "no" /\ failures = 0
    /\ noted = [i \in Ids |-> {}] /\ reply = [i \in Ids |-> "none"] /\ adrift = {}

--------------------------------------------------------------------------------
(* The store, as the server calls it.  Each method is the set of states it may leave, and  *)
(* returns false when there is none; a write may also throw and change nothing.            *)

Known(id) == tasks[id] # Absent

Update(id, status) ==
    IF Known(id) THEN {s \in UpdateTask(tasks[id]) : s.status = status} ELSE {}

SetStatus(id, status) ==
    IF Known(id) THEN {s \in SetTaskStatus(tasks[id]) : s.status = status} ELSE {}

Park(id) == IF Known(id) THEN ParkTaskForInput(tasks[id]) ELSE {}

Fail(id) == IF Known(id) THEN FailTask(tasks[id]) ELSE {}

Cancel(id) == IF Known(id) THEN CancelTask(tasks[id]) ELSE {}

Advance(id) == IF Known(id) THEN AdvanceTaskWithInput(tasks[id]) ELSE {}

Applied(id, S) == \E s \in S : tasks' = [tasks EXCEPT ![id] = s] /\ UNCHANGED failures

Refused(S) == S = {} /\ UNCHANGED <<tasks, failures>>

MayThrow(n) == failures + n <= MaxFailures /\ failures' = failures + n

Throws(S) == S # {} /\ MayThrow(1) /\ UNCHANGED tasks

\* SendTaskNotification; what it says of a task that has not ended is not kept.
Notify(id, status) == noted' = [noted EXCEPT ![id] = @ \cup ({status} \cap Ends)]

--------------------------------------------------------------------------------
(* The message loop: tools/call *)

Free == loop = Idle /\ closing # "closed"

LoopAt(place) == loop.at = place

GoTo(place) == loop' = [loop EXCEPT !.at = place]

Unused(id) == worker[id].at = "none" /\ ~Known(id) /\ id \notin flags /\ id \notin adrift

\* SweepExpiredTasks removes what has outlived its time; what it cannot remove stays.
Sweep(expired) == tasks' = [i \in Ids |-> IF i \in expired THEN Absent ELSE tasks[i]]

\* HandleCallTool for a tool that runs as a task in the background, up to the flag.
CallTask(id) ==
    /\ Free /\ Unused(id)
    /\ \E expired \in SUBSET {i \in Ids : Known(i)} : Sweep(expired)
    /\ flags' = flags \cup {id}
    /\ loop' = [Idle EXCEPT !.id = id, !.at = "create"]
    /\ UNCHANGED <<modern, fresh, raised, worker, futures, closing, failures, noted, reply, adrift>>

\* CreateTask, BindTaskTool and SetTaskStatus: nobody else knows the id yet.  A throw of
\* any of them leaves the handler, and the flag stays.
CreateAndBind(id) ==
    \E s \in CreateTask(Absent) :
        \/ /\ tasks' = [tasks EXCEPT ![id] = [s EXCEPT !.status = "Working"]]
           /\ GoTo("notify")
           /\ UNCHANGED <<failures, adrift>>
        \/ /\ MayThrow(1)
           /\ tasks' \in {tasks, [tasks EXCEPT ![id] = s]}
           /\ loop' = Idle
           /\ adrift' = adrift \cup {id}

StartTask ==
    /\ LoopAt("create")
    /\ CreateAndBind(loop.id)
    /\ UNCHANGED <<modern, flags, fresh, raised, worker, futures, closing, noted, reply>>

At(id, place) == worker' = [worker EXCEPT ![id].at = place]

\* The notification, the answer, and std::async.
Launch ==
    /\ LoopAt("notify")
    /\ Notify(loop.id, "Working")
    /\ At(loop.id, "tool")
    /\ GoTo("push")
    /\ UNCHANGED <<modern, tasks, flags, fresh, raised, futures, closing, failures, reply, adrift>>

\* A tool that is no task is answered by its thread.
CallPlain(id) ==
    /\ Free /\ Unused(id)
    /\ At(id, "plain")
    /\ loop' = [Idle EXCEPT !.id = id, !.at = "push"]
    /\ UNCHANGED <<modern, tasks, flags, fresh, raised, futures, closing, failures, noted, reply, adrift>>

Ready(id) == worker[id].at = "done"

\* The future is stored under pending_async_mutex_, which Close holds while it waits.
Push ==
    /\ LoopAt("push") /\ closing # "waiting"
    /\ futures' = {i \in futures \cup {loop.id} : ~Ready(i)}
    /\ loop' = Idle
    /\ UNCHANGED <<modern, tasks, flags, fresh, raised, worker, closing, failures, noted, reply, adrift>>

\* A modern client requires a task: the tool runs first, on the loop.
CallRequired(id) ==
    /\ Free /\ modern /\ Unused(id)
    /\ loop' = [Idle EXCEPT !.id = id, !.at = "required"]
    /\ UNCHANGED <<modern, tasks, flags, fresh, raised, worker, futures, closing, failures,
                   noted, reply, adrift>>

\* The tool is done.  A request for input is answered without a task; otherwise the task is
\* made in the state it ends in, its flag come and gone before the loop takes a tasks/cancel.
RequiredEnds(outcome) ==
    /\ LoopAt("required")
    /\ \/ outcome \in {"input", "elicit"} /\ UNCHANGED <<tasks, failures, adrift>>
       \/ /\ outcome \in {"result", "error"}
          /\ \E expired \in SUBSET {i \in Ids : Known(i)}, s \in CreateTask(Absent) :
             \E made \in {Absent, s, [s EXCEPT !.status = IF outcome = "error" THEN "Failed" ELSE "Completed"]} :
                /\ tasks' = [i \in Ids |-> IF i = loop.id THEN made ELSE IF i \in expired THEN Absent ELSE tasks[i]]
                /\ IF made # Absent /\ Terminal(made)
                   THEN UNCHANGED <<failures, adrift>>
                   ELSE MayThrow(1) /\ adrift' = adrift \cup {loop.id}
    /\ At(loop.id, "done")
    /\ loop' = Idle
    /\ UNCHANGED <<modern, flags, fresh, raised, futures, closing, noted, reply>>

Running(id) == worker[id].at \notin {"none", "done"}

\* HandleCancelled finds the flag of a request until its answer has been delivered, which
\* may take as long as it likes.  Only a task's flag matters here, and only while somebody
\* may still read it.
CancelCall(id) ==
    /\ Free /\ worker[id].at # "plain" /\ id \notin fresh
    /\ worker[id].at # "none" /\ (Running(id) \/ id \in flags)
    /\ raised' = raised \cup {id}
    /\ UNCHANGED <<modern, tasks, flags, fresh, worker, loop, futures, closing, failures,
                   noted, reply, adrift>>

--------------------------------------------------------------------------------
(* The message loop: tasks/update *)

\* The test of the task that was read; the write comes later.
MayUpdate(s, kind) ==
    s # Absent /\ IF kind = "input" THEN s.status = "InputRequired" ELSE ~Terminal(s)

UpdateRead(id, kind) ==
    /\ Free /\ MayUpdate(tasks[id], kind)
    /\ loop' = [Idle EXCEPT !.id = id, !.at = "update", !.kind = kind]
    /\ UNCHANGED <<modern, tasks, flags, fresh, raised, worker, futures, closing, failures,
                   noted, reply, adrift>>

\* UpdateTask with and without a result, AdvanceTaskWithInput.
Updated(id, kind) ==
    CASE kind = "result" -> Update(id, "Completed")
      [] kind = "bare"   -> Update(id, "Working")
      [] kind = "input"  -> Advance(id)

\* A bare update of a parked task makes it Working, and nothing runs it.
UpdateWrite ==
    /\ LoopAt("update")
    /\ LET S == Updated(loop.id, loop.kind) IN
       \/ Applied(loop.id, S) /\ GoTo("updated")
       \/ (Refused(S) \/ Throws(S)) /\ loop' = Idle
    /\ adrift' = IF loop.kind = "bare" /\ Known(loop.id) /\ tasks[loop.id].status = "InputRequired"
                    /\ tasks' # tasks
                 THEN adrift \cup {loop.id} ELSE adrift
    /\ UNCHANGED <<modern, flags, fresh, raised, worker, futures, closing, noted, reply>>

\* Only a modern session parks tasks, so an update with input goes on to the tool.
UpdateNotify ==
    /\ LoopAt("updated")
    /\ Notify(loop.id, IF loop.kind = "result" THEN "Completed" ELSE "Working")
    /\ IF loop.kind = "input" THEN GoTo("resume") ELSE loop' = Idle
    /\ UNCHANGED <<modern, tasks, flags, fresh, raised, worker, futures, closing, failures,
                   reply, adrift>>

\* Some answers are missing: the task is parked again.
ParkAgain ==
    /\ LoopAt("resume")
    /\ \/ (Applied(loop.id, Park(loop.id)) \/ Refused(Park(loop.id))) /\ UNCHANGED adrift
       \/ Throws(Park(loop.id)) /\ adrift' = adrift \cup {loop.id}
    /\ loop' = Idle
    /\ UNCHANGED <<modern, flags, fresh, raised, worker, futures, closing, noted, reply>>

\* The tool has been taken out of the registry: the call is acknowledged, the task stays.
ResumeNoTool ==
    /\ LoopAt("resume")
    /\ adrift' = adrift \cup {loop.id}
    /\ loop' = Idle
    /\ UNCHANGED <<modern, tasks, flags, fresh, raised, worker, futures, closing, failures, noted, reply>>

\* The tool is called again, on the loop, with the flag of the task or a new one.
Resume ==
    /\ LoopAt("resume")
    /\ flags' = flags \cup {loop.id}
    /\ IF loop.id \in flags THEN UNCHANGED <<fresh, raised>>
       ELSE fresh' = fresh \cup {loop.id} /\ raised' = raised \ {loop.id}
    /\ GoTo("resumed")
    /\ UNCHANGED <<modern, tasks, worker, futures, closing, failures, noted, reply, adrift>>

\* How the handler leaves the task: cancelled, failed, completed or parked once more.  If the
\* first write throws, the handler tries to fail or to cancel the task; if that throws too,
\* the task and its flag are left behind.
ResumedStates(id, outcome) ==
    CASE id \in raised -> SetStatus(id, "Cancelled")
      [] id \notin raised /\ outcome = "input" -> Park(id)
      [] id \notin raised /\ outcome = "result" -> Update(id, "Completed")
      [] OTHER -> Fail(id)

ResumeEnds(outcome) ==
    /\ LoopAt("resumed")
    /\ LET id == loop.id IN
       \/ /\ Applied(id, ResumedStates(id, outcome)) \/ Refused(ResumedStates(id, outcome))
          /\ flags' = IF id \notin raised /\ outcome = "input" THEN flags ELSE flags \ {id}
          /\ UNCHANGED adrift
       \/ /\ MayThrow(1) /\ outcome \in {"result", "input"}
          /\ \E s \in IF id \in raised THEN SetStatus(id, "Cancelled") ELSE Fail(id) :
                tasks' = [tasks EXCEPT ![id] = s]
          /\ flags' = flags \ {id}
          /\ UNCHANGED adrift
       \/ /\ MayThrow(IF outcome \in {"result", "input"} THEN 2 ELSE 1)
          /\ adrift' = adrift \cup {id}
          /\ UNCHANGED <<tasks, flags>>
    /\ loop' = Idle
    /\ UNCHANGED <<modern, fresh, raised, worker, futures, closing, noted, reply>>

--------------------------------------------------------------------------------
(* The message loop: tasks/cancel *)

CancelRead(id) ==
    /\ Free /\ Known(id)
    /\ loop' = [Idle EXCEPT !.id = id, !.at = "flag", !.ended = Terminal(tasks[id])]
    /\ UNCHANGED <<modern, tasks, flags, fresh, raised, worker, futures, closing, failures,
                   noted, reply, adrift>>

Answer(how) == reply' = [reply EXCEPT ![loop.id] = how] /\ loop' = Idle

RaiseMutant(id) == UNCHANGED raised /\ flags' = flags \ {id}

Raise(id) ==
    /\ raised' = IF id \in flags THEN raised \cup {id} ELSE raised
    /\ flags' = flags \ {id}

\* The flag goes up, and a task that had ended when it was read is done with.
CancelFlag ==
    /\ LoopAt("flag")
    /\ Raise(loop.id)
    /\ IF loop.ended THEN Answer("ack") ELSE GoTo("cancel") /\ UNCHANGED reply
    /\ UNCHANGED <<modern, tasks, fresh, worker, futures, closing, failures, noted, adrift>>

CancelWrite ==
    /\ LoopAt("cancel")
    /\ \/ Applied(loop.id, Cancel(loop.id)) /\ GoTo("cancelled") /\ UNCHANGED reply
       \/ Refused(Cancel(loop.id)) /\ Answer("refused")
       \/ Throws(Cancel(loop.id)) /\ loop' = Idle /\ UNCHANGED reply
    /\ UNCHANGED <<modern, flags, fresh, raised, worker, futures, closing, noted, adrift>>

CancelNotify ==
    /\ LoopAt("cancelled")
    /\ Notify(loop.id, "Cancelled")
    /\ Answer("ack")
    /\ UNCHANGED <<modern, tasks, flags, fresh, raised, worker, futures, closing, failures, adrift>>

--------------------------------------------------------------------------------
(* The worker *)

workerUnchanged == <<modern, loop, futures, closing, reply>>

WorkerAt(id, place) == worker[id].at = place

Go(id, place, guarded) == worker' = [worker EXCEPT ![id].at = place, ![id].guarded = guarded]

Stop(id) == worker' = [worker EXCEPT ![id] = [at |-> "done", guarded |-> FALSE, status |-> "Working"]]

\* A throw in the try block is caught; elsewhere it ends the thread, and the flag stays.
Thrown(id) ==
    IF worker[id].guarded
    THEN Go(id, "caught", FALSE) /\ UNCHANGED adrift
    ELSE Stop(id) /\ adrift' = adrift \cup {id}

\* The tool returns or throws, and the flag is read.
ToolEnds(id, outcome) ==
    /\ WorkerAt(id, "tool")
    /\ CASE outcome = "error" -> Go(id, IF id \in raised THEN "cancel" ELSE "fail", FALSE)
         [] outcome # "error" /\ id \in raised -> Go(id, "cancel", TRUE)
         [] OTHER -> Go(id, IF modern /\ outcome # "result" THEN "park" ELSE "update", TRUE)
    /\ UNCHANGED <<workerUnchanged, tasks, flags, fresh, raised, failures, noted, adrift>>

\* The thread of a tool that is no task answers the call.
PlainEnds(id) ==
    /\ WorkerAt(id, "plain")
    /\ Stop(id)
    /\ UNCHANGED <<workerUnchanged, tasks, flags, fresh, raised, failures, noted, adrift>>

\* Arguments that do not fit the schema: their error is the result, written outside the try.
ArgumentsRefused(id) ==
    /\ WorkerAt(id, "tool")
    /\ Go(id, "update", FALSE)
    /\ UNCHANGED <<workerUnchanged, tasks, flags, fresh, raised, failures, noted, adrift>>

\* UpdateTask with the result; what it returns is not looked at.
WorkerUpdate(id) ==
    /\ WorkerAt(id, "update")
    /\ LET S == Update(id, "Completed") IN
       \/ (Applied(id, S) \/ Refused(S)) /\ At(id, "finish") /\ UNCHANGED adrift
       \/ Throws(S) /\ Thrown(id)
    /\ UNCHANGED <<workerUnchanged, flags, fresh, raised, noted>>

\* The status the thread is about to notify.
ToNotify(id, status) == worker' = [worker EXCEPT ![id].at = "notify", ![id].status = status]

WorkerFinishMutant(id) ==
    /\ WorkerAt(id, "finish")
    /\ LET S == SetStatus(id, "Completed") IN
       \/ (Applied(id, S) \/ Refused(S)) /\ ToNotify(id, "Completed") /\ UNCHANGED adrift
       \/ Throws(S) /\ Thrown(id)
    /\ UNCHANGED <<workerUnchanged, flags, fresh, raised, noted>>

\* finish(Completed, true): where SetTaskStatus fails, the status in the store is notified.
WorkerFinish(id) ==
    /\ WorkerAt(id, "finish")
    /\ LET S == SetStatus(id, "Completed") IN
       \/ Applied(id, S) /\ ToNotify(id, "Completed") /\ UNCHANGED adrift
       \/ Refused(S) /\ At(id, "announce") /\ UNCHANGED adrift
       \/ Throws(S) /\ Thrown(id)
    /\ UNCHANGED <<workerUnchanged, flags, fresh, raised, noted>>

\* finish(Cancelled, false)
WorkerCancel(id) ==
    /\ WorkerAt(id, "cancel")
    /\ LET S == SetStatus(id, "Cancelled") IN
       \/ (Applied(id, S) \/ Refused(S)) /\ At(id, "retire") /\ UNCHANGED adrift
       \/ Throws(S) /\ Thrown(id)
    /\ UNCHANGED <<workerUnchanged, flags, fresh, raised, noted>>

WorkerCaughtMutant(id) ==
    /\ WorkerAt(id, "caught")
    /\ At(id, IF id \in raised THEN "cancel" ELSE "retire")
    /\ UNCHANGED <<workerUnchanged, tasks, flags, fresh, raised, failures, noted, adrift>>

\* A handler of the try block: the flag decides.
WorkerCaught(id) ==
    /\ WorkerAt(id, "caught")
    /\ At(id, IF id \in raised THEN "cancel" ELSE "fail")
    /\ UNCHANGED <<workerUnchanged, tasks, flags, fresh, raised, failures, noted, adrift>>

\* fail_with
WorkerFail(id) ==
    /\ WorkerAt(id, "fail")
    /\ \/ Applied(id, Fail(id)) /\ ToNotify(id, "Failed") /\ UNCHANGED adrift
       \/ Refused(Fail(id)) /\ At(id, "announce") /\ UNCHANGED adrift
       \/ Throws(Fail(id)) /\ Thrown(id)
    /\ UNCHANGED <<workerUnchanged, flags, fresh, raised, noted>>

\* The task waits for input; its flag stays for tasks/cancel and for the next call.
WorkerPark(id) ==
    /\ WorkerAt(id, "park")
    /\ \/ Applied(id, Park(id)) /\ Stop(id) /\ UNCHANGED adrift
       \/ Refused(Park(id)) /\ At(id, "retire") /\ UNCHANGED adrift
       \/ Throws(Park(id)) /\ Thrown(id)
    /\ UNCHANGED <<workerUnchanged, flags, fresh, raised, noted>>

\* announce_stored_status reads the task, if it is still there.
WorkerAnnounce(id) ==
    /\ WorkerAt(id, "announce")
    /\ IF Known(id) THEN ToNotify(id, tasks[id].status) ELSE At(id, "retire")
    /\ UNCHANGED <<workerUnchanged, tasks, flags, fresh, raised, failures, noted, adrift>>

WorkerNotify(id) ==
    /\ WorkerAt(id, "notify")
    /\ Notify(id, worker[id].status)
    /\ At(id, "retire")
    /\ UNCHANGED <<workerUnchanged, tasks, flags, fresh, raised, failures, adrift>>

\* retire_task; the thread ends, and its flag with it.
Retired(id) == flags \ {id}

WorkerRetire(id) ==
    /\ WorkerAt(id, "retire")
    /\ flags' = Retired(id)
    /\ raised' = raised \ {id}
    /\ Stop(id)
    /\ UNCHANGED <<workerUnchanged, tasks, fresh, failures, noted, adrift>>

--------------------------------------------------------------------------------
(* Close *)

closeUnchanged == <<modern, tasks, flags, fresh, raised, worker, loop, failures, noted, reply, adrift>>

\* Close takes pending_async_mutex_ and waits for every future.
CloseBegins ==
    /\ closing = "no"
    /\ closing' = "waiting"
    /\ UNCHANGED <<closeUnchanged, futures>>

\* It forgets them, lets go of the mutex and goes on to close the session.
CloseWaited ==
    /\ closing = "waiting" /\ \A i \in futures : Ready(i)
    /\ closing' = "joining" /\ futures' = {}
    /\ UNCHANGED closeUnchanged

\* The session joins the loop, which finishes the request it is at.
CloseJoined ==
    /\ closing = "joining" /\ loop = Idle
    /\ closing' = "closed"
    /\ UNCHANGED <<closeUnchanged, futures>>

--------------------------------------------------------------------------------
LoopSteps ==
    \/ \E id \in Ids : CallTask(id) \/ CallPlain(id) \/ CallRequired(id) \/ CancelCall(id)
    \/ StartTask \/ Launch \/ Push
    \/ \E outcome \in Outcomes : RequiredEnds(outcome) \/ ResumeEnds(outcome)
    \/ \E id \in Ids : \E kind \in Kinds : UpdateRead(id, kind)
    \/ UpdateWrite \/ UpdateNotify \/ ParkAgain \/ ResumeNoTool \/ Resume
    \/ \E id \in Ids : CancelRead(id)
    \/ CancelFlag \/ CancelWrite \/ CancelNotify

WorkerSteps(id) ==
    \/ \E outcome \in Outcomes : ToolEnds(id, outcome)
    \/ ArgumentsRefused(id) \/ PlainEnds(id)
    \/ WorkerUpdate(id) \/ WorkerFinish(id) \/ WorkerCancel(id) \/ WorkerCaught(id)
    \/ WorkerFail(id) \/ WorkerPark(id) \/ WorkerAnnounce(id) \/ WorkerNotify(id)
    \/ WorkerRetire(id)

Next ==
    \/ LoopSteps
    \/ \E id \in Ids : WorkerSteps(id)
    \/ CloseBegins \/ CloseWaited \/ CloseJoined

Spec == Init /\ [][Next]_vars

--------------------------------------------------------------------------------
(* Properties *)

(* Loop and worker may both notify how a task ended.  They never tell the client two     *)
(* different endings, and none that the store does not have.                             *)
NoticesAgree ==
    \A id \in Ids : \A status \in noted[id] :
        /\ noted[id] = {status}
        /\ Known(id) => tasks[id].status = status

(* A tasks/cancel that was acknowledged holds: the task has ended or is gone, and a tool  *)
(* that still works for it finds its flag raised.                                         *)
CancelHolds ==
    \A id \in Ids : reply[id] = "ack" =>
        /\ Known(id) => Terminal(tasks[id])
        /\ worker[id].at = "tool" => id \in raised

(* A task that is pending or working has a thread that will end or park it, or the loop    *)
(* has it in hand, unless it is adrift: a write for it threw, a client set it to working   *)
(* by hand while it was parked, or its tool was taken out of the registry.                 *)
NobodyForgotten ==
    \A id \in Ids :
        Known(id) /\ tasks[id].status \in {"Pending", "Working"}
          => Running(id) \/ loop.id = id \/ id \in adrift

(* The flag of a task that has ended is dropped as soon as its thread is gone, unless the  *)
(* task is adrift.                                                                         *)
FlagsRetired ==
    \A id \in flags :
        Known(id) /\ Terminal(tasks[id]) => Running(id) \/ loop.id = id \/ id \in adrift

(* A tool that runs has its future in the list, or the loop is about to put it there:      *)
(* neither the pruning of ready futures nor Close's clear loses one.  This does not say    *)
(* that Close waits for the tool: a future may come into the list behind Close's look.     *)
ToolsAreHeld ==
    \A id \in Ids : Running(id) => id \in futures \/ (LoopAt("push") /\ loop.id = id)

(* Nothing is left with nobody in charge of it: no task and no flag but of a task that is  *)
(* adrift, and no future of a running tool.                                               *)
NothingLeftBehind == TypeOK /\ NobodyForgotten /\ FlagsRetired /\ ToolsAreHeld
================================================================================
