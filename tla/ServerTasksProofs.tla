---------------------------- MODULE ServerTasksProofs --------------------------
(***************************************************************************)
(* Proofs about ServerTasks for any number of tasks and of failed writes.  *)
(***************************************************************************)
EXTENDS ServerTasks, TLAPS

--------------------------------------------------------------------------------
(* The inductive invariant *)

\* An answer to the task's questions has been taken, and the loop runs the tool for it.
Resuming(id) ==
  /\ loop.id = id
  /\ loop.at \in {"resume", "resumed"} \/ (loop.at = "updated" /\ loop.kind = "input")

\* What the client has been told of the end of a task, and what somebody is about to tell it.
Told(id, end) ==
  \/ end \in noted[id]
  \/ worker[id].at = "notify" /\ worker[id].status = end
  \/ loop.id = id /\ loop.at = "cancelled" /\ end = "Cancelled"
  \/ loop.id = id /\ loop.at = "updated" /\ loop.kind = "result" /\ end = "Completed"

(* Every ending that is told, or about to be, is the one the store has, and there is one only.     *)
OneEnding ==
  \A id \in Ids : \A end \in Ends : Told(id, end) =>
     /\ Known(id) => tasks[id].status = end
     /\ \A other \in Ends : Told(id, other) => other = end

(* An id without a thread has no past: no task, or one just made, no notice, no reply.             *)
NoPast ==
  \A id \in Ids : worker[id].at = "none" /\ id \notin adrift =>
     /\ noted[id] = {} /\ reply[id] = "none"
     /\ Known(id) => loop.id = id /\ loop.at = "notify"
     /\ loop.id = id => loop.at \in {"create", "notify", "required"}

(* What the loop may rely on at each of its steps, whatever the threads do meanwhile.              *)
LoopHolds ==
  /\ loop.at # "idle" => loop.id \in Ids
  /\ loop.at \in {"create", "notify", "required"} => worker[loop.id].at = "none" /\ loop.id \notin adrift
  /\ loop.at \in {"create", "required"} => ~Known(loop.id)
  /\ loop.at = "notify" => Known(loop.id) /\ tasks[loop.id].status = "Working"
  /\ loop.at \in {"create", "notify"} => loop.id \in flags
  /\ loop.at \in {"required", "cancel", "cancelled"} => loop.id \notin flags
  /\ loop.at \in {"cancel", "cancelled"} => (worker[loop.id].at = "tool" => loop.id \in raised)
  /\ loop.at = "cancelled" \/ (loop.at = "flag" /\ loop.ended) => (Known(loop.id) => Terminal(tasks[loop.id]))
  /\ Resuming(loop.id) =>
       worker[loop.id].at = "done" /\ Known(loop.id) /\ tasks[loop.id].status = "Working"

(* What the place of a thread says of its task and its flag.                                       *)
WorkerHolds ==
  \A id \in Ids :
     /\ worker[id].at = "plain" => ~Known(id)
     /\ worker[id].at \in {"announce", "notify", "retire"} => (Known(id) => Terminal(tasks[id]))
     /\ Known(id) /\ tasks[id].status = "InputRequired" => worker[id].at = "done"
     /\ worker[id].at = "tool" => id \in flags \cup raised

(* Somebody is in charge of every task that is not at an end and of every flag of one that is.     *)
InCharge ==
  \A id \in Ids :
     /\ Known(id) /\ tasks[id].status \in {"Pending", "Working"} =>
          Running(id) \/ id \in adrift \/ (loop.id = id /\ loop.at = "notify") \/ Resuming(id)
     /\ id \in flags /\ Known(id) /\ Terminal(tasks[id]) => Running(id) \/ id \in adrift

IInv == TypeOK /\ OneEnding /\ NoPast /\ LoopHolds /\ WorkerHolds /\ InCharge /\ CancelHolds /\ ToolsAreHeld

--------------------------------------------------------------------------------
(* What the operators of the model do to the variables *)

WorkerType == [at : Places, guarded : BOOLEAN, status : Statuses]

LoopType == [id : Ids \cup {Nobody}, at : Steps, kind : Kinds, ended : BOOLEAN]

(* The type invariant, variable by variable. *)
LEMMA Types ==
  TypeOK <=>
    /\ modern \in BOOLEAN
    /\ tasks \in [Ids -> States \cup {Absent}]
    /\ flags \subseteq Ids /\ fresh \subseteq Ids /\ raised \subseteq Ids
    /\ worker \in [Ids -> WorkerType]
    /\ loop \in LoopType
    /\ futures \subseteq Ids
    /\ closing \in {"no", "waiting", "joining", "closed"}
    /\ failures \in Nat
    /\ noted \in [Ids -> SUBSET Ends]
    /\ reply \in [Ids -> {"none", "ack", "refused"}]
    /\ adrift \subseteq Ids
BY Zenon DEF TypeOK, WorkerType, LoopType

\* One task has been given this status, and kept it if it had ended.
Wrote(id, status) ==
  /\ tasks' \in [Ids -> States \cup {Absent}]
  /\ \A i \in Ids \ {id} : tasks'[i] = tasks[i]
  /\ Known(id) /\ tasks[id] \in States
  /\ tasks'[id] \in States /\ tasks'[id] # Absent /\ tasks'[id].status = status
  /\ Terminal(tasks[id]) => tasks[id].status = status

(* What each writing method of the store demands of a task, and what it leaves.                    *)
LEMMA StoreStates ==
  ASSUME TypeOK, NEW id \in Ids
  PROVE  /\ Known(id) => tasks[id] \in States
         /\ \A status \in {"Working", "Completed"} : \A s \in Update(id, status) :
               s \in States /\ s.status = status /\ Known(id) /\ ~Terminal(tasks[id])
         /\ Update(id, "Completed") # {} => tasks[id].status # "InputRequired"
         /\ Update(id, "Completed") = {} => (Known(id) => Terminal(tasks[id]) \/ tasks[id].status = "InputRequired")
         /\ \A status \in Ends :
               /\ \A s \in SetStatus(id, status) :
                     s \in States /\ s.status = status /\ Known(id)
                     /\ (Terminal(tasks[id]) => tasks[id].status = status)
               /\ SetStatus(id, status) = {} => (Known(id) => Terminal(tasks[id]))
         /\ \A s \in Park(id) : s \in States /\ s.status = "InputRequired" /\ Known(id) /\ ~Terminal(tasks[id])
         /\ Park(id) = {} => (Known(id) => Terminal(tasks[id]))
         /\ \A s \in Fail(id) : s \in States /\ s.status = "Failed" /\ Known(id) /\ ~Terminal(tasks[id])
         /\ Fail(id) = {} => (Known(id) => Terminal(tasks[id]))
         /\ \A s \in Cancel(id) : s \in States /\ s.status = "Cancelled" /\ Known(id) /\ ~Terminal(tasks[id])
         /\ Cancel(id) = {} => (Known(id) => Terminal(tasks[id]))
         /\ \A s \in Advance(id) :
               s \in States /\ s.status = "Working" /\ Known(id) /\ tasks[id].status = "InputRequired"
<1>1. Known(id) => tasks[id] \in States
  BY DEF TypeOK, Known
<1>2. ASSUME NEW s \in States, NEW status \in Statuses
      PROVE  [s EXCEPT !.status = status] \in States /\ [s EXCEPT !.status = status].status = status
  BY DEF States
<1>3. ASSUME Known(id), NEW status \in Statuses
      PROVE  \A s \in Becomes(tasks[id], status) : s \in States /\ s.status = status
  BY <1>1, <1>2, <1>3 DEF Becomes
<1>4. \A status : Becomes(tasks[id], status) # {}
  BY DEF Becomes
<1>5. {"Pending", "Working", "Completed", "Failed", "Cancelled", "InputRequired"} = Statuses /\ Ends \subseteq Statuses
  BY DEF Statuses, Ends
<1>6. \A status \in {"Working", "Completed"} : \A s \in Update(id, status) :
         s \in States /\ s.status = status /\ Known(id) /\ ~Terminal(tasks[id])
  BY <1>3, <1>5 DEF Update, UpdateTask
<1>7. Update(id, "Completed") # {} => tasks[id].status # "InputRequired"
  <2> SUFFICES ASSUME NEW s \in Update(id, "Completed"), tasks[id].status = "InputRequired" PROVE FALSE
    OBVIOUS
  <2>1. Known(id) /\ s \in UpdateTask(tasks[id]) /\ s.status = "Completed"
    BY DEF Update
  <2>2. s \in Becomes(tasks[id], "Working")
    BY <2>1 DEF UpdateTask
  <2> QED BY <2>1, <2>2, <1>3, <1>5
<1>8. Update(id, "Completed") = {} => (Known(id) => Terminal(tasks[id]) \/ tasks[id].status = "InputRequired")
  <2> SUFFICES ASSUME Known(id), ~Terminal(tasks[id]), tasks[id].status # "InputRequired"
               PROVE  Update(id, "Completed") # {}
    OBVIOUS
  <2>1. PICK s \in Becomes(tasks[id], "Completed") : TRUE
    BY <1>4
  <2>2. s.status = "Completed"
    BY <1>3, <1>5
  <2> QED BY <2>1, <2>2 DEF Update, UpdateTask
<1>9. ASSUME NEW status \in Ends
      PROVE  /\ \A s \in SetStatus(id, status) :
                   s \in States /\ s.status = status /\ Known(id)
                   /\ (Terminal(tasks[id]) => tasks[id].status = status)
             /\ SetStatus(id, status) = {} => (Known(id) => Terminal(tasks[id]))
  <2>1. ASSUME NEW s \in SetStatus(id, status)
        PROVE  s \in States /\ s.status = status /\ Known(id) /\ (Terminal(tasks[id]) => tasks[id].status = status)
    <3>1. Known(id) /\ s \in SetTaskStatus(tasks[id]) /\ s.status = status
      BY <2>1 DEF SetStatus
    <3>2. PICK new \in IF Terminal(tasks[id]) THEN {tasks[id].status} ELSE Statuses : s \in Becomes(tasks[id], new)
      BY <3>1 DEF SetTaskStatus
    <3>3. tasks[id].status \in Statuses
      BY <3>1, <1>1 DEF States
    <3>4. new \in Statuses
      BY <3>2, <3>3
    <3> QED BY <3>1, <3>2, <3>4, <1>3
  <2>2. ASSUME Known(id), ~Terminal(tasks[id]) PROVE SetStatus(id, status) # {}
    <3>1. PICK s \in Becomes(tasks[id], status) : TRUE
      BY <1>4
    <3>2. s.status = status
      BY <2>2, <1>3, <1>5
    <3>3. s \in SetTaskStatus(tasks[id])
      BY <2>2, <1>5 DEF SetTaskStatus
    <3> QED BY <2>2, <3>2, <3>3 DEF SetStatus
  <2> QED BY <2>1, <2>2
<1>10. \A s \in Park(id) : s \in States /\ s.status = "InputRequired" /\ Known(id) /\ ~Terminal(tasks[id])
  BY <1>3, <1>5 DEF Park, ParkTaskForInput
<1>11. \A s \in Fail(id) : s \in States /\ s.status = "Failed" /\ Known(id) /\ ~Terminal(tasks[id])
  BY <1>3, <1>5 DEF Fail, FailTask
<1>12. \A s \in Cancel(id) : s \in States /\ s.status = "Cancelled" /\ Known(id) /\ ~Terminal(tasks[id])
  BY <1>3, <1>5 DEF Cancel, CancelTask
<1>13. \A s \in Advance(id) :
         s \in States /\ s.status = "Working" /\ Known(id) /\ tasks[id].status = "InputRequired"
  BY <1>3, <1>5 DEF Advance, AdvanceTaskWithInput
<1>14. /\ Park(id) = {} => (Known(id) => Terminal(tasks[id]))
       /\ Fail(id) = {} => (Known(id) => Terminal(tasks[id]))
       /\ Cancel(id) = {} => (Known(id) => Terminal(tasks[id]))
  BY <1>4 DEF Park, ParkTaskForInput, Fail, FailTask, Cancel, CancelTask
<1> QED BY <1>1, <1>6, <1>7, <1>8, <1>9, <1>10, <1>11, <1>12, <1>13, <1>14

(* A write that has been applied gives the task its new state.                                     *)
LEMMA AppliedWrites ==
  ASSUME TypeOK, NEW id \in Ids, NEW s \in States, Known(id),
         Terminal(tasks[id]) => tasks[id].status = s.status,
         tasks' = [tasks EXCEPT ![id] = s]
  PROVE  Wrote(id, s.status)
<1>1. tasks \in [Ids -> States \cup {Absent}] /\ s # Absent
  BY StatesAssumption DEF TypeOK
<1> QED BY <1>1 DEF Wrote, Known

(* A thread moves, and no other with it.                                                           *)
LEMMA WorkerMoves ==
  ASSUME TypeOK, NEW id \in Ids, NEW place \in Places
  PROVE  /\ At(id, place) =>
              worker' \in [Ids -> WorkerType] /\ worker'[id].at = place
              /\ \A i \in Ids \ {id} : worker'[i] = worker[i]
         /\ \A guarded \in BOOLEAN : Go(id, place, guarded) =>
              worker' \in [Ids -> WorkerType] /\ worker'[id].at = place
              /\ \A i \in Ids \ {id} : worker'[i] = worker[i]
         /\ \A status \in Statuses : ToNotify(id, status) =>
              worker' \in [Ids -> WorkerType] /\ worker'[id].at = "notify" /\ worker'[id].status = status
              /\ \A i \in Ids \ {id} : worker'[i] = worker[i]
         /\ Stop(id) =>
              worker' \in [Ids -> WorkerType] /\ worker'[id].at = "done"
              /\ \A i \in Ids \ {id} : worker'[i] = worker[i]
<1>0. worker \in [Ids -> WorkerType]
  BY Types
<1>1. worker[id] \in WorkerType /\ "done" \in Places /\ "notify" \in Places /\ "Working" \in Statuses
  BY <1>0 DEF Places, Statuses
<1>2. ASSUME NEW d \in WorkerType, worker' = [worker EXCEPT ![id] = d]
      PROVE  worker' \in [Ids -> WorkerType] /\ worker'[id] = d /\ \A i \in Ids \ {id} : worker'[i] = worker[i]
  BY <1>0, <1>2
<1>3. ASSUME At(id, place)
      PROVE  worker' \in [Ids -> WorkerType] /\ worker'[id].at = place /\ \A i \in Ids \ {id} : worker'[i] = worker[i]
  <2>1. worker' = [worker EXCEPT ![id] = [worker[id] EXCEPT !.at = place]]
    BY <1>3, <1>0 DEF At
  <2>2. [worker[id] EXCEPT !.at = place] \in WorkerType /\ [worker[id] EXCEPT !.at = place].at = place
    BY <1>1 DEF WorkerType
  <2> QED BY <2>1, <2>2, <1>2
<1>4. ASSUME NEW guarded \in BOOLEAN, Go(id, place, guarded)
      PROVE  worker' \in [Ids -> WorkerType] /\ worker'[id].at = place /\ \A i \in Ids \ {id} : worker'[i] = worker[i]
  <2> DEFINE d == [[worker[id] EXCEPT !.at = place] EXCEPT !.guarded = guarded]
  <2>1. worker' = [worker EXCEPT ![id] = d]
    BY <1>4, <1>0 DEF Go
  <2>2. d \in WorkerType /\ d.at = place
    BY <1>1, <1>4 DEF WorkerType
  <2> HIDE DEF d
  <2> QED BY <2>1, <2>2, <1>2
<1>5. ASSUME NEW status \in Statuses, ToNotify(id, status)
      PROVE  worker' \in [Ids -> WorkerType] /\ worker'[id].at = "notify" /\ worker'[id].status = status
             /\ \A i \in Ids \ {id} : worker'[i] = worker[i]
  <2> DEFINE d == [[worker[id] EXCEPT !.at = "notify"] EXCEPT !.status = status]
  <2>1. worker' = [worker EXCEPT ![id] = d]
    BY <1>5, <1>0 DEF ToNotify
  <2>2. d \in WorkerType /\ d.at = "notify" /\ d.status = status
    BY <1>1, <1>5 DEF WorkerType
  <2> HIDE DEF d
  <2> QED BY <2>1, <2>2, <1>2
<1>6. ASSUME Stop(id)
      PROVE  worker' \in [Ids -> WorkerType] /\ worker'[id].at = "done" /\ \A i \in Ids \ {id} : worker'[i] = worker[i]
  BY <1>6, <1>1, <1>2 DEF Stop, WorkerType
<1> QED BY <1>3, <1>4, <1>5, <1>6

(* The loop goes on to another step of its request, or is done with it.                            *)
LEMMA LoopMoves ==
  ASSUME TypeOK
  PROVE  /\ \A place \in Steps : GoTo(place) =>
              loop' \in LoopType /\ loop'.id = loop.id /\ loop'.at = place
              /\ loop'.kind = loop.kind /\ loop'.ended = loop.ended
         /\ Idle \in LoopType /\ Idle.id = Nobody /\ Idle.at = "idle" /\ Idle.kind = "bare" /\ Idle.ended = FALSE
         /\ Nobody \notin Ids
         /\ loop \in LoopType
<1>1. loop \in LoopType
  BY Types
<1>2. Idle \in LoopType /\ Idle.id = Nobody /\ Idle.at = "idle" /\ Idle.kind = "bare" /\ Idle.ended = FALSE
  BY DEF Idle, LoopType, Steps, Kinds
<1>3. ASSUME NEW place \in Steps, GoTo(place)
      PROVE  loop' \in LoopType /\ loop'.id = loop.id /\ loop'.at = place
             /\ loop'.kind = loop.kind /\ loop'.ended = loop.ended
  BY <1>1, <1>3 DEF GoTo, LoopType
<1> QED BY <1>1, <1>2, <1>3, ServerAssumption

(* Notify keeps what has been told and adds an ending.                                             *)
LEMMA Notified ==
  ASSUME TypeOK, NEW id \in Ids, NEW status, Notify(id, status)
  PROVE  /\ noted' \in [Ids -> SUBSET Ends]
         /\ noted'[id] = noted[id] \cup ({status} \cap Ends)
         /\ \A i \in Ids \ {id} : noted'[i] = noted[i]
BY DEF Notify, TypeOK

--------------------------------------------------------------------------------
(* Two rules that every step keeps *)

\* Whatever is told anew is what the store has after the step.
Honest == \A id \in Ids : \A end \in Ends :
             Told(id, end)' => Told(id, end) \/ (Known(id)' /\ tasks'[id].status = end)

\* A task that has ended keeps its ending; a task that is made has an id of which nothing is told.
Steady == \A id \in Ids : Known(id)' =>
             \/ Known(id) /\ (Terminal(tasks[id]) => tasks'[id].status = tasks[id].status)
             \/ ~Known(id) /\ \A end \in Ends : ~Told(id, end)

(* The two rules keep the endings that are told to one, the one of the store.                      *)
LEMMA OneEndingKept ==
  ASSUME OneEnding, Honest, Steady
  PROVE  OneEnding'
<1> SUFFICES ASSUME NEW id \in Ids, NEW end \in Ends, Told(id, end)'
             PROVE  /\ Known(id)' => tasks'[id].status = end
                    /\ \A other \in Ends : Told(id, other)' => other = end
  BY DEF OneEnding
<1> HIDE DEF Told
<1>1. \A e \in Ends : Told(id, e)' => Told(id, e) \/ (Known(id)' /\ tasks'[id].status = e)
  BY DEF Honest
<1>2. \A e \in Ends : Told(id, e) => /\ Known(id) => tasks[id].status = e
                                    /\ \A other \in Ends : Told(id, other) => other = e
  BY DEF OneEnding
<1>3. \A e \in Ends : Told(id, e) /\ Known(id)' => tasks'[id].status = e
  <2>1. \A e \in Ends : Known(id) /\ tasks[id].status = e => Terminal(tasks[id])
    BY DEF Terminal, Ends
  <2> QED BY <2>1, <1>2 DEF Steady
<1> QED BY <1>1, <1>2, <1>3

(* A write keeps the endings of all tasks, and makes none.                                         *)
LEMMA WroteIsSteady ==
  ASSUME NEW id \in Ids, NEW status, Wrote(id, status) PROVE Steady
BY DEF Wrote, Steady, Known

--------------------------------------------------------------------------------
(* The thread of a task *)

(* What every step of the thread of a task keeps to.                                               *)
WorkerRule(id) ==
  /\ UNCHANGED <<modern, loop, futures, closing, reply, fresh>>
  /\ worker[id].at \notin {"none", "done"} /\ worker'[id].at \notin {"none", "plain", "tool"}
  /\ worker' \in [Ids -> WorkerType] /\ \A i \in Ids \ {id} : worker'[i] = worker[i]
  /\ tasks' \in [Ids -> States \cup {Absent}] /\ \A i \in Ids \ {id} : tasks'[i] = tasks[i]
  /\ \/ tasks'[id] = tasks[id]
     \/ /\ Known(id) /\ Known(id)' /\ (Terminal(tasks[id]) => tasks'[id].status = tasks[id].status)
        /\ Terminal(tasks'[id]) \/ (tasks'[id].status = "InputRequired" /\ worker'[id].at = "done")
  /\ flags' \in {flags, flags \ {id}} /\ raised' \in {raised, raised \ {id}}
  /\ worker'[id].at # "done" => raised' = raised /\ flags' = flags
  /\ failures' \in Nat
  /\ noted' \in [Ids -> SUBSET Ends] /\ \A i \in Ids \ {id} : noted'[i] = noted[i]
  /\ noted'[id] \subseteq {end \in Ends : Told(id, end)}
  /\ adrift' \in {adrift, adrift \cup {id}}
  /\ worker'[id].at = "done" => \/ id \in adrift' \/ ~Known(id)'
                                \/ tasks'[id].status = "InputRequired"
                                \/ id \notin flags' /\ Terminal(tasks'[id])
  /\ worker'[id].at \in {"announce", "notify", "retire"} => (Known(id)' => Terminal(tasks'[id]))
  /\ worker'[id].at = "notify" => Known(id)' /\ worker'[id].status = tasks'[id].status

(* A throw ends the thread, with nobody in charge of the task, or is caught in its try block.      *)
LEMMA ThrownMoves ==
  ASSUME TypeOK, NEW id \in Ids, Thrown(id)
  PROVE  /\ worker' \in [Ids -> WorkerType] /\ \A i \in Ids \ {id} : worker'[i] = worker[i]
         /\ \/ worker'[id].at = "caught" /\ adrift' = adrift
            \/ worker'[id].at = "done" /\ adrift' = adrift \cup {id}
<1>1. "caught" \in Places /\ FALSE \in BOOLEAN
  BY DEF Places
<1> QED BY <1>1, WorkerMoves DEF Thrown

(* A write of the store: applied, refused or thrown.                                               *)
LEMMA StoreWrites ==
  ASSUME TypeOK, NEW id \in Ids, NEW S, NEW status \in Statuses,
         \A s \in S : s \in States /\ s.status = status /\ Known(id)
                      /\ (Terminal(tasks[id]) => tasks[id].status = status)
  PROVE  /\ Applied(id, S) => Wrote(id, status) /\ failures' \in Nat
         /\ Refused(S) => S = {} /\ tasks' = tasks /\ failures' \in Nat
         /\ Throws(S) => tasks' = tasks /\ failures' \in Nat
<1>0. failures \in Nat /\ MaxFailures \in Nat
  BY ServerAssumption DEF TypeOK
<1>1. ASSUME Applied(id, S) PROVE Wrote(id, status) /\ failures' \in Nat
  <2>1. PICK s \in S : tasks' = [tasks EXCEPT ![id] = s] /\ failures' = failures
    BY <1>1 DEF Applied
  <2>2. s \in States /\ s.status = status /\ Known(id) /\ (Terminal(tasks[id]) => tasks[id].status = status)
    OBVIOUS
  <2>3. Wrote(id, s.status)
    BY <2>1, <2>2, AppliedWrites
  <2> QED BY <2>1, <2>2, <2>3, <1>0
<1>2. ASSUME Throws(S) PROVE tasks' = tasks /\ failures' \in Nat
  BY <1>2, <1>0 DEF Throws, MayThrow
<1> QED BY <1>0, <1>1, <1>2 DEF Refused

(* Every step of a thread keeps to the rule.                                                       *)
LEMMA WorkerKeepsRule ==
  ASSUME TypeOK, OneEnding, WorkerHolds, NEW id \in Ids, WorkerSteps(id)
  PROVE  WorkerRule(id)
<1> DEFINE Moved(place) == /\ worker' \in [Ids -> WorkerType] /\ worker'[id].at = place
                           /\ \A i \in Ids \ {id} : worker'[i] = worker[i]
           Kept(S) == S = {} => (Known(id) => Terminal(tasks[id]))
<1>0. /\ tasks \in [Ids -> States \cup {Absent}] /\ failures \in Nat /\ noted \in [Ids -> SUBSET Ends]
      /\ adrift \subseteq Ids /\ Ends \subseteq Statuses /\ modern \in BOOLEAN
      /\ TRUE \in BOOLEAN /\ FALSE \in BOOLEAN
  BY DEF TypeOK, Ends, Statuses
<1>1. {"caught", "fail", "cancel", "park", "update", "finish", "retire", "announce", "notify", "done"} \subseteq Places
  BY DEF Places
<1>2. ASSUME NEW place \in Places
      PROVE  /\ At(id, place) => Moved(place)
             /\ \A guarded \in BOOLEAN : Go(id, place, guarded) => Moved(place)
             /\ \A status \in Statuses : ToNotify(id, status) => Moved("notify") /\ worker'[id].status = status
             /\ Stop(id) => Moved("done")
  BY WorkerMoves
<1>3. \A end \in noted[id] : end \in Ends /\ Told(id, end)
  BY <1>0 DEF Told
<1>4. Known(id) => tasks[id] \in States
  BY StoreStates
<1>5. ASSUME NEW status \in Statuses PROVE Wrote(id, status) => tasks' \in [Ids -> States \cup {Absent}]
            /\ (\A i \in Ids \ {id} : tasks'[i] = tasks[i]) /\ Known(id) /\ Known(id)'
            /\ (Terminal(tasks[id]) => tasks'[id].status = tasks[id].status) /\ tasks'[id].status = status
            /\ (status \in Ends => Terminal(tasks'[id]))
  BY DEF Wrote, Known, Terminal, Ends
<1>6. ASSUME WorkerAt(id, "tool"), UNCHANGED <<workerUnchanged, tasks, flags, fresh, raised, failures, noted, adrift>>,
             NEW place \in {"cancel", "fail", "park", "update"}, Moved(place)
      PROVE  WorkerRule(id)
  BY <1>6, <1>0, <1>3, Zenon DEF WorkerRule, WorkerAt, workerUnchanged
<1>7. CASE \E outcome \in Outcomes : ToolEnds(id, outcome)
  <2>1. PICK outcome \in Outcomes : ToolEnds(id, outcome)
    BY <1>7
  <2>2. \E place \in {"cancel", "fail", "park", "update"} : \E guarded \in BOOLEAN : Go(id, place, guarded)
    BY <2>1, <1>0 DEF ToolEnds
  <2>3. \E place \in {"cancel", "fail", "park", "update"} : Moved(place)
    BY <2>2, <1>1, <1>2
  <2> QED BY <2>1, <2>3, <1>6 DEF ToolEnds
<1>8. CASE ArgumentsRefused(id)
  BY <1>8, <1>0, <1>1, <1>2, <1>6 DEF ArgumentsRefused
<1>9. CASE PlainEnds(id)
  <2>1. Moved("done")
    BY <1>9, <1>1, <1>2 DEF PlainEnds
  <2>2. worker[id].at = "plain" /\ UNCHANGED <<workerUnchanged, tasks, flags, fresh, raised, failures, noted, adrift>>
    BY <1>9 DEF PlainEnds, WorkerAt
  <2>3. ~Known(id)
    BY <2>2 DEF WorkerHolds
  <2> QED BY <2>1, <2>2, <2>3, <1>0, <1>3 DEF WorkerRule, workerUnchanged, Known
<1> DEFINE Alone == /\ worker[id].at \notin {"none", "done"}
                    /\ UNCHANGED <<workerUnchanged, flags, fresh, raised, noted>> /\ failures' \in Nat
<1>10. ASSUME Alone, tasks' = tasks, Thrown(id) PROVE WorkerRule(id)
  BY <1>10, <1>0, <1>3, ThrownMoves DEF WorkerRule, workerUnchanged
<1>11. ASSUME Alone, tasks' = tasks, UNCHANGED adrift, NEW place \in {"finish", "retire", "announce"}, Moved(place),
              place \in {"retire", "announce"} => (Known(id) => Terminal(tasks[id]))
       PROVE  WorkerRule(id)
  BY <1>11, <1>0, <1>3 DEF WorkerRule, workerUnchanged, Known
<1>12. ASSUME Alone, NEW status \in Ends, Wrote(id, status), UNCHANGED adrift,
              NEW place \in {"finish", "retire", "notify"}, Moved(place),
              place = "notify" => worker'[id].status = status
       PROVE  WorkerRule(id)
  BY <1>12, <1>0, <1>3, <1>5 DEF WorkerRule, workerUnchanged
<1>13. {"Completed", "Failed", "Cancelled"} \subseteq Ends
  BY DEF Ends
<1>14. CASE WorkerUpdate(id)
  <2> DEFINE S == Update(id, "Completed")
  <2>1. /\ \A s \in S : s \in States /\ s.status = "Completed" /\ Known(id)
                        /\ (Terminal(tasks[id]) => tasks[id].status = "Completed")
        /\ "Completed" \in Statuses /\ "Completed" \in Ends
    BY <1>0, <1>13, StoreStates
  <2>2. worker[id].at = "update" /\ UNCHANGED <<workerUnchanged, flags, fresh, raised, noted>>
    BY <1>14 DEF WorkerUpdate, WorkerAt
  <2>3. \/ Applied(id, S) /\ At(id, "finish") /\ UNCHANGED adrift
        \/ Refused(S) /\ At(id, "finish") /\ UNCHANGED adrift
        \/ Throws(S) /\ Thrown(id)
    BY <1>14 DEF WorkerUpdate
  <2>4. S = {} => (Known(id) => Terminal(tasks[id]) \/ tasks[id].status = "InputRequired")
    BY <1>13, StoreStates
  <2> HIDE DEF S
  <2>5. /\ Applied(id, S) => Wrote(id, "Completed") /\ failures' \in Nat
        /\ Refused(S) => S = {} /\ tasks' = tasks /\ failures' \in Nat
        /\ Throws(S) => tasks' = tasks /\ failures' \in Nat
    BY <2>1, StoreWrites
  <2>6. CASE Applied(id, S) /\ At(id, "finish") /\ UNCHANGED adrift
    <3>1. Moved("finish")
      BY <2>1, <2>6, <1>1, <1>2
    <3> QED BY <3>1, <2>1, <2>2, <2>5, <2>6, <1>12
  <2>7. CASE Refused(S) /\ At(id, "finish") /\ UNCHANGED adrift
    <3>1. Moved("finish")
      BY <2>7, <1>1, <1>2
    <3> QED BY <3>1, <2>2, <2>4, <2>5, <2>7, <1>11
  <2>8. CASE Throws(S) /\ Thrown(id)
    BY <2>2, <2>5, <2>8, <1>10
  <2> QED BY <2>3, <2>6, <2>7, <2>8
<1>15. CASE WorkerFinish(id)
  <2> DEFINE S == SetStatus(id, "Completed")
  <2>1. /\ \A s \in S : s \in States /\ s.status = "Completed" /\ Known(id)
                        /\ (Terminal(tasks[id]) => tasks[id].status = "Completed")
        /\ "Completed" \in Statuses /\ "Completed" \in Ends
    BY <1>0, <1>13, StoreStates
  <2>2. worker[id].at = "finish" /\ UNCHANGED <<workerUnchanged, flags, fresh, raised, noted>>
    BY <1>15 DEF WorkerFinish, WorkerAt
  <2>3. \/ Applied(id, S) /\ ToNotify(id, "Completed") /\ UNCHANGED adrift
        \/ Refused(S) /\ At(id, "announce") /\ UNCHANGED adrift
        \/ Throws(S) /\ Thrown(id)
    BY <1>15 DEF WorkerFinish
  <2>4. S = {} => (Known(id) => Terminal(tasks[id]))
    BY <1>13, StoreStates
  <2> HIDE DEF S
  <2>5. /\ Applied(id, S) => Wrote(id, "Completed") /\ failures' \in Nat
        /\ Refused(S) => S = {} /\ tasks' = tasks /\ failures' \in Nat
        /\ Throws(S) => tasks' = tasks /\ failures' \in Nat
    BY <2>1, StoreWrites
  <2>6. CASE Applied(id, S) /\ ToNotify(id, "Completed") /\ UNCHANGED adrift
    <3>1. Moved("notify") /\ worker'[id].status = "Completed"
      BY <2>1, <2>6, <1>1, <1>2
    <3> QED BY <3>1, <2>1, <2>2, <2>5, <2>6, <1>12
  <2>7. CASE Refused(S) /\ At(id, "announce") /\ UNCHANGED adrift
    <3>1. Moved("announce")
      BY <2>7, <1>1, <1>2
    <3> QED BY <3>1, <2>2, <2>4, <2>5, <2>7, <1>11
  <2>8. CASE Throws(S) /\ Thrown(id)
    BY <2>2, <2>5, <2>8, <1>10
  <2> QED BY <2>3, <2>6, <2>7, <2>8
<1>16. CASE WorkerCancel(id)
  <2> DEFINE S == SetStatus(id, "Cancelled")
  <2>1. /\ \A s \in S : s \in States /\ s.status = "Cancelled" /\ Known(id)
                        /\ (Terminal(tasks[id]) => tasks[id].status = "Cancelled")
        /\ "Cancelled" \in Statuses /\ "Cancelled" \in Ends
    BY <1>0, <1>13, StoreStates
  <2>2. worker[id].at = "cancel" /\ UNCHANGED <<workerUnchanged, flags, fresh, raised, noted>>
    BY <1>16 DEF WorkerCancel, WorkerAt
  <2>3. \/ Applied(id, S) /\ At(id, "retire") /\ UNCHANGED adrift
        \/ Refused(S) /\ At(id, "retire") /\ UNCHANGED adrift
        \/ Throws(S) /\ Thrown(id)
    BY <1>16 DEF WorkerCancel
  <2>4. S = {} => (Known(id) => Terminal(tasks[id]))
    BY <1>13, StoreStates
  <2> HIDE DEF S
  <2>5. /\ Applied(id, S) => Wrote(id, "Cancelled") /\ failures' \in Nat
        /\ Refused(S) => S = {} /\ tasks' = tasks /\ failures' \in Nat
        /\ Throws(S) => tasks' = tasks /\ failures' \in Nat
    BY <2>1, StoreWrites
  <2>6. CASE Applied(id, S) /\ At(id, "retire") /\ UNCHANGED adrift
    <3>1. Moved("retire")
      BY <2>1, <2>6, <1>1, <1>2
    <3> QED BY <3>1, <2>1, <2>2, <2>5, <2>6, <1>12
  <2>7. CASE Refused(S) /\ At(id, "retire") /\ UNCHANGED adrift
    <3>1. Moved("retire")
      BY <2>7, <1>1, <1>2
    <3> QED BY <3>1, <2>2, <2>4, <2>5, <2>7, <1>11
  <2>8. CASE Throws(S) /\ Thrown(id)
    BY <2>2, <2>5, <2>8, <1>10
  <2> QED BY <2>3, <2>6, <2>7, <2>8
<1>17. CASE WorkerFail(id)
  <2> DEFINE S == Fail(id)
  <2>1. /\ \A s \in S : s \in States /\ s.status = "Failed" /\ Known(id)
                        /\ (Terminal(tasks[id]) => tasks[id].status = "Failed")
        /\ "Failed" \in Statuses /\ "Failed" \in Ends
    BY <1>0, <1>13, StoreStates
  <2>2. worker[id].at = "fail" /\ UNCHANGED <<workerUnchanged, flags, fresh, raised, noted>>
    BY <1>17 DEF WorkerFail, WorkerAt
  <2>3. \/ Applied(id, S) /\ ToNotify(id, "Failed") /\ UNCHANGED adrift
        \/ Refused(S) /\ At(id, "announce") /\ UNCHANGED adrift
        \/ Throws(S) /\ Thrown(id)
    BY <1>17 DEF WorkerFail
  <2>4. S = {} => (Known(id) => Terminal(tasks[id]))
    BY <1>13, StoreStates
  <2> HIDE DEF S
  <2>5. /\ Applied(id, S) => Wrote(id, "Failed") /\ failures' \in Nat
        /\ Refused(S) => S = {} /\ tasks' = tasks /\ failures' \in Nat
        /\ Throws(S) => tasks' = tasks /\ failures' \in Nat
    BY <2>1, StoreWrites
  <2>6. CASE Applied(id, S) /\ ToNotify(id, "Failed") /\ UNCHANGED adrift
    <3>1. Moved("notify") /\ worker'[id].status = "Failed"
      BY <2>1, <2>6, <1>1, <1>2
    <3> QED BY <3>1, <2>1, <2>2, <2>5, <2>6, <1>12
  <2>7. CASE Refused(S) /\ At(id, "announce") /\ UNCHANGED adrift
    <3>1. Moved("announce")
      BY <2>7, <1>1, <1>2
    <3> QED BY <3>1, <2>2, <2>4, <2>5, <2>7, <1>11
  <2>8. CASE Throws(S) /\ Thrown(id)
    BY <2>2, <2>5, <2>8, <1>10
  <2> QED BY <2>3, <2>6, <2>7, <2>8
<1>18. CASE WorkerCaught(id)
  <2>1. /\ worker[id].at = "caught" /\ At(id, IF id \in raised THEN "cancel" ELSE "fail")
        /\ UNCHANGED <<workerUnchanged, tasks, flags, fresh, raised, failures, noted, adrift>>
    BY <1>18 DEF WorkerCaught, WorkerAt
  <2>2. Moved("cancel") \/ Moved("fail")
    BY <2>1, <1>1, <1>2
  <2> QED BY <2>1, <2>2, <1>0, <1>3 DEF WorkerRule, workerUnchanged
<1>19. CASE WorkerPark(id)
  <2> DEFINE S == Park(id)
  <2>1. /\ \A s \in S : s \in States /\ s.status = "InputRequired" /\ Known(id)
                        /\ (Terminal(tasks[id]) => tasks[id].status = "InputRequired")
        /\ "InputRequired" \in Statuses /\ "InputRequired" \notin Ends
        /\ S = {} => (Known(id) => Terminal(tasks[id]))
    BY StoreStates DEF Statuses, Ends
  <2>2. worker[id].at = "park" /\ UNCHANGED <<workerUnchanged, flags, fresh, raised, noted>>
    BY <1>19 DEF WorkerPark, WorkerAt
  <2>3. \/ Applied(id, S) /\ Stop(id) /\ UNCHANGED adrift
        \/ Refused(S) /\ At(id, "retire") /\ UNCHANGED adrift
        \/ Throws(S) /\ Thrown(id)
    BY <1>19 DEF WorkerPark
  <2> HIDE DEF S
  <2>5. /\ Applied(id, S) => Wrote(id, "InputRequired") /\ failures' \in Nat
        /\ Refused(S) => S = {} /\ tasks' = tasks /\ failures' \in Nat
        /\ Throws(S) => tasks' = tasks /\ failures' \in Nat
    BY <2>1, StoreWrites
  <2>6. CASE Applied(id, S) /\ Stop(id) /\ UNCHANGED adrift
    <3>1. Moved("done")
      BY <2>6, <1>1, <1>2
    <3> QED BY <3>1, <2>1, <2>2, <2>5, <2>6, <1>0, <1>3, <1>5 DEF WorkerRule, workerUnchanged
  <2>7. CASE Refused(S) /\ At(id, "retire") /\ UNCHANGED adrift
    <3>1. Moved("retire")
      BY <2>7, <1>1, <1>2
    <3> QED BY <3>1, <2>1, <2>2, <2>5, <2>7, <1>11
  <2>8. CASE Throws(S) /\ Thrown(id)
    BY <2>2, <2>5, <2>8, <1>10
  <2> QED BY <2>3, <2>6, <2>7, <2>8
<1>20. CASE WorkerAnnounce(id)
  <2>1. /\ worker[id].at = "announce"
        /\ UNCHANGED <<workerUnchanged, tasks, flags, fresh, raised, failures, noted, adrift>>
    BY <1>20 DEF WorkerAnnounce, WorkerAt
  <2>2. CASE Known(id)
    <3>1. tasks[id].status \in Statuses /\ Terminal(tasks[id])
      BY <2>1, <2>2, <1>4 DEF States, WorkerHolds
    <3>2. Moved("notify") /\ worker'[id].status = tasks[id].status
      BY <2>2, <3>1, <1>20, <1>1, <1>2 DEF WorkerAnnounce
    <3> QED BY <2>1, <2>2, <3>1, <3>2, <1>0, <1>3 DEF WorkerRule, workerUnchanged, Known
  <2>3. CASE ~Known(id)
    <3>1. Moved("retire")
      BY <2>3, <1>20, <1>1, <1>2 DEF WorkerAnnounce
    <3> QED BY <2>1, <2>3, <3>1, <1>0, <1>3 DEF WorkerRule, workerUnchanged, Known
  <2> QED BY <2>2, <2>3
<1>21. CASE WorkerNotify(id)
  <2>1. /\ worker[id].at = "notify" /\ Notify(id, worker[id].status) /\ Moved("retire")
        /\ UNCHANGED <<workerUnchanged, tasks, flags, fresh, raised, failures, adrift>>
    BY <1>21, <1>1, <1>2 DEF WorkerNotify, WorkerAt
  <2>2. /\ noted' \in [Ids -> SUBSET Ends] /\ \A i \in Ids \ {id} : noted'[i] = noted[i]
        /\ noted'[id] = noted[id] \cup ({worker[id].status} \cap Ends)
    BY <2>1, Notified
  <2>3. \A end \in noted'[id] : end \in Ends /\ Told(id, end)
    BY <2>1, <2>2, <1>3 DEF Told
  <2>4. Known(id) => Terminal(tasks[id])
    BY <2>1 DEF WorkerHolds
  <2> QED BY <2>1, <2>2, <2>3, <2>4, <1>0 DEF WorkerRule, workerUnchanged, Known
<1>22. CASE WorkerRetire(id)
  <2>1. /\ worker[id].at = "retire" /\ Moved("done") /\ flags' = flags \ {id} /\ raised' = raised \ {id}
        /\ UNCHANGED <<workerUnchanged, tasks, fresh, failures, noted, adrift>>
    BY <1>22, <1>1, <1>2 DEF WorkerRetire, WorkerAt, Retired
  <2>2. Known(id) => Terminal(tasks[id])
    BY <2>1 DEF WorkerHolds
  <2> QED BY <2>1, <2>2, <1>0, <1>3 DEF WorkerRule, workerUnchanged, Known
<1> QED BY <1>7, <1>8, <1>9, <1>14, <1>15, <1>16, <1>17, <1>18, <1>19, <1>20, <1>21, <1>22 DEF WorkerSteps

(* The rule keeps the invariant.                                                                   *)
LEMMA WorkerStepKeeps ==
  ASSUME IInv, NEW id \in Ids, WorkerRule(id)
  PROVE  IInv'
<1>0. /\ TypeOK /\ OneEnding /\ NoPast /\ LoopHolds /\ WorkerHolds /\ InCharge /\ CancelHolds /\ ToolsAreHeld
      /\ worker \in [Ids -> WorkerType] /\ tasks \in [Ids -> States \cup {Absent}]
      /\ flags \subseteq Ids /\ raised \subseteq Ids /\ adrift \subseteq Ids
  BY Types DEF IInv
<1>1. /\ UNCHANGED <<modern, loop, futures, closing, reply, fresh>>
      /\ worker[id].at \notin {"none", "done"} /\ worker'[id].at \notin {"none", "plain", "tool"}
      /\ worker' \in [Ids -> WorkerType] /\ \A i \in Ids \ {id} : worker'[i] = worker[i]
  BY Zenon DEF WorkerRule
<1>2. /\ tasks' \in [Ids -> States \cup {Absent}] /\ \A i \in Ids \ {id} : tasks'[i] = tasks[i]
      /\ \/ tasks'[id] = tasks[id]
         \/ /\ Known(id) /\ Known(id)' /\ (Terminal(tasks[id]) => tasks'[id].status = tasks[id].status)
            /\ Terminal(tasks'[id]) \/ (tasks'[id].status = "InputRequired" /\ worker'[id].at = "done")
  BY Zenon DEF WorkerRule
<1>3. /\ flags' \in {flags, flags \ {id}} /\ raised' \in {raised, raised \ {id}} /\ failures' \in Nat
      /\ worker'[id].at # "done" => raised' = raised /\ flags' = flags
      /\ adrift' \in {adrift, adrift \cup {id}}
  BY DEF WorkerRule
<1>4. /\ noted' \in [Ids -> SUBSET Ends] /\ \A i \in Ids \ {id} : noted'[i] = noted[i]
      /\ noted'[id] \subseteq {end \in Ends : Told(id, end)}
  BY Zenon DEF WorkerRule
<1>5. /\ worker'[id].at = "done" => \/ id \in adrift' \/ ~Known(id)'
                                    \/ tasks'[id].status = "InputRequired"
                                    \/ id \notin flags' /\ Terminal(tasks'[id])
      /\ worker'[id].at \in {"announce", "notify", "retire"} => (Known(id)' => Terminal(tasks'[id]))
      /\ worker'[id].at = "notify" => Known(id)' /\ worker'[id].status = tasks'[id].status
  BY Zenon DEF WorkerRule
<1>6. \A i \in Ids : /\ Known(i)' <=> Known(i)
                     /\ Known(i) /\ Terminal(tasks[i]) => Terminal(tasks'[i]) /\ tasks'[i].status = tasks[i].status
  BY <1>2 DEF Known, Terminal
<1>7. TypeOK'
  <2>1. /\ modern' \in BOOLEAN /\ loop' \in LoopType /\ futures' \subseteq Ids /\ fresh' \subseteq Ids
        /\ closing' \in {"no", "waiting", "joining", "closed"} /\ reply' \in [Ids -> {"none", "ack", "refused"}]
    BY <1>0, <1>1, Types, Zenon
  <2>2. flags' \subseteq Ids /\ raised' \subseteq Ids /\ adrift' \subseteq Ids
    BY <1>0, <1>3
  <2> QED BY <2>1, <2>2, <1>1, <1>2, <1>3, <1>4, Zenon DEF TypeOK, WorkerType, LoopType
<1>8. OneEnding'
  <2>1. Steady
    BY <1>6 DEF Steady
  <2>2. Honest
    <3> SUFFICES ASSUME NEW i \in Ids, NEW end \in Ends, Told(i, end)', ~Told(i, end)
                 PROVE  Known(i)' /\ tasks'[i].status = end
      BY DEF Honest
    <3>1. CASE i # id
      BY <3>1, <1>1, <1>4 DEF Told
    <3>2. CASE i = id
      <4>1. end \notin noted'[id]
        BY <3>2, <1>4
      <4>2. worker'[id].at = "notify" /\ worker'[id].status = end
        BY <4>1, <3>2, <1>1 DEF Told
      <4> QED BY <4>2, <3>2, <1>5
    <3> QED BY <3>1, <3>2
  <2> QED BY <2>1, <2>2, <1>0, OneEndingKept
<1>9. NoPast'
  BY <1>0, <1>1, <1>3, <1>4, <1>6 DEF NoPast, Known
<1>10. LoopHolds'
  <2>1. loop.at # "idle" => loop.id \in Ids
    BY <1>0 DEF LoopHolds
  <2>2. loop.id = id => loop.at \notin {"create", "notify", "required"} /\ ~Resuming(loop.id)
    BY <1>0, <1>1 DEF LoopHolds
  <2>3. loop.at # "idle" /\ worker'[loop.id].at = "tool" => worker'[loop.id] = worker[loop.id] /\ loop.id # id
    BY <2>1, <1>1
  <2>4. loop.at \in {"create", "notify", "required"} =>
            loop.id # id /\ worker'[loop.id] = worker[loop.id] /\ tasks'[loop.id] = tasks[loop.id]
    BY <2>1, <2>2, <1>1, <1>2
  <2>5. (Resuming(loop.id))' => Resuming(loop.id) /\ loop.id # id /\ worker'[loop.id] = worker[loop.id]
                                 /\ tasks'[loop.id] = tasks[loop.id] /\ loop.at # "idle"
    BY <2>1, <2>2, <1>1, <1>2 DEF Resuming
  <2> QED BY <2>1, <2>2, <2>3, <2>4, <2>5, <1>0, <1>1, <1>3, <1>6 DEF LoopHolds, Known
<1>11. WorkerHolds'
  <2> SUFFICES ASSUME NEW i \in Ids
               PROVE  /\ worker'[i].at = "plain" => ~Known(i)'
                      /\ worker'[i].at \in {"announce", "notify", "retire"} => (Known(i)' => Terminal(tasks'[i]))
                      /\ Known(i)' /\ tasks'[i].status = "InputRequired" => worker'[i].at = "done"
                      /\ worker'[i].at = "tool" => i \in flags' \cup raised'
    BY Zenon DEF WorkerHolds, Known
  <2>1. CASE i # id
    BY <2>1, <1>0, <1>1, <1>2, <1>3, <1>6 DEF WorkerHolds
  <2>2. CASE i = id
    <3>1. Known(id) /\ tasks[id].status = "InputRequired" => FALSE
      BY <1>0, <1>1 DEF WorkerHolds
    <3> QED BY <3>1, <2>2, <1>1, <1>2, <1>5 DEF Terminal, Known
  <2> QED BY <2>1, <2>2
<1>12. InCharge'
  <2> SUFFICES ASSUME NEW i \in Ids
               PROVE  /\ Known(i)' /\ tasks'[i].status \in {"Pending", "Working"} =>
                           Running(i)' \/ i \in adrift' \/ (loop'.id = i /\ loop'.at = "notify") \/ Resuming(i)'
                      /\ i \in flags' /\ Known(i)' /\ Terminal(tasks'[i]) => Running(i)' \/ i \in adrift'
    BY Zenon DEF InCharge, Known
  <2>1. CASE i # id
    BY <2>1, <1>0, <1>1, <1>2, <1>3, <1>6 DEF InCharge, Running, Resuming
  <2>2. CASE i = id
    BY <2>2, <1>1, <1>2, <1>3, <1>5 DEF Terminal, Known, Running
  <2> QED BY <2>1, <2>2
<1>13. CancelHolds'
  BY <1>0, <1>1, <1>3, <1>6 DEF CancelHolds, Known
<1>14. ToolsAreHeld'
  BY <1>0, <1>1 DEF ToolsAreHeld, Running, LoopAt
<1> QED BY <1>7, <1>8, <1>9, <1>10, <1>11, <1>12, <1>13, <1>14 DEF IInv

--------------------------------------------------------------------------------
(* The message loop: calls *)

(* The parts of the invariant, and the types of what the steps change.                             *)
LEMMA Parts ==
  ASSUME IInv
  PROVE  /\ TypeOK /\ OneEnding /\ NoPast /\ LoopHolds /\ WorkerHolds /\ InCharge /\ CancelHolds /\ ToolsAreHeld
         /\ worker \in [Ids -> WorkerType] /\ tasks \in [Ids -> States \cup {Absent}]
         /\ flags \subseteq Ids /\ raised \subseteq Ids /\ adrift \subseteq Ids /\ fresh \subseteq Ids
         /\ futures \subseteq Ids /\ loop \in LoopType /\ failures \in Nat
         /\ noted \in [Ids -> SUBSET Ends] /\ reply \in [Ids -> {"none", "ack", "refused"}]
BY Types DEF IInv

(* A loop that takes a request is at none.                                                         *)
LEMMA AtRest ==
  ASSUME TypeOK, Free
  PROVE  loop.id = Nobody /\ loop.at = "idle" /\ \A i \in Ids : loop.id # i
BY LoopMoves DEF Free

(* A request that the loop takes: its fields.                                                      *)
LEMMA Takes ==
  ASSUME TypeOK, NEW id \in Ids
  PROVE  /\ \A place \in Steps : loop' = [Idle EXCEPT !.id = id, !.at = place] =>
               loop' \in LoopType /\ loop'.id = id /\ loop'.at = place /\ loop'.kind = "bare" /\ loop'.ended = FALSE
         /\ \A place \in Steps, kind \in Kinds : loop' = [Idle EXCEPT !.id = id, !.at = place, !.kind = kind] =>
               loop' \in LoopType /\ loop'.id = id /\ loop'.at = place /\ loop'.kind = kind /\ loop'.ended = FALSE
         /\ \A place \in Steps, ended \in BOOLEAN : loop' = [Idle EXCEPT !.id = id, !.at = place, !.ended = ended] =>
               loop' \in LoopType /\ loop'.id = id /\ loop'.at = place /\ loop'.kind = "bare" /\ loop'.ended = ended
BY DEF Idle, LoopType, Kinds

(* CallTask: the tasks that have outlived their time go, a flag is made.                           *)
LEMMA CallTaskKeeps ==
  ASSUME IInv, NEW id \in Ids, CallTask(id)
  PROVE  IInv'
<1>0. /\ TypeOK /\ OneEnding /\ NoPast /\ LoopHolds /\ WorkerHolds /\ InCharge /\ CancelHolds /\ ToolsAreHeld
      /\ tasks \in [Ids -> States \cup {Absent}] /\ flags \subseteq Ids
  BY Parts
<1>1. loop.id = Nobody /\ loop.at = "idle" /\ \A i \in Ids : loop.id # i
  BY <1>0, AtRest DEF CallTask
<1>2. /\ worker[id].at = "none" /\ ~Known(id) /\ id \notin flags /\ id \notin adrift
      /\ flags' = flags \cup {id} /\ loop' = [Idle EXCEPT !.id = id, !.at = "create"]
      /\ UNCHANGED <<modern, fresh, raised, worker, futures, closing, failures, noted, reply, adrift>>
  BY DEF CallTask, Unused
<1>3. loop' \in LoopType /\ loop'.id = id /\ loop'.at = "create"
  BY <1>0, <1>2, Takes DEF Steps
<1>4. /\ tasks' \in [Ids -> States \cup {Absent}]
      /\ \A i \in Ids : tasks'[i] = tasks[i] \/ tasks'[i] = Absent
  <2>1. PICK expired \in SUBSET {i \in Ids : Known(i)} : Sweep(expired)
    BY DEF CallTask
  <2> QED BY <2>1, <1>0 DEF Sweep
<1>5. TypeOK'
  BY <1>0, <1>2, <1>3, <1>4 DEF TypeOK, WorkerType, LoopType
<1>6. OneEnding'
  <2>1. Steady
    BY <1>4 DEF Steady, Known
  <2>2. Honest
    BY <1>2, <1>3 DEF Honest, Told
  <2> QED BY <2>1, <2>2, <1>0, OneEndingKept
<1>7. NoPast'
  BY <1>0, <1>1, <1>2, <1>3, <1>4 DEF NoPast, Known
<1>8. LoopHolds'
  BY <1>2, <1>3, <1>4 DEF LoopHolds, Resuming, Known
<1>9. WorkerHolds'
  BY <1>0, <1>2, <1>4 DEF WorkerHolds, Known
<1>10. InCharge'
  BY <1>0, <1>1, <1>2, <1>4 DEF InCharge, Known, Running, Resuming
<1>11. CancelHolds' /\ ToolsAreHeld'
  BY <1>0, <1>1, <1>2, <1>4 DEF CancelHolds, ToolsAreHeld, Running, LoopAt, Known
<1> QED BY <1>5, <1>6, <1>7, <1>8, <1>9, <1>10, <1>11 DEF IInv

(* CallPlain: a thread that is no task's.                                                          *)
LEMMA CallPlainKeeps ==
  ASSUME IInv, NEW id \in Ids, CallPlain(id)
  PROVE  IInv'
<1>0. /\ TypeOK /\ OneEnding /\ NoPast /\ LoopHolds /\ WorkerHolds /\ InCharge /\ CancelHolds /\ ToolsAreHeld
  BY Parts
<1>1. loop.id = Nobody /\ loop.at = "idle" /\ \A i \in Ids : loop.id # i
  BY <1>0, AtRest DEF CallPlain
<1>2. /\ worker[id].at = "none" /\ ~Known(id) /\ id \notin flags /\ id \notin adrift
      /\ At(id, "plain") /\ loop' = [Idle EXCEPT !.id = id, !.at = "push"]
      /\ UNCHANGED <<modern, tasks, flags, fresh, raised, futures, closing, failures, noted, reply, adrift>>
  BY DEF CallPlain, Unused
<1>3. loop' \in LoopType /\ loop'.id = id /\ loop'.at = "push"
  BY <1>0, <1>2, Takes DEF Steps
<1>4. worker' \in [Ids -> WorkerType] /\ worker'[id].at = "plain" /\ \A i \in Ids \ {id} : worker'[i] = worker[i]
  BY <1>0, <1>2, WorkerMoves DEF Places
<1>5. TypeOK'
  BY <1>0, <1>2, <1>3, <1>4 DEF TypeOK, WorkerType, LoopType
<1>6. OneEnding'
  <2>1. Steady
    BY <1>0, <1>2 DEF Steady, Known
  <2>2. Honest
    BY <1>2, <1>3, <1>4 DEF Honest, Told
  <2> QED BY <2>1, <2>2, <1>0, OneEndingKept
<1>7. NoPast'
  BY <1>0, <1>1, <1>2, <1>3, <1>4 DEF NoPast, Known
<1>8. LoopHolds'
  BY <1>2, <1>3, <1>4 DEF LoopHolds, Resuming, Known
<1>9. WorkerHolds'
  BY <1>0, <1>2, <1>4 DEF WorkerHolds, Known
<1>10. InCharge'
  BY <1>0, <1>1, <1>2, <1>4 DEF InCharge, Known, Running, Resuming
<1>11. CancelHolds' /\ ToolsAreHeld'
  BY <1>0, <1>1, <1>2, <1>3, <1>4 DEF CancelHolds, ToolsAreHeld, Running, LoopAt, Known
<1> QED BY <1>5, <1>6, <1>7, <1>8, <1>9, <1>10, <1>11 DEF IInv

(* A request that the loop has only read yet: a call that requires a task, an update, a cancel.    *)
LEMMA RequestTakenKeeps ==
  ASSUME IInv, NEW id \in Ids, Free, loop' \in LoopType, loop'.id = id,
         \/ loop'.at = "required" /\ Unused(id)
         \/ loop'.at = "update" /\ Known(id)
         \/ loop'.at = "flag" /\ Known(id) /\ (loop'.ended => Terminal(tasks[id])),
         UNCHANGED <<modern, tasks, flags, fresh, raised, worker, futures, closing, failures, noted, reply, adrift>>
  PROVE  IInv'
<1>0. /\ TypeOK /\ OneEnding /\ NoPast /\ LoopHolds /\ WorkerHolds /\ InCharge /\ CancelHolds /\ ToolsAreHeld
  BY Parts
<1>1. loop.id = Nobody /\ loop.at = "idle" /\ \A i \in Ids : loop.id # i
  BY <1>0, AtRest
<1>5. TypeOK'
  BY <1>0 DEF TypeOK, WorkerType, LoopType
<1>6. OneEnding'
  <2>1. Steady
    BY <1>0 DEF Steady, Known
  <2>2. Honest
    BY DEF Honest, Told
  <2> QED BY <2>1, <2>2, <1>0, OneEndingKept
<1>7. NoPast'
  BY <1>0, <1>1 DEF NoPast, Known
<1>8. LoopHolds'
  BY DEF LoopHolds, Resuming, Known, Unused
<1>9. WorkerHolds'
  BY <1>0 DEF WorkerHolds, Known
<1>10. InCharge'
  BY <1>0, <1>1 DEF InCharge, Known, Running, Resuming
<1>11. CancelHolds' /\ ToolsAreHeld'
  BY <1>0, <1>1 DEF CancelHolds, ToolsAreHeld, Running, LoopAt, Known
<1> QED BY <1>5, <1>6, <1>7, <1>8, <1>9, <1>10, <1>11 DEF IInv

(* The three requests are taken as the lemma says.                                                 *)
LEMMA ReadersKeep ==
  ASSUME IInv, NEW id \in Ids,
         CallRequired(id) \/ (\E kind \in Kinds : UpdateRead(id, kind)) \/ CancelRead(id)
  PROVE  IInv'
<1>0. TypeOK /\ tasks \in [Ids -> States \cup {Absent}]
  BY Parts
<1>1. CASE CallRequired(id)
  <2>1. loop' \in LoopType /\ loop'.id = id /\ loop'.at = "required"
    BY <1>0, <1>1, Takes DEF CallRequired, Steps
  <2> QED BY <2>1, <1>1, RequestTakenKeeps DEF CallRequired
<1>2. CASE \E kind \in Kinds : UpdateRead(id, kind)
  <2>1. PICK kind \in Kinds : UpdateRead(id, kind)
    BY <1>2
  <2>2. loop' \in LoopType /\ loop'.id = id /\ loop'.at = "update"
    BY <1>0, <2>1, Takes DEF UpdateRead, Steps
  <2> QED BY <2>1, <2>2, RequestTakenKeeps DEF UpdateRead, MayUpdate, Known
<1>3. CASE CancelRead(id)
  <2> DEFINE ended == Terminal(tasks[id])
  <2>1. /\ ended \in BOOLEAN /\ "flag" \in Steps
        /\ loop' = [Idle EXCEPT !.id = id, !.at = "flag", !.ended = ended]
    <3>1. ended \in BOOLEAN
      BY DEF Terminal
    <3>2. loop' = [Idle EXCEPT !.id = id, !.at = "flag", !.ended = ended]
      BY <1>3, Zenon DEF CancelRead
    <3> QED BY <3>1, <3>2 DEF Steps
  <2> HIDE DEF ended
  <2>2. loop' \in LoopType /\ loop'.id = id /\ loop'.at = "flag" /\ loop'.ended = ended
    BY <1>0, <2>1, Takes
  <2>3. loop'.ended => Terminal(tasks[id])
    BY <2>2, Zenon DEF ended
  <2> QED BY <2>2, <2>3, <1>3, RequestTakenKeeps DEF CancelRead
<1> QED BY <1>1, <1>2, <1>3

(* CancelCall raises a flag.                                                                       *)
LEMMA CancelCallKeeps ==
  ASSUME IInv, NEW id \in Ids, CancelCall(id)
  PROVE  IInv'
<1>0. /\ TypeOK /\ OneEnding /\ NoPast /\ LoopHolds /\ WorkerHolds /\ InCharge /\ CancelHolds /\ ToolsAreHeld
  BY Parts
<1>1. raised' = raised \cup {id}
      /\ UNCHANGED <<modern, tasks, flags, fresh, worker, loop, futures, closing, failures, noted, reply, adrift>>
  BY DEF CancelCall
<1>2. TypeOK'
  BY <1>0, <1>1 DEF TypeOK
<1>3. OneEnding' /\ NoPast' /\ InCharge' /\ ToolsAreHeld'
  BY <1>0, <1>1 DEF OneEnding, NoPast, InCharge, ToolsAreHeld, Told, Known, Running, Resuming, LoopAt
<1>4. LoopHolds'
  BY <1>0, <1>1 DEF LoopHolds, Known, Resuming
<1>5. WorkerHolds' /\ CancelHolds'
  BY <1>0, <1>1 DEF WorkerHolds, CancelHolds, Known
<1> QED BY <1>2, <1>3, <1>4, <1>5 DEF IInv

(* A loop that is done with its request.                                                           *)
LEMMA Rests ==
  ASSUME TypeOK, loop' = Idle
  PROVE  loop' \in LoopType /\ loop'.at = "idle" /\ loop'.id = Nobody /\ \A i \in Ids : loop'.id # i
BY LoopMoves

(* StartTask: the task is made for an id of which nobody has heard.                                *)
LEMMA StartTaskKeeps ==
  ASSUME IInv, StartTask
  PROVE  IInv'
<1> DEFINE id == loop.id
<1>0. /\ TypeOK /\ OneEnding /\ NoPast /\ LoopHolds /\ WorkerHolds /\ InCharge /\ CancelHolds /\ ToolsAreHeld
      /\ tasks \in [Ids -> States \cup {Absent}] /\ adrift \subseteq Ids /\ failures \in Nat /\ MaxFailures \in Nat
  BY Parts, ServerAssumption
<1>1. /\ loop.at = "create" /\ CreateAndBind(loop.id)
      /\ UNCHANGED <<modern, flags, fresh, raised, worker, futures, closing, noted, reply>>
  BY DEF StartTask, LoopAt
<1>2. id \in Ids /\ worker[id].at = "none" /\ id \notin adrift /\ ~Known(id) /\ id \in flags
  BY <1>0, <1>1 DEF LoopHolds
<1>3. noted[id] = {} /\ reply[id] = "none"
  BY <1>0, <1>2 DEF NoPast
<1>4. \/ /\ tasks' \in [Ids -> States \cup {Absent}] /\ \A i \in Ids \ {id} : tasks'[i] = tasks[i]
         /\ tasks'[id] # Absent /\ tasks'[id].status = "Working"
         /\ loop' \in LoopType /\ loop'.id = id /\ loop'.at = "notify"
         /\ UNCHANGED <<failures, adrift>>
      \/ /\ tasks' \in [Ids -> States \cup {Absent}] /\ \A i \in Ids \ {id} : tasks'[i] = tasks[i]
         /\ tasks'[id] # Absent => tasks'[id].status = "Pending"
         /\ loop' \in LoopType /\ loop'.at = "idle" /\ loop'.id = Nobody
         /\ failures' \in Nat /\ adrift' = adrift \cup {id}
  <2>1. PICK s \in CreateTask(Absent) :
          \/ /\ tasks' = [tasks EXCEPT ![id] = [s EXCEPT !.status = "Working"]]
             /\ GoTo("notify")
             /\ UNCHANGED <<failures, adrift>>
          \/ /\ MayThrow(1)
             /\ tasks' \in {tasks, [tasks EXCEPT ![id] = s]}
             /\ loop' = Idle
             /\ adrift' = adrift \cup {id}
    BY <1>1, Zenon DEF CreateAndBind
  <2>2. s \in States /\ s.status = "Pending"
    BY DEF CreateTask, States, Statuses
  <2>3. [s EXCEPT !.status = "Working"] \in States /\ [s EXCEPT !.status = "Working"].status = "Working"
    BY <2>2 DEF States, Statuses
  <2>4. \A x \in States : x # Absent
    BY StatesAssumption
  <2>5. CASE tasks' = [tasks EXCEPT ![id] = [s EXCEPT !.status = "Working"]] /\ GoTo("notify")
             /\ UNCHANGED <<failures, adrift>>
    <3>1. loop' \in LoopType /\ loop'.id = id /\ loop'.at = "notify"
      BY <2>5, <1>0, LoopMoves DEF Steps
    <3> QED BY <3>1, <2>3, <2>4, <2>5, <1>0, <1>2 DEF Known
  <2>6. CASE /\ MayThrow(1) /\ tasks' \in {tasks, [tasks EXCEPT ![id] = s]} /\ loop' = Idle
             /\ adrift' = adrift \cup {id}
    <3>1. loop' \in LoopType /\ loop'.at = "idle" /\ loop'.id = Nobody
      BY <2>6, <1>0, Rests
    <3>2. failures' \in Nat
      BY <2>6, <1>0 DEF MayThrow
    <3>3. ASSUME tasks' = tasks
          PROVE  /\ tasks' \in [Ids -> States \cup {Absent}] /\ \A i \in Ids \ {id} : tasks'[i] = tasks[i]
                 /\ tasks'[id] # Absent => tasks'[id].status = "Pending"
      BY <3>3, <1>0, <1>2 DEF Known
    <3>4. ASSUME tasks' = [tasks EXCEPT ![id] = s]
          PROVE  /\ tasks' \in [Ids -> States \cup {Absent}] /\ \A i \in Ids \ {id} : tasks'[i] = tasks[i]
                 /\ tasks'[id] # Absent => tasks'[id].status = "Pending"
      BY <3>4, <2>2, <1>0, <1>2
    <3> QED BY <3>1, <3>2, <3>3, <3>4, <2>6
  <2> QED BY <2>1, <2>5, <2>6
<1>5. tasks' \in [Ids -> States \cup {Absent}] /\ \A i \in Ids \ {id} : tasks'[i] = tasks[i]
  BY <1>4
<1>6. TypeOK'
  <2>1. loop' \in LoopType /\ failures' \in Nat /\ adrift' \subseteq Ids
    BY <1>0, <1>2, <1>4
  <2> QED BY <2>1, <1>0, <1>1, <1>5 DEF TypeOK, WorkerType, LoopType
<1>7. OneEnding'
  <2>1. \A end \in Ends : ~Told(id, end)
    BY <1>1, <1>2, <1>3 DEF Told
  <2>2. Steady
    BY <2>1, <1>2, <1>5 DEF Steady, Known
  <2>3. Honest
    BY <1>1, <1>4 DEF Honest, Told
  <2> QED BY <2>2, <2>3, <1>0, OneEndingKept
<1>8. NoPast'
  BY <1>0, <1>1, <1>2, <1>3, <1>4, <1>5, ServerAssumption DEF NoPast, Known
<1>9. LoopHolds'
  BY <1>1, <1>2, <1>4 DEF LoopHolds, Resuming, Known
<1>10. WorkerHolds'
  BY <1>0, <1>1, <1>2, <1>4, <1>5 DEF WorkerHolds, Known
<1>11. InCharge'
  <2>1. id \in adrift' \/ (loop'.id = id /\ loop'.at = "notify" /\ tasks'[id].status = "Working")
    BY <1>4
  <2>2. ASSUME NEW i \in Ids, i # id PROVE ~(loop.id = i /\ loop.at = "notify") /\ ~Resuming(i)
    BY <2>2 DEF Resuming
  <2>3. adrift \subseteq adrift'
    BY <1>4
  <2> QED BY <2>1, <2>2, <2>3, <1>0, <1>1, <1>5 DEF InCharge, Known, Running, Terminal
<1>12. CancelHolds' /\ ToolsAreHeld'
  BY <1>0, <1>1, <1>2, <1>3, <1>5 DEF CancelHolds, ToolsAreHeld, Running, LoopAt, Known
<1> QED BY <1>6, <1>7, <1>8, <1>9, <1>10, <1>11, <1>12 DEF IInv

(* Launch: the thread starts with the flag of the task in place.                                   *)
LEMMA LaunchKeeps ==
  ASSUME IInv, Launch
  PROVE  IInv'
<1> DEFINE id == loop.id
<1>0. /\ TypeOK /\ OneEnding /\ NoPast /\ LoopHolds /\ WorkerHolds /\ InCharge /\ CancelHolds /\ ToolsAreHeld
  BY Parts
<1>1. /\ loop.at = "notify" /\ Notify(id, "Working") /\ At(id, "tool") /\ GoTo("push")
      /\ UNCHANGED <<modern, tasks, flags, fresh, raised, futures, closing, failures, reply, adrift>>
  BY DEF Launch, LoopAt
<1>2. /\ id \in Ids /\ worker[id].at = "none" /\ id \notin adrift
      /\ Known(id) /\ tasks[id].status = "Working" /\ id \in flags
  BY <1>0, <1>1 DEF LoopHolds
<1>3. noted[id] = {} /\ reply[id] = "none"
  BY <1>0, <1>2 DEF NoPast
<1>4. worker' \in [Ids -> WorkerType] /\ worker'[id].at = "tool" /\ \A i \in Ids \ {id} : worker'[i] = worker[i]
  BY <1>0, <1>1, <1>2, WorkerMoves DEF Places
<1>5. noted' \in [Ids -> SUBSET Ends] /\ \A i \in Ids : noted'[i] = noted[i]
  BY <1>0, <1>1, <1>2, Notified DEF Ends
<1>6. loop' \in LoopType /\ loop'.id = id /\ loop'.at = "push"
  BY <1>0, <1>1, LoopMoves DEF Steps
<1>7. TypeOK'
  BY <1>0, <1>1, <1>4, <1>5, <1>6 DEF TypeOK, WorkerType, LoopType
<1>8. OneEnding'
  <2>1. Steady
    BY <1>1 DEF Steady, Known
  <2>2. Honest
    BY <1>4, <1>5, <1>6 DEF Honest, Told
  <2> QED BY <2>1, <2>2, <1>0, OneEndingKept
<1>9. NoPast'
  BY <1>0, <1>1, <1>4, <1>5, <1>6 DEF NoPast, Known
<1>10. LoopHolds'
  BY <1>2, <1>6 DEF LoopHolds, Resuming, Known
<1>11. WorkerHolds'
  BY <1>0, <1>1, <1>2, <1>4 DEF WorkerHolds, Known
<1>12. InCharge'
  BY <1>0, <1>1, <1>4 DEF InCharge, Known, Running, Resuming
<1>13. CancelHolds' /\ ToolsAreHeld'
  BY <1>0, <1>1, <1>2, <1>3, <1>4, <1>6 DEF CancelHolds, ToolsAreHeld, Running, LoopAt, Known
<1> QED BY <1>7, <1>8, <1>9, <1>10, <1>11, <1>12, <1>13 DEF IInv

(* Push: the future is kept, those that are ready are not.                                         *)
LEMMA PushKeeps ==
  ASSUME IInv, Push
  PROVE  IInv'
<1>0. /\ TypeOK /\ OneEnding /\ NoPast /\ LoopHolds /\ WorkerHolds /\ InCharge /\ CancelHolds /\ ToolsAreHeld
      /\ futures \subseteq Ids
  BY Parts
<1>1. /\ loop.at = "push" /\ futures' = {i \in futures \cup {loop.id} : ~Ready(i)} /\ loop' = Idle
      /\ UNCHANGED <<modern, tasks, flags, fresh, raised, worker, closing, failures, noted, reply, adrift>>
  BY DEF Push, LoopAt
<1>2. loop.id \in Ids
  BY <1>0, <1>1 DEF LoopHolds
<1>3. loop' \in LoopType /\ loop'.at = "idle" /\ loop'.id = Nobody /\ \A i \in Ids : loop'.id # i
  BY <1>0, <1>1, Rests
<1>4. TypeOK'
  BY <1>0, <1>1, <1>2, <1>3 DEF TypeOK, LoopType
<1>5. OneEnding'
  <2>1. Steady
    BY <1>1 DEF Steady, Known
  <2>2. Honest
    BY <1>1, <1>3 DEF Honest, Told
  <2> QED BY <2>1, <2>2, <1>0, OneEndingKept
<1>6. NoPast' /\ LoopHolds'
  BY <1>0, <1>1, <1>3 DEF NoPast, LoopHolds, Known, Resuming
<1>7. WorkerHolds' /\ InCharge' /\ CancelHolds'
  BY <1>0, <1>1 DEF WorkerHolds, InCharge, CancelHolds, Known, Running, Resuming
<1>8. ToolsAreHeld'
  BY <1>0, <1>1 DEF ToolsAreHeld, Running, Ready, LoopAt
<1> QED BY <1>4, <1>5, <1>6, <1>7, <1>8 DEF IInv

(* RequiredEnds: the task is made as it ended, or not at all, or it is adrift.                     *)
LEMMA RequiredEndsKeeps ==
  ASSUME IInv, NEW outcome \in Outcomes, RequiredEnds(outcome)
  PROVE  IInv'
<1> DEFINE id == loop.id
<1>0. /\ TypeOK /\ OneEnding /\ NoPast /\ LoopHolds /\ WorkerHolds /\ InCharge /\ CancelHolds /\ ToolsAreHeld
      /\ tasks \in [Ids -> States \cup {Absent}] /\ adrift \subseteq Ids /\ failures \in Nat /\ MaxFailures \in Nat
  BY Parts, ServerAssumption
<1>1. /\ loop.at = "required" /\ At(id, "done") /\ loop' = Idle
      /\ UNCHANGED <<modern, flags, fresh, raised, futures, closing, noted, reply>>
  BY DEF RequiredEnds, LoopAt
<1>2. id \in Ids /\ worker[id].at = "none" /\ id \notin adrift /\ ~Known(id) /\ id \notin flags
  BY <1>0, <1>1 DEF LoopHolds
<1>3. noted[id] = {} /\ reply[id] = "none"
  BY <1>0, <1>2 DEF NoPast
<1>4. worker' \in [Ids -> WorkerType] /\ worker'[id].at = "done" /\ \A i \in Ids \ {id} : worker'[i] = worker[i]
  BY <1>0, <1>1, <1>2, WorkerMoves DEF Places
<1>5. loop' \in LoopType /\ loop'.at = "idle" /\ loop'.id = Nobody /\ \A i \in Ids : loop'.id # i
  BY <1>0, <1>1, Rests
<1> DEFINE Made == /\ tasks' \in [Ids -> States \cup {Absent}]
                   /\ \A i \in Ids \ {id} : tasks'[i] = tasks[i] \/ tasks'[i] = Absent
                   /\ failures' \in Nat /\ adrift' \in {adrift, adrift \cup {id}}
                   /\ tasks'[id] # Absent => tasks'[id].status # "InputRequired" /\ (Terminal(tasks'[id]) \/ id \in adrift')
           Ended(s) == [s EXCEPT !.status = IF outcome = "error" THEN "Failed" ELSE "Completed"]
<1>6. Made
  <2>1. CASE tasks' = tasks /\ failures' = failures /\ adrift' = adrift
    <3>1. tasks'[id] = Absent
      BY <2>1, <1>2 DEF Known
    <3> QED BY <3>1, <2>1, <1>0
  <2>2. ASSUME NEW expired \in SUBSET {i \in Ids : Known(i)}, NEW s \in CreateTask(Absent),
               NEW made \in {Absent, s, Ended(s)},
               tasks' = [i \in Ids |-> IF i = id THEN made ELSE IF i \in expired THEN Absent ELSE tasks[i]],
               IF made # Absent /\ Terminal(made) THEN UNCHANGED <<failures, adrift>>
               ELSE MayThrow(1) /\ adrift' = adrift \cup {id}
        PROVE  Made
    <3>1. s \in States /\ s.status = "Pending"
      BY DEF CreateTask, States, Statuses
    <3>2. Ended(s) \in States /\ Ended(s).status # "InputRequired"
      BY <3>1 DEF States, Statuses
    <3>3. made \in States \cup {Absent} /\ (made # Absent => made.status # "InputRequired")
      BY <3>1, <3>2
    <3> HIDE DEF Ended
    <3>4. CASE made # Absent /\ Terminal(made)
      <4>1. UNCHANGED <<failures, adrift>>
        BY <3>4, <2>2
      <4>2. tasks'[id] = made
        BY <2>2, <1>2
      <4> QED BY <4>1, <4>2, <3>3, <3>4, <2>2, <1>0
    <3>5. CASE ~(made # Absent /\ Terminal(made))
      <4>1. MayThrow(1) /\ adrift' = adrift \cup {id}
        BY <3>5, <2>2
      <4>2. tasks'[id] = made /\ failures' \in Nat
        BY <4>1, <2>2, <1>0, <1>2 DEF MayThrow
      <4> QED BY <4>1, <4>2, <3>3, <2>2, <1>0 DEF Known
    <3> QED BY <3>4, <3>5
  <2>3. \/ UNCHANGED <<tasks, failures, adrift>>
        \/ \E expired \in SUBSET {i \in Ids : Known(i)}, s \in CreateTask(Absent) : \E made \in {Absent, s, Ended(s)} :
              /\ tasks' = [i \in Ids |-> IF i = id THEN made ELSE IF i \in expired THEN Absent ELSE tasks[i]]
              /\ IF made # Absent /\ Terminal(made) THEN UNCHANGED <<failures, adrift>>
                 ELSE MayThrow(1) /\ adrift' = adrift \cup {id}
    BY Zenon DEF RequiredEnds
  <2> HIDE DEF Made, Ended
  <2> QED BY <2>1, <2>2, <2>3
<1>7. TypeOK'
  <2>1. adrift' \subseteq Ids
    BY <1>0, <1>2, <1>6
  <2> QED BY <2>1, <1>0, <1>1, <1>4, <1>5, <1>6 DEF TypeOK, WorkerType, LoopType
<1>8. OneEnding'
  <2>1. \A end \in Ends : ~Told(id, end)
    BY <1>1, <1>2, <1>3 DEF Told
  <2>2. Steady
    BY <2>1, <1>2, <1>6 DEF Steady, Known
  <2>3. Honest
    BY <1>1, <1>4, <1>5 DEF Honest, Told
  <2> QED BY <2>2, <2>3, <1>0, OneEndingKept
<1>9. NoPast'
  BY <1>0, <1>1, <1>4, <1>5, <1>6 DEF NoPast, Known
<1>10. LoopHolds'
  BY <1>5 DEF LoopHolds, Resuming
<1>11. WorkerHolds'
  BY <1>0, <1>1, <1>4, <1>6 DEF WorkerHolds, Known
<1>12. InCharge'
  BY <1>0, <1>1, <1>2, <1>4, <1>6 DEF InCharge, Known, Running, Resuming, Terminal
<1>13. CancelHolds' /\ ToolsAreHeld'
  BY <1>0, <1>1, <1>2, <1>3, <1>4, <1>6 DEF CancelHolds, ToolsAreHeld, Running, LoopAt, Known
<1> QED BY <1>7, <1>8, <1>9, <1>10, <1>11, <1>12, <1>13 DEF IInv

--------------------------------------------------------------------------------
(* The message loop: updates *)

(* The loop lets go of a task it could not write, or has told the client of; one that it was to    *)
(* run again is adrift.                                                                            *)
LEMMA LoopLetsGo ==
  ASSUME IInv, NEW id \in Ids, loop.id = id, loop' = Idle,
         loop.at \in {"update", "updated", "resume", "resumed", "cancel", "cancelled"},
         UNCHANGED <<modern, tasks, flags, fresh, raised, worker, futures, closing>>, failures' \in Nat,
         adrift' \in {adrift, adrift \cup {id}}, Resuming(id) => id \in adrift',
         noted' \in [Ids -> SUBSET Ends], \A i \in Ids \ {id} : noted'[i] = noted[i],
         \A end \in noted'[id] : Told(id, end),
         reply' \in [Ids -> {"none", "ack", "refused"}], \A i \in Ids \ {id} : reply'[i] = reply[i],
         reply'[id] = "ack" => reply[id] = "ack" \/ loop.at = "cancelled"
  PROVE  IInv'
<1>0. /\ TypeOK /\ OneEnding /\ NoPast /\ LoopHolds /\ WorkerHolds /\ InCharge /\ CancelHolds /\ ToolsAreHeld
      /\ adrift \subseteq Ids /\ flags \subseteq Ids
  BY Parts
<1>1. loop' \in LoopType /\ loop'.at = "idle" /\ loop'.id = Nobody /\ \A i \in Ids : loop'.id # i
  BY <1>0, Rests
<1>2. worker[id].at = "none" => id \in adrift
  BY <1>0 DEF NoPast
<1>3. TypeOK'
  <2>1. adrift' \subseteq Ids
    BY <1>0
  <2> QED BY <2>1, <1>0, <1>1 DEF TypeOK, LoopType
<1>4. OneEnding'
  <2>1. Steady
    BY DEF Steady, Known
  <2>2. Honest
    <3> SUFFICES ASSUME NEW i \in Ids, NEW end \in Ends, Told(i, end)', ~Told(i, end) PROVE FALSE
      BY DEF Honest
    <3>1. end \in noted'[i]
      BY <1>1 DEF Told
    <3> QED BY <3>1 DEF Told
  <2> QED BY <2>1, <2>2, <1>0, OneEndingKept
<1>5. NoPast' /\ LoopHolds'
  BY <1>0, <1>1, <1>2 DEF NoPast, LoopHolds, Known, Resuming
<1>6. InCharge'
  <2>1. \A i \in Ids : (loop.id = i /\ loop.at = "notify" => FALSE) /\ (Resuming(i) => i \in adrift')
    BY DEF Resuming
  <2>2. adrift \subseteq adrift'
    OBVIOUS
  <2> QED BY <2>1, <2>2, <1>0 DEF InCharge, Known, Running
<1>7. WorkerHolds' /\ ToolsAreHeld'
  BY <1>0 DEF WorkerHolds, ToolsAreHeld, Known, Running, LoopAt
<1>8. CancelHolds'
  BY <1>0 DEF CancelHolds, Known, LoopHolds
<1> QED BY <1>3, <1>4, <1>5, <1>6, <1>7, <1>8 DEF IInv

(* The loop gives the task it runs again its ending, or parks it once more.                        *)
LEMMA ResumingWrites ==
  ASSUME IInv, NEW id \in Ids, loop.id = id, Resuming(id), loop' = Idle,
         NEW status \in Ends \cup {"InputRequired"}, Wrote(id, status),
         flags' \in {flags, flags \ {id}}, status \in Ends => id \notin flags', failures' \in Nat,
         UNCHANGED <<modern, fresh, raised, worker, futures, closing, noted, reply, adrift>>
  PROVE  IInv'
<1>0. /\ TypeOK /\ OneEnding /\ NoPast /\ LoopHolds /\ WorkerHolds /\ InCharge /\ CancelHolds /\ ToolsAreHeld
      /\ flags \subseteq Ids
  BY Parts
<1>1. loop' \in LoopType /\ loop'.at = "idle" /\ loop'.id = Nobody /\ \A i \in Ids : loop'.id # i
  BY <1>0, Rests
<1>2. /\ worker[id].at = "done" /\ Known(id) /\ tasks[id].status = "Working"
      /\ loop.at \in {"resume", "resumed", "updated"}
  BY <1>0 DEF LoopHolds, Resuming
<1>3. /\ tasks' \in [Ids -> States \cup {Absent}] /\ \A i \in Ids \ {id} : tasks'[i] = tasks[i]
      /\ Known(id)' /\ tasks'[id].status = status
  BY DEF Wrote, Known
<1>4. reply[id] # "ack"
  BY <1>0, <1>2 DEF CancelHolds, Terminal
<1>5. TypeOK'
  <2>1. flags' \subseteq Ids
    BY <1>0
  <2> QED BY <2>1, <1>0, <1>1, <1>3 DEF TypeOK, LoopType
<1>6. OneEnding'
  <2>1. Steady
    BY WroteIsSteady
  <2>2. Honest
    BY <1>1 DEF Honest, Told
  <2> QED BY <2>1, <2>2, <1>0, OneEndingKept
<1>7. NoPast' /\ LoopHolds'
  BY <1>0, <1>1, <1>2, <1>3 DEF NoPast, LoopHolds, Known, Resuming
<1>8. InCharge'
  <2> SUFFICES ASSUME NEW i \in Ids
               PROVE  /\ Known(i)' /\ tasks'[i].status \in {"Pending", "Working"} =>
                           Running(i)' \/ i \in adrift' \/ (loop'.id = i /\ loop'.at = "notify") \/ Resuming(i)'
                      /\ i \in flags' /\ Known(i)' /\ Terminal(tasks'[i]) => Running(i)' \/ i \in adrift'
    BY Zenon DEF InCharge, Known
  <2>1. CASE i = id
    BY <2>1, <1>3 DEF Terminal, Ends
  <2>2. CASE i # id
    BY <2>2, <1>0, <1>3 DEF InCharge, Known, Running, Resuming
  <2> QED BY <2>1, <2>2
<1>9. WorkerHolds' /\ ToolsAreHeld'
  BY <1>0, <1>2, <1>3 DEF WorkerHolds, ToolsAreHeld, Known, Running, LoopAt
<1>10. CancelHolds'
  BY <1>0, <1>3, <1>4 DEF CancelHolds, Known
<1> QED BY <1>5, <1>6, <1>7, <1>8, <1>9, <1>10 DEF IInv

(* UpdateWrite: a result, a status set by hand or an answer is written.                            *)
LEMMA UpdateWriteKeeps ==
  ASSUME IInv, NEW id \in Ids, loop.id = id, UpdateWrite
  PROVE  IInv'
<1> DEFINE S == Updated(id, loop.kind)
           status == IF loop.kind = "result" THEN "Completed" ELSE "Working"
           byHand == loop.kind = "bare" /\ Known(id) /\ tasks[id].status = "InputRequired"
<1>0. /\ TypeOK /\ OneEnding /\ NoPast /\ LoopHolds /\ WorkerHolds /\ InCharge /\ CancelHolds /\ ToolsAreHeld
      /\ loop \in LoopType /\ adrift \subseteq Ids /\ noted \in [Ids -> SUBSET Ends]
      /\ reply \in [Ids -> {"none", "ack", "refused"}]
  BY Parts
<1>1. /\ loop.at = "update" /\ UNCHANGED <<modern, flags, fresh, raised, worker, futures, closing, noted, reply>>
      /\ (Applied(id, S) /\ GoTo("updated")) \/ ((Refused(S) \/ Throws(S)) /\ loop' = Idle)
      /\ adrift' = IF byHand /\ tasks' # tasks THEN adrift \cup {id} ELSE adrift
  BY DEF UpdateWrite, LoopAt
<1>2. /\ \A s \in S : /\ s \in States /\ s.status = status /\ Known(id)
                      /\ ~Terminal(tasks[id])
                      /\ loop.kind = "result" => tasks[id].status # "InputRequired"
                      /\ loop.kind = "input" => tasks[id].status = "InputRequired"
      /\ status \in Statuses
  <2>1. loop.kind \in {"result", "bare", "input"}
    BY <1>0 DEF LoopType, Kinds
  <2>2. CASE loop.kind = "result"
    <3>1. S = Update(id, "Completed")
      BY <2>2 DEF Updated
    <3> QED BY <2>2, <3>1, <1>0, StoreStates DEF Statuses
  <2>3. CASE loop.kind = "bare"
    <3>1. S = Update(id, "Working")
      BY <2>3 DEF Updated
    <3> QED BY <2>3, <3>1, <1>0, StoreStates DEF Statuses
  <2>4. CASE loop.kind = "input"
    <3>1. S = Advance(id)
      BY <2>4 DEF Updated
    <3> QED BY <2>4, <3>1, <1>0, StoreStates DEF Statuses, Terminal
  <2> QED BY <2>1, <2>2, <2>3, <2>4
<1> HIDE DEF S, status
<1>3. /\ Applied(id, S) => Wrote(id, status) /\ failures' \in Nat
      /\ Refused(S) => S = {} /\ tasks' = tasks /\ failures' \in Nat
      /\ Throws(S) => tasks' = tasks /\ failures' \in Nat
  BY <1>0, <1>2, StoreWrites
<1>4. ASSUME Refused(S) \/ Throws(S), loop' = Idle
      PROVE  IInv'
  <2>1. tasks' = tasks /\ failures' \in Nat
    BY <1>3, <1>4
  <2>2. ~Resuming(id)
    BY <1>1 DEF Resuming
  <2>3. \A end \in noted[id] : Told(id, end)
    BY DEF Told
  <2> QED BY <2>1, <2>2, <2>3, <1>0, <1>1, <1>4, LoopLetsGo
<1>5. ASSUME Applied(id, S), GoTo("updated")
      PROVE  IInv'
  <2>1. /\ Wrote(id, status) /\ failures' \in Nat /\ ~Terminal(tasks[id])
        /\ loop.kind = "result" => tasks[id].status # "InputRequired"
        /\ loop.kind = "input" => tasks[id].status = "InputRequired"
    BY <1>2, <1>3, <1>5 DEF Applied
  <2>2. loop' \in LoopType /\ loop'.id = id /\ loop'.at = "updated" /\ loop'.kind = loop.kind
    BY <1>0, <1>5, LoopMoves DEF Steps
  <2>3. /\ tasks' \in [Ids -> States \cup {Absent}] /\ \A i \in Ids \ {id} : tasks'[i] = tasks[i]
        /\ Known(id) /\ Known(id)' /\ tasks'[id].status = status
    BY <2>1 DEF Wrote, Known
  <2>4. /\ loop.kind = "result" => status = "Completed"
        /\ loop.kind # "result" => status = "Working"
    BY DEF status
  <2>5. adrift \subseteq adrift' /\ adrift' \subseteq Ids /\ (byHand => id \in adrift')
    <3>1. byHand => tasks' # tasks
      BY <2>3, <2>4
    <3> QED BY <3>1, <1>0, <1>1
  <2>6. worker[id].at = "none" => id \in adrift
    BY <1>0, <1>1 DEF NoPast
  <2>7. reply[id] # "ack"
    BY <2>1, <2>3, <1>0 DEF CancelHolds
  <2>8. loop.kind = "input" => worker[id].at = "done"
    BY <2>1, <2>3, <1>0 DEF WorkerHolds
  <2>9. TypeOK'
    BY <2>1, <2>2, <2>3, <2>5, <1>0, <1>1 DEF TypeOK, LoopType
  <2>10. OneEnding'
    <3>1. Steady
      BY <2>1, WroteIsSteady
    <3>2. Honest
      BY <2>2, <2>3, <2>4, <1>1 DEF Honest, Told
    <3> QED BY <3>1, <3>2, <1>0, OneEndingKept
  <2>11. NoPast' /\ LoopHolds'
    <3>1. NoPast'
      BY <2>2, <2>3, <2>5, <2>6, <1>0, <1>1 DEF NoPast, Known
    <3>2. LoopHolds'
      BY <2>2, <2>3, <2>4, <2>8, <1>1 DEF LoopHolds, Known, Resuming
    <3> QED BY <3>1, <3>2
  <2>12. InCharge'
    <3> SUFFICES ASSUME NEW i \in Ids
                 PROVE  /\ Known(i)' /\ tasks'[i].status \in {"Pending", "Working"} =>
                             Running(i)' \/ i \in adrift' \/ (loop'.id = i /\ loop'.at = "notify") \/ Resuming(i)'
                        /\ i \in flags' /\ Known(i)' /\ Terminal(tasks'[i]) => Running(i)' \/ i \in adrift'
      BY Zenon DEF InCharge, Known
    <3>1. CASE i # id
      BY <3>1, <2>3, <2>5, <1>0, <1>1 DEF InCharge, Known, Running, Resuming
    <3>2. CASE i = id
      <4>1. tasks[id].status \in {"Pending", "Working"} \/ tasks[id].status = "InputRequired"
        BY <2>1, <2>3, <1>0, StoreStates DEF States, Statuses, Terminal
      <4>2. tasks[id].status \in {"Pending", "Working"} => Running(id) \/ id \in adrift
        BY <2>3, <1>0, <1>1 DEF InCharge, Resuming
      <4>3. Running(id)' <=> Running(id)
        BY <1>1 DEF Running
      <4>4. CASE loop.kind = "result"
        BY <4>1, <4>2, <4>3, <4>4, <3>2, <2>1, <2>5
      <4>5. CASE loop.kind = "input"
        BY <4>5, <3>2, <2>2, <2>3, <2>4 DEF Resuming, Terminal
      <4>6. CASE loop.kind = "bare"
        BY <4>1, <4>2, <4>3, <4>6, <3>2, <2>3, <2>4, <2>5 DEF Terminal
      <4> QED BY <4>4, <4>5, <4>6, <1>0 DEF LoopType, Kinds
    <3> QED BY <3>1, <3>2
  <2>13. WorkerHolds' /\ ToolsAreHeld'
    BY <2>1, <2>3, <2>4, <1>0, <1>1 DEF WorkerHolds, ToolsAreHeld, Known, Running, LoopAt, Terminal
  <2>14. CancelHolds'
    BY <2>3, <2>7, <1>0, <1>1 DEF CancelHolds, Known
  <2> QED BY <2>9, <2>10, <2>11, <2>12, <2>13, <2>14 DEF IInv
<1> QED BY <1>1, <1>4, <1>5

(* UpdateNotify: the client hears of the update; with an answer the loop goes on.                  *)
LEMMA UpdateNotifyKeeps ==
  ASSUME IInv, NEW id \in Ids, loop.id = id, UpdateNotify
  PROVE  IInv'
<1> DEFINE status == IF loop.kind = "result" THEN "Completed" ELSE "Working"
<1>0. /\ TypeOK /\ OneEnding /\ NoPast /\ LoopHolds /\ WorkerHolds /\ InCharge /\ CancelHolds /\ ToolsAreHeld
      /\ noted \in [Ids -> SUBSET Ends] /\ failures \in Nat /\ reply \in [Ids -> {"none", "ack", "refused"}]
  BY Parts
<1>1. /\ loop.at = "updated" /\ Notify(id, status)
      /\ IF loop.kind = "input" THEN GoTo("resume") ELSE loop' = Idle
      /\ UNCHANGED <<modern, tasks, flags, fresh, raised, worker, futures, closing, failures, reply, adrift>>
  BY DEF UpdateNotify, LoopAt
<1>2. /\ noted' \in [Ids -> SUBSET Ends] /\ \A i \in Ids \ {id} : noted'[i] = noted[i]
      /\ noted'[id] = noted[id] \cup ({status} \cap Ends)
  <2> HIDE DEF status
  <2> QED BY <1>0, <1>1, Notified
<1>3. \A end \in noted'[id] : Told(id, end)
  BY <1>1, <1>2 DEF Told, Ends
<1>4. CASE loop.kind # "input"
  <2>1. loop' = Idle /\ ~Resuming(id)
    BY <1>1, <1>4 DEF Resuming
  <2> QED BY <2>1, <1>0, <1>1, <1>2, <1>3, LoopLetsGo
<1>5. CASE loop.kind = "input"
  <2>1. loop' \in LoopType /\ loop'.id = id /\ loop'.at = "resume"
    BY <1>0, <1>1, <1>5, LoopMoves DEF Steps
  <2>2. Resuming(id) /\ worker[id].at = "done" /\ Known(id) /\ tasks[id].status = "Working"
    BY <1>0, <1>1, <1>5 DEF Resuming, LoopHolds
  <2>3. TypeOK'
    BY <2>1, <1>0, <1>1, <1>2 DEF TypeOK, LoopType
  <2>4. OneEnding'
    <3>1. Steady
      BY <1>1 DEF Steady, Known
    <3>2. Honest
      <4> SUFFICES ASSUME NEW i \in Ids, NEW end \in Ends, Told(i, end)', ~Told(i, end) PROVE FALSE
        BY DEF Honest
      <4>1. end \in noted'[i]
        BY <2>1, <1>1 DEF Told
      <4> QED BY <4>1, <1>2, <1>3 DEF Told
    <3> QED BY <3>1, <3>2, <1>0, OneEndingKept
  <2>5. NoPast' /\ LoopHolds'
    BY <2>1, <2>2, <1>0, <1>1, <1>2 DEF NoPast, LoopHolds, Known, Resuming
  <2>6. InCharge'
    BY <2>1, <1>0, <1>1 DEF InCharge, Known, Running, Resuming
  <2>7. WorkerHolds' /\ ToolsAreHeld' /\ CancelHolds'
    BY <1>0, <1>1 DEF WorkerHolds, ToolsAreHeld, CancelHolds, Known, Running, LoopAt
  <2> QED BY <2>3, <2>4, <2>5, <2>6, <2>7 DEF IInv
<1> QED BY <1>4, <1>5

(* ParkAgain, ResumeNoTool and ResumeEnds end the request in which the loop runs a task again.     *)
LEMMA ResumingEndsKeeps ==
  ASSUME IInv, NEW id \in Ids, loop.id = id,
         ParkAgain \/ ResumeNoTool \/ \E outcome \in Outcomes : ResumeEnds(outcome)
  PROVE  IInv'
<1>0. /\ TypeOK /\ LoopHolds /\ failures \in Nat /\ MaxFailures \in Nat
      /\ noted \in [Ids -> SUBSET Ends] /\ reply \in [Ids -> {"none", "ack", "refused"}]
  BY Parts, ServerAssumption
<1>1. \A end \in noted[id] : Told(id, end)
  BY DEF Told
<1>2. /\ {"Completed", "Failed", "Cancelled"} \subseteq Ends /\ Ends \subseteq Statuses
      /\ "InputRequired" \in Statuses /\ "InputRequired" \notin Ends
  BY DEF Ends, Statuses
<1>3. ASSUME loop.at \in {"resume", "resumed"}
      PROVE  Resuming(id) /\ Known(id) /\ tasks[id].status = "Working" /\ ~Terminal(tasks[id])
  BY <1>0, <1>3 DEF Resuming, LoopHolds, Terminal
<1>4. ASSUME loop.at \in {"resume", "resumed"}, loop' = Idle,
             UNCHANGED <<modern, tasks, flags, fresh, raised, worker, futures, closing, noted, reply>>, failures' \in Nat,
             adrift' = adrift \cup {id}
      PROVE  IInv'
  BY <1>0, <1>1, <1>4, LoopLetsGo
<1>5. CASE ParkAgain
  <2> DEFINE S == Park(id)
  <2>1. /\ loop.at = "resume" /\ loop' = Idle
        /\ UNCHANGED <<modern, flags, fresh, raised, worker, futures, closing, noted, reply>>
        /\ ((Applied(id, S) \/ Refused(S)) /\ UNCHANGED adrift) \/ (Throws(S) /\ adrift' = adrift \cup {id})
    BY <1>5 DEF ParkAgain, LoopAt
  <2>2. /\ \A s \in S : s \in States /\ s.status = "InputRequired" /\ Known(id) /\ ~Terminal(tasks[id])
        /\ S = {} => (Known(id) => Terminal(tasks[id]))
    BY <1>0, StoreStates
  <2> HIDE DEF S
  <2>3. /\ Applied(id, S) => Wrote(id, "InputRequired") /\ failures' \in Nat
        /\ Throws(S) => tasks' = tasks /\ failures' \in Nat
    BY <2>2, <1>0, <1>2, StoreWrites
  <2>4. ~Refused(S)
    BY <2>1, <2>2, <1>3 DEF Refused
  <2>5. CASE Applied(id, S) /\ UNCHANGED adrift
    BY <2>1, <2>3, <2>5, <1>2, <1>3, ResumingWrites
  <2>6. CASE Throws(S) /\ adrift' = adrift \cup {id}
    BY <2>1, <2>3, <2>6, <1>4
  <2> QED BY <2>1, <2>4, <2>5, <2>6
<1>6. CASE ResumeNoTool
  BY <1>0, <1>4, <1>6 DEF ResumeNoTool, LoopAt
<1>7. ASSUME NEW outcome \in Outcomes, ResumeEnds(outcome)
      PROVE  IInv'
  <2> DEFINE S == ResumedStates(id, outcome)
             status == CASE id \in raised -> "Cancelled"
                         [] id \notin raised /\ outcome = "input" -> "InputRequired"
                         [] id \notin raised /\ outcome = "result" -> "Completed"
                         [] OTHER -> "Failed"
             parks == id \notin raised /\ outcome = "input"
  <2>1. /\ loop.at = "resumed" /\ loop' = Idle
        /\ UNCHANGED <<modern, fresh, raised, worker, futures, closing, noted, reply>>
    BY <1>7 DEF ResumeEnds, LoopAt
  <2>2. \/ /\ Applied(id, S) \/ Refused(S)
           /\ flags' = IF parks THEN flags ELSE flags \ {id}
           /\ UNCHANGED adrift
        \/ /\ MayThrow(1)
           /\ \E s \in IF id \in raised THEN SetStatus(id, "Cancelled") ELSE Fail(id) :
                 tasks' = [tasks EXCEPT ![id] = s]
           /\ flags' = flags \ {id}
           /\ UNCHANGED adrift
        \/ /\ MayThrow(IF outcome \in {"result", "input"} THEN 2 ELSE 1)
           /\ adrift' = adrift \cup {id} /\ tasks' = tasks /\ flags' = flags
    BY <1>7 DEF ResumeEnds
  <2>3. Resuming(id) /\ Known(id) /\ tasks[id].status = "Working" /\ ~Terminal(tasks[id])
    BY <2>1, <1>3
  <2>4. /\ \A s \in S : s \in States /\ s.status = status
        /\ S # {} /\ (parks <=> status = "InputRequired") /\ status \in Ends \cup {"InputRequired"}
    <3>1. CASE id \in raised
      BY <3>1, <2>3, <1>0, <1>2, StoreStates DEF ResumedStates
    <3>2. CASE id \notin raised /\ outcome = "input"
      BY <3>2, <2>3, <1>0, <1>2, StoreStates DEF ResumedStates
    <3>3. CASE id \notin raised /\ outcome = "result"
      BY <3>3, <2>3, <1>0, <1>2, StoreStates DEF ResumedStates
    <3>4. CASE id \notin raised /\ outcome \notin {"input", "result"}
      BY <3>4, <2>3, <1>0, <1>2, StoreStates DEF ResumedStates
    <3> QED BY <3>1, <3>2, <3>3, <3>4
  <2> HIDE DEF S, status
  <2>5. CASE Applied(id, S) /\ flags' = (IF parks THEN flags ELSE flags \ {id}) /\ UNCHANGED adrift
    <3>1. PICK s \in S : tasks' = [tasks EXCEPT ![id] = s]
      BY <2>5 DEF Applied
    <3>2. Wrote(id, status)
      <4>1. s \in States /\ s.status = status
        BY <2>4
      <4>2. Wrote(id, s.status)
        BY <3>1, <4>1, <2>3, <1>0, AppliedWrites
      <4> QED BY <4>1, <4>2
    <3>3. failures' \in Nat
      BY <2>5, <1>0 DEF Applied
    <3>4. flags' \in {flags, flags \ {id}} /\ (status \in Ends => id \notin flags')
      BY <2>4, <2>5, <1>2
    <3> QED BY <3>2, <3>3, <3>4, <2>1, <2>3, <2>4, <2>5, ResumingWrites
  <2>6. ~Refused(S)
    BY <2>4 DEF Refused
  <2>7. CASE /\ MayThrow(1)
             /\ \E s \in IF id \in raised THEN SetStatus(id, "Cancelled") ELSE Fail(id) :
                   tasks' = [tasks EXCEPT ![id] = s]
             /\ flags' = flags \ {id}
             /\ UNCHANGED adrift
    <3>1. failures' \in Nat
      BY <2>7, <1>0 DEF MayThrow
    <3>2. CASE id \in raised
      <4>1. Wrote(id, "Cancelled")
        <5>1. PICK s \in SetStatus(id, "Cancelled") : tasks' = [tasks EXCEPT ![id] = s]
          BY <2>7, <3>2
        <5>2. s \in States /\ s.status = "Cancelled"
          BY <1>0, <1>2, StoreStates
        <5>3. Wrote(id, s.status)
          BY <5>1, <5>2, <2>3, <1>0, AppliedWrites
        <5> QED BY <5>2, <5>3
      <4> QED BY <4>1, <3>1, <2>1, <2>3, <2>7, <1>2, ResumingWrites
    <3>3. CASE id \notin raised
      <4>1. Wrote(id, "Failed")
        <5>1. PICK s \in Fail(id) : tasks' = [tasks EXCEPT ![id] = s]
          BY <2>7, <3>3
        <5>2. s \in States /\ s.status = "Failed"
          BY <1>0, <1>2, StoreStates
        <5>3. Wrote(id, s.status)
          BY <5>1, <5>2, <2>3, <1>0, AppliedWrites
        <5> QED BY <5>2, <5>3
      <4> QED BY <4>1, <3>1, <2>1, <2>3, <2>7, <1>2, ResumingWrites
    <3> QED BY <3>2, <3>3
  <2>8. CASE /\ MayThrow(IF outcome \in {"result", "input"} THEN 2 ELSE 1)
             /\ adrift' = adrift \cup {id} /\ tasks' = tasks /\ flags' = flags
    <3>1. failures' \in Nat
      BY <2>8, <1>0 DEF MayThrow
    <3> QED BY <3>1, <2>1, <2>8, <1>4
  <2> QED BY <2>2, <2>5, <2>6, <2>7, <2>8
<1> QED BY <1>5, <1>6, <1>7

(* Resume: the tool is about to run again, with the flag of the task or a new one.                 *)
LEMMA ResumeKeeps ==
  ASSUME IInv, NEW id \in Ids, loop.id = id, Resume
  PROVE  IInv'
<1>0. /\ TypeOK /\ OneEnding /\ NoPast /\ LoopHolds /\ WorkerHolds /\ InCharge /\ CancelHolds /\ ToolsAreHeld
      /\ flags \subseteq Ids /\ fresh \subseteq Ids /\ raised \subseteq Ids
  BY Parts
<1>1. /\ loop.at = "resume" /\ flags' = flags \cup {id} /\ GoTo("resumed")
      /\ IF id \in flags THEN UNCHANGED <<fresh, raised>>
         ELSE fresh' = fresh \cup {id} /\ raised' = raised \ {id}
      /\ UNCHANGED <<modern, tasks, worker, futures, closing, failures, noted, reply, adrift>>
  BY DEF Resume, LoopAt
<1>2. loop' \in LoopType /\ loop'.id = id /\ loop'.at = "resumed"
  BY <1>0, <1>1, LoopMoves DEF Steps
<1>3. Resuming(id) /\ worker[id].at = "done" /\ Known(id) /\ tasks[id].status = "Working"
  BY <1>0, <1>1 DEF Resuming, LoopHolds
<1>4. fresh' \subseteq Ids /\ raised' \subseteq Ids /\ raised \ {id} \subseteq raised'
  BY <1>0, <1>1
<1>5. TypeOK'
  BY <1>0, <1>1, <1>2, <1>4 DEF TypeOK, LoopType
<1>6. OneEnding'
  <2>1. Steady
    BY <1>1 DEF Steady, Known
  <2>2. Honest
    BY <1>1, <1>2 DEF Honest, Told
  <2> QED BY <2>1, <2>2, <1>0, OneEndingKept
<1>7. NoPast' /\ LoopHolds'
  BY <1>0, <1>1, <1>2, <1>3 DEF NoPast, LoopHolds, Known, Resuming
<1>8. InCharge'
  BY <1>0, <1>1, <1>2, <1>3 DEF InCharge, Known, Running, Resuming, Terminal
<1>9. WorkerHolds' /\ ToolsAreHeld' /\ CancelHolds'
  BY <1>0, <1>1, <1>3, <1>4 DEF WorkerHolds, ToolsAreHeld, CancelHolds, Known, Running, LoopAt
<1> QED BY <1>5, <1>6, <1>7, <1>8, <1>9 DEF IInv

--------------------------------------------------------------------------------
(* The message loop: cancels *)

(* CancelFlag: the flag goes up, and a task that had ended is done with.                           *)
LEMMA CancelFlagKeeps ==
  ASSUME IInv, NEW id \in Ids, loop.id = id, CancelFlag
  PROVE  IInv'
<1>0. /\ TypeOK /\ OneEnding /\ NoPast /\ LoopHolds /\ WorkerHolds /\ InCharge /\ CancelHolds /\ ToolsAreHeld
      /\ flags \subseteq Ids /\ raised \subseteq Ids /\ reply \in [Ids -> {"none", "ack", "refused"}]
  BY Parts
<1>1. /\ loop.at = "flag" /\ raised' = (IF id \in flags THEN raised \cup {id} ELSE raised) /\ flags' = flags \ {id}
      /\ IF loop.ended THEN reply' = [reply EXCEPT ![id] = "ack"] /\ loop' = Idle ELSE GoTo("cancel") /\ UNCHANGED reply
      /\ UNCHANGED <<modern, tasks, fresh, worker, futures, closing, failures, noted, adrift>>
  BY DEF CancelFlag, LoopAt, Raise, Answer
<1>2. /\ loop' \in LoopType /\ loop'.at \in {"idle", "cancel"} /\ (loop'.at = "cancel" => loop'.id = id)
      /\ loop'.at = "idle" => loop'.id = Nobody
  BY <1>0, <1>1, LoopMoves, Rests DEF Steps
<1>3. worker[id].at = "tool" => id \in raised'
  BY <1>0, <1>1 DEF WorkerHolds
<1>4. raised \subseteq raised' /\ raised' \subseteq Ids /\ Nobody \notin Ids
  BY <1>0, <1>1, ServerAssumption
<1>5. worker[id].at = "none" => id \in adrift
  BY <1>0, <1>1 DEF NoPast
<1>6. /\ reply' \in [Ids -> {"none", "ack", "refused"}] /\ \A i \in Ids \ {id} : reply'[i] = reply[i]
      /\ reply'[id] = "ack" => reply[id] = "ack" \/ (Known(id) => Terminal(tasks[id]))
  BY <1>0, <1>1 DEF LoopHolds
<1>7. TypeOK'
  BY <1>0, <1>1, <1>2, <1>4, <1>6 DEF TypeOK, LoopType
<1>8. OneEnding'
  <2>1. Steady
    BY <1>1 DEF Steady, Known
  <2>2. Honest
    BY <1>1, <1>2 DEF Honest, Told
  <2> QED BY <2>1, <2>2, <1>0, OneEndingKept
<1>9. NoPast' /\ LoopHolds'
  <2>1. NoPast'
    BY <1>0, <1>1, <1>2, <1>4, <1>5, <1>6 DEF NoPast, Known
  <2>2. LoopHolds'
    BY <1>1, <1>2, <1>3 DEF LoopHolds, Known, Resuming
  <2> QED BY <2>1, <2>2
<1>10. InCharge'
  BY <1>0, <1>1 DEF InCharge, Known, Running, Resuming
<1>11. WorkerHolds' /\ ToolsAreHeld'
  BY <1>0, <1>1, <1>4 DEF WorkerHolds, ToolsAreHeld, Known, Running, LoopAt
<1>12. CancelHolds'
  BY <1>0, <1>1, <1>3, <1>4, <1>6 DEF CancelHolds, Known
<1> QED BY <1>7, <1>8, <1>9, <1>10, <1>11, <1>12 DEF IInv

(* CancelWrite: the cancel is written, refused or thrown away.                                     *)
LEMMA CancelWriteKeeps ==
  ASSUME IInv, NEW id \in Ids, loop.id = id, CancelWrite
  PROVE  IInv'
<1> DEFINE S == Cancel(id)
<1>0. /\ TypeOK /\ OneEnding /\ NoPast /\ LoopHolds /\ WorkerHolds /\ InCharge /\ CancelHolds /\ ToolsAreHeld
      /\ noted \in [Ids -> SUBSET Ends] /\ reply \in [Ids -> {"none", "ack", "refused"}]
  BY Parts
<1>1. /\ loop.at = "cancel" /\ UNCHANGED <<modern, flags, fresh, raised, worker, futures, closing, noted, adrift>>
      /\ \/ Applied(id, S) /\ GoTo("cancelled") /\ UNCHANGED reply
         \/ Refused(S) /\ reply' = [reply EXCEPT ![id] = "refused"] /\ loop' = Idle
         \/ Throws(S) /\ loop' = Idle /\ UNCHANGED reply
  BY DEF CancelWrite, LoopAt, Answer
<1>2. /\ \A s \in S : s \in States /\ s.status = "Cancelled" /\ Known(id) /\ ~Terminal(tasks[id])
      /\ "Cancelled" \in Statuses
  BY <1>0, StoreStates DEF Statuses
<1> HIDE DEF S
<1>3. /\ Applied(id, S) => Wrote(id, "Cancelled") /\ failures' \in Nat
      /\ Refused(S) => S = {} /\ tasks' = tasks /\ failures' \in Nat
      /\ Throws(S) => tasks' = tasks /\ failures' \in Nat
  BY <1>0, <1>2, StoreWrites
<1>4. ~Resuming(id) /\ \A end \in noted[id] : Told(id, end)
  BY <1>1 DEF Resuming, Told
<1>5. CASE Refused(S) /\ reply' = [reply EXCEPT ![id] = "refused"] /\ loop' = Idle
  <2>1. /\ reply' \in [Ids -> {"none", "ack", "refused"}] /\ \A i \in Ids \ {id} : reply'[i] = reply[i]
        /\ reply'[id] # "ack"
    BY <1>0, <1>5
  <2> QED BY <2>1, <1>0, <1>1, <1>3, <1>4, <1>5, LoopLetsGo
<1>6. CASE Throws(S) /\ loop' = Idle /\ UNCHANGED reply
  BY <1>0, <1>1, <1>3, <1>4, <1>6, LoopLetsGo
<1>7. CASE Applied(id, S) /\ GoTo("cancelled") /\ UNCHANGED reply
  <2>1. loop' \in LoopType /\ loop'.id = id /\ loop'.at = "cancelled"
    BY <1>0, <1>7, LoopMoves DEF Steps
  <2>2. Wrote(id, "Cancelled") /\ failures' \in Nat
    BY <1>3, <1>7
  <2>3. /\ tasks' \in [Ids -> States \cup {Absent}] /\ \A i \in Ids \ {id} : tasks'[i] = tasks[i]
        /\ Known(id) /\ Known(id)' /\ tasks'[id].status = "Cancelled" /\ Terminal(tasks'[id])
    BY <2>2 DEF Wrote, Known, Terminal
  <2>4. /\ id \notin flags /\ (worker[id].at = "tool" => id \in raised) /\ (worker[id].at = "none" => id \in adrift)
    BY <1>0, <1>1 DEF LoopHolds, NoPast
  <2>5. TypeOK'
    BY <2>1, <2>2, <2>3, <1>0, <1>1, <1>7 DEF TypeOK, LoopType
  <2>6. OneEnding'
    <3>1. Steady
      BY <2>2, WroteIsSteady
    <3>2. Honest
      BY <2>1, <2>3, <1>1 DEF Honest, Told
    <3> QED BY <3>1, <3>2, <1>0, OneEndingKept
  <2>7. NoPast' /\ LoopHolds'
    <3>1. NoPast'
      BY <2>1, <2>3, <2>4, <1>0, <1>1, <1>7 DEF NoPast, Known
    <3>2. LoopHolds'
      BY <2>1, <2>3, <2>4, <1>1 DEF LoopHolds, Known, Resuming
    <3> QED BY <3>1, <3>2
  <2>8. InCharge'
    BY <2>3, <2>4, <1>0, <1>1 DEF InCharge, Known, Running, Resuming
  <2>9. WorkerHolds' /\ ToolsAreHeld'
    BY <2>3, <1>0, <1>1 DEF WorkerHolds, ToolsAreHeld, Known, Running, LoopAt
  <2>10. CancelHolds'
    BY <2>3, <1>0, <1>1, <1>7 DEF CancelHolds, Known
  <2> QED BY <2>5, <2>6, <2>7, <2>8, <2>9, <2>10 DEF IInv
<1> QED BY <1>1, <1>5, <1>6, <1>7

(* CancelNotify: the client hears of the cancel, and is answered.                                  *)
LEMMA CancelNotifyKeeps ==
  ASSUME IInv, NEW id \in Ids, loop.id = id, CancelNotify
  PROVE  IInv'
<1>0. /\ TypeOK /\ noted \in [Ids -> SUBSET Ends] /\ failures \in Nat
      /\ reply \in [Ids -> {"none", "ack", "refused"}]
  BY Parts
<1>1. /\ loop.at = "cancelled" /\ Notify(id, "Cancelled") /\ reply' = [reply EXCEPT ![id] = "ack"] /\ loop' = Idle
      /\ UNCHANGED <<modern, tasks, flags, fresh, raised, worker, futures, closing, failures, adrift>>
  BY DEF CancelNotify, LoopAt, Answer
<1>2. /\ noted' \in [Ids -> SUBSET Ends] /\ \A i \in Ids \ {id} : noted'[i] = noted[i]
      /\ noted'[id] = noted[id] \cup ({"Cancelled"} \cap Ends)
  BY <1>0, <1>1, Notified
<1>3. \A end \in noted'[id] : Told(id, end)
  BY <1>1, <1>2 DEF Told
<1>4. reply' \in [Ids -> {"none", "ack", "refused"}] /\ \A i \in Ids \ {id} : reply'[i] = reply[i]
  BY <1>0, <1>1
<1>5. ~Resuming(id)
  BY <1>1 DEF Resuming
<1> QED BY <1>0, <1>1, <1>2, <1>3, <1>4, <1>5, LoopLetsGo

--------------------------------------------------------------------------------
(* Close, and the theorems *)

(* Close touches neither tasks nor threads; it lets go only of the futures of threads that ended.  *)
LEMMA CloseKeeps ==
  ASSUME IInv, CloseBegins \/ CloseWaited \/ CloseJoined
  PROVE  IInv'
<1>0. /\ TypeOK /\ OneEnding /\ NoPast /\ LoopHolds /\ WorkerHolds /\ InCharge /\ CancelHolds /\ ToolsAreHeld
  BY Parts
<1>1. /\ UNCHANGED <<modern, tasks, flags, fresh, raised, worker, loop, failures, noted, reply, adrift>>
      /\ closing' \in {"waiting", "joining", "closed"}
      /\ UNCHANGED futures \/ (futures' = {} /\ \A i \in futures : Ready(i))
  BY DEF CloseBegins, CloseWaited, CloseJoined, closeUnchanged
<1>2. TypeOK'
  BY <1>0, <1>1 DEF TypeOK
<1>3. OneEnding' /\ NoPast'
  BY <1>0, <1>1 DEF OneEnding, NoPast, Told, Known
<1>4. LoopHolds' /\ WorkerHolds'
  BY <1>0, <1>1 DEF LoopHolds, WorkerHolds, Known, Resuming
<1>5. InCharge' /\ CancelHolds'
  BY <1>0, <1>1 DEF InCharge, CancelHolds, Known, Running, Resuming
<1>6. ToolsAreHeld'
  BY <1>0, <1>1 DEF ToolsAreHeld, Running, Ready, LoopAt
<1> QED BY <1>2, <1>3, <1>4, <1>5, <1>6 DEF IInv

(* The initial states satisfy the invariant.                                                       *)
LEMMA InitIInv == Init => IInv
<1> SUFFICES ASSUME Init PROVE IInv
  OBVIOUS
<1>1. TypeOK
  <2>1. worker \in [Ids -> WorkerType]
    BY DEF Init, WorkerType, Places, Statuses
  <2>2. loop \in LoopType
    BY DEF Init, Idle, LoopType, Steps, Kinds
  <2>3. noted \in [Ids -> SUBSET Ends] /\ reply \in [Ids -> {"none", "ack", "refused"}]
        /\ tasks \in [Ids -> States \cup {Absent}]
    BY DEF Init
  <2> QED BY <2>1, <2>2, <2>3 DEF Init, TypeOK, WorkerType, LoopType
<1>2. OneEnding /\ NoPast /\ LoopHolds
  BY ServerAssumption DEF Init, Idle, OneEnding, NoPast, LoopHolds, Told, Known, Resuming, Ends
<1>3. WorkerHolds /\ InCharge /\ CancelHolds /\ ToolsAreHeld
  BY DEF Init, WorkerHolds, InCharge, CancelHolds, ToolsAreHeld, Known, Running
<1> QED BY <1>1, <1>2, <1>3 DEF IInv

(* Every step of the loop keeps the invariant.                                                     *)
LEMMA LoopKeeps == ASSUME IInv, LoopSteps PROVE IInv'
<1>0. LoopHolds
  BY Parts
<1>1. CASE \E id \in Ids : CallTask(id) \/ CallPlain(id) \/ CallRequired(id) \/ CancelCall(id)
  BY <1>1, CallTaskKeeps, CallPlainKeeps, ReadersKeep, CancelCallKeeps
<1>2. CASE StartTask \/ Launch \/ Push
  BY <1>2, StartTaskKeeps, LaunchKeeps, PushKeeps
<1>3. CASE \E outcome \in Outcomes : RequiredEnds(outcome) \/ ResumeEnds(outcome)
  <2>1. ASSUME NEW outcome \in Outcomes, ResumeEnds(outcome) PROVE IInv'
    <3>1. loop.id \in Ids
      BY <2>1, <1>0 DEF ResumeEnds, LoopAt, LoopHolds
    <3> QED BY <2>1, <3>1, ResumingEndsKeeps
  <2> QED BY <1>3, <2>1, RequiredEndsKeeps
<1>4. CASE \E id \in Ids : (\E kind \in Kinds : UpdateRead(id, kind)) \/ CancelRead(id)
  BY <1>4, ReadersKeep
<1>5. CASE \/ UpdateWrite \/ UpdateNotify \/ ParkAgain \/ ResumeNoTool \/ Resume
           \/ CancelFlag \/ CancelWrite \/ CancelNotify
  <2>1. loop.id \in Ids
    BY <1>5, <1>0 DEF UpdateWrite, UpdateNotify, ParkAgain, ResumeNoTool, Resume,
                      CancelFlag, CancelWrite, CancelNotify, LoopAt, LoopHolds
  <2> QED BY <2>1, <1>5, UpdateWriteKeeps, UpdateNotifyKeeps, ResumingEndsKeeps, ResumeKeeps,
             CancelFlagKeeps, CancelWriteKeeps, CancelNotifyKeeps
<1> QED BY <1>1, <1>2, <1>3, <1>4, <1>5 DEF LoopSteps

(* So does every step of the system.                                                               *)
LEMMA StepIInv == ASSUME IInv, [Next]_vars PROVE IInv'
<1>1. CASE LoopSteps
  BY <1>1, LoopKeeps
<1>2. CASE \E id \in Ids : WorkerSteps(id)
  <2>1. TypeOK /\ OneEnding /\ WorkerHolds
    BY Parts
  <2> QED BY <1>2, <2>1, WorkerKeepsRule, WorkerStepKeeps
<1>3. CASE CloseBegins \/ CloseWaited \/ CloseJoined
  BY <1>3, CloseKeeps
<1>4. CASE UNCHANGED vars
  <2>1. UNCHANGED closeUnchanged /\ UNCHANGED <<futures, closing>>
    BY <1>4 DEF vars, closeUnchanged
  <2> USE DEF closeUnchanged
  <2>2. TypeOK'
    BY <2>1, Parts DEF TypeOK
  <2>3. OneEnding' /\ NoPast'
    BY <2>1, Parts DEF OneEnding, NoPast, Told, Known
  <2>4. LoopHolds' /\ WorkerHolds'
    BY <2>1, Parts DEF LoopHolds, WorkerHolds, Known, Resuming
  <2>5. InCharge' /\ CancelHolds' /\ ToolsAreHeld'
    BY <2>1, Parts DEF InCharge, CancelHolds, ToolsAreHeld, Known, Running, Resuming, LoopAt
  <2> QED BY <2>2, <2>3, <2>4, <2>5 DEF IInv
<1> QED BY <1>1, <1>2, <1>3, <1>4 DEF Next

(* Types, the one ending that is told, the ids that have no past, what loop and threads rely on,   *)
(* who is in charge, acknowledged cancels and the futures: they hold together in every state.      *)
THEOREM TasksInvariant == Spec => []IInv
<1>1. Init => IInv
  BY InitIInv
<1>2. IInv /\ [Next]_vars => IInv'
  BY StepIInv
<1> QED BY <1>1, <1>2, PTL DEF Spec

(* SendTaskNotification by the loop and by the thread of a task: the client is never told two      *)
(* endings of one task, and none that the task store does not have.                                *)
THEOREM NoticesNeverDisagree == Spec => []NoticesAgree
<1>1. IInv => NoticesAgree
  <2> SUFFICES ASSUME IInv, NEW id \in Ids, NEW status \in noted[id]
               PROVE  noted[id] = {status} /\ (Known(id) => tasks[id].status = status)
    BY DEF NoticesAgree
  <2>1. OneEnding /\ noted[id] \subseteq Ends
    BY Parts
  <2>2. \A end \in noted[id] : end \in Ends /\ Told(id, end)
    BY <2>1 DEF Told
  <2>3. Told(id, status) => /\ Known(id) => tasks[id].status = status
                            /\ \A other \in Ends : Told(id, other) => other = status
    BY <2>1, <2>2 DEF OneEnding
  <2>4. \A end \in noted[id] : end = status
    BY <2>2, <2>3
  <2> QED BY <2>2, <2>3, <2>4
<1> QED BY <1>1, TasksInvariant, PTL

(* The tasks/cancel handler: once the cancel is acknowledged the task has ended or is gone for good, and a *)
(* tool that still works for it finds its flag raised.                                             *)
THEOREM CancelsHold == Spec => []CancelHolds
<1>1. IInv => CancelHolds
  BY DEF IInv
<1> QED BY <1>1, TasksInvariant, PTL

(* Each task that is pending or working has a thread that will end or park it, or the loop has it  *)
(* in hand, and each flag of an ended task too, unless the task is adrift (a write for it threw, a *)
(* client set it to working while it was parked, or its tool is gone).  The future of a tool that  *)
(* runs is in the list or about to be put there; that Close waits for it is not claimed.           *)
THEOREM NothingIsLeftBehind == Spec => []NothingLeftBehind
<1>1. IInv => NothingLeftBehind
  <2> SUFFICES ASSUME IInv PROVE NothingLeftBehind
    OBVIOUS
  <2>1. TypeOK /\ InCharge /\ ToolsAreHeld /\ flags \subseteq Ids
    BY Parts
  <2>2. NobodyForgotten
    BY <2>1 DEF InCharge, NobodyForgotten, Resuming
  <2>3. FlagsRetired
    BY <2>1 DEF InCharge, FlagsRetired
  <2> QED BY <2>1, <2>2, <2>3 DEF NothingLeftBehind
<1> QED BY <1>1, TasksInvariant, PTL
================================================================================
