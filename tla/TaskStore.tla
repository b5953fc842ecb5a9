-------------------------------- MODULE TaskStore ------------------------------
(***************************************************************************)
(* What IMcpTaskStore promises: a map from ids to tasks on which every     *)
(* call that succeeds acts at once and for good.  Crashes do not show.     *)
(***************************************************************************)
EXTENDS TaskStates

VARIABLE tasks

Init == tasks \in [Ids -> States \cup {Absent}]

Change(id, new) ==
    /\ new \in Changes(tasks[id])
    /\ tasks' = [tasks EXCEPT ![id] = new]

Next == \E id \in Ids : \E new \in States \cup {Absent} : Change(id, new)

Spec == Init /\ [][Next]_tasks

(* The status of a task that is completed, failed or cancelled changes no more; the     *)
(* task may only be removed.                                                            *)
TerminalIsFinal ==
    [][\A id \in Ids :
          tasks[id] # Absent /\ Terminal(tasks[id]) =>
              tasks'[id] = Absent \/ tasks'[id].status = tasks[id].status]_tasks
================================================================================
