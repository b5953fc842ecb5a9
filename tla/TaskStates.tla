------------------------------- MODULE TaskStates ------------------------------
(***************************************************************************)
(* The life of one task, as the writing methods of the task store allow    *)
(* it.  A task is its status and one attribute, which stands for the       *)
(* fields that have no say in the status: owner, ttl, bound tool, result,  *)
(* inputs and times.                                                       *)
(*                                                                         *)
(* Each operator is one method's test and assignment: the set of states    *)
(* the method may leave behind, empty when it returns false.               *)
(***************************************************************************)
CONSTANTS
    Ids,      \* task ids
    Attrs,    \* values of the attribute
    Absent    \* no such task

Statuses == {"Pending", "Working", "Completed", "Failed", "Cancelled", "InputRequired"}

States == [status : Statuses, attr : Attrs]

ASSUME StatesAssumption == Absent \notin States

\* IsTerminalStatus
Terminal(s) == s.status \in {"Completed", "Failed", "Cancelled"}

Becomes(s, status) == {[s EXCEPT !.status = status]}

\* CreateTask; an existing id is refused.
CreateTask(s) == IF s = Absent THEN {[status |-> "Pending", attr |-> a] : a \in Attrs} ELSE {}

\* UpdateTask without and with a result.
UpdateTask(s) ==
    IF Terminal(s) THEN {}
    ELSE Becomes(s, "Working")
         \cup (IF s.status = "InputRequired" THEN {} ELSE Becomes(s, "Completed"))

CancelTask(s) == IF Terminal(s) THEN {} ELSE Becomes(s, "Cancelled")

\* A terminal task accepts its own status again.
SetTaskStatus(s) ==
    UNION {Becomes(s, new) : new \in IF Terminal(s) THEN {s.status} ELSE Statuses}

FailTask(s) == IF Terminal(s) THEN {} ELSE Becomes(s, "Failed")

\* SetTaskOwner and SetTaskTtl, in every status.
SetTaskOwner(s) == {[s EXCEPT !.attr = a] : a \in Attrs}

BindTaskTool(s) == {[s EXCEPT !.attr = a] : a \in Attrs}

AdvanceTaskWithInput(s) == IF s.status = "InputRequired" THEN Becomes(s, "Working") ELSE {}

ParkTaskForInput(s) == IF Terminal(s) THEN {} ELSE Becomes(s, "InputRequired")

RemoveTask(s) == IF s = Absent THEN {} ELSE {Absent}

\* What one call may make of the state s of a task.
Changes(s) ==
    IF s = Absent THEN CreateTask(s)
    ELSE UNION {UpdateTask(s), CancelTask(s), SetTaskStatus(s), FailTask(s), SetTaskOwner(s),
                BindTaskTool(s), AdvanceTaskWithInput(s), ParkTaskForInput(s), RemoveTask(s)}
================================================================================
