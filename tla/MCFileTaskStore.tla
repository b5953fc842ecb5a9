----------------------------- MODULE MCFileTaskStore ---------------------------
(* A file in the old format that holds one working task. *)
EXTENDS FileTaskStore

CONSTANT t1

OneWorking ==
    {[id \in Ids |-> IF id = t1 THEN [status |-> "Working", attr |-> CHOOSE a \in Attrs : TRUE]
                                ELSE Absent]}
================================================================================
