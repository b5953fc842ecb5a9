---------------------------- MODULE MCServerTasks ------------------------------
(* ServerTasks for TLC: task ids are interchangeable. *)
EXTENDS ServerTasks, TLC

Symmetry == Permutations(Ids)
================================================================================
