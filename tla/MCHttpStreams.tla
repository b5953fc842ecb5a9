----------------------------- MODULE MCHttpStreams -----------------------------
(***************************************************************************)
(* HttpStreams on small instances: two POSTs against each other; one POST  *)
(* and notifications; one POST and an event stream; an event stream and    *)
(* several events, of which one may fail to be written.                    *)
(***************************************************************************)
EXTENDS HttpStreams, TLC

CONSTANTS p1, p2, g1

MCScenes ==
    {[who |-> {p1, p2}, notes |-> 0, failures |-> 0], [who |-> {g1}, notes |-> 3, failures |-> 1]}
    \cup {[who |-> {p}, notes |-> 2, failures |-> 0] : p \in Posts}
    \cup {[who |-> {p, g1}, notes |-> 0, failures |-> 1] : p \in Posts}

Symmetry == {f @@ g : f \in Permutations(Posts), g \in Permutations(Sessions)}
================================================================================
