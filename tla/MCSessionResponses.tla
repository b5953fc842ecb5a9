--------------------------- MODULE MCSessionResponses --------------------------
(***************************************************************************)
(* Three requests, or two and a cancellation.  r1 and r2 come from two     *)
(* sessions whose ids and request ids, written one after the other, give   *)
(* the same text; r3 uses the id of r1 again.                              *)
(***************************************************************************)
EXTENDS SessionResponses

MCSession == [r \in Requests |-> IF r = "r2" THEN <<1>> ELSE <<>>]
MCId      == [r \in Requests |-> IF r = "r2" THEN <<1>> ELSE <<1, 1>>]
MCArrivals == {{"r1", "r2", "r3"}, {"r1", "r2", "c"}, {"r1", "r3", "c"}}
================================================================================
