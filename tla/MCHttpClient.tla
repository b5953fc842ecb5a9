------------------------------ MODULE MCHttpClient ------------------------------
(* HttpClient with threads that post a notification or an answer. *)
EXTENDS HttpClient

CONSTANTS r1, r2, h1, h2

\* h1 posts a notification, h2 an answer that carries the id of the request r1.
MCAnswerId == [h \in Helpers |-> IF h = h2 THEN r1 ELSE NoId]

MCStarts == {
    [sent |-> {r1, r2}, listens |-> FALSE],
    [sent |-> {r1, h1}, listens |-> FALSE],
    [sent |-> {r1, h2}, listens |-> FALSE],
    [sent |-> {h1, h2}, listens |-> FALSE],
    [sent |-> {h1}, listens |-> TRUE]}
================================================================================
