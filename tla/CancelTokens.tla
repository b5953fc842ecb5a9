------------------------------ MODULE CancelTokens ------------------------------
(***************************************************************************)
(* A CancelToken shared by several requests.  McpClient::SendRequest       *)
(* registers the request first and attaches the token to it afterwards     *)
(* (CancelSubscription), so the outcome may come before, while and after   *)
(* the handler is added, and so may the cancellation.                      *)
(*                                                                         *)
(* The thread that sends, the thread that delivers the outcome and the     *)
(* thread that cancels the token take the token's mutex and the            *)
(* subscription's one after the other, never both.                         *)
(***************************************************************************)
EXTENDS Naturals

CONSTANT TokenRequests      \* requests sent with the token

VARIABLES
    used,        \* the requests this instance sends
    request,     \* request -> "new", "pending" (in the session handler), "cancelled", "settled"
    attach,      \* request -> where Attach is: "off", "added" (the token has the handler), "ran", "remove", "done"
    completed,   \* request -> completed_ of its subscription
    handlerId,   \* requests whose handler_id_ is set
    complete,    \* request -> where Complete is: "off", "remove", "done"
    cancelled,   \* cancelled of the token's state
    handlers,    \* its handlers, named for the requests
    running      \* handlers Cancel has taken and has still to run

tokenVars == <<used, request, attach, completed, handlerId, complete, cancelled, handlers, running>>

TokensInit(sent) ==
    /\ used = sent
    /\ request = [r \in TokenRequests |-> "new"]
    /\ attach = [r \in TokenRequests |-> "off"]
    /\ completed = [r \in TokenRequests |-> FALSE] /\ handlerId = {}
    /\ complete = [r \in TokenRequests |-> "off"]
    /\ cancelled = FALSE /\ handlers = {} /\ running = {}

\* SendRequest: the request is in the session handler's table before the token knows of it.
SendWithToken(r) ==
    /\ r \in used /\ request[r] = "new" /\ request' = [request EXCEPT ![r] = "pending"]
    /\ UNCHANGED <<used, attach, completed, handlerId, complete, cancelled, handlers, running>>

\* CancelRequest settles a request that is pending, once.
CancelRequest(r) ==
    request' = [request EXCEPT ![r] = IF @ = "pending" THEN "cancelled" ELSE @]

\* AddCancelHandler: on a cancelled token the handler runs at once and is not kept.
AddCancelHandler(r) ==
    /\ request[r] # "new" /\ attach[r] = "off"
    /\ IF cancelled
       THEN attach' = [attach EXCEPT ![r] = "done"] /\ CancelRequest(r) /\ UNCHANGED handlers
       ELSE attach' = [attach EXCEPT ![r] = "added"] /\ handlers' = handlers \cup {r} /\ UNCHANGED request
    /\ UNCHANGED <<used, completed, handlerId, complete, cancelled, running>>

\* The rest of Attach: the id is kept, or, when the outcome was faster, the handler is removed.
AttachMutant(r) ==
    /\ attach[r] = "added"
    /\ attach' = [attach EXCEPT ![r] = "done"] /\ handlerId' = handlerId \cup {r}
    /\ UNCHANGED <<used, request, completed, complete, cancelled, handlers, running>>

Attach(r) ==
    /\ attach[r] = "added"
    /\ IF completed[r] THEN attach' = [attach EXCEPT ![r] = "remove"] /\ UNCHANGED handlerId
       ELSE attach' = [attach EXCEPT ![r] = "done"] /\ handlerId' = handlerId \cup {r}
    /\ UNCHANGED <<used, request, completed, complete, cancelled, handlers, running>>

RemoveCancelHandler(r) == handlers' = handlers \ {r}

RemoveNow(r) ==
    /\ attach[r] = "remove" /\ attach' = [attach EXCEPT ![r] = "done"] /\ RemoveCancelHandler(r)
    /\ UNCHANGED <<used, request, completed, handlerId, complete, cancelled, running>>

\* The outcome: an answer or a timeout settles the request, or a cancellation has; then Complete
\* takes the id and removes the handler.
Outcome(r) ==
    /\ request[r] = "pending" /\ request' = [request EXCEPT ![r] = "settled"]
    /\ UNCHANGED <<used, attach, completed, handlerId, complete, cancelled, handlers, running>>

Complete(r) ==
    /\ request[r] \in {"settled", "cancelled"} /\ complete[r] = "off"
    /\ completed' = [completed EXCEPT ![r] = TRUE]
    /\ handlerId' = handlerId \ {r}
    /\ complete' = [complete EXCEPT ![r] = IF r \in handlerId THEN "remove" ELSE "done"]
    /\ UNCHANGED <<used, request, attach, cancelled, handlers, running>>

RemoveTaken(r) ==
    /\ complete[r] = "remove" /\ complete' = [complete EXCEPT ![r] = "done"] /\ RemoveCancelHandler(r)
    /\ UNCHANGED <<used, request, attach, completed, handlerId, cancelled, running>>

\* Cancel takes the handlers under the mutex and runs them without it.
Cancel ==
    /\ used # {} /\ ~cancelled /\ cancelled' = TRUE
    /\ running' = handlers /\ handlers' = {}
    /\ UNCHANGED <<used, request, attach, completed, handlerId, complete>>

RunHandler(r) ==
    /\ r \in running /\ running' = running \ {r}
    /\ CancelRequest(r)
    /\ UNCHANGED <<used, attach, completed, handlerId, complete, cancelled, handlers>>

TokensNext ==
    \/ Cancel
    \/ \E r \in TokenRequests :
          \/ SendWithToken(r) \/ AddCancelHandler(r) \/ Attach(r) \/ RemoveNow(r)
          \/ Outcome(r) \/ Complete(r) \/ RemoveTaken(r) \/ RunHandler(r)

Over(r) == attach[r] = "done" /\ complete[r] = "done"

\* Once a request is over on both sides the token keeps no handler of it: a token that outlives
\* many requests does not grow.  And once the token is cancelled and every handler has run, no
\* request that was sent with it is still pending: the cancellation is not lost between the two
\* steps of Attach.
TokenLetsGo ==
    \A r \in used :
        /\ Over(r) => r \notin handlers
        /\ (cancelled /\ running = {} /\ attach[r] # "off") => request[r] # "pending"
================================================================================
