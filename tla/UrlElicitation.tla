----------------------------- MODULE UrlElicitation -----------------------------
(***************************************************************************)
(* McpServer::ElicitUrl in the legacy era: the server asks the client to   *)
(* open a URL and promises the result to the tool.  The promise is kept by *)
(* the notification that the user is done, or broken by the watchdog: no   *)
(* answer in time, an answer that is an error, or no notification in time. *)
(* Whoever takes the entry out of pending_url_elicitations_ settles it.    *)
(***************************************************************************)
EXTENDS Naturals, Sequences

CONSTANT Elicitations

VARIABLES
    asking,     \* the elicitations of this instance
    elicit,     \* elicitation -> "new", "sent", "failed" (SendRequest threw)
    entered,    \* pending_url_elicitations_
    confirmed,  \* those whose completed is set
    taken,      \* entries taken out and not yet settled, with what they will be settled to
    promised,   \* elicitation -> what its promise was set to, in order
    reply,      \* elicitation -> the client's answer: "none", "result", "error"
    done,       \* elicitation/complete notifications on their way
    watchdog    \* elicitation -> "off", "answer", "complete", "abandon", "gone"

elicitVars == <<asking, elicit, entered, confirmed, taken, promised, reply, done, watchdog>>

ElicitInit(S) ==
    /\ asking = S
    /\ elicit = [e \in Elicitations |-> "new"] /\ entered = {} /\ confirmed = {} /\ taken = {}
    /\ promised = [e \in Elicitations |-> <<>>] /\ reply = [e \in Elicitations |-> "none"]
    /\ done = {} /\ watchdog = [e \in Elicitations |-> "off"]

\* The entry is made before the request is sent; if that throws it is taken out again.
ElicitUrl(e) ==
    /\ e \in asking /\ elicit[e] = "new"
    /\ \/ /\ elicit' = [elicit EXCEPT ![e] = "sent"] /\ entered' = entered \cup {e}
          /\ watchdog' = [watchdog EXCEPT ![e] = "answer"]
       \/ elicit' = [elicit EXCEPT ![e] = "failed"] /\ UNCHANGED <<entered, watchdog>>
    /\ UNCHANGED <<asking, confirmed, taken, promised, reply, done>>

\* The client: an error, or the notification (whatever the user decided) and an answer; a network
\* may deliver the two in either order, and the user may be done more than once.
ClientAnswers(e) ==
    /\ elicit[e] = "sent" /\ reply[e] = "none"
    /\ \E r \in {"result", "error"} : reply' = [reply EXCEPT ![e] = r]
    /\ UNCHANGED <<asking, elicit, entered, confirmed, taken, promised, done, watchdog>>

ClientIsDone(e) ==
    /\ elicit[e] = "sent" /\ e \notin done /\ reply[e] # "error"
    /\ done' = done \cup {e}
    /\ UNCHANGED <<asking, elicit, entered, confirmed, taken, promised, reply, watchdog>>

\* Entry e is taken out to be settled; nothing happens when it is not there any more.
TakeMutant(e, outcome) == entered' = entered \ {e} /\ taken' = taken \cup {<<e, outcome>>}

Take(e, outcome) ==
    IF e \in entered THEN entered' = entered \ {e} /\ taken' = taken \cup {<<e, outcome>>}
    ELSE UNCHANGED <<entered, taken>>

\* The handler of notifications/elicitation/complete.
ElicitationComplete(e) ==
    /\ e \in done /\ done' = done \ {e}
    /\ Take(e, "accept")
    /\ confirmed' = IF e \in entered THEN confirmed \cup {e} ELSE confirmed
    /\ UNCHANGED <<asking, elicit, promised, reply, watchdog>>

\* The watchdog waits for the answer, then for completed, both until the deadline.
WatchdogAnswered(e) ==
    /\ watchdog[e] = "answer" /\ reply[e] # "none"
    /\ watchdog' = [watchdog EXCEPT ![e] = IF reply[e] = "error" THEN "abandon" ELSE "complete"]
    /\ UNCHANGED <<asking, elicit, entered, confirmed, taken, promised, reply, done>>

WatchdogCompleted(e) ==
    /\ watchdog[e] = "complete" /\ e \in confirmed
    /\ watchdog' = [watchdog EXCEPT ![e] = "gone"]
    /\ UNCHANGED <<asking, elicit, entered, confirmed, taken, promised, reply, done>>

Deadline(e) ==
    /\ \/ watchdog[e] = "answer" /\ reply[e] = "none"
       \/ watchdog[e] = "complete" /\ e \notin confirmed
    /\ watchdog' = [watchdog EXCEPT ![e] = "abandon"]
    /\ UNCHANGED <<asking, elicit, entered, confirmed, taken, promised, reply, done>>

AbandonPendingUrlElicitation(e) ==
    /\ watchdog[e] = "abandon" /\ watchdog' = [watchdog EXCEPT ![e] = "gone"]
    /\ Take(e, "error")
    /\ UNCHANGED <<asking, elicit, confirmed, promised, reply, done>>

\* The promise is set after the lock is released.
Settle(e, outcome) ==
    /\ <<e, outcome>> \in taken /\ taken' = taken \ {<<e, outcome>>}
    /\ promised' = [promised EXCEPT ![e] = Append(@, outcome)]
    /\ UNCHANGED <<asking, elicit, entered, confirmed, reply, done, watchdog>>

ElicitNext ==
    \E e \in Elicitations :
        \/ ElicitUrl(e) \/ ClientAnswers(e) \/ ClientIsDone(e) \/ ElicitationComplete(e)
        \/ WatchdogAnswered(e) \/ WatchdogCompleted(e) \/ Deadline(e)
        \/ AbandonPendingUrlElicitation(e)
        \/ \E outcome \in {"accept", "error"} : Settle(e, outcome)

\* The promise of an elicitation is set once and no more (a second time would throw on the
\* message loop or in the watchdog), and when the watchdog has gone and nobody holds the entry it
\* has been set: whatever the order of answer, notification and deadline.
SettledOnce ==
    \A e \in Elicitations :
        /\ Len(promised[e]) <= 1
        /\ (watchdog[e] = "gone" /\ \A x \in taken : x[1] # e) => promised[e] # <<>>
================================================================================
