------------------------------ MODULE ClientServer ------------------------------
(***************************************************************************)
(* McpClient and McpServer together: the negotiation and the calls that    *)
(* use its result (Handshake, ClientCalls), requests with a CancelToken    *)
(* (CancelTokens) and the elicitation of a URL (UrlElicitation).  The last *)
(* two share no state with the calls; a scene looks at one of the three.   *)
(***************************************************************************)
EXTENDS ClientCalls, CancelTokens, UrlElicitation

theirs == <<tokenVars, elicitVars>>
all == <<vars, theirs>>

\* A scene sends with the token and elicits what there is.
ASSUME ClientServerAssumption ==
    \A s \in Scenes : s.tokens \subseteq TokenRequests /\ s.elicits \subseteq Elicitations

Init ==
    /\ HandshakeInit /\ CallsInit
    /\ TokensInit(scene.tokens) /\ ElicitInit(scene.elicits)

Next ==
    \/ HandshakeNext /\ UNCHANGED <<callVars, theirs>>
    \/ CallsNext /\ UNCHANGED theirs
    \/ TokensNext /\ UNCHANGED <<vars, elicitVars>>
    \/ ElicitNext /\ UNCHANGED <<vars, tokenVars>>

Spec == Init /\ [][Next]_all

\* Messages arrive, threads run, and the server answers; sessions need not expire, nobody need
\* change anything, and no request need take too long.  But a thread that polls a task again and
\* again meets its deadline, which is fixed when it begins.
Fairness ==
    /\ WF_all((\E i \in 1 .. Len(wire) : Discover(i) \/ Initialize(i) \/ Initialized(i)) /\ UNCHANGED <<callVars, theirs>>)
    /\ WF_all((Begin \/ ProbeDiscover \/ HandshakeInitialize \/ Created) /\ UNCHANGED <<callVars, theirs>>)
    /\ \A t \in Callers :
          /\ WF_all(ClientStep(t) /\ UNCHANGED theirs)
          /\ WF_all(ServerStep(t) /\ UNCHANGED theirs)
          /\ WF_all(HearAck(t) /\ UNCHANGED theirs)
          /\ SF_all(PollingTimesOut(t) /\ UNCHANGED theirs)

FairSpec == Spec /\ Fairness

\* Every call returns or throws: whatever the session, the cache, the rounds of input and the
\* other thread do, and when two threads recover the session at once.
CallsReturn == \A t \in Callers : []<>~Active(t)
================================================================================
