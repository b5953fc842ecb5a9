------------------------------ MODULE OAuthTokens ------------------------------
(***************************************************************************)
(* OAuthClientProvider: the token cache, the refresh that concurrent       *)
(* callers of GetAccessToken share, the authorization flow, revocation and *)
(* the issuer the provider is bound to.                                    *)
(*                                                                         *)
(* The provider is called from any thread (the transports' callbacks and   *)
(* the program).  refresh_mutex_ covers only the question who refreshes:   *)
(* the cache is read before it and written without it, and every exchange  *)
(* with the authorization server lies between two reads of the cache.      *)
(***************************************************************************)
EXTENDS Naturals, FiniteSets

CONSTANTS
    Threads, Nobody,
    Issuers,       \* authorization servers that metadata documents name
    ServerUrl,     \* the issuer made up from server_url when discovery fails
    NoIssuer,
    Scenes,        \* instances tried: the tokens and the issuer the cache holds at first,
                   \* whether metadata_ is set, and the call each thread makes
    MaxIssued      \* bound: tokens the authorization server hands out

Operations == {"get", "refresh", "authenticate", "credentials", "revoke", "stepup", "challenge"}

VARIABLES
    tokens,     \* the token cache: the tokens in memory
    disk,       \* FileTokenCache: the tokens in the file
    anchor,     \* the issuer kept with the cache (StoreBoundIssuer)
    metadata,   \* metadata_: the issuer, and whether a document named it
    bound,      \* bound_issuer_
    registered, \* registration_ is set
    owner,      \* refresh_owner_ while refresh_in_flight_
    flow,       \* the thread that holds auth_flow_mutex_
    call,       \* thread -> its call
    todo,       \* thread -> the call it has still to make
    server,     \* the authorization server: refresh tokens it takes, tokens handed out
    spent,      \* history: refresh tokens that a refresh has replaced in the cache
    mixed       \* history: something other than GetAccessToken has touched the cache

oauthVars == <<tokens, disk, anchor, metadata, bound, registered, owner, flow, call, todo, server,
          spent, mixed>>
issuer == <<anchor, metadata, bound>>
history == <<spent, mixed>>

None == [access |-> 0, refresh |-> 0, left |-> "expired", ours |-> FALSE]
Tokens == [access : Nat, refresh : Nat, left : {"fresh", "soon", "expired"}, ours : BOOLEAN]

ASSUME OAuthTokensAssumption ==
    /\ Nobody \notin Threads /\ NoIssuer \notin Issuers \cup {ServerUrl}
    /\ MaxIssued \in Nat
    /\ Scenes \subseteq [tokens : Tokens, anchor : Issuers \cup {NoIssuer},
                       known : BOOLEAN, calls : [Threads -> Operations \cup {"none"}]]
    /\ \A s \in Scenes : {s.tokens.access, s.tokens.refresh} \subseteq {0, 1}
           \* tokens are numbered as they are handed out: number 1 is of an earlier time

NoMetadata == [set |-> FALSE, issuer |-> NoIssuer, named |-> FALSE]
Places == {"idle", "get", "entering", "waiting", "woken", "reading", "discovering", "posting",
           "replied", "notifying", "leaving", "registering", "deciding", "locking", "asking",
           "revoking", "clearing", "challenged"}
Idle == [op |-> "get", at |-> "idle", nested |-> FALSE, next |-> "idle", old |-> None, reply |-> None]

(* Every variable keeps to the values its C++ counterpart can take. *)
TokensTypeOK ==
    /\ {tokens, disk} \subseteq Tokens
    /\ {anchor, bound} \subseteq Issuers \cup {ServerUrl, NoIssuer}
    /\ metadata \in [set : BOOLEAN, issuer : Issuers \cup {ServerUrl, NoIssuer}, named : BOOLEAN]
    /\ registered \in BOOLEAN /\ mixed \in BOOLEAN
    /\ {owner, flow} \subseteq Threads \cup {Nobody}
    /\ call \in [Threads -> [op : Operations, at : Places, nested : BOOLEAN, next : Places,
                             old : Tokens, reply : Tokens]]
    /\ todo \in [Threads -> Operations \cup {"none"}] /\ spent \subseteq Nat
    /\ server \in [valid : SUBSET Nat, issued : Nat]

\* The cache holds nothing, or the tokens of an earlier time.
TokensInit ==
    /\ \E s \in Scenes :
          /\ tokens = s.tokens /\ anchor = s.anchor /\ todo = s.calls
          /\ metadata = IF s.known THEN [set |-> TRUE, issuer |-> s.anchor, named |-> TRUE] ELSE NoMetadata
          /\ bound = metadata.issuer
    /\ disk = tokens
    /\ registered = FALSE
    /\ owner = Nobody /\ flow = Nobody
    /\ call = [t \in Threads |-> Idle]
    /\ server = [valid |-> {tokens.refresh} \ {0}, issued |-> 1]
    /\ spent = {} /\ mixed = FALSE

--------------------------------------------------------------------------------
(* A call and its places *)

At(t, place) == call[t].at = place

Goes(t, place) == call' = [call EXCEPT ![t].at = place]

\* The call is over; a call made by the token_update_handler goes back to the one it is part of.
Over(c) == IF c.nested THEN [c EXCEPT !.at = "leaving", !.nested = FALSE] ELSE Idle

Returns(t) == call' = [call EXCEPT ![t] = Over(@)]

First(op) == CASE op = "get" -> "get" [] op = "refresh" -> "reading"
               [] op \in {"authenticate", "credentials"} -> "discovering"
               [] op \in {"revoke", "stepup"} -> "revoking" [] op = "challenge" -> "challenged"

\* The program or a transport calls.
Call(t) ==
    /\ At(t, "idle") /\ todo[t] # "none"
    /\ todo' = [todo EXCEPT ![t] = "none"]
    /\ call' = [call EXCEPT ![t] = [Idle EXCEPT !.op = todo[t], !.at = First(todo[t]), !.next = "deciding"]]
    /\ mixed' = (mixed \/ todo[t] # "get")
    /\ UNCHANGED <<tokens, disk, issuer, registered, owner, flow, server, spent>>

\* Time passes.
Age ==
    /\ tokens # None /\ tokens.left # "expired"
    /\ tokens' = [tokens EXCEPT !.left = IF @ = "fresh" THEN "soon" ELSE "expired"]
    /\ UNCHANGED <<disk, issuer, registered, owner, flow, call, todo, server, history>>

--------------------------------------------------------------------------------
(* GetAccessToken and the shared refresh *)

\* The cache answers, unless its token is about to expire and can be refreshed.
GetAccessToken(t) ==
    /\ At(t, "get")
    /\ IF tokens = None \/ ~tokens.ours \/ tokens.left = "fresh" \/ tokens.refresh = 0
       THEN Returns(t) ELSE Goes(t, "entering")
    /\ UNCHANGED <<tokens, disk, issuer, registered, owner, flow, todo, server, history>>

OwnMutant(t) ==
    /\ At(t, "entering")
    /\ owner' = t /\ Goes(t, "reading")
    /\ UNCHANGED <<tokens, disk, issuer, registered, flow, todo, server, history>>

\* Nobody refreshes: this thread does.
Own(t) ==
    /\ At(t, "entering") /\ owner = Nobody
    /\ owner' = t /\ Goes(t, "reading")
    /\ UNCHANGED <<tokens, disk, issuer, registered, flow, todo, server, history>>

\* The handler of the thread that refreshes asks for a token.
Reenter(t) ==
    /\ At(t, "entering") /\ owner = t /\ Returns(t)
    /\ UNCHANGED <<tokens, disk, issuer, registered, owner, flow, todo, server, history>>

Wait(t) ==
    /\ At(t, "entering") /\ owner \notin {Nobody, t} /\ Goes(t, "waiting")
    /\ UNCHANGED <<tokens, disk, issuer, registered, owner, flow, todo, server, history>>

\* A condition variable may wake a thread for no reason.
Spurious(t) ==
    /\ At(t, "waiting") /\ Goes(t, "woken")
    /\ UNCHANGED <<tokens, disk, issuer, registered, owner, flow, todo, server, history>>

\* A thread that waited takes the token if it is fresh, and otherwise starts over.
Woken(t) ==
    /\ At(t, "woken")
    /\ IF tokens # None /\ tokens.ours /\ tokens.left = "fresh" THEN Returns(t) ELSE Goes(t, "entering")
    /\ UNCHANGED <<tokens, disk, issuer, registered, owner, flow, todo, server, history>>

\* The refresh runs under the guard of RefreshTokensCoalesced.
Guarded(t) == owner = t /\ (call[t].op = "get" \/ call[t].nested)

\* It wakes nobody when the refresh has failed.
ReleaseMutant(t) ==
    /\ owner' = Nobody
    /\ call' = [u \in Threads |-> IF u = t THEN Over(call[t])
                                  ELSE IF At(u, "waiting") /\ call[t].reply # None
                                       THEN [call[u] EXCEPT !.at = "woken"]
                                  ELSE call[u]]

\* RefreshInFlightGuard, on every way out: the flag is reset and everybody who waits is woken.
Release(t) ==
    /\ owner' = Nobody
    /\ call' = [u \in Threads |-> IF u = t THEN Over(call[t])
                                  ELSE IF At(u, "waiting") THEN [call[u] EXCEPT !.at = "woken"]
                                  ELSE call[u]]

\* The end of a call that refreshed, or that ran the authorization flow.
Leave(t) ==
    /\ At(t, "leaving")
    /\ IF Guarded(t) THEN Release(t) ELSE Returns(t) /\ UNCHANGED owner
    /\ flow' = IF flow = t /\ ~call[t].nested THEN Nobody ELSE flow
    /\ UNCHANGED <<tokens, disk, issuer, registered, todo, server, history>>

--------------------------------------------------------------------------------
(* RefreshTokensInternal *)

\* The cached tokens are read; without a refresh token there is nothing to do.
ReadTokens(t) ==
    /\ At(t, "reading")
    /\ call' = [call EXCEPT ![t] =
                  IF tokens.refresh = 0 THEN [@ EXCEPT !.at = "leaving", !.reply = None]
                  ELSE [@ EXCEPT !.at = IF ~metadata.set THEN "discovering" ELSE "posting",
                                 !.next = "posting", !.old = tokens]]
    /\ UNCHANGED <<tokens, disk, issuer, registered, owner, flow, todo, server, history>>

\* The authorization server hands out tokens, which replace a refresh token or leave it in force.
Issue(t, kept) ==
    /\ server.issued < MaxIssued
    /\ LET n == server.issued + 1 IN
       \E left \in {"fresh", "soon"} :
          call' = [call EXCEPT ![t].at = "replied",
                               ![t].reply = [access |-> n, refresh |-> IF kept > 0 THEN kept ELSE n,
                                             left |-> left, ours |-> TRUE]]
    /\ server' = [valid |-> IF kept > 0 THEN server.valid
                            ELSE (server.valid \ {call[t].old.refresh}) \cup {server.issued + 1},
                  issued |-> server.issued + 1]

\* HttpPost of a refresh: tokens, a rejection, or trouble on the way, before or after the server
\* has replaced the refresh token.
Present(t) ==
    /\ At(t, "posting") /\ call[t].old # None
    /\ \/ call[t].old.refresh \in server.valid /\ \E kept \in {0, call[t].old.refresh} : Issue(t, kept)
       \/ /\ call[t].old.refresh \notin server.valid
          /\ call' = [call EXCEPT ![t].at = "replied", ![t].reply = None]
          /\ UNCHANGED server
       \/ /\ call' = [call EXCEPT ![t].at = "leaving", ![t].reply = None]
          /\ server' \in {server, [server EXCEPT !.valid = @ \ {call[t].old.refresh}]}
    /\ UNCHANGED <<tokens, disk, issuer, registered, owner, flow, todo, history>>

\* HttpPost of an authorization code or of client credentials.
Exchange(t) ==
    /\ At(t, "posting") /\ call[t].old = None
    /\ \/ Issue(t, 0)
       \/ Goes(t, "leaving") /\ UNCHANGED server
    /\ UNCHANGED <<tokens, disk, issuer, registered, owner, flow, todo, history>>

\* StoreTokens, in memory and in the file; a write of the file that throws ends the call.
StoreTokens(t) ==
    /\ At(t, "replied") /\ call[t].reply # None
    /\ tokens' = call[t].reply
    /\ spent' = IF call[t].old # None /\ call[t].reply.refresh # call[t].old.refresh
                THEN spent \cup {call[t].old.refresh} ELSE spent
    /\ \/ disk' = tokens' /\ Goes(t, "notifying")
       \/ UNCHANGED disk /\ Goes(t, "leaving")
    /\ UNCHANGED <<issuer, registered, owner, flow, todo, server, mixed>>

\* A rejected refresh clears the cache; Authenticate goes on to the authorization flow.
Rejected(t) ==
    /\ At(t, "replied") /\ call[t].reply = None
    /\ tokens' = None /\ disk' = None
    /\ IF call[t].op = "authenticate" /\ ~call[t].nested
       THEN call' = [call EXCEPT ![t].at = "locking", ![t].old = None]
       ELSE Goes(t, "leaving")
    /\ UNCHANGED <<issuer, registered, owner, flow, todo, server, history>>

\* NotifyTokenUpdate: the handler returns, or first asks for the access token itself.
Notify(t) ==
    /\ At(t, "notifying")
    /\ \/ Goes(t, "leaving")
       \/ ~call[t].nested /\ call' = [call EXCEPT ![t].at = "get", ![t].nested = TRUE]
    /\ UNCHANGED <<tokens, disk, issuer, registered, owner, flow, todo, server, history>>

--------------------------------------------------------------------------------
(* Metadata and the issuer *)

AllowsMutant(i) == bound \in {NoIssuer, i}

\* IssuerBindingAllows
Allows(i) == bound \in {NoIssuer, i} /\ anchor \in {NoIssuer, i}

\* EnforceIssuerBinding, once metadata_ is set
Bind ==
    /\ bound' = IF metadata'.issuer = NoIssuer THEN bound ELSE metadata'.issuer
    /\ anchor' = IF anchor = NoIssuer THEN metadata'.issuer ELSE anchor

\* A metadata document that names its issuer is taken if that issuer is allowed.
Documented ==
    \E i \in Issuers : Allows(i) /\ metadata' = [set |-> TRUE, issuer |-> i, named |-> TRUE] /\ Bind

\* DiscoverMetadata succeeds: there is such a document, or none is found and the defaults of
\* server_url serve.
Discovered ==
    \/ Documented
    \/ metadata' = [set |-> TRUE, issuer |-> ServerUrl, named |-> FALSE] /\ UNCHANGED <<bound, anchor>>

\* What follows the metadata: client credentials have been checked when they are asked for.
AfterMetadata(t) == IF call[t].op = "authenticate" /\ call[t].next = "deciding" THEN "registering"
                    ELSE IF call[t].op = "credentials" /\ ~call[t].nested THEN "posting"
                    ELSE call[t].next

\* Metadata is discovered where there is none, and by Authenticate always.
Wanted(t) == ~metadata.set \/ (call[t].op = "authenticate" /\ call[t].next = "deciding")

\* Discovery fails where the issuer is refused or an endpoint is not secure.
Discover(t) ==
    /\ At(t, "discovering")
    /\ \/ ~Wanted(t) /\ Goes(t, AfterMetadata(t)) /\ UNCHANGED issuer
       \/ Wanted(t) /\ Discovered /\ Goes(t, AfterMetadata(t))
       \/ Wanted(t) /\ Goes(t, "leaving") /\ UNCHANGED issuer
    /\ UNCHANGED <<tokens, disk, registered, owner, flow, todo, server, history>>

\* Authenticate: a client_id that is a URL is looked up; the call goes on without the document.
FetchClientMetadataDocument(t) ==
    /\ At(t, "registering") /\ registered' \in {registered, TRUE} /\ Goes(t, "deciding")
    /\ UNCHANGED <<tokens, disk, issuer, owner, flow, todo, server, history>>

\* Authenticate: a client without client_id registers; the call ends when that fails.
RegisterClient(t) ==
    /\ At(t, "registering")
    /\ \/ registered' = TRUE /\ Goes(t, "deciding")
       \/ UNCHANGED registered /\ Goes(t, "leaving")
    /\ UNCHANGED <<tokens, disk, issuer, owner, flow, todo, server, history>>

\* Authenticate: tokens for another resource are dropped; valid ones do; others are refreshed
\* (this thread does not ask whether one is in flight) or asked for.
Decide(t) ==
    /\ At(t, "deciding")
    /\ IF tokens # None /\ ~tokens.ours THEN tokens' = None /\ disk' = None ELSE UNCHANGED <<tokens, disk>>
    /\ IF tokens' # None /\ tokens'.left # "expired" THEN Returns(t)
       ELSE IF tokens'.refresh # 0 THEN Goes(t, "reading")
       ELSE Goes(t, "locking")
    /\ UNCHANGED <<issuer, registered, owner, flow, todo, server, history>>

\* HandleAuthChallenge: the document is of no use or refused, or what it says is taken over; it
\* need not name an issuer.
Challenge(t) ==
    /\ At(t, "challenged") /\ Returns(t)
    /\ \/ Documented
       \/ metadata' = [metadata EXCEPT !.set = TRUE] /\ Bind
       \/ UNCHANGED issuer
    /\ UNCHANGED <<tokens, disk, registered, owner, flow, todo, server, history>>

--------------------------------------------------------------------------------
(* The authorization flow and revocation *)

\* StartAuthorizationFlow: one at a time.
Lock(t) ==
    /\ At(t, "locking") /\ flow = Nobody /\ flow' = t
    /\ call' = [call EXCEPT ![t].at = IF ~metadata.set THEN "discovering" ELSE "asking",
                            ![t].next = "asking"]
    /\ UNCHANGED <<tokens, disk, issuer, registered, owner, todo, server, history>>

\* The program's callbacks give a code whose state and issuer are right, or not; without S256
\* they are not called.
Ask(t) ==
    /\ At(t, "asking")
    /\ Goes(t, "posting") \/ Goes(t, "leaving")
    /\ UNCHANGED <<tokens, disk, issuer, registered, owner, flow, todo, server, history>>

\* Revoke: the server is told of the cached token, and may revoke its refresh token with it.
Revoke(t) ==
    /\ At(t, "revoking") /\ Goes(t, "clearing")
    /\ server' \in {server, [server EXCEPT !.valid = @ \ {tokens.refresh}]}
    /\ UNCHANGED <<tokens, disk, issuer, registered, owner, flow, todo, history>>

\* The cache is cleared, whatever it holds by now; StepUpAuthorization starts the flow.
ClearTokens(t) ==
    /\ At(t, "clearing")
    /\ tokens' = None /\ disk' = None
    /\ IF call[t].op = "stepup" THEN Goes(t, "locking") ELSE Returns(t)
    /\ UNCHANGED <<issuer, registered, owner, flow, todo, server, history>>

--------------------------------------------------------------------------------
Step(t) ==
    \/ GetAccessToken(t) \/ Own(t) \/ Reenter(t) \/ Wait(t) \/ Woken(t) \/ Leave(t)
    \/ ReadTokens(t) \/ Present(t) \/ Exchange(t) \/ StoreTokens(t) \/ Rejected(t) \/ Notify(t)
    \/ Discover(t) \/ FetchClientMetadataDocument(t) \/ RegisterClient(t) \/ Decide(t) \/ Challenge(t)
    \/ Lock(t) \/ Ask(t) \/ Revoke(t) \/ ClearTokens(t)

TokensNext ==
    \/ \E t \in Threads : Step(t) \/ Spurious(t) \/ Call(t)
    \/ Age

TokensSpec == TokensInit /\ [][TokensNext]_oauthVars

\* Every request to the authorization server has a timeout, and the program's callbacks return.
\* A thread that waits for auth_flow_mutex_ gets it.
FairTokensSpec == TokensSpec /\ \A t \in Threads : WF_oauthVars(Step(t)) /\ SF_oauthVars(Lock(t))

--------------------------------------------------------------------------------
(* Properties *)

(* As long as the program only calls GetAccessToken, no refresh presents a refresh token that    *)
(* another one has already replaced: a server that rotates refresh tokens would take it for a    *)
(* stolen one and reject it, and the rejection clears the tokens everybody has just received.    *)
NoStaleRefresh ==
    TokensTypeOK /\ (~mixed => \A t \in Threads : At(t, "posting") => call[t].old.refresh \notin spent)

(* Metadata that names its issuer is only taken from the issuer the token cache is bound to,     *)
(* whatever discovery, challenges and defaults came before it.                                   *)
IssuerIsPinned == metadata.named => metadata.issuer = anchor

(* Every call returns: a thread that waits for the refresh of another one is woken when that     *)
(* fails, throws or is rejected, a handler that asks for a token from within a refresh does not  *)
(* wait for itself, and the flow's mutex is given back.                                          *)
CallsReturn == \A t \in Threads : ~At(t, "idle") ~> At(t, "idle")
================================================================================
