----------------------------- MODULE MCOAuthTokens -----------------------------
(* OAuthTokens on small instances: what the cache holds, and who calls what at the same time. *)
EXTENDS OAuthTokens

CONSTANTS t1, t2, t3, i1, i2

Held(refresh, left, ours) == [access |-> 1, refresh |-> refresh, left |-> left, ours |-> ours]

Scene(held, issuer0, known, a, b, c) ==
    [tokens |-> held, anchor |-> issuer0, known |-> known,
     calls |-> [t \in Threads |-> CASE t = t1 -> a [] t = t2 -> b [] t = t3 -> c]]

MCScenes == {
    Scene(Held(1, "soon", TRUE), i1, TRUE, "get", "get", "get"),
    Scene(Held(1, "fresh", TRUE), NoIssuer, FALSE, "get", "get", "none"),
    Scene(Held(1, "soon", TRUE), i1, TRUE, "get", "refresh", "none"),
    Scene(Held(1, "expired", TRUE), i1, FALSE, "get", "authenticate", "none"),
    Scene(Held(1, "fresh", FALSE), i1, FALSE, "get", "authenticate", "none"),
    Scene(Held(1, "soon", TRUE), i1, TRUE, "get", "get", "revoke"),
    Scene(Held(0, "expired", TRUE), i1, TRUE, "stepup", "stepup", "none"),
    Scene(None, i2, FALSE, "authenticate", "challenge", "none"),
    Scene(None, NoIssuer, FALSE, "authenticate", "challenge", "challenge"),
    Scene(None, NoIssuer, FALSE, "get", "credentials", "none")}
================================================================================
