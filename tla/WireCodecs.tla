---- MODULE WireCodecs ----
(***************************************************************************)
(* What the two protocol eras allow in a message                           *)
(* (src/src/protocol/WireCodec.cpp), and what the two ends of a session do *)
(* with the parameters, the metadata and the result of a request           *)
(* (RegisterRequest, OnRequest and DeliverResponse in                      *)
(* src/src/protocol/McpSessionHandler.cpp, HandleCallTool in               *)
(* src/src/server/McpServer.cpp).                                          *)
(***************************************************************************)
EXTENDS WireTypes

Legacy == "2025-11-25"
Modern == "2026-07-28"
Versions == {"2024-11-05", "2025-03-26", "2025-06-18", Legacy, Modern}

----------------------------------------------------------------------------
\* The methods of each era.

CommonRequests ==
  {"tools/list", "tools/call", "resources/list", "resources/read", "resources/templates/list", "prompts/list",
   "prompts/get", "completion/complete", "server/extensions/list"}
TaskMethods == {"tasks/get", "tasks/update", "tasks/cancel"}
LegacyRequests ==
  {"initialize", "ping", "resources/subscribe", "resources/unsubscribe", "logging/setLevel", "roots/list",
   "sampling/createMessage", "elicitation/create", "tasks/result", "tasks/list"} \cup TaskMethods
ModernRequests ==
  {"server/discover", "subscriptions/listen", "skills/list", "skills/get", "resources/directory/read"} \cup TaskMethods

CommonNotices ==
  {"notifications/" \o n : n \in {"cancelled", "progress", "message", "resources/updated", "resources/list_changed",
     "tools/list_changed", "prompts/list_changed", "tasks/status", "tasks/working", "tasks/completed",
     "tasks/failed", "tasks/cancelled", "tasks/input_required", "triggers/event"}}
LegacyNotices == {"notifications/initialized", "notifications/elicitation/complete", "notifications/roots/list_changed"}
ModernNotices == {"notifications/subscriptions/acknowledged"}

\* MakeWireCodec compares version strings; the dates compare as the versions do.
HasRequestMethod(version, m) ==
  m \in CommonRequests \cup IF version = Modern THEN ModernRequests ELSE LegacyRequests
HasNotificationMethod(version, m) ==
  m \in CommonNotices \cup IF version = Modern THEN ModernNotices ELSE LegacyNotices

----------------------------------------------------------------------------
\* What an era allows, and how it encodes what a handler answers.

\* The view the codec judges has the metadata back in the parameters.
View(m) == IF m.meta = None THEN Members(m.params) ELSE Members(MergeMetaIntoParams(m.params, m.meta))

ValidateRequest(version, m) ==
  CASE ~HasRequestMethod(version, m.method) -> "NotInEra"
    [] version # Modern /\ m.method = "initialize" /\
       ~({"protocolVersion", "capabilities", "clientInfo"} \subseteq DOMAIN View(m)) -> "Invalid"
    [] version = Modern /\ m.method # "server/discover" /\ ~Has(View(m), "_meta") -> "Invalid"
    [] OTHER -> "Ok"

ValidateNotification(version, m) == IF HasNotificationMethod(version, m.method) THEN "Ok" ELSE "NotInEra"

InvalidMetaField(meta) ==
  LET bad(k, tags) == Has(meta, k) /\ Tag(meta[k]) \notin tags
  IN \/ bad("progressToken", {"str", "int"})
     \/ \E k \in {"protocolVersion", "logLevel", "traceparent", "tracestate", "baggage"} : bad(k, {"str"})
     \/ \E k \in {"clientInfo", "clientCapabilities"} : bad(k, {"obj"})

EncodeResult(version, result) ==
  LET o == Members(result)
      hint == IF Has(o, "cacheHint") THEN Members(o["cacheHint"]) ELSE NoMembers
      flat == {k \in DOMAIN hint : \/ k = "ttlMs" /\ Tag(hint[k]) = "int"
                                   \/ k = "cacheScope" /\ Tag(hint[k]) = "str"}
      nested == Has(o, "cacheHint") /\ Tag(o["cacheHint"]) = "obj"
      kept == [k \in DOMAIN o \ (IF nested THEN {"cacheHint"} ELSE {}) |-> o[k]]
  IN IF version # Modern THEN result
     ELSE Obj([k \in flat |-> hint[k]] @@ kept @@ [resultType |-> Str("complete")])

ResourceNotFound == -32002
InvalidParams    == -32602
InternalError    == -32603
LocalCodes       == {-32001, -32003, -32004}   \* timeout, connection refused, TLS handshake: the sdk's own
EncodeErrorCode(version, code) ==
  CASE version = Modern /\ code = ResourceNotFound -> InvalidParams
    [] version = Modern /\ code \in LocalCodes -> InternalError
    [] OTHER -> code

\* A task request over HTTP names its task in a header too.
ValidateTaskHeaders(m, name) ==
  LET id == IF Has(Members(m.params), "taskId") THEN Members(m.params)["taskId"] ELSE None
  IN CASE m.method \notin TaskMethods -> "Ok"
       [] Tag(id) # "str" \/ id = Str("") -> "InvalidParams"
       [] OTHER -> IF id = Str(name) THEN "Ok" ELSE "HeaderMismatch"

----------------------------------------------------------------------------
\* The two ends of a request.

\* RegisterRequest: a modern request carries the metadata of its session, a legacy one at most a progress token.
RegisterRequest(id, method, params, meta) ==
  LET own == Members(params)
      token == meta[2]["progressToken"]
      slot == IF Has(own, "_meta") THEN Members(own["_meta"]) ELSE NoMembers
      merged == (IF token = None THEN NoMembers ELSE [progressToken |-> token]) @@ slot
      rest == [k \in DOMAIN own \ {"_meta"} |-> own[k]]
      legacy == IF merged = NoMembers THEN rest ELSE [_meta |-> Obj(merged)] @@ rest
  IN IF meta[2]["protocolVersion"] = Str(Modern) THEN Request(id, method, params, Write("RequestMeta", meta))
     ELSE Request(id, method, IF legacy = NoMembers THEN None ELSE Obj(legacy), None)

\* OnRequest, as far as the codec and the metadata decide.
OnRequest(version, m) ==
  LET meta == IF m.meta = None THEN NoMembers ELSE Members(m.meta)
      judged == ValidateRequest(version, m)
  IN CASE judged = "NotInEra" -> "MethodNotFound"
       [] judged = "Invalid" -> "InvalidRequest"
       [] judged = "Ok" /\ m.method # "initialize" /\ InvalidMetaField(meta) -> "InvalidParams"
       [] judged = "Ok" /\ m.method # "initialize" /\ ~InvalidMetaField(meta) /\
          Has(meta, "protocolVersion") /\ meta["protocolVersion"][2] \notin Versions -> "UnsupportedProtocolVersion"
       [] OTHER -> "Ok"

\* Metadata of the connection takes the place of the application's.
MergeIncomingMutant(own, incoming, raw) == incoming

\* HandleCallTool: metadata still in the parameters, as the in-memory transport leaves it, is completed, not replaced.
MergeIncoming(own, incoming, raw) ==
  LET first(k) == IF own[2][k] # None THEN own[2][k] ELSE incoming[2][k]
      rest == {own[2]["extensions"], incoming[2]["extensions"]} \ {None}
  IN IF own = None THEN incoming
     ELSE Obj([k \in DOMAIN own[2] |->
                 CASE k = "protocolVersion" -> IF Has(raw, k) THEN incoming[2][k] ELSE own[2][k]
                   [] k = "extensions" -> IF rest = {} THEN None
                                          ELSE Obj(Members(own[2][k]) @@ Members(incoming[2][k]))
                   [] OTHER -> first(k)])

\* The parameters a handler works with; only the handler of tools/call looks at the metadata.
HandlerParams(T, m) ==
  LET p == Read(T, IF m.params = None THEN Obj(NoMembers) ELSE m.params)
      incoming == Read("RequestMeta", m.meta)
  IN IF T # "CallToolRequestParams" \/ m.meta = None \/ p = Err THEN p
     ELSE IF incoming = Err THEN Err
     ELSE Obj([p[2] EXCEPT !["_meta"] = MergeIncoming(@, incoming, Members(m.meta))])
====
