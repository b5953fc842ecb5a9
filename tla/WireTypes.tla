---- MODULE WireTypes ----
(***************************************************************************)
(* The C++ structs of the protocol and the JSON objects they travel as     *)
(* (src/src/core/Content.cpp, McpTypes*.cpp, Capabilities.cpp and          *)
(* detail/JsonSerializer.hpp).  Each Serialize/Deserialize pair of the     *)
(* source is a set of fields here: the key on the wire, the rule by which  *)
(* the pair writes and reads it, and the kind of its value.  Write and Read*)
(* apply the rules.                                                        *)
(***************************************************************************)
EXTENDS JsonRpc, TLC

Fld(key, rule, kind) == [key |-> key, rule |-> rule, kind |-> kind]
Must(k)    == Fld(k, "must", "str")           \* always written; read by operator[] and a getter
Opt(k)     == Fld(k, "opt", "str")            \* std::optional<std::string>
OptJson(k) == Fld(k, "opt", "json")           \* std::optional<JsonValue>
Raw(k)     == Fld(k, "must", "json")          \* a JsonValue, passed on as it is
Icons      == Fld("icons", "vec", "Icon")     \* std::vector<Icon>
OptIcons   == Fld("icons", "optvec", "Icon")  \* std::optional<std::vector<Icon>>
Meta       == OptJson("_meta")
ReqMeta    == Fld("_meta", "opt", "RequestMeta")
Outcome    == Fld("resultType", "outcome", "ResultType")
Kept       == Fld("resultType", "kept", "ResultType")
Hint       == Fld("cacheHint", "hint", "CacheHint")

----------------------------------------------------------------------------
\* The structs.

ContentTypes ==
  [Icon |-> {Must("src"), Opt("mimeType"), Fld("sizes", "optvec", "str"), Opt("theme")},
   Annotations |-> {Fld("audience", "optvec", "str"), Fld("priority", "opt", "num"), Opt("lastModified")},
   TextResourceContents |-> {Must("uri"), Must("text"), Opt("mimeType"), Meta},
   BlobResourceContents |-> {Must("uri"), Must("blob"), Opt("mimeType"), Meta},
   TextContent |-> {Must("type"), Must("text"), Opt("mimeType"), Fld("annotations", "opt", "Annotations"), Meta}]

MediaTypes ==
  LET media == {Must("type"), Must("data"), Must("mimeType"), Fld("annotations", "opt", "Annotations"), Meta}
  IN [ImageContent |-> media, AudioContent |-> media,
      EmbeddedResource |-> {Must("type"), Fld("resource", "kept", "ResourceContents"),
                            Fld("annotations", "opt", "Annotations"), Meta},
      ResourceLink |-> {Must("type"), Fld("uri", "must", "Text"), Fld("name", "must", "Text"), Opt("title"),
                        Opt("description"), Opt("mimeType"), Fld("size", "opt", "Size"), Icons,
                        Fld("annotations", "opt", "Annotations"), Meta}]

MetaTypes ==
  [Implementation |-> {Must("name"), Must("version"), Opt("title"), Icons, Opt("description"), Opt("websiteUrl")},
   RequestMeta |-> {Fld("progressToken", "opt", "Token"), Fld("protocolVersion", "kept", "Version"),
                    Fld("clientInfo", "opt", "Implementation"),
                    Fld("clientCapabilities", "opt", "ClientCapabilities"), Fld("logLevel", "opt", "Level"),
                    Opt("traceparent"), Opt("tracestate"), Opt("baggage"), Fld("extensions", "rest", "json")}]

ToolTypes ==
  [ToolAnnotations |-> {Opt("title")} \cup
     {Fld(k, "opt", "bool") : k \in {"readOnlyHint", "idempotentHint", "openWorldHint", "destructiveHint"}},
   ToolExecution |-> {Fld("mode", "kept", "ExecutionMode"), Opt("humanUse"), Fld("taskSupport", "lax", "TaskSupport")},
   ResourceAnnotations |-> {Fld("audience", "optvec", "str"), Fld("priority", "opt", "num"), Opt("lastModified")},
   Tool |-> {Must("name"), Opt("title"), Opt("description"), Raw("inputSchema"), OptJson("outputSchema"),
             Fld("annotations", "opt", "ToolAnnotations"), Fld("execution", "opt", "ToolExecution"), Icons, Meta}]

ListedTypes ==
  LET listed == {Must("name"), Opt("title"), Opt("description"), Opt("mimeType"), OptIcons,
                 Fld("annotations", "opt", "ResourceAnnotations"), Meta}
  IN [Resource |-> listed \cup {Must("uri"), Fld("size", "opt", "int")},
      ResourceTemplate |-> listed \cup {Must("uriTemplate")},
      PromptArgument |-> {Must("name"), Opt("description"), Fld("required", "opt", "bool")},
      Prompt |-> {Must("name"), Opt("title"), Opt("description"), Fld("arguments", "optvec", "PromptArgument"),
                  OptIcons, Meta},
      PromptMessage |-> {Must("role"), Fld("content", "must", "Content")}]

ListResults ==
  LET list(key, kind) == {Fld(key, "items", kind), Opt("nextCursor"), Hint, Meta, Kept}
  IN [ListToolsResult |-> list("tools", "Tool"), ListResourcesResult |-> list("resources", "Resource"),
      ListResourceTemplatesResult |-> list("resourceTemplates", "ResourceTemplate"),
      ListPromptsResult |-> list("prompts", "Prompt"),
      ReadResourceResult |-> {Fld("contents", "items", "ResourceContents"), Hint, Meta, Outcome}]

CallResults ==
  [EmptyResult |-> {Meta},
   CacheableResult |-> {Meta, Kept, Opt("etag")},
   CallToolResult |-> {Fld("content", "items", "Content"), Fld("isError", "soft", "bool"),
                       OptJson("structuredContent"), Meta, Outcome}]

PromptResults ==
  [GetPromptResult |-> {Fld("messages", "items", "PromptMessage"), Opt("description"), Meta, Outcome},
   CompleteResult |-> {Raw("completion"), Meta, Kept},
   InitializeResult |-> {Must("protocolVersion"), Fld("capabilities", "must", "ServerCapabilities"),
                         Fld("serverInfo", "must", "Implementation"), Opt("instructions"), Meta, Kept},
   DiscoverResult |-> {Fld("supportedVersions", "items", "str"), Fld("capabilities", "must", "ServerCapabilities"),
                       Fld("serverInfo", "whoami", "Implementation"), Opt("instructions"), Hint, Meta, Kept}]

InputTypes ==
  [InputRequest |-> {Fld("method", "must", "Text"), Fld("params", "params", "json")},
   InputRequiredResult |-> {Fld("inputRequests", "requests", "Requests"), Opt("requestState")},
   ElicitResult |-> {Fld("action", "action", "str"), OptJson("content"), Kept, Meta}]

CallParams ==
  LET resumed == {ReqMeta, OptJson("inputResponses"), Opt("requestState")}
  IN [PaginatedRequestParams |-> {Opt("cursor"), ReqMeta},
      ResourceRequestParams |-> resumed \cup {Must("uri")},
      CallToolRequestParams |-> resumed \cup {Must("name"), OptJson("arguments")},
      CompleteRequestParams |-> {Fld("ref", "kept", "json"), Fld("argument", "argument", "str"),
                                 Fld("context", "context", "Strings"), ReqMeta},
      InitializeRequestParams |-> {Must("protocolVersion"), Fld("capabilities", "must", "ClientCapabilities"),
                                   Fld("clientInfo", "must", "Implementation")}]

ServerParams ==
  [ElicitRequestParams |-> {Must("message"), OptJson("requestedSchema"), Fld("mode", "mode", "str")},
   SamplingMessage |-> {Must("role"), Fld("content", "must", "Content")},
   CreateMessageRequestParams |-> {Fld("messages", "items", "SamplingMessage"), Fld("maxTokens", "must", "int"),
                                   Opt("stopReason"), Opt("modelPreference")},
   SetLevelRequestParams |-> {Fld("level", "must", "Level")}]

NoticeTypes ==
  [SubscriptionFilter |-> {Fld("resourceSubscriptions", "vecLax", "str")} \cup
     {Fld(k, "opt", "bool") : k \in {"toolsListChanged", "promptsListChanged", "resourcesListChanged"}},
   SubscriptionsAcknowledgedNotificationParams |-> {Fld("notifications", "must", "SubscriptionFilter")},
   SubscriptionsListenRequestParams |-> {Fld("notifications", "must", "SubscriptionFilter"), ReqMeta},
   ProgressNotificationParams |-> {Fld("progressToken", "must", "Token"), Fld("progress", "must", "num"),
                                   Fld("total", "opt", "num"), Opt("message")},
   LoggingMessageNotificationParams |-> {Fld("level", "must", "Level"), Opt("logger"), Raw("data")}]

TaskTypes ==
  LET times == {Opt("statusMessage"), Opt("lastUpdatedAt"), Fld("ttlMs", "opt", "int"),
                Fld("pollIntervalMs", "opt", "int"), Fld("inputRequests", "lax", "Requests"), Meta}
  IN [GetTaskResult |-> times \cup {Must("taskId"), Must("status"), Fld("resultType", "soft", "TaskText"),
                          OptJson("result"), Opt("errorMessage"), OptJson("inputRequired"), Opt("createdAt"),
                          OptJson("error")},
      CreateTaskResult |-> times \cup {Fld(k, "mirror", "str") : k \in {"taskId", "status", "createdAt"}} \cup
                           {Fld("resultType", "task", "ResultType")},
      GetTaskRequestParams |-> {Must("taskId")},
      UpdateTaskRequestParams |-> {Must("taskId"), OptJson("result"), OptJson("inputResponses")},
      CancelTaskRequestParams |-> {Must("taskId"), Opt("reason")}]

SkillTypes ==
  LET aged == {Fld("ttlMs", "defaulted", "int"), Fld("cacheScope", "defaulted", "str"), Meta, Kept}
  IN [SkillResource |-> {Must("uri"), Must("digest"), Fld("size", "soft", "int")},
      Skill |-> {Must("uri"), Fld("frontmatter", "kept", "json"), Fld("resources", "kept", "SkillResources"), Meta},
      SkillsListResult |-> aged \cup {Fld("skills", "items", "Skill"), Opt("nextCursor")},
      SkillsGetResult |-> aged \cup {Fld("skill", "kept", "Skill")},
      SkillsGetRequestParams |-> {Must("uri"), ReqMeta}]

DirectoryTypes ==
  [DirectoryChild |-> {Must("uri"), Must("name"), Opt("mimeType"), Meta},
   ReadDirectoryResult |-> {Fld("resources", "items", "DirectoryChild"), Opt("nextCursor"),
                            Fld("ttlMs", "defaulted", "int"), Fld("cacheScope", "defaulted", "str"), Meta, Kept},
   ReadDirectoryRequestParams |-> {Must("uri"), Opt("cursor"), ReqMeta}]

Changes == Fld("listChanged", "opt", "bool")

CapabilityTypes ==
  [EmptyCapability |-> {}, ListCapability |-> {Changes},
   ResourcesCapability |-> {Changes, Fld("subscribe", "opt", "bool")},
   ElicitationCapability |-> {OptJson("form"), OptJson("url")},
   SkillsExtensionSettings |-> {Fld("directoryRead", "flag", "bool")}]

Capabilities ==
  LET cap(k) == Fld(k, "lax", CASE k \in {"tools", "prompts", "roots"} -> "ListCapability"
                                [] k = "resources" -> "ResourcesCapability"
                                [] k = "elicitation" -> "ElicitationCapability"
                                [] k = "extensions" -> "Map"
                                [] OTHER -> "EmptyCapability")
      client == {"roots", "sampling", "elicitation", "extensions"}
  IN [ClientCapabilities |-> {cap(k) : k \in client} \cup {OptJson("experimental")},
      ServerCapabilities |-> {cap(k) : k \in client \cup {"tools", "resources", "prompts", "logging",
                                             "completions", "subscriptions"}} \cup {OptJson("experimental")}]


Structs == ContentTypes @@ MediaTypes @@ MetaTypes @@ ToolTypes @@ ListedTypes @@ ListResults @@ CallResults @@
           PromptResults @@ InputTypes @@ CallParams @@ ServerParams @@ NoticeTypes @@ TaskTypes @@ SkillTypes @@
           DirectoryTypes @@ CapabilityTypes @@ Capabilities

----------------------------------------------------------------------------
\* Kinds whose values are checked or chosen as they are read.

Texts(kind) ==                                 \* the strings a reader knows
  CASE kind = "ResultType" -> {"complete", "input_required", "task"}
    [] kind = "ExecutionMode" -> {"auto", "manual", "task"}
    [] kind = "TaskSupport" -> {"optional", "required"}
    [] kind = "Level" -> {"debug", "error"}
    [] OTHER -> {}

Default(kind) ==                               \* the member initializers of the structs
  CASE kind = "ResultType" -> Str("complete")
    [] kind = "ExecutionMode" -> Str("auto")
    [] kind = "Version" -> Str("2026-07-28")
    [] kind = "TaskText" -> Str("task")
    [] kind = "bool" -> Bool(FALSE)
    [] kind = "int" -> Whole(0)
    [] kind = "json" -> Null
    [] kind = "SkillResources" -> Arr(<<>>)
    [] kind = "ResourceContents" -> Obj([uri |-> Str(""), text |-> Str(""), mimeType |-> None, _meta |-> None])
    [] kind = "Skill" -> Obj([uri |-> Str(""), frontmatter |-> Null, resources |-> Arr(<<>>), _meta |-> None])
    [] kind = "Implementation" -> Obj([name |-> Str(""), version |-> Str(""), title |-> None, icons |-> Arr(<<>>),
                                       description |-> None, websiteUrl |-> None])
    [] OTHER -> Str("")

\* The struct a Content or a ResourceContents variant holds, by the members of its JSON.
ContentType(o) ==
  IF ~HasText(o, "type") THEN "?"
  ELSE CASE o["type"][2] = "text" -> "TextContent"
         [] o["type"][2] = "image" -> "ImageContent"
         [] o["type"][2] = "audio" -> "AudioContent"
         [] o["type"][2] = "resource" -> "EmbeddedResource"
         [] o["type"][2] = "resource_link" -> "ResourceLink"
         [] OTHER -> "?"

ResourceType(o) == IF Has(o, "text") THEN "TextResourceContents"
                   ELSE IF Has(o, "blob") THEN "BlobResourceContents" ELSE "?"

RECURSIVE Write(_, _), Read(_, _)

StructKinds == DOMAIN Structs \cup {"Content", "ResourceContents", "Requests", "SkillResources"}

\* The struct that stands for a value of a kind, and the parts of a value that are structs.
StructOf(kind, x) ==
  CASE kind = "Content" -> ContentType(Members(x))
    [] kind = "ResourceContents" -> ResourceType(Members(x))
    [] kind = "Requests" -> "InputRequest"
    [] kind = "SkillResources" -> "SkillResource"
    [] OTHER -> kind
Parts(kind, x) == IF kind \in {"Requests", "SkillResources"} THEN x[2] ELSE <<x>>

\* A part that cannot be read makes the whole sequence, or map, unreadable.
AllOrErr(tag, f) == IF \E k \in DOMAIN f : f[k] = Err THEN Err ELSE <<tag, f>>
Gathered(kind, x, f) == IF kind \in {"Requests", "SkillResources"} THEN AllOrErr(Tag(x), f) ELSE f[1]

WriteValue(kind, x) ==
  IF kind \notin StructKinds \/ (kind = "SkillResources" /\ Tag(x) = "str") THEN x
  ELSE LET parts == Parts(kind, x)
       IN Gathered(kind, x, [k \in DOMAIN parts |-> Write(StructOf(kind, parts[k]), parts[k])])

WriteItems(kind, x) == Arr([i \in DOMAIN x[2] |-> WriteValue(kind, x[2][i])])

ReadScalar(kind, j) ==
  CASE kind \in {"str", "Version", "TaskText"} -> IF Tag(j) = "str" THEN j ELSE Err
    [] kind = "Text" -> IF Tag(j) = "str" /\ j # Str("") THEN j ELSE Err
    [] kind \in {"int", "bool"} -> IF Tag(j) = kind THEN j ELSE Err
    [] kind = "Size" -> IF Tag(j) = "int" /\ j[2] >= 0 THEN j ELSE Err
    [] kind = "num" -> IF Tag(j) \in {"int", "num"} THEN Num(j[2]) ELSE Err
    [] kind = "Token" -> IF Tag(j) \in {"str", "int"} THEN j ELSE Err
    [] kind = "json" -> j
    [] kind = "Map" -> IF Tag(j) = "obj" THEN j ELSE Err
    [] OTHER -> IF Tag(j) = "str" /\ j[2] \in Texts(kind) THEN j ELSE Err

ReadValue(kind, j) ==
  CASE kind \notin StructKinds -> ReadScalar(kind, j)
    [] kind = "SkillResources" /\ Tag(j) = "str" -> j
    [] kind = "SkillResources" /\ Tag(j) \notin {"str", "arr"} -> Err
    [] kind = "Requests" /\ Tag(j) # "obj" -> Err
    [] OTHER -> LET parts == Parts(kind, j)
                IN Gathered(kind, j, [k \in DOMAIN parts |-> Read(StructOf(kind, parts[k]), parts[k])])

ReadItems(kind, j) == AllOrErr("arr", [i \in DOMAIN j[2] |-> ReadValue(kind, j[2][i])])

----------------------------------------------------------------------------
\* The fields whose pairs do more than write and read one member.

\* An absent hint is sent as "no caching"; a hint is sent nested, and flat for readers that know no cacheHint.
WriteHint(x) ==
  IF x = None THEN [ttlMs |-> Whole(0), cacheScope |-> Str("private")]
  ELSE LET given == [k \in {f \in {"ttlMs", "cacheScope"} : x[2][f] # None} |-> x[2][k]]
       IN given @@ [cacheHint |-> Obj(given)]

ReadHint(o) ==
  LET of(m) == [ttlMs |-> IF Has(m, "ttlMs") THEN m["ttlMs"] ELSE None,
                cacheScope |-> IF Has(m, "cacheScope") THEN m["cacheScope"] ELSE None]
      known(h) == [h EXCEPT !["ttlMs"] = IF Tag(@) = "int" THEN @ ELSE None,
                            !["cacheScope"] = IF Tag(@) = "str" THEN @ ELSE None]
  IN IF Has(o, "ttlMs") \/ Has(o, "cacheScope") THEN Obj(known(of(o)))
     ELSE IF ~Has(o, "cacheHint") THEN None
     ELSE LET nested == of(Members(o["cacheHint"]))
          IN IF known(nested) = nested THEN Obj(nested) ELSE Err

\* result_type and input_required are one field here: each decides how the other is written and read.
WriteOutcome(x) ==
  LET input == x[2]["input"]
  IN IF input = None THEN [resultType |-> x[2]["type"]]
     ELSE [resultType |-> Str("input_required"), inputRequests |-> WriteValue("Requests", input[2]["requests"])]
          @@ IF input[2]["state"] = None THEN NoMembers ELSE [requestState |-> input[2]["state"]]

ReadOutcome(o) ==
  LET type == IF Has(o, "resultType") THEN ReadScalar("ResultType", o["resultType"]) ELSE Default("ResultType")
      requests == IF Has(o, "inputRequests") THEN ReadValue("Requests", o["inputRequests"]) ELSE Obj(NoMembers)
      state == IF Has(o, "requestState") THEN ReadScalar("str", o["requestState"]) ELSE None
  IN IF type = Err THEN Err
     ELSE IF ~Has(o, "inputRequests") /\ type # Str("input_required")
          THEN Obj([type |-> type, input |-> None])
          ELSE IF Err \in {requests, state} THEN Err
               ELSE Obj([type |-> Str("input_required"),
                         input |-> Obj([requests |-> requests, state |-> state])])

\* Only an elicitation that is not a form names its mode, its URL and, before 2026, its id.
WriteMode(x) ==
  LET m == x[2]
      given(k) == IF m[k] = None THEN NoMembers ELSE k :> m[k]
  IN IF m["mode"] = Str("form") THEN NoMembers
     ELSE given("mode") @@ given("url") @@ given("elicitationId")

ReadMode(o) ==
  LET opt(k) == IF Has(o, k) THEN ReadScalar("str", o[k]) ELSE None
      m == [mode |-> IF HasText(o, "mode") THEN o["mode"] ELSE Str("form"),
            url |-> opt("url"), elicitationId |-> opt("elicitationId")]
  IN AllOrErr("obj", m)

\* The argument under completion: nested, or flat as older peers send it.
ReadArgument(o) ==
  LET nested == Has(o, "argument") /\ Tag(o["argument"]) = "obj"
      from == IF nested THEN Members(o["argument"]) ELSE o
      text(k) == IF HasText(from, k) THEN from[k] ELSE Str("")
  IN Obj([name |-> text(IF nested THEN "name" ELSE "argumentName"),
          value |-> text(IF nested THEN "value" ELSE "argumentValue")])

ReadContext(o) ==
  LET context == Members(o["context"])
      arguments == IF Has(context, "arguments") THEN context["arguments"] ELSE Obj(NoMembers)
  IN IF ~Has(o, "context") THEN Obj(NoMembers)
     ELSE IF Tag(o["context"]) # "obj" \/ Tag(arguments) # "obj" THEN Err
     ELSE AllOrErr("obj", [k \in DOMAIN arguments[2] |-> ReadScalar("str", arguments[2][k])])

\* A server says who it is in serverInfo or, failing that, in the metadata of its answer.
ReadWhoami(o) ==
  LET meta == IF Has(o, "_meta") THEN Members(o["_meta"]) ELSE NoMembers
      from == IF Has(o, "serverInfo") THEN o ELSE meta
  IN IF Has(from, "serverInfo") THEN ReadValue("Implementation", from["serverInfo"]) ELSE Default("Implementation")

\* A created task names its id, status and time twice: in the result and in the older nested task.
ReadMirror(k, o) ==
  LET nested == IF Has(o, "task") THEN Members(o["task"]) ELSE NoMembers
  IN IF HasText(o, k) /\ o[k] # Str("") THEN o[k]
     ELSE IF HasText(nested, k) THEN nested[k] ELSE Str("")

KnownMeta == {f.key : f \in {g \in MetaTypes["RequestMeta"] : g.rule # "rest"}} \cup {"subscriptionId"}

\* Members of the metadata that are none of its own fields are its extensions.
ReadRest(o) ==
  LET rest == DOMAIN o \ KnownMeta
  IN IF rest = {} THEN None ELSE Obj([k \in rest |-> o[k]])

----------------------------------------------------------------------------
\* The rules of JsonSerializer.hpp, applied to the fields of a struct.

ItemRules == {"items", "vec", "vecLax", "optvec"}
KindOf(f) == CASE f.rule = "requests" -> "Requests" [] f.rule = "params" -> "Map" [] OTHER -> f.kind

Omitted(f, x) == CASE f.rule \in {"opt", "lax"} -> x = None
                   [] f.rule \in {"vec", "vecLax", "optvec"} -> x \in {None, Arr(<<>>)}
                   [] OTHER -> FALSE

WriteField(f, x) ==
  CASE f.rule \in {"opt", "lax", "must", "soft", "kept", "whoami", "requests"} \cup ItemRules ->
         IF Omitted(f, x) THEN NoMembers
         ELSE f.key :> IF f.rule \in ItemRules THEN WriteItems(f.kind, x) ELSE WriteValue(KindOf(f), x)
    [] f.rule = "flag" -> IF x = Bool(TRUE) THEN f.key :> x ELSE NoMembers
    [] f.rule = "defaulted" -> f.key :> IF x = None THEN WriteHint(None)[f.key] ELSE x
    [] f.rule = "hint" -> WriteHint(x)
    [] f.rule = "outcome" -> WriteOutcome(x)
    [] f.rule = "mode" -> WriteMode(x)
    [] f.rule = "rest" -> Members(x)
    [] f.rule = "action" -> f.key :> IF x = Str("") THEN Str("cancel") ELSE x
    [] f.rule = "params" -> IF x = Obj(NoMembers) THEN NoMembers ELSE f.key :> x
    [] f.rule = "argument" -> f.key :> x
    [] f.rule = "context" -> IF x = Obj(NoMembers) THEN NoMembers ELSE f.key :> Obj([arguments |-> x])
    [] f.rule = "mirror" -> IF f.key = "createdAt" /\ x = Str("") THEN NoMembers ELSE f.key :> x
    [] f.rule = "task" -> f.key :> Str("task")

\* A field whose member in o, if there is one, reads as value.
FieldValue(f, o, value) ==
  LET there == Has(o, f.key)
      j == o[f.key]
      arr == there /\ Tag(j) = "arr"
  IN CASE f.rule = "must" -> IF there THEN value ELSE Err
       [] f.rule \in {"opt", "defaulted"} -> IF there THEN value ELSE None
       [] f.rule \in {"kept", "task"} -> IF there THEN value ELSE Default(f.kind)
       [] f.rule \in {"soft", "action"} -> IF there /\ value # Err THEN j ELSE Default(f.kind)
       [] f.rule = "lax" /\ f.kind = "TaskSupport" -> IF there /\ value # Err THEN j ELSE None
       [] f.rule = "lax" /\ f.kind # "TaskSupport" -> IF there /\ Tag(j) = "obj" THEN value ELSE None
       [] f.rule \in {"items", "vecLax"} -> IF arr THEN value ELSE Arr(<<>>)
       [] f.rule = "optvec" -> IF arr THEN value ELSE None
       [] f.rule = "vec" -> IF ~there THEN Arr(<<>>) ELSE IF arr THEN value ELSE Err
       [] f.rule = "requests" -> IF there THEN value ELSE Obj(NoMembers)
       [] f.rule = "params" -> IF ~there \/ j = Null THEN Obj(NoMembers) ELSE value
       [] f.rule = "flag" -> IF there /\ Tag(j) = "bool" THEN j ELSE Bool(FALSE)
       [] f.rule = "hint" -> ReadHint(o)
       [] f.rule = "outcome" -> ReadOutcome(o)
       [] f.rule = "mode" -> ReadMode(o)
       [] f.rule = "rest" -> ReadRest(o)
       [] f.rule = "argument" -> ReadArgument(o)
       [] f.rule = "context" -> ReadContext(o)
       [] f.rule = "whoami" -> ReadWhoami(o)
       [] f.rule = "mirror" -> ReadMirror(f.key, o)

ReadField(f, o) ==
  FieldValue(f, o, IF f.rule \in ItemRules THEN ReadItems(f.kind, o[f.key]) ELSE ReadValue(KindOf(f), o[f.key]))

Write(T, v) ==
  LET parts == {WriteField(f, v[2][f.key]) : f \in Structs[T]}
      task == IF T = "CreateTaskResult"
              THEN [task |-> Obj([k \in {"taskId", "status", "createdAt"} |-> v[2][k]])] ELSE NoMembers
  IN Obj([k \in UNION {DOMAIN p : p \in parts} |-> (CHOOSE p \in parts : k \in DOMAIN p)[k]] @@ task)

\* Readers that walk the members of their object refuse anything else; the others take it for an empty object.
Read(T, j) ==
  IF T = "?" \/ (Tag(j) # "obj" /\ T \in {"RequestMeta", "ServerCapabilities", "ClientCapabilities", "InputRequest"}) THEN Err
  ELSE AllOrErr("obj", [k \in {f.key : f \in Structs[T]} |->
                          ReadField(CHOOSE f \in Structs[T] : f.key = k, Members(j))])

----------------------------------------------------------------------------
\* What may change between a struct that is sent and the struct that is read from it.

Normal(T, v) ==
  LET norm(f, x) ==
        CASE f.rule = "optvec" /\ x = Arr(<<>>) -> None
          [] f.rule = "hint" /\ x = None -> Obj([ttlMs |-> Whole(0), cacheScope |-> Str("private")])
          [] f.rule = "defaulted" /\ x = None -> IF f.key = "ttlMs" THEN Whole(0) ELSE Str("private")
          [] f.rule = "action" /\ x = Str("") -> Str("cancel")
          [] f.rule = "params" /\ x = Null -> Obj(NoMembers)
          [] f.rule = "rest" /\ x = Obj(NoMembers) -> None
          [] f.rule = "task" -> Str("task")
          [] f.rule = "mode" /\ x[2]["mode"] = Str("form") ->
               Obj([mode |-> Str("form"), url |-> None, elicitationId |-> None])
          [] f.rule = "outcome" /\ x[2]["input"] # None -> Obj([x[2] EXCEPT !["type"] = Str("input_required")])
          [] f.rule = "outcome" /\ x[2]["input"] = None /\ x[2]["type"] = Str("input_required") ->
               Obj([type |-> Str("input_required"), input |-> Obj([requests |-> Obj(NoMembers), state |-> None])])
          [] OTHER -> x
  IN Obj([k \in DOMAIN v[2] |-> norm(CHOOSE f \in Structs[T] : f.key = k, v[2][k])])

----------------------------------------------------------------------------
\* Structs to send: each field absent, present and odd, at most two away from the bare or the full struct.

SomeRequests ==
  {Obj([r \in {"r1"} |-> Obj([method |-> Str("roots/list"), params |-> Obj(NoMembers)])]), Obj(NoMembers)}

\* Values of a kind, all of them already normal; structs are the values of its structs.
SomeOf(kind, structs) ==
  CASE kind = "str" -> {Str("a"), Str("")}
    [] kind = "Text" -> {Str("a")}
    [] kind \in {"Version", "TaskText"} -> {Str("2025-11-25")}
    [] kind \in {"int", "Size"} -> {Whole(0), Whole(3)}
    [] kind = "num" -> {Num(1)}
    [] kind = "bool" -> {Bool(TRUE), Bool(FALSE)}
    [] kind = "Token" -> {Str("t"), Whole(7)}
    [] kind = "json" -> {Obj([k |-> Whole(1)]), Null, Arr(<<Str("a")>>)}
    [] kind = "Map" -> {Obj([ext |-> Obj(NoMembers)]), Obj(NoMembers)}
    [] Texts(kind) # {} -> {Str(s) : s \in Texts(kind)}
    [] kind = "Requests" -> SomeRequests
    [] kind = "SkillResources" -> {Str("dynamic"), Arr(<<>>)} \cup {Arr(<<x>>) : x \in structs}
    [] OTHER -> structs

RECURSIVE Full(_)
Some(kind) ==
  SomeOf(kind, {Full(T) : T \in CASE kind = "Content" -> {"TextContent", "ImageContent", "AudioContent",
                                                          "EmbeddedResource", "ResourceLink"}
                                  [] kind = "ResourceContents" -> {"TextResourceContents", "BlobResourceContents"}
                                  [] kind = "SkillResources" -> {"SkillResource"}
                                  [] OTHER -> {kind}})

SlotsOf(f, some) ==
  LET pick == CHOOSE x \in some : TRUE
      opt == {None} \cup some
  IN CASE f.key = "type" -> {Str("text")}
       [] f.rule \in {"opt", "lax", "defaulted"} -> opt
       [] f.rule \in {"must", "soft", "kept", "whoami", "action", "flag", "mirror", "task"} -> some
       [] f.rule \in {"items", "vec", "vecLax"} -> {Arr(<<>>)} \cup {Arr(<<x, pick>>) : x \in some}
       [] f.rule = "optvec" -> {None, Arr(<<>>)} \cup {Arr(<<x>>) : x \in some}
       [] f.rule = "hint" -> {None} \cup {Obj([ttlMs |-> t, cacheScope |-> c]) :
                                            t \in {None, Whole(3)}, c \in {None, Str("public")}}
       [] f.rule = "outcome" ->
            {Obj([type |-> t, input |-> None]) : t \in {Str("complete"), Str("input_required")}} \cup
            {Obj([type |-> t, input |-> Obj([requests |-> r, state |-> s])]) :
               t \in {Str("complete")}, r \in SomeRequests, s \in {None, Str("a")}}
       [] f.rule = "mode" -> {Obj([mode |-> m, url |-> u, elicitationId |-> e]) :
                                m \in {Str("form"), Str("url")}, u \in {None, Str("a")}, e \in {None, Str("a")}}
       [] f.rule = "rest" -> {None, Obj(NoMembers), Obj([vendor |-> Whole(1)])}
       [] f.rule = "params" -> {Obj(NoMembers), Null, Obj([k |-> Whole(1)])}
       [] f.rule = "requests" -> SomeRequests
       [] f.rule = "argument" -> {Obj([name |-> n, value |-> Str("a")]) : n \in {Str("a"), Str("")}}
       [] f.rule = "context" -> {Obj(NoMembers), Obj([x |-> Str("a")])}

Slots(f) == SlotsOf(f, Some(f.kind))

TypeText(T) == Str(CASE T = "ImageContent" -> "image" [] T = "AudioContent" -> "audio"
                     [] T = "EmbeddedResource" -> "resource" [] T = "ResourceLink" -> "resource_link" [] OTHER -> "text")

\* The value of a struct in which each field is one of its slots: one of those that are in wanted, if there are any.
Typical(T, wanted(_)) ==
  LET one(slots) == LET best == wanted(slots) IN CHOOSE x \in (IF best = {} THEN slots \ {None} ELSE best) : TRUE
      value(f) == IF f.key = "type" THEN TypeText(T) ELSE one(Slots(f))
  IN Obj([k \in {f.key : f \in Structs[T]} |-> value(CHOOSE f \in Structs[T] : f.key = k)])

\* One value with everything present, and one with as little as possible.
Full(T) == Typical(T, LAMBDA slots : slots \ {None, Arr(<<>>), Null, Obj(NoMembers)})
Bare(T) == Typical(T, LAMBDA slots : slots \cap {None, Arr(<<>>), Str(""), Obj(NoMembers), Bool(FALSE)})

\* At most two fields away from one of those.
WithinTwo(bases, slots) ==
  UNION {UNION {{Obj([base[2] EXCEPT ![f.key] = x, ![g.key] = y]) : x \in slots[f], y \in slots[g]} :
                  f \in DOMAIN slots, g \in DOMAIN slots} : base \in bases} \cup bases
Values(T) == WithinTwo({Full(T), Bare(T)}, [f \in {g \in Structs[T] : g.key # "type"} |-> Slots(f)])
====
