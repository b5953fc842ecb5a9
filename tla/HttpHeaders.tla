---- MODULE HttpHeaders ----
(***************************************************************************)
(* The headers that repeat parts of a message body over HTTP: which        *)
(* arguments of a tool have a header (McpParamAnnotations.hpp), what the   *)
(* client keeps of the tools it has listed and the headers it writes       *)
(* (McpParamHeaders.hpp, StreamableHttpClientTransport.cpp), and the       *)
(* server's checks (StreamableHttpServerTransport.cpp).  Base64 works on   *)
(* bytes; elsewhere a text in base64 is the text between its sentinels.    *)
(***************************************************************************)
EXTENDS WireTypes, FiniteSetsExt

NoText == "no text"                            \* std::nullopt where a text is expected

----------------------------------------------------------------------------
\* StandardBase64Encode and StandardBase64Decode; the padding character is the number 64.

Pad == 64
Base64Encode(bytes) ==
  LET at(i) == IF i <= Len(bytes) THEN bytes[i] ELSE 0
      groups == (Len(bytes) + 2) \div 3
      n(g) == at(3 * g - 2) * 65536 + at(3 * g - 1) * 256 + at(3 * g)
      missing == 3 * groups - Len(bytes)
      sextet(g, k) == IF g = groups /\ k > 4 - missing THEN Pad
                      ELSE (n(g) \div (64 ^ (4 - k))) % 64
  IN [i \in 1..(4 * groups) |-> sextet(((i - 1) \div 4) + 1, ((i - 1) % 4) + 1)]

\* Padding may only end a group; the source takes it at the end of any group.
Base64Decode(text) ==
  LET groups == Len(text) \div 4
      c(g, k) == text[4 * (g - 1) + k]
      v(g, k) == IF c(g, k) = Pad THEN 0 ELSE c(g, k)
      n(g) == v(g, 1) * 262144 + v(g, 2) * 4096 + v(g, 3) * 64 + v(g, 4)
      pads(g) == Cardinality({k \in 1..4 : c(g, k) = Pad})
      bytes(g) == SubSeq(<<(n(g) \div 65536) % 256, (n(g) \div 256) % 256, n(g) % 256>>, 1, 3 - pads(g))
      ok == /\ Len(text) % 4 = 0
            /\ \A g \in 1..groups : \A k \in 1..4 : c(g, k) = Pad => k > 2 /\ \A l \in k..4 : c(g, l) = Pad
      RECURSIVE from(_)
      from(g) == IF g > groups THEN <<>> ELSE bytes(g) \o from(g + 1)
  IN IF ok THEN from(1) ELSE <<NoText>>

----------------------------------------------------------------------------
\* Header values.

PlainTexts == {"", "a", "b", "true", "false", "7", "7.0", "8"}
UnsafeTexts == {" a", "a ", "\t", "accented"}  \* blank at an end, or bytes outside printable ASCII
Sentinel(t) == "=?base64?" \o t \o "?="
Malformed == Sentinel("*")                     \* looks like base64 and is not
Looks == {Sentinel(t) : t \in PlainTexts \cup UnsafeTexts} \cup {Malformed}
HeaderTexts == PlainTexts \cup UnsafeTexts \cup Looks

IsPlainHeaderSafe(t) == t \notin UnsafeTexts
MatchesBase64Sentinel(t) == \E u \in HeaderTexts \cup {"*"} : t = Sentinel(u)

\* A text that looks like base64 is written as it is.
EncodeHeaderValueMutant(v) ==
  LET text == CASE Tag(v) = "str" -> v[2]
                [] Tag(v) = "bool" -> IF v[2] THEN "true" ELSE "false"
                [] Tag(v) = "int" -> ToString(v[2])
                [] OTHER -> NoText
  IN IF IsPlainHeaderSafe(text) THEN text ELSE Sentinel(text)

EncodeHeaderValue(v) ==
  LET text == CASE Tag(v) = "str" -> v[2]
                [] Tag(v) = "bool" -> IF v[2] THEN "true" ELSE "false"
                [] Tag(v) = "int" -> ToString(v[2])
                [] OTHER -> NoText
  IN IF text = NoText \/ (IsPlainHeaderSafe(text) /\ ~MatchesBase64Sentinel(text)) THEN text ELSE Sentinel(text)

DecodeHeaderValue(h) ==
  IF h = Malformed THEN NoText
  ELSE IF MatchesBase64Sentinel(h) THEN CHOOSE t \in HeaderTexts : h = Sentinel(t) ELSE h

\* Numbers are compared by value, whatever they look like.
NumberOf == [t \in {"7", "7.0", "8"} |-> IF t = "8" THEN 8 ELSE 7]
NumericTextEqual(t, n) == t \in DOMAIN NumberOf /\ NumberOf[t] = n

HeaderValueMatchesBody(t, v) ==
  CASE Tag(v) \in {"int", "num"} -> NumericTextEqual(t, v[2])
    [] Tag(v) = "bool" -> t = IF v[2] THEN "true" ELSE "false"
    [] Tag(v) = "str" -> t = v[2]
    [] OTHER -> FALSE

----------------------------------------------------------------------------
\* ParseToolParamAnnotations: the x-mcp-header members of a tool's input schema.

TokenNames == {"Region", "region", "Zone"}     \* valid HTTP field names; names are compared in lower case
LowerName(n) == IF n = "Region" THEN "region" ELSE IF n = "Zone" THEN "zone" ELSE n
Hidden == {"$ref", "items", "prefixItems", "contains", "additionalProperties", "patternProperties", "propertyNames",
           "unevaluatedProperties", "oneOf", "anyOf", "allOf", "not", "if", "then", "else"}

RECURSIVE Annotated(_, _, _)
Annotated(schema, path, legal) ==
  LET o == Members(schema)
      props == IF Has(o, "properties") THEN Members(o["properties"]) ELSE NoMembers
      below(x) == IF Tag(x) = "arr" THEN {x[2][i] : i \in DOMAIN x[2]} ELSE {x}
      own == IF Has(o, "x-mcp-header")
             THEN {[path |-> path, header |-> o["x-mcp-header"], legal |-> legal,
                    type |-> IF HasText(o, "type") THEN o["type"][2] ELSE ""]} ELSE {}
  IN own \cup UNION {Annotated(props[p], Append(path, p), legal) : p \in DOMAIN props}
         \cup UNION {UNION {Annotated(x, path, FALSE) : x \in below(o[k])} : k \in Hidden \cap DOMAIN o}

ValidAnnotations(found) ==
  /\ \A a \in found : /\ a.legal
                      /\ Tag(a.header) = "str" /\ a.header[2] \in TokenNames
                      /\ a.type \in {"string", "integer", "boolean"}
  /\ \A a, b \in found : a # b => LowerName(a.header[2]) # LowerName(b.header[2])

ParamAnnotations(schema) ==
  LET found == Annotated(schema, <<>>, TRUE)
  IN IF ValidAnnotations(found) THEN {[path |-> a.path, header |-> LowerName(a.header[2])] : a \in found} ELSE {}

----------------------------------------------------------------------------
\* The client: annotations of the tools on the last page it has seen, and the headers it writes.

\* A listed tool is a record of its name and its schema.
ObserveToolsListResult(tools) ==
  LET kept == {t \in tools : ValidAnnotations(Annotated(t.schema, <<>>, TRUE))}
  IN [kept |-> {t.name : t \in kept},
      known |-> [n \in {t.name : t \in kept} |-> ParamAnnotations((CHOOSE t \in kept : t.name = n).schema)]]

RECURSIVE ValueAtPath(_, _)
ValueAtPath(v, path) ==
  IF path = <<>> THEN v
  ELSE IF ~Has(Members(v), Head(path)) THEN None ELSE ValueAtPath(Members(v)[Head(path)], Tail(path))

Given(args, a) == LET v == ValueAtPath(args, a.path) IN IF v = Null THEN None ELSE v

BuildParamHeaders(known, tool, args) ==
  LET sent == IF tool \notin DOMAIN known THEN {}
              ELSE {a \in known[tool] : Given(args, a) # None /\ EncodeHeaderValue(Given(args, a)) # NoText}
  IN [h \in {a.header : a \in sent} |-> EncodeHeaderValue(Given(args, CHOOSE a \in sent : a.header = h))]

TaskNameMethods == {"tasks/get", "tasks/update", "tasks/cancel"}
McpName(method, params) ==
  LET o == Members(params)
      names == SelectSeq(<<"taskId", "name", "uri">>,
                         LAMBDA k : HasText(o, k) /\ (k = "taskId" => method \in TaskNameMethods))
  IN IF names = <<>> THEN NoText ELSE EncodeHeaderValue(o[Head(names)])

----------------------------------------------------------------------------
\* The server's checks.

RequiresMcpNameHeader(method) == method \in {"tools/call", "resources/read", "prompts/get"} \cup TaskNameMethods

\* The headers of a modern message: its method always, its name where the method has one; NoText for no header.
ValidateMcpHeaders(methodHeader, nameHeader, method, params) ==
  LET o == Members(params)
      text(k) == IF HasText(o, k) THEN o[k][2] ELSE ""
      name == IF DecodeHeaderValue(nameHeader) = NoText THEN nameHeader ELSE DecodeHeaderValue(nameHeader)
      bodyName == IF text("name") # "" THEN text("name") ELSE text("uri")
  IN /\ methodHeader = method
     /\ RequiresMcpNameHeader(method) => nameHeader # NoText
     /\ \/ nameHeader \in {NoText, ""}
        \/ method \in TaskNameMethods /\ text("taskId") # "" /\ name = text("taskId")
        \/ method \notin TaskNameMethods /\ (bodyName = "" \/ name = bodyName)

ValidateParamHeaders(annotations, headers, args) ==
  \A a \in annotations :
    LET v == Given(args, a)
    IN IF v = None THEN a.header \notin DOMAIN headers
       ELSE /\ a.header \in DOMAIN headers
            /\ DecodeHeaderValue(headers[a.header]) # NoText
            /\ HeaderValueMatchesBody(DecodeHeaderValue(headers[a.header]), v)
====
