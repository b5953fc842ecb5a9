---- MODULE Algorithms ----
(***************************************************************************)
(* The pure algorithms at work between the two ends of a connection.  An   *)
(* errand is one value on its way: a struct sent as a message, as the      *)
(* parameters of a request or as its result; a URI expanded by one end and *)
(* matched by the other; the headers of a tool call built by the client    *)
(* and checked by the server; a value, or bytes, written as a JSON text.   *)
(* Send writes it, Receive reads it.                                       *)
(***************************************************************************)
EXTENDS Envelopes, WireCodecs, JsonTexts, UriTemplates, HttpHeaders

----------------------------------------------------------------------------
\* The two halves of each errand.

\* A request over the in-memory transport is passed on as it is; any other transport writes and parses it.
Carried(m, transport) == IF transport = "memory" THEN m ELSE Parse(Serialize(m))

Sent(e) ==
  CASE e.kind = "struct" -> Write(e.type, e.value)
    [] e.kind = "request" -> RegisterRequest(Whole(1), e.method, Write(e.type, e.value), e.meta)
    [] e.kind = "result" -> EncodeResult(e.version, Write(e.type, e.value))
    [] e.kind = "dump" -> Dump(e.value, e.indent)
    [] e.kind = "text" -> ParseDocument(e.text)
    [] e.kind = "utf8" -> SanitizeUtf8(e.bytes)
    [] e.kind = "bytes" -> Base64Encode(e.bytes)
    [] e.kind = "expand" -> Expand(ParseTemplate(e.template, 3), e.variables)
    [] e.kind = "match" -> Match(ParseTemplate(e.template, 3), e.uri)
    [] e.kind = "call" ->
         [method |-> e.method, name |-> McpName(e.method, e.params),
          params |-> IF e.method # "tools/call" THEN NoMembers
                     ELSE BuildParamHeaders(ObserveToolsListResult(e.tools).known, Members(e.params)["name"][2],
                                            Members(e.params)["arguments"])]

\* The annotations the server finds for the tool of a call.
Annotations(e) ==
  LET tools == {t \in e.tools : Str(t.name) = Members(e.params)["name"]}
  IN IF e.method # "tools/call" THEN {} ELSE UNION {ParamAnnotations(t.schema) : t \in tools}

\* A request m that has arrived, with the metadata its handler can find inside and beside the parameters.
RequestReceived(e, m) ==
  LET meta(holder, k) == IF Has(holder, k) /\ holder[k] # None THEN Read("RequestMeta", holder[k]) ELSE None
  IN [verdict |-> OnRequest(e.meta[2]["protocolVersion"][2], m), params |-> HandlerParams(e.type, m),
      inside |-> meta(Members(m.params), "_meta"), beside |-> meta(m, "meta")]

Received(e, w) ==
  CASE e.kind \in {"struct", "result"} -> Read(e.type, w)
    [] e.kind = "request" -> RequestReceived(e, Carried(w, e.transport))
    [] e.kind = "text" /\ w = Err -> Err
    [] e.kind \in {"dump", "text", "utf8"} /\ (e.kind = "text" => w # Err) ->
         ParseDocument(CASE e.kind = "dump" -> w [] e.kind = "text" -> Dump(w, 2)
                         [] e.kind = "utf8" -> AppendEscapedString(w))
    [] e.kind = "bytes" -> Base64Decode(w)
    [] e.kind = "expand" -> Match(ParseTemplate(e.template, 3), w)
    [] e.kind = "match" -> IF w = NoMatch THEN Nothing ELSE Expand(ParseTemplate(e.template, 3), w)
    [] e.kind = "call" ->
         LET arguments == IF e.method = "tools/call" THEN Members(e.params)["arguments"] ELSE None
         IN /\ ValidateMcpHeaders(w.method, w.name, e.method, e.params)
            /\ ValidateParamHeaders(Annotations(e), w.params, arguments)

----------------------------------------------------------------------------

Send ==
  \/ WriteMessage
  \/ /\ errand.kind # "message" /\ at = "sender"
     /\ wire' = Sent(errand) /\ at' = "wire" /\ UNCHANGED <<errand, got>>

\* Something between the two ends may replace the headers of a call.
Replace ==
  /\ at = "wire" /\ errand.kind = "call" /\ errand.replaced # NoMembers
  /\ wire' = [wire EXCEPT !.params = errand.replaced @@ @] /\ at' = "replaced"
  /\ UNCHANGED <<errand, got>>

Receive ==
  \/ ReadMessage
  \/ /\ errand.kind # "message"
     /\ at = IF errand.kind = "call" /\ errand.replaced # NoMembers THEN "replaced" ELSE "wire"
     /\ got' = Received(errand, wire) /\ at' = "receiver" /\ UNCHANGED <<errand, wire>>

----------------------------------------------------------------------------
\* What a receiver should make of what was sent.

\* The fields of a struct other than its metadata, once read.
Plain(T, v) == [k \in DOMAIN Normal(T, v)[2] \ {"_meta"} |-> Normal(T, v)[2][k]]

\* A hint that says nothing is not sent in the modern era; a modern result names its type.
ResultSent(e) ==
  LET silent == Obj([ttlMs |-> None, cacheScope |-> None])
      n == Normal(e.type, e.value)[2]
  IN Obj([k \in DOMAIN n |-> IF k = "cacheHint" /\ n[k] = silent /\ e.version = Modern THEN None ELSE n[k]])

\* The metadata of a request: what its parameters carry and what the connection adds, a legacy one only a token.
MetaFields == {f.key : f \in MetaTypes["RequestMeta"]} \ {"extensions"}
Field(meta, f) == IF meta = None THEN None ELSE meta[2][f]
Own(e) == IF Has(e.value[2], "_meta") THEN e.value[2]["_meta"] ELSE None
MetaSent(e, f) ==
  LET added == IF e.meta[2]["protocolVersion"] = Str(Modern) \/ f = "progressToken" THEN e.meta ELSE None
      default == IF f = "protocolVersion" THEN {Default("Version")} ELSE {}
  IN ({Field(Own(e), f), Field(added, f)} \ {None}) \cup default
\* The handler of tools/call finds all of it in its parameters; for the others it is there or beside them.
MetaSeen(e, f) ==
  (IF e.type = "CallToolRequestParams" THEN {Field(got.params[2]["_meta"], f)}
   ELSE {Field(got.inside, f), Field(got.beside, f)}) \ {None}

\* A struct, the parameters of a request and the result of one are read by the other end as they were sent, in both
\* eras and over every transport: no optional field is lost, none appears, and of the metadata given by only one of the
\* application and the connection nothing is lost and nothing replaced (McpTypes*.cpp, WireCodec.cpp EncodeResult,
\* McpSessionHandler.cpp RegisterRequest, McpServer.cpp HandleCallTool).
TravelsUnchanged ==
  /\ Delivered("struct") => got = Normal(errand.type, errand.value)
  /\ Delivered("result") => got = ResultSent(errand)
  /\ Delivered("request") =>
       /\ got.verdict = "Ok" /\ got.params # Err
       /\ Plain(errand.type, got.params) = Plain(errand.type, errand.value)
       /\ \A f \in MetaFields : /\ MetaSeen(errand, f) \subseteq MetaSent(errand, f)
                               /\ MetaSeen(errand, f) = {} => MetaSent(errand, f) \subseteq {Default("Version")}

\* The JSON texts of ASCII symbols, by their grammar (without the limits on numbers and depth).
RECURSIVE IsJson(_)
IsJson(text) ==
  LET solid == {i \in DOMAIN text : text[i] \notin Spaces}
      t == IF solid = {} THEN <<>> ELSE SubSeq(text, Min(solid), Max(solid))
      n == Len(t)
      from(i) == SubSeq(t, i, n)
      digits(s) == s # <<>> /\ ToSet(s) \subseteq DigitBytes
      unsigned(s) == IF s # <<>> /\ s[1] \in {43, 45} THEN Tail(s) ELSE s
      integer(s) == LET u == IF s # <<>> /\ s[1] = 45 THEN Tail(s) ELSE s IN digits(u) /\ (Len(u) > 1 => u[1] # 48)
      number == \E i \in 1..n : \E j \in i..n :
                  /\ integer(SubSeq(t, 1, i))
                  /\ i = j \/ (t[i + 1] = 46 /\ digits(SubSeq(t, i + 2, j)))
                  /\ j = n \/ (t[j + 1] \in {101, 69} /\ digits(unsigned(from(j + 2))))
      hex(s) == Len(s) = 4 /\ ToSet(s) \subseteq DigitBytes \cup 97..102 \cup 65..70
      char(s) == \/ Len(s) = 1 /\ s[1] \in 32..127 \ {Quote, Backslash}
                 \/ Len(s) = 2 /\ s[1] = Backslash /\ s[2] \in DOMAIN Letters \cup {47}
                 \/ Len(s) = 6 /\ s[1] = Backslash /\ s[2] = 117 /\ hex(SubSeq(s, 3, 6))
                    /\ ~(s[3] \in {68, 100} /\ s[4] \in {56, 57} \cup 65..70 \cup 97..102)
                 \/ /\ Len(s) = 12 /\ <<s[1], s[2], s[7], s[8]>> = <<Backslash, 117, Backslash, 117>>
                    /\ hex(SubSeq(s, 3, 6)) /\ hex(SubSeq(s, 9, 12))
                    /\ s[3] \in {68, 100} /\ s[4] \in {56, 57, 65, 66, 97, 98}
                    /\ s[9] \in {68, 100} /\ s[10] \in {67, 68, 69, 70, 99, 100, 101, 102}
      RECURSIVE chars(_), elements(_), members(_)
      chars(s) == s = <<>> \/ \E k \in {1, 2, 6, 12} : k <= Len(s) /\ char(SubSeq(s, 1, k)) /\ chars(SubSeq(s, k + 1, Len(s)))
      quoted(s) == Len(s) > 1 /\ s[1] = Quote /\ Last(s) = Quote /\ chars(SubSeq(s, 2, Len(s) - 1))
      before(s, k) == SubSeq(s, 1, k - 1)
      behind(s, k) == SubSeq(s, k + 1, Len(s))
      key(s) == IsJson(s) /\ quoted(SelectSeq(s, LAMBDA b : b \notin Spaces))
      member(s) == \E k \in DOMAIN s : s[k] = Colon /\ key(before(s, k)) /\ IsJson(behind(s, k))
      elements(s) == IsJson(s) \/ \E k \in DOMAIN s : s[k] = Comma /\ IsJson(before(s, k)) /\ elements(behind(s, k))
      members(s) == member(s) \/ \E k \in DOMAIN s : s[k] = Comma /\ member(before(s, k)) /\ members(behind(s, k))
      inner == SubSeq(t, 2, n - 1)
      blank == ToSet(inner) \subseteq Spaces
  IN n > 0 /\ CASE t[1] = 91 -> n > 1 /\ t[n] = 93 /\ (blank \/ elements(inner))
                 [] t[1] = 123 -> n > 1 /\ t[n] = 125 /\ (blank \/ members(inner))
                 [] t[1] = Quote -> quoted(t)
                 [] OTHER -> t \in {Literals["null"], Literals["true"], Literals["false"]} \/ number

\* What a text says of a value: a double that is no number reads as null.
RECURSIVE Said(_), Depth(_)
Said(v) == CASE Tag(v) = "nan" -> Null
             [] Tag(v) = "arr" -> Arr([i \in DOMAIN v[2] |-> Said(v[2][i])])
             [] Tag(v) = "obj" -> Obj([k \in DOMAIN v[2] |-> Said(v[2][k])])
             [] OTHER -> v
Depth(v) == IF Tag(v) \notin {"arr", "obj"} THEN 0 ELSE 1 + Max({0} \cup {Depth(v[2][k]) : k \in DOMAIN v[2]})

\* Well-formed UTF-8: every piece is the encoding of a code point that is no surrogate.
RECURSIVE IsUtf8(_)
IsUtf8(b) ==
  LET low(k) == b[k] % 64
      point(n) == CASE n = 1 -> b[1] [] n = 2 -> (b[1] % 32) * 64 + low(2)
                    [] n = 3 -> (b[1] % 16) * 4096 + low(2) * 64 + low(3)
                    [] n = 4 -> (b[1] % 8) * 262144 + low(2) * 4096 + low(3) * 64 + low(4)
      piece(n) == n <= Len(b) /\ point(n) < 1114112 /\ ~(point(n) \in 55296..57343) /\ AppendUtf8(point(n)) = SubSeq(b, 1, n)
  IN b = <<>> \/ \E n \in 1..4 : piece(n) /\ IsUtf8(SubSeq(b, n + 1, Len(b)))

\* Every string of a value is, and every name of a member.
RECURSIVE HoldsUtf8(_)
HoldsUtf8(v) == CASE Tag(v) = "str" -> IsUtf8(v[2])
                  [] Tag(v) = "arr" -> \A i \in DOMAIN v[2] : HoldsUtf8(v[2][i])
                  [] Tag(v) = "obj" -> \A k \in DOMAIN v[2] : IsUtf8(k) /\ HoldsUtf8(v[2][k])
                  [] OTHER -> TRUE

\* A value that is written as a text is read back as it was, doubles as doubles, whatever characters its strings hold
\* and however it is indented, unless it is nested too deeply or some string or name in it is not UTF-8: Dump writes
\* such bytes as they are and the parser refuses the text, all of it (tests/unit/JsonParserTests.cpp:345-355).
\* Exactly the texts of the JSON grammar are read, and what was read can be written and read again; text from
\* elsewhere, once sanitized, is always read back, and text that was well-formed is left alone (JsonValue.cpp Dump
\* and SanitizeUtf8, JsonParser.cpp).
TextsKept ==
  /\ Delivered("dump") => got = IF Depth(errand.value) <= MaxDepth /\ HoldsUtf8(errand.value)
                                THEN Said(errand.value) ELSE Err
  /\ Delivered("text") => (wire # Err <=> IsJson(errand.text)) /\ got = wire
  /\ Delivered("utf8") => got = Str(wire) /\ IsUtf8(wire) /\ (IsUtf8(errand.bytes) => wire = errand.bytes)

\* Expanding a template and matching the result gives the values back, decoded once, as long as no value contains the
\* text that ends it; and a URI that matches is, up to escapes, the expansion of what was matched: no part of it is
\* ignored (UriTemplate.hpp, docs/en/howto/serve-a-resource.md).
MatchInvertsExpand ==
  /\ Delivered("expand") =>
       /\ got # NoMatch
       /\ \A n \in DOMAIN errand.variables : got[n] = DecodeValue(errand.variables[n])
  /\ Delivered("match") => got = Nothing \/ DecodeValue(got) = DecodeValue(errand.uri)

\* What a header text says of a body value, plain or in base64.
Denotes(h, v) ==
  \E t \in HeaderTexts :
    /\ h = Sentinel(t) \/ (h = t /\ t \notin Looks)
    /\ CASE Tag(v) = "str" -> t = v[2]
         [] Tag(v) = "bool" -> t = IF v[2] THEN "true" ELSE "false"
         [] Tag(v) = "int" -> t \in DOMAIN NumberOf /\ NumberOf[t] = v[2]

\* The headers a client writes for a request are accepted by the server, whatever the values look like; headers that
\* something replaced on the way are accepted exactly when they still say what the body says
\* (docs/en/howto/protect-an-http-server.md:70, McpParamHeaders.hpp, ValidateParamHeaders).
HeadersAgree ==
  /\ Delivered("bytes") => got = errand.bytes
  /\ Delivered("call") /\ errand.replaced = NoMembers => got
  /\ Delivered("call") /\ errand.replaced # NoMembers =>
       (got <=> \A a \in Annotations(errand) :
                  a.header \in DOMAIN errand.replaced =>
                    LET v == Given(Members(errand.params)["arguments"], a)
                    IN v # None /\ Denotes(errand.replaced[a.header], v))
====
