---- MODULE MCAlgorithms ----
\* Errands of every kind, and conversations over one connection.
EXTENDS Algorithms

CONSTANTS MaxLine, MaxBody, Conversations
VARIABLES talk, toServer, buffer, stage, reading, served, toClient, inbox, phase, answer, answers
Lines == INSTANCE HttpLines
Http == INSTANCE HttpTexts

----------------------------------------------------------------------------
\* Structs: every field absent, present and odd, at most two away from the bare or the full struct.

Structured == UNION {{[kind |-> "struct", type |-> T, value |-> v] : v \in Values(T)} : T \in DOMAIN Structs}

\* Requests and results: one field away from the bare or the full struct.
Near(T) == UNION {{Obj([base[2] EXCEPT ![f.key] = x]) : x \in Slots(f)} : f \in Structs[T], base \in {Full(T), Bare(T)}}

MethodOf == [PaginatedRequestParams |-> "tools/list", ResourceRequestParams |-> "resources/read",
             CallToolRequestParams |-> "tools/call", CompleteRequestParams |-> "completion/complete",
             InitializeRequestParams |-> "initialize", SubscriptionsListenRequestParams |-> "subscriptions/listen",
             SkillsGetRequestParams |-> "skills/get", ReadDirectoryRequestParams |-> "resources/directory/read",
             GetTaskRequestParams |-> "tasks/get", UpdateTaskRequestParams |-> "tasks/update", CancelTaskRequestParams |-> "tasks/cancel",
             SetLevelRequestParams |-> "logging/setLevel", ElicitRequestParams |-> "elicitation/create",
             CreateMessageRequestParams |-> "sampling/createMessage"]

NoMeta == [k \in {f.key : f \in MetaTypes["RequestMeta"]} |-> None]
Connections(version) ==
  {Obj([NoMeta EXCEPT !["protocolVersion"] = Str(version), !["progressToken"] = t, !["logLevel"] = l]) :
     t \in {None, Str("conn")}, l \in {None, Str("error")}}

Requested ==
  UNION {{[kind |-> "request", type |-> T, method |-> MethodOf[T], value |-> v, meta |-> m, transport |-> by] :
            v \in Near(T), m \in Connections(version), by \in {"memory", "wire"}} :
           <<T, version>> \in {p \in (DOMAIN MethodOf) \X {Legacy, Modern} : HasRequestMethod(p[2], MethodOf[p[1]])}}

Resulting ==
  UNION {{[kind |-> "result", type |-> T, value |-> v, version |-> version] : v \in Near(T), version \in {Legacy, Modern}} :
           T \in DOMAIN (ListResults @@ [CallToolResult |-> 0, GetPromptResult |-> 0, DiscoverResult |-> 0])}

Messages ==
  LET ids == {Whole(1), Str("a")}
      plain == {None, Null, Arr(<<>>), Obj(NoMembers), Obj([k |-> Whole(1)]), Obj([k |-> Null, _meta |-> Whole(1)])}
      held == Obj([k |-> Null, _meta |-> Obj([a |-> Whole(1), b |-> Null])])
      metas == {None, Obj(NoMembers), Obj([a |-> Str("x")])}
      calls == ((plain \cup {held}) \X metas) \cup (plain \X {Null, Str("x")})
      errors == {Obj([code |-> Whole(c), message |-> Str(""), data |-> d]) :
                   c \in {MaxCode, -MaxCode - 1}, d \in {None, Null, Whole(1)}}
  IN {Request(i, "m", c[1], c[2]) : i \in ids, c \in calls} \cup {Notice("m", c[1], c[2]) : c \in calls}
     \cup {Response(i, r) : i \in ids, r \in {Null, Obj(NoMembers), Obj([error |-> Null])}}
     \cup {ErrorAnswer(i, e) : i \in ids \cup {None}, e \in errors}

----------------------------------------------------------------------------
\* JSON: values with odd strings and numbers, texts of a few symbols, bytes at the bounds of UTF-8.

Scalars == {Null, Bool(TRUE), Whole(0), Whole(MaxInt), Whole(-MaxInt - 1), Num(0), Num(700), Num(-725), Num(5), NotFinite,
            Str(<<>>), Str(<<34, 92, 47>>), Str(<<8, 10, 1, 31, 32>>), Str(<<127, 195, 169, 240, 159, 152, 128>>)}
\* Not UTF-8: no leading byte, one that is cut off, an overlong one, one before a character that is escaped, a surrogate.
IllFormed == {<<255>>, <<195>>, <<192, 128>>, <<97, 226, 130, 34>>, <<237, 160, 128>>}
Nested == UNION {{Arr(<<a>>), Arr(<<a, Null>>), Obj(<<107>> :> a), Obj((<<>> :> a) @@ (<<10, 34>> :> Num(150)))}
                   : a \in Scalars \cup {Str(<<195>>)}}
Unreadables == {Str(s) : s \in IllFormed} \cup {Obj(s :> Null) : s \in IllFormed}
               \cup {Arr(<<Null, Obj((<<107>> :> Str(s)) @@ (<<108>> :> Whole(0)))>>) : s \in IllFormed}
Deep == {Arr(<<Arr(<<v>>)>>) : v \in {Arr(<<>>), Obj(NoMembers), Arr(<<Arr(<<>>)>>)} \cup Nested}
Dumped == {[kind |-> "dump", value |-> v, indent |-> i] :
             v \in Scalars \cup Unreadables \cup Nested \cup Deep \cup {Arr(<<>>), Obj(NoMembers)}, i \in {-1, 0, 2}}

RECURSIVE Words(_, _)
Words(tokens, n) == IF n = 0 THEN {<<>>} ELSE LET some == Words(tokens, n - 1)
                                              IN some \cup {w \o t : w \in some, t \in tokens}
\* Doubles too large for this model are left out.
Small(t) == ~\E i \in DOMAIN t : t[i] = 101 /\ i + 2 <= Len(t) /\ {t[i + 1], t[i + 2]} \subseteq DigitBytes
Unicode(a, b) == <<34, 92, 117>> \o a \o b \o <<34>>
Brackets == {<<91>>, <<93>>, <<123>>, <<125>>, <<44>>, <<58>>, <<34, 107, 34>>, <<49>>}
Parsed ==
  {[kind |-> "text", text |-> t] : t \in
     {<<91>> \o w \o <<93>> : w \in Words(Brackets, 3)} \cup {<<123>> \o w \o <<125>> : w \in Words(Brackets, 4)}
     \cup {t \in Words({<<45>>, <<48>>, <<49>>, <<46>>, <<101>>, <<43>>, <<32>>}, 4) : Small(t)}
     \cup Words({<<34>>, <<92>>, <<110>>, <<117>>, <<10>>, <<47>>}, 4)
     \cup {<<116, 114, 117, 101>>, <<102, 97, 108, 115, 101>>, <<110, 117, 108>>, <<110, 117, 108, 108, 108>>}
     \cup {Unicode(<<h>> \o a, b) : h \in {48, 68, 100}, a \in {<<48, 65, 102>>, <<56, 51, 68>>, <<99, 48, 48>>, <<57, 103, 48>>},
              b \in {<<>>, <<92, 117, 68, 69, 48, 48>>, <<92, 117, 68, 98, 48, 48>>, <<92, 110>>, <<48>>}}}

Utf8Bytes == {65, 128, 160, 191, 194, 224, 237, 240, 244, 143}
Upto(n) == UNION {[1..k -> Utf8Bytes] : k \in 0..n}
Sanitized == {[kind |-> "utf8", bytes |-> b] : b \in Upto(3) \cup {<<240>> \o t : t \in Upto(3)} \cup {<<244>> \o t : t \in Upto(3)}}

----------------------------------------------------------------------------
\* Templates with distinct names, and URIs of up to four symbols.

Templates == {<<"a", "/", "{", "x", "}">>, <<"a", "/", "{", "x", "}", "-", "{", "y", "}">>,
              <<"{", "x", "}", "{", "/", "y", "}">>, <<"{", "x", ",", "y", "}">>, <<"{", "+", "x", "}", "/", "b">>,
              <<"a", "{", "#", "x", ",", "y", "}">>, <<"a", "{", ".", "x", "}">>, <<"a", "{", ";", "x", ",", "y", "}">>,
              <<"a", "{", "?", "x", ",", "y", "}", "{", "&", "z", "}">>, <<"{", "+", "x", "}", "/", "{", "y", "}">>,
              <<"{", "x", "*", "}">>, <<"a">>}
VariablesOf(t) == UNION {ToSet(s.names) : s \in ToSet(ParseTemplate(t, 3))}
Uris == UNION {[1..n -> {"a", "/", "-", "=", "x", "&", "%/", ","}] : n \in 0..3}
\* Values whose encoding does not contain the literal text after their variable.
Clear == {<<>>, <<"a">>, <<"b", "a">>, <<" ">>, <<"%/">>, <<"%">>}

----------------------------------------------------------------------------
\* Calls: one tool with two annotated arguments, one of them nested.

Property(type, header) == Obj(("x-mcp-header" :> Str(header)) @@ [type |-> Str(type)])
Schema(type, second) ==
  Obj([properties |-> Obj([r |-> Property(type, "Region"), w |-> Obj([properties |-> Obj([z |-> Property("string", second)])])])])
Arguments(r, z) ==
  Obj((IF r = None THEN NoMembers ELSE [r |-> r]) @@ (IF z = None THEN NoMembers ELSE [w |-> Obj([z |-> z])]))
CallOf(type, second, r, z, replaced) ==
  [kind |-> "call", method |-> "tools/call", replaced |-> replaced,
   tools |-> {[name |-> "a", schema |-> Schema(type, second)], [name |-> "b", schema |-> Obj(NoMembers)]},
   params |-> Obj([name |-> Str("a"), arguments |-> Arguments(r, z)])]
TextValues == {Str(t) : t \in HeaderTexts}

Calls ==
  {CallOf("string", second, r, z, NoMembers) :
     second \in {"Zone", "region"}, r \in TextValues \cup {None, Null}, z \in {None, Null, Str("a"), Str(" a")}}
  \cup {CallOf("integer", "Zone", v, Str("a"), NoMembers) : v \in {Whole(7), Whole(8), Bool(TRUE)}}
  \cup {CallOf(p[1], "Zone", p[2], None, [region |-> h]) :
           h \in HeaderTexts, p \in {<<"string", Str("a")>>, <<"string", Str(" a")>>, <<"integer", Whole(7)>>,
                                    <<"boolean", Bool(TRUE)>>, <<"string", None>>}}
  \cup {[kind |-> "call", method |-> m, replaced |-> NoMembers, tools |-> {}, params |-> Obj([k \in {key} |-> v])] :
           v \in TextValues \ {Str("")}, <<m, key>> \in {<<"tasks/get", "taskId">>, <<"resources/read", "uri">>,
                                                       <<"prompts/get", "name">>}}

AllErrands ==
  Structured \cup Requested \cup Resulting \cup {[kind |-> "message", message |-> m] : m \in Messages}
  \cup {[kind |-> "bytes", bytes |-> b] : b \in UNION {[1..n -> {0, 1, 251, 255}] : n \in 0..4}}
  \cup UNION {{[kind |-> "expand", template |-> t, variables |-> v] : v \in [VariablesOf(t) -> Clear]} : t \in Templates}
  \cup {[kind |-> "match", template |-> t, uri |-> u] : t \in Templates, u \in Uris}
  \cup Calls \cup Dumped \cup Parsed \cup Sanitized

----------------------------------------------------------------------------
\* Conversations.

HttpRequest(method, path, host, headers, body) ==
  [method |-> method, path |-> path, host |-> host, port |-> "3", page |-> <<>>, headers |-> headers, body |-> body]
FromPage(r, page) ==
  [r EXCEPT !.page = page, !.headers = <<<<"Origin", <<"http://">> \o Http!HostText([r EXCEPT !.host = page])>>>> \o @]
Post == HttpRequest("POST", "/mcp", <<"localhost">>, <<>>, <<"LF", "b">>)
OkAnswer(body) == [status |-> "200", headers |-> <<<<"Mcp-Session-Id", <<"s">>>>, <<"X", <<"CR", "LF">>>>>>, body |-> body]
Talk(requests, a) == [requests |-> requests, text |-> <<>>, answers |-> <<>>, hangsUp |-> FALSE, answer |-> a, refusal |-> ""]
HostNames == {<<"localhost">>, <<"127.0.0.1">>, <<":", ":", "1">>, <<"other">>}
\* The same request, with one header at most, as another client may write it.
Spelled(r, nl, pad) ==
  LET line(n, v) == <<n, ":">> \o pad \o v \o pad \o nl
  IN <<r.method, " ", r.path, " ", "HTTP/1.1">> \o nl \o line("host", Http!HostText(r))
     \o (IF r.headers = <<>> THEN <<>> ELSE line(r.headers[1][1], r.headers[1][2]))
     \o (IF r.body = <<>> THEN <<>> ELSE line("content-length", <<Http!Digit(Len(r.body))>>)) \o nl \o r.body
Closing == HttpRequest("POST", "/mcp", <<"localhost">>, <<<<"Connection", <<"x", ",", " ", "Close">>>>>>, <<"b">>)
RawTalk(requests, text) == [Talk(requests, OkAnswer(<<"b">>)) EXCEPT !.text = text]
Get == HttpRequest("GET", "/mcp", <<"localhost">>, <<>>, <<>>)
Refused(text, refusal) == [RawTalk(<<Get>>, text) EXCEPT !.refusal = refusal]
WireLine(l) == l \o Http!Crlf
RequestLine == WireLine(<<"GET", " ", "/mcp", " ", "HTTP/1.1">>)
HostLine == WireLine(<<"Host", ":", "localhost">>)
AnswersOf(body, how) ==
  LET head == WireLine(<<"HTTP/1.1", " ", "200">>)
  IN CASE how = "sized" -> head \o WireLine(<<"content-length", ":", Http!Digit(Len(body))>>) \o Http!Crlf \o body
       [] how = "until the end" -> head \o WireLine(<<"Connection", ":", "Close">>) \o Http!Crlf \o body
       [] how = "chunks" -> head \o WireLine(<<"Transfer-Encoding", ":", " ", "Chunked">>) \o Http!Crlf
            \o FlattenSeq([i \in DOMAIN body |-> WireLine(<<"1", ";", "ext">>) \o <<body[i]>> \o Http!Crlf])
            \o WireLine(<<"0">>) \o WireLine(<<"X", ":", "y">>) \o Http!Crlf
       [] how = "one chunk" -> head \o WireLine(<<"Transfer-Encoding", ":", "Chunked">>) \o Http!Crlf
            \o WireLine(<<Http!Digit(Len(body))>>) \o body \o Http!Crlf \o WireLine(<<"0">>) \o Http!Crlf
\* Answers that no client can read.
Garbled ==
  LET head == WireLine(<<"HTTP/1.1", " ", "200">>)
      chunked == head \o WireLine(<<"Transfer-Encoding", ":", "Chunked">>)
  IN {<<"HTTP/1.1", " ", "200", "CR", "x">>, WireLine(<<"x">>), head \o WireLine(<<"x">>), head,
      chunked \o WireLine(<<"Content-Length", ":", "1">>) \o Http!Crlf, chunked \o Http!Crlf \o WireLine(<<"x">>),
      chunked \o Http!Crlf \o WireLine(<<"1">>) \o <<"b", "x", "LF">>,
      head \o WireLine(<<"Content-Length", ":", "2">>) \o Http!Crlf \o <<"b">>}

AllTalks ==
  {Talk(<<FromPage([Post EXCEPT !.host = h], p)>>, OkAnswer(<<"b", "CR", "LF">>)) :
     h \in HostNames, p \in HostNames \cup {<<"LOCALHOST">>}}
  \cup {Talk(<<Post, Get, [Get EXCEPT !.path = "/x"], [Get EXCEPT !.method = "OPTIONS"]>>, OkAnswer(<<>>))}
  \cup {Talk(<<HttpRequest("POST", "/mcp", <<"localhost">>, <<<<"X", v>>>>, <<>>)>>, OkAnswer(<<"b">>)) :
          v \in {<<" ", "v", "TAB", "w", " ">>, <<"v", "CR", "LF", "w">>}}
  \cup {RawTalk(<<Post, Closing>>, Spelled(Post, nl, <<" ", "TAB">>) \o Spelled(Closing, nl, <<" ", "TAB">>)) :
          nl \in {Http!Crlf, <<"LF">>}}
  \cup {[RawTalk(<<Post>>, SubSeq(Http!WriteRequest(Post), 1, n)) EXCEPT !.hangsUp = TRUE] :
          n \in 1..(Len(Http!WriteRequest(Post)) - 1)}
  \cup {Refused(WireLine(<<"GET", " ", "/mcp">>), "400"), Refused(WireLine(<<"GET", " ", "/mcp", " ", "HTTP/2">>), "400"),
        Refused(RequestLine \o WireLine(<<":", "x">>), "400"), Refused([i \in 1..(MaxLine + 1) |-> "x"], "400")}
  \cup {Refused(RequestLine \o HostLine \o WireLine(l[1]) \o Http!Crlf, l[2]) :
          l \in {<<<<"Host", ":", "localhost">>, "400">>, <<<<"Content-Length", ":", "9">>, "413">>,
                 <<<<"Content-Length", ":", "b">>, "400">>, <<<<"Transfer-Encoding", ":", "chunked">>, "400">>}}
  \cup {[Talk(<<Get>>, OkAnswer(body)) EXCEPT !.answers = AnswersOf(body, how)] :
          body \in {<<"b", "CR", "LF">>}, how \in {"sized", "until the end", "chunks", "one chunk"}}
  \cup {[Talk(<<Get>>, [OkAnswer(<<>>) EXCEPT !.status = ""]) EXCEPT !.answers = text] : text \in Garbled}

----------------------------------------------------------------------------
\* An errand or a conversation.

lineVars == <<talk, toServer, buffer, stage, reading, served, toClient, inbox, phase, answer, answers>>
NoErrand == [kind |-> "none"]

Init ==
  \/ ErrandInit /\ Lines!Idle
  \/ Lines!Init /\ errand = NoErrand /\ wire = Nothing /\ got = Nothing /\ at = "none"

Next ==
  \/ (Send \/ Replace \/ Receive) /\ UNCHANGED lineVars
  \/ at = "none" /\ Lines!Next /\ UNCHANGED <<errand, wire, got, at>>

WhatWasSentIsRead == at = "none" => Lines!WhatWasSentIsRead
Spec == Init /\ [][Next]_<<errand, wire, got, at, lineVars>>
====
