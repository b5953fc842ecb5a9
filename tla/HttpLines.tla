---- MODULE HttpLines ----
(***************************************************************************)
(* One HTTP connection, symbol by symbol: the reader of requests           *)
(* (HandleConnectionInner in src/src/http/HttpServerImpl.cpp) and that of  *)
(* responses (Request in src/src/transport/detail/net/HttpClient.cpp).     *)
(* TCP may cut the stream anywhere: Arrive hands a reader any number of    *)
(* the symbols under way, and the reader goes on as far as its buffer      *)
(* allows.  HttpTexts says how the two sides write.                        *)
(***************************************************************************)
EXTENDS HttpTexts, FiniteSets

CONSTANTS MaxLine,        \* kMaxRequestLine and kMaxHeaderBytes of a line, in symbols
          MaxBody,        \* max_request_body_bytes
          Conversations   \* what the two ends say (see Init)

VARIABLES talk,           \* the conversation
          toServer,       \* symbols written by the client that the server has not received
          buffer,         \* HandleConnectionInner's buffer
          stage,          \* of the server: "line", "headers", "body", "reply" or "closed"
          reading,        \* the request it is reading
          served,         \* the requests it has read, in order
          toClient, inbox, \* the same of the client: symbols under way, read_buffer_
          phase,          \* of the client: "send", "status", "headers", "body", "size", "trailer" or "failed"
          answer,         \* the response it is reading
          answers         \* the responses Request has returned
vars == <<talk, toServer, buffer, stage, reading, served, toClient, inbox, phase, answer, answers>>

Blanks == {" ", "TAB"}
NoHeaders == [h \in {} |-> <<>>]
NoRequest == [method |-> "", path |-> "", headers |-> NoHeaders, body |-> <<>>]
NoAnswer  == [status |-> "", headers |-> NoHeaders, body |-> <<>>, left |-> 0]   \* left: of a chunk

From(s, i) == SubSeq(s, i, Len(s))
Trim(v) ==
  LET solid == {i \in DOMAIN v : v[i] \notin Blanks}
      first == CHOOSE i \in solid : \A j \in solid : i <= j
      last == CHOOSE i \in solid : \A j \in solid : j <= i
  IN IF solid = {} THEN <<>> ELSE SubSeq(v, first, last)

----------------------------------------------------------------------------
\* Lines and headers of a request.

More    == [kind |-> "more", line |-> <<>>, rest |-> <<>>]
TooLong == [kind |-> "too long", line |-> <<>>, rest |-> <<>>]
ReadLine(b) ==
  LET ends == {i \in DOMAIN b : b[i] = "LF"}
      end == CHOOSE i \in ends : \A j \in ends : i <= j
      text == SubSeq(b, 1, end - 1)
      line == IF text # <<>> /\ Last(text) = "CR" THEN Front(text) ELSE text
  IN IF ends = {} THEN IF Len(b) > MaxLine THEN TooLong ELSE More
     ELSE IF Len(line) > MaxLine THEN TooLong ELSE [kind |-> "line", line |-> line, rest |-> From(b, end + 1)]

\* Exactly two blanks, something between them and a version this server speaks.
IsRequestLine(l) ==
  /\ Len(l) = 5
  /\ {i \in DOMAIN l : l[i] = " "} = {2, 4}
  /\ l[5] \in {"HTTP/1.0", "HTTP/1.1"}

CriticalHeaders == {"content-length", "host", "transfer-encoding", "authorization", "mcp-session-id"}
HeaderName(l) == ToLower(l[1])
\* The lines that are read start with a name of one symbol.
IsHeader(l, headers) ==
  /\ Len(l) > 1 /\ l[1] # ":" /\ l[2] = ":"
  /\ ~(HeaderName(l) \in CriticalHeaders /\ HeaderName(l) \in DOMAIN headers)
AddHeader(headers, l) ==
  [h \in DOMAIN headers \cup {HeaderName(l)} |-> IF h = HeaderName(l) THEN Trim(From(l, 3)) ELSE headers[h]]

\* What the headers say of the body: why the request is refused, if it is, and how long the body is.
Refusal(headers) ==
  LET v == headers["content-length"]
      sized == "content-length" \in DOMAIN headers
  IN CASE sized /\ (v = <<>> \/ \E i \in DOMAIN v : v[i] \notin DOMAIN Digits) -> "400"
       [] sized /\ v # <<>> /\ v[1] \in DOMAIN Digits /\ Digits[v[1]] > MaxBody -> "413"
       [] OTHER -> IF "transfer-encoding" \in DOMAIN headers THEN "400" ELSE ""
ContentLength(headers) == IF "content-length" \in DOMAIN headers THEN Digits[headers["content-length"][1]] ELSE 0

HasCloseToken(v) ==
  LET commas == {0, Len(v) + 1} \cup {i \in DOMAIN v : v[i] = ","}
  IN \E i, j \in commas : /\ i < j /\ ~\E k \in commas : i < k /\ k < j
                          /\ LET token == Trim(SubSeq(v, i + 1, j - 1))
                             IN Len(token) = 1 /\ ToLower(token[1]) = "close"

----------------------------------------------------------------------------
\* Which requests are allowed (with no allow lists configured).

StripPort(h) ==
  LET close == {i \in DOMAIN h : h[i] = "]"}
      colons == {i \in DOMAIN h : h[i] = ":"}
      last == CHOOSE i \in colons : \A j \in colons : j <= i
  IN IF colons = {} THEN h
     ELSE IF h[1] = "["
          THEN IF close = {} THEN h ELSE SubSeq(h, 2, (CHOOSE i \in close : \A j \in close : i <= j) - 1)
          ELSE SubSeq(h, 1, last - 1)

Loopback == {<<"localhost">>, <<"127.0.0.1">>, <<":", ":", "1">>}
IsLocalhostHost(h) == StripPort(h) \in Loopback
IsOriginAllowedForHost(origin, h) ==
  LET lower(s) == [i \in DOMAIN s |-> ToLower(s[i])]
      got == lower(StripPort(From(origin, 2)))
      want == lower(StripPort(h))
  IN /\ origin # <<>> /\ origin[1] = "http://"
     /\ got # <<>>
     /\ got = want \/ {got, want} \subseteq Loopback

IsRequestAllowed(headers) ==
  /\ "host" \in DOMAIN headers /\ IsLocalhostHost(headers["host"])
  /\ "origin" \in DOMAIN headers => IsOriginAllowedForHost(headers["origin"], headers["host"])

----------------------------------------------------------------------------
\* The server's side of the connection.

\* A conversation: the requests of a client and the answer of the handler of /mcp; the text a client of another make
\* sends for them, and whether it hangs up after it; the text a server of another make answers, and then closes.
Init ==
  /\ talk \in Conversations
  /\ toServer = <<>> /\ buffer = <<>> /\ stage = "line" /\ reading = NoRequest /\ served = <<>>
  /\ toClient = <<>> /\ inbox = <<>> /\ phase = "send" /\ answer = NoAnswer /\ answers = <<>>

\* No conversation at all.
Idle ==
  /\ talk = <<>> /\ toServer = <<>> /\ buffer = <<>> /\ stage = "closed" /\ reading = NoRequest /\ served = <<>>
  /\ toClient = <<>> /\ inbox = <<>> /\ phase = "failed" /\ answer = NoAnswer /\ answers = <<>>

clientVars == <<toClient, inbox, phase, answer, answers>>
serverVars == <<buffer, stage, reading, served>>

\* A read returns any part of what is under way; it is asked for only when the buffer holds no line, or no whole body.
Waits == CASE stage \in {"line", "headers"} -> ReadLine(buffer) = More
           [] stage = "body" -> Len(buffer) < ContentLength(reading.headers)
           [] OTHER -> FALSE
Arrive ==
  /\ Waits
  /\ \E n \in 1..Len(toServer) : /\ buffer' = buffer \o SubSeq(toServer, 1, n)
                                 /\ toServer' = From(toServer, n + 1)
  /\ UNCHANGED <<talk, stage, reading, served, clientVars>>

\* A refusal is written and the connection closed.
Refuse(status) ==
  /\ toClient' = toClient \o WriteResponse([status |-> status, headers |-> <<>>, body |-> <<>>], FALSE)
  /\ stage' = "closed" /\ buffer' = <<>> /\ reading' = NoRequest
  /\ UNCHANGED <<talk, toServer, served, inbox, phase, answer, answers>>

ReadRequestLine ==
  LET l == ReadLine(buffer)
  IN /\ stage = "line" /\ l # More
     /\ IF l.kind = "line" /\ IsRequestLine(l.line)
        THEN /\ reading' = [NoRequest EXCEPT !.method = l.line[1], !.path = l.line[3]]
             /\ buffer' = l.rest /\ stage' = "headers"
             /\ UNCHANGED <<talk, toServer, served, clientVars>>
        ELSE Refuse("400")

ReadHeaderLine ==
  LET l == ReadLine(buffer)
  IN /\ stage = "headers" /\ l # More
     /\ CASE l.kind = "line" /\ l.line = <<>> /\ Refusal(reading.headers) # "" -> Refuse(Refusal(reading.headers))
          [] l.kind = "line" /\ l.line = <<>> /\ Refusal(reading.headers) = "" ->
               /\ buffer' = l.rest /\ stage' = "body"
               /\ UNCHANGED <<talk, toServer, reading, served, clientVars>>
          [] l.kind = "line" /\ l.line # <<>> /\ IsHeader(l.line, reading.headers) ->
               /\ reading' = [reading EXCEPT !.headers = AddHeader(@, l.line)]
               /\ buffer' = l.rest
               /\ UNCHANGED <<talk, toServer, stage, served, clientVars>>
          [] OTHER -> Refuse("400")

\* What came with the body and is not of it is thrown away.
ReadBodyMutant ==
  LET n == ContentLength(reading.headers)
  IN /\ stage = "body" /\ Len(buffer) >= n
     /\ reading' = [reading EXCEPT !.body = SubSeq(buffer, 1, n)]
     /\ buffer' = <<>>
     /\ served' = Append(served, reading') /\ stage' = "reply"
     /\ UNCHANGED <<talk, toServer, clientVars>>

ReadBody ==
  LET n == ContentLength(reading.headers)
  IN /\ stage = "body" /\ Len(buffer) >= n
     /\ reading' = [reading EXCEPT !.body = SubSeq(buffer, 1, n)]
     /\ buffer' = From(buffer, n + 1)
     /\ served' = Append(served, reading') /\ stage' = "reply"
     /\ UNCHANGED <<talk, toServer, clientVars>>

KeepsAlive == ~("connection" \in DOMAIN reading.headers /\ HasCloseToken(reading.headers["connection"]))
Plain(status) == [status |-> status, headers |-> <<>>, body |-> <<>>]
Reply ==
  LET a == CASE reading.method = "OPTIONS" -> Plain("204")
             [] reading.method # "OPTIONS" /\ ~IsRequestAllowed(reading.headers) -> Plain("403")
             [] reading.method # "OPTIONS" /\ IsRequestAllowed(reading.headers) /\ reading.path # "/mcp" -> Plain("404")
             [] OTHER -> talk.answer
  IN /\ stage = "reply"
     /\ toClient' = toClient \o WriteResponse(a, KeepsAlive)
     /\ stage' = IF KeepsAlive THEN "line" ELSE "closed"
     /\ reading' = NoRequest
     /\ UNCHANGED <<talk, toServer, buffer, served, inbox, phase, answer, answers>>

\* The peer closes with a request half sent, or none: ReadLine and ReadBody see the end and the thread leaves.
PeerCloses ==
  /\ talk.hangsUp /\ toServer = <<>> /\ Waits
  /\ stage' = "closed" /\ UNCHANGED <<talk, toServer, buffer, reading, served, clientVars>>

----------------------------------------------------------------------------
\* The client's side: Request, one at a time on a kept connection.

Foreign == talk.answers # <<>>
Raw     == talk.text # <<>>

\* A closed connection is opened anew, and the server starts with an empty buffer.  All of a raw text is sent at once.
Connect == /\ stage' = IF Foreign THEN "closed" ELSE "line"
           /\ buffer' = IF stage = "closed" THEN <<>> ELSE buffer
           /\ inbox' = IF stage = "closed" THEN <<>> ELSE inbox

SendRequest ==
  LET next == talk.requests[Len(answers) + 1]
      text == IF ~Raw THEN WriteRequest(next) ELSE IF answers = <<>> THEN talk.text ELSE <<>>
      sent == ~\E i \in DOMAIN next.headers : BreaksLine(next.headers[i][2])
  IN /\ phase = "send" /\ Len(answers) < Len(talk.requests)
     /\ phase' = IF sent THEN "status" ELSE "failed"
     /\ IF sent /\ ~Foreign THEN toServer' = toServer \o text ELSE toServer' = toServer
     /\ IF sent /\ Foreign THEN toClient' = talk.answers ELSE toClient' = toClient
     /\ IF sent /\ (~Raw \/ answers = <<>>) THEN Connect ELSE UNCHANGED <<stage, buffer, inbox>>
     /\ UNCHANGED <<talk, reading, served, answer, answers>>

\* A line ends with LF or with CR LF; anything else after CR is an error.
ReadAnswerLine(b) ==
  LET ends == {i \in DOMAIN b : b[i] \in {"CR", "LF"}}
      end == CHOOSE i \in ends : \A j \in ends : i <= j
  IN CASE ends = {} -> More
       [] ends # {} /\ b[end] = "LF" -> [kind |-> "line", line |-> SubSeq(b, 1, end - 1), rest |-> From(b, end + 1)]
       [] ends # {} /\ b[end] = "CR" /\ Len(b) = end -> More
       [] OTHER -> IF b[end + 1] = "LF" THEN [kind |-> "line", line |-> SubSeq(b, 1, end - 1), rest |-> From(b, end + 2)]
                   ELSE TooLong

Chunked == "transfer-encoding" \in DOMAIN answer.headers
Sized   == "content-length" \in DOMAIN answer.headers
Expected == IF Sized THEN Digits[answer.headers["content-length"][1]] ELSE 0
InLines == phase \in {"status", "headers", "size", "trailer"}
ChunkEndMissing == inbox \in {<<>>, <<"CR">>}   \* any other first symbol is an error at once
Starves ==
  CASE InLines -> ReadAnswerLine(inbox) = More
    [] phase = "body" /\ Sized -> Len(answer.body) < Expected /\ inbox = <<>>
    [] phase = "body" /\ ~Sized -> inbox = <<>>
    [] phase = "chunk" /\ answer.left > 0 -> inbox = <<>>
    [] phase = "chunk" /\ answer.left = 0 -> ChunkEndMissing
    [] OTHER -> FALSE

Fill ==
  /\ Starves
  /\ \E n \in 1..Len(toClient) : /\ inbox' = inbox \o SubSeq(toClient, 1, n)
                                 /\ toClient' = From(toClient, n + 1)
  /\ UNCHANGED <<talk, toServer, serverVars, phase, answer, answers>>

clientRest == <<talk, toServer, serverVars, toClient>>

ReadStatus ==
  LET l == ReadAnswerLine(inbox)
  IN /\ phase = "status" /\ l.kind = "line"
     /\ IF Len(l.line) >= 3 /\ l.line[1] \in {"HTTP/1.0", "HTTP/1.1"} /\ l.line[2] = " "
        THEN answer' = [NoAnswer EXCEPT !.status = l.line[3]] /\ phase' = "headers"
        ELSE answer' = answer /\ phase' = "failed"
     /\ inbox' = l.rest /\ UNCHANGED <<clientRest, answers>>

\* After the headers: chunks, a body of known length, or whatever comes until the end.
ReadAnswerHeader ==
  LET l == ReadAnswerLine(inbox)
  IN /\ phase = "headers" /\ l.kind = "line"
     /\ inbox' = l.rest
     /\ CASE l.line = <<>> -> /\ phase' = IF Chunked THEN IF Sized THEN "failed" ELSE "size" ELSE "body"
                              /\ answer' = answer
          [] l.line # <<>> /\ Len(l.line) > 1 /\ l.line[2] = ":" ->
               answer' = [answer EXCEPT !.headers = AddHeader(@, l.line)] /\ phase' = phase
          [] OTHER -> answer' = answer /\ phase' = "failed"
     /\ UNCHANGED <<clientRest, answers>>

Take(n) == /\ answer' = [answer EXCEPT !.body = @ \o SubSeq(inbox, 1, n)]
           /\ inbox' = From(inbox, n + 1)

Fewer(m, n) == IF m < n THEN m ELSE n
ReadSome ==
  /\ phase = "body" /\ inbox # <<>>
  /\ Sized => Len(answer.body) < Expected
  /\ Take(IF Sized THEN Fewer(Len(inbox), Expected - Len(answer.body)) ELSE Len(inbox))
  /\ UNCHANGED <<clientRest, phase, answers>>

\* Request returns.
Finish == answers' = Append(answers, answer) /\ phase' = "send" /\ answer' = NoAnswer

\* A body of known length is complete, or the server has closed the connection.
Return ==
  /\ phase = "body"
  /\ IF Sized THEN Len(answer.body) = Expected ELSE inbox = <<>> /\ toClient = <<>> /\ stage = "closed"
  /\ Finish /\ UNCHANGED <<clientRest, inbox>>

\* CR without LF, and the end of the connection before the end of an answer.
BadLine ==
  /\ InLines /\ ReadAnswerLine(inbox) = TooLong
  /\ phase' = "failed" /\ UNCHANGED <<clientRest, inbox, answer, answers>>
ServerGone ==
  /\ Starves /\ (InLines \/ Sized \/ phase = "chunk") /\ toClient = <<>> /\ stage = "closed"
  /\ phase' = "failed" /\ UNCHANGED <<clientRest, inbox, answer, answers>>

\* Chunks: a size (what follows ";" is not read), the data, CR LF; the chunk of size 0 ends the body.
ReadChunkSize ==
  LET l == ReadAnswerLine(inbox)
      good == l.line # <<>> /\ l.line[1] \in DOMAIN Digits /\ (Len(l.line) > 1 => l.line[2] = ";")
      n == Digits[l.line[1]]
  IN /\ phase = "size" /\ l.kind = "line"
     /\ inbox' = l.rest
     /\ phase' = IF ~good THEN "failed" ELSE IF n = 0 THEN "trailer" ELSE "chunk"
     /\ answer' = IF good THEN [answer EXCEPT !.left = n] ELSE answer
     /\ UNCHANGED <<clientRest, answers>>

ReadChunk ==
  /\ phase = "chunk" /\ answer.left > 0 /\ inbox # <<>>
  /\ LET n == Fewer(Len(inbox), answer.left)
     IN /\ answer' = [answer EXCEPT !.body = @ \o SubSeq(inbox, 1, n), !.left = @ - n]
        /\ inbox' = From(inbox, n + 1)
  /\ UNCHANGED <<clientRest, phase, answers>>

ReadChunkEnd ==
  /\ phase = "chunk" /\ answer.left = 0 /\ ~ChunkEndMissing
  /\ phase' = IF SubSeq(inbox, 1, Fewer(2, Len(inbox))) = Crlf THEN "size" ELSE "failed"
  /\ inbox' = From(inbox, 3)
  /\ UNCHANGED <<clientRest, answer, answers>>

\* What follows the last chunk, up to an empty line, is dropped.
ReadTrailer ==
  LET l == ReadAnswerLine(inbox)
  IN /\ phase = "trailer" /\ l.kind = "line"
     /\ inbox' = l.rest
     /\ IF l.line = <<>> THEN Finish ELSE UNCHANGED <<phase, answer, answers>>
     /\ UNCHANGED clientRest

Next ==
  \/ Arrive \/ ReadRequestLine \/ ReadHeaderLine \/ ReadBody \/ Reply \/ PeerCloses
  \/ SendRequest \/ Fill \/ ReadStatus \/ ReadAnswerHeader \/ ReadSome \/ Return
  \/ ReadChunkSize \/ ReadChunk \/ ReadChunkEnd \/ ReadTrailer
  \/ BadLine \/ ServerGone

----------------------------------------------------------------------------
\* What the two ends should make of a conversation, however the stream is cut.

\* The headers of a request as its reader keeps them.
Understood(r) ==
  LET own == {i \in DOMAIN r.headers : TRUE}
      named(h) == {i \in own : ToLower(r.headers[i][1]) = h}
      implied == {"host"} \cup (IF Raw THEN {} ELSE {"connection"}) \cup (IF r.body = <<>> THEN {} ELSE {"content-length"})
      value(h) == CASE h = "host" -> HostText(r)
                    [] h = "content-length" -> <<Digit(Len(r.body))>>
                    [] OTHER -> IF named(h) = {} THEN <<"keep-alive">>
                                ELSE Trim(r.headers[CHOOSE i \in named(h) : \A j \in named(h) : j <= i][2])
  IN [method |-> r.method, path |-> r.path, body |-> r.body,
      headers |-> [h \in implied \cup {ToLower(r.headers[i][1]) : i \in own} |-> value(h)]]

\* A page of another origin is refused, and so is a host that is not this machine.
LocalNames == {<<"localhost">>, <<"127.0.0.1">>, <<":", ":", "1">>}
Due(r) ==
  LET allowed == r.host \in LocalNames /\ r.page \in LocalNames \cup {<<>>, <<"LOCALHOST">>}
      status == CASE talk.refusal # "" -> talk.refusal
                  [] talk.refusal = "" /\ Foreign -> talk.answer.status
                  [] talk.refusal = "" /\ ~Foreign /\ r.method = "OPTIONS" -> "204"
                  [] OTHER -> IF ~allowed THEN "403" ELSE IF r.path # "/mcp" THEN "404" ELSE talk.answer.status
  IN [status |-> status, body |-> IF status = talk.answer.status THEN talk.answer.body ELSE <<>>]

\* However TCP cuts the stream, and whether or not requests follow one another without waiting: the server reads the
\* requests that were sent, in order and whole, none of a half-sent or malformed one, and leaves nothing unread; the
\* client reads for each the status and the body of its answer (docs/en/reference/transports.md, HttpServerImpl.cpp
\* ReadLine to ReadBody, HttpClient.cpp ReadLine to ReadUntilEof).
WhatWasSentIsRead ==
  /\ \A i \in DOMAIN served : /\ i \in DOMAIN talk.requests /\ talk.refusal = "" /\ ~talk.hangsUp
                              /\ served[i] = Understood(talk.requests[i])
  /\ \A i \in DOMAIN answers : [status |-> answers[i].status, body |-> answers[i].body] = Due(talk.requests[i])
  /\ Waits /\ toServer = <<>> /\ ~talk.hangsUp => buffer = <<>> /\ stage = "line"
  /\ phase = "failed" => talk.hangsUp \/ talk.answer.status = "" \/ \E i \in DOMAIN talk.requests :
                           \E h \in DOMAIN talk.requests[i].headers : BreaksLine(talk.requests[i].headers[h][2])
====
