---- MODULE HttpTexts ----
(***************************************************************************)
(* How a request and a response are written on an HTTP connection          *)
(* (Request in src/src/transport/detail/net/HttpClient.cpp, WriteResponse  *)
(* in src/src/http/HttpServerImpl.cpp).  A text is a sequence of symbols;  *)
(* a symbol is a character or a word no reader takes apart.                *)
(***************************************************************************)
EXTENDS Naturals, Sequences, SequencesExt

\* The symbols.

Crlf == <<"CR", "LF">>
\* Header names that are spelled in more than one way; readers compare the lower-case one.
LowerCase == [n \in {"Host", "Content-Length", "Connection", "Transfer-Encoding", "Origin", "Close", "LOCALHOST",
                     "Chunked"} |->
                CASE n = "Host" -> "host" [] n = "Content-Length" -> "content-length"
                  [] n = "Connection" -> "connection" [] n = "Transfer-Encoding" -> "transfer-encoding"
                  [] n = "Origin" -> "origin" [] n = "Close" -> "close" [] n = "LOCALHOST" -> "localhost"
                  [] n = "Chunked" -> "chunked"]
ToLower(s) == IF s \in DOMAIN LowerCase THEN LowerCase[s] ELSE s
Digits == [d \in {"0", "1", "2", "3", "9"} |->
             CASE d = "0" -> 0 [] d = "1" -> 1 [] d = "2" -> 2 [] d = "3" -> 3 [] d = "9" -> 9]
Digit(n) == CHOOSE d \in DOMAIN Digits : Digits[d] = n

----------------------------------------------------------------------------
\* Headers are a sequence of pairs of a name and a value.

HeaderLines(headers) == FlattenSeq([i \in DOMAIN headers |-> <<headers[i][1], ":", " ">> \o headers[i][2] \o Crlf])
BreaksLine(value) == \E i \in DOMAIN value : value[i] \in {"CR", "LF"}
Length(body) == <<<<"Content-Length", <<Digit(Len(body))>>>>>>

\* HttpClient::Request.  A name with colons is written in brackets, a port that is not the default after it.
HostText(r) ==
  (IF \E i \in DOMAIN r.host : r.host[i] = ":" THEN <<"[">> \o r.host \o <<"]">> ELSE r.host)
  \o (IF r.port = "" THEN <<>> ELSE <<":", r.port>>)
WriteRequest(r) ==
  <<r.method, " ", r.path, " ", "HTTP/1.1">> \o Crlf
  \o HeaderLines(<<<<"Host", HostText(r)>>>> \o r.headers \o (IF r.body = <<>> THEN <<>> ELSE Length(r.body))
                 \o <<<<"Connection", <<"keep-alive">>>>>>)
  \o Crlf \o r.body

\* WriteResponse; HandleConnectionInner has dropped the headers that would break a line.
WriteResponse(a, keepAlive) ==
  LET safe == SelectSeq(a.headers, LAMBDA h : ~BreaksLine(h[2]))
  IN <<"HTTP/1.1", " ", a.status>> \o Crlf
     \o HeaderLines(Length(a.body) \o <<<<"Connection", <<IF keepAlive THEN "keep-alive" ELSE "close">>>>>> \o safe)
     \o Crlf \o a.body
====
