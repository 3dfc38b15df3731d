---------------------------- MODULE MCHttpParser ----------------------------
(***************************************************************************)
(* The streams of the run: messages described by what they say, written    *)
(* out as RFC 7230 has it, and streams that are malformed in one place.    *)
(* The expected events are read off the description, never off the wire.   *)
(***************************************************************************)
EXTENDS HttpParser, HttpEncoder

CRLF == <<CR, LF>>
Line(w) == Chars(w) \o CRLF
Flat(s) == FoldLeft(LAMBDA a, b : a \o b, <<>>, s)
Digit(n) == SubSeq("0123456789", n + 1, n + 1)
Size(n) == IF n < 10 THEN Chars(SubSeq("0123456789", n + 1, n + 1))
           ELSE <<"1">> \o Chars(SubSeq("0123456789", n - 9, n - 9))
HexSize(n) == IF n < 16 THEN <<Hex[n + 1]>> ELSE <<Hex[(n \div 16) + 1], Hex[(n % 16) + 1]>>

\* A message: start is a method or a status, url the fields of a target,
\* options the value of connection, framing one of "none", "length",
\* "chunked", "eof", body its pieces.
M(start, minor, options, extra, framing, body, trailers) ==
  [start |-> start, minor |-> minor, options |-> options, extra |-> extra,
   framing |-> framing, body |-> body, trailers |-> trailers,
   url |-> [f \in UrlFields |-> IF f = "path" THEN "/p" ELSE ""], reason |-> "OK"]

Req(method) == <<method, 0>>
Ans(status) == <<"", status>>
IsRequest(m) == m.start[2] = 0
Bytes(m) == Flat([i \in 1 .. Len(m.body) |-> Chars(m.body[i])])
Joined(s) == FoldLeft(LAMBDA a, b : IF a = "" THEN b ELSE a \o ", " \o b, "", s)

Headers(m) ==
  (IF m.options = <<>> THEN <<>> ELSE <<<<Chars("Connection"), Chars(Joined(m.options))>>>>)
  \o m.extra
  \o CASE m.framing = "length" -> <<<<Chars("Content-Length"), Size(Len(Bytes(m)))>>>>
       [] m.framing = "chunked" -> <<<<Chars("transfer-encoding"), Chars("Chunked")>>>>
       [] OTHER -> <<>>
HeaderLines(hs) == Flat([i \in 1 .. Len(hs) |-> hs[i][1] \o Chars(": ") \o hs[i][2] \o CRLF])

Target(u) ==
  Chars((IF u["schema"] = "" THEN "" ELSE u["schema"] \o "://")
        \o (IF u["userinfo"] = "" THEN "" ELSE u["userinfo"] \o "@") \o u["host"]
        \o (IF u["port"] = "" THEN "" ELSE ":" \o u["port"]) \o u["path"]
        \o (IF u["query"] = "" THEN "" ELSE "?" \o u["query"])
        \o (IF u["fragment"] = "" THEN "" ELSE "#" \o u["fragment"]))
Version(m) == IF m.minor = 1 THEN "HTTP/1.1" ELSE "HTTP/1.0"
StartLine(m) ==
  IF IsRequest(m) THEN Spelling(m.start[1]) \o <<" ">> \o Target(m.url) \o Line(" " \o Version(m))
  ELSE Chars(Version(m) \o " ") \o <<Digit(m.start[2] \div 100), "0", Digit(m.start[2] % 10)>>
       \o (IF m.reason = "" THEN <<>> ELSE Chars(" " \o m.reason)) \o CRLF

BodyWire(m) ==
  CASE m.framing = "chunked" ->
         Flat([i \in 1 .. Len(m.body) |->
                 HexSize(Len(m.body[i])) \o (IF i = 1 THEN Chars(";x=y") ELSE <<>>) \o CRLF
                 \o Chars(m.body[i]) \o CRLF])
         \o Line("0") \o HeaderLines(m.trailers) \o CRLF
    [] OTHER -> Bytes(m)
Wire(m) == StartLine(m) \o HeaderLines(Headers(m)) \o CRLF \o BodyWire(m)

KeepAlive(m) ==
  /\ IF m.minor = 1 THEN "close" \notin ToSet(m.options) ELSE ToSet(m.options) \cap {"keep-alive", "Keep-Alive"} # {}
  /\ m.framing # "eof"

Events(m) ==
  <<[ev |-> "headers", start |-> m.start, minor |-> m.minor,
     version |-> IF m.minor = 1 THEN "1.1" ELSE "1.0", keepalive |-> KeepAlive(m),
     headers |-> Headers(m), reason |-> IF IsRequest(m) THEN <<>> ELSE Chars(m.reason),
     url |-> IF IsRequest(m) THEN [f \in UrlFields |-> Chars(m.url[f])] ELSE <<>>]>>
  \o (IF Bytes(m) = <<>> THEN <<>> ELSE <<[ev |-> "body", text |-> Bytes(m)]>>)
  \o [i \in 1 .. Len(m.trailers) |->
        [ev |-> "trailer", key |-> m.trailers[i][1], value |-> m.trailers[i][2]]]
  \o (IF m.framing = "eof" THEN <<>> ELSE <<[ev |-> "end"]>>)

Sent(ms) == [wire |-> Flat([i \in 1 .. Len(ms) |-> Wire(ms[i])]),
             expect |-> Flat([i \in 1 .. Len(ms) |-> Events(ms[i])])]
\* A message with at most one trailer, its body written by http_codec itself.
Encoded(m) ==
  [wire |-> StartLine(m) \o HeaderLines(Headers(m)) \o CRLF
            \o Flat([i \in 1 .. Len(m.body) |->
                       EncodeBody(m.framing = "chunked", Chars(m.body[i]))])
            \o Flat([i \in 1 .. Len(m.trailers) |->
                       EncodeTrailer(m.trailers[i][1], m.trailers[i][2])])
            \o EncodeEom(m.framing = "chunked", IF m.trailers = <<>> THEN "body" ELSE "trailer"),
   expect |-> Events(m)]
\* The messages ms, and then text that must be refused after the events more.
Refused(ms, text, more) ==
  [wire |-> Sent(ms).wire \o text, expect |-> Sent(ms).expect \o more \o <<[ev |-> "error"]>>]

-----------------------------------------------------------------------------
Methods == {"DELETE", "GET", "HEAD", "POST", "PUT", "OPTIONS", "TRACE", "COPY", "LOCK", "MKCOL",
  "MOVE", "PROPFIND", "PROPPATCH", "SEARCH", "UNLOCK", "BIND", "REBIND", "UNBIND", "ACL",
  "REPORT", "MKACTIVITY", "CHECKOUT", "MERGE", "MSEARCH", "NOTIFY", "SUBSCRIBE",
  "UNSUBSCRIBE", "PATCH", "PURGE", "MKCALENDAR", "LINK", "UNLINK"}

Plain(start) == M(start, 1, <<>>, <<>>, "none", <<>>, <<>>)
H(k, v) == <<Chars(k), Chars(v)>>
Tricky == <<"a", "\r\n0\r\n\r\nGET">>      \* a body that looks like framing
Long == <<"0123456789abcdefg">>
Trailers == <<H("t", "1"), H("Content-Length", "9")>>

Bodies ==
  {M(s, 1, <<>>, <<>>, f, b, <<>>) : s \in {Req("POST"), Ans(200)}, f \in {"length", "chunked"},
                                     b \in {<<>>, Tricky, Long}}
  \cup {M(Req("PUT"), 1, <<>>, <<H("a", "")>>, "chunked", Tricky, t) : t \in {<<H("t", "1")>>, Trailers}}
Options ==
  {M(s, minor, o, <<>>, "length", <<"b">>, <<>>) : s \in {Req("PUT"), Ans(200)}, minor \in {0, 1},
      o \in {<<"close">>, <<"keep-alive">>, <<"x", "keep-alive">>, <<"Keep-Alive", "te">>,
             <<"closed", "keep-alives">>}}
  \cup {M(Req("GET"), 1, <<"keep-alive", "te", "close">>, <<>>, "none", <<>>, <<>>)}
Answers ==
  {Plain(Ans(s)) : s \in {100, 204, 304}}
  \cup {M(Ans(200), minor, <<>>, <<>>, "eof", Tricky, <<>>) : minor \in {0, 1}}
Upgrades ==
  {M(Req("GET"), 1, <<"Upgrade">>, <<H("upgrade", "h2c")>>, "none", <<>>, <<>>),
   M(Req("POST"), 1, <<"upgrade", "x">>, <<H("Upgrade", "h2c")>>, "length", <<"b">>, <<>>),
   M(Req("GET"), 1, <<"upgraded">>, <<H("upgrades", "1")>>, "none", <<>>, <<>>)}
Targets ==
  {[Plain(Req("GET")) EXCEPT !.url = [f \in UrlFields |-> IF f \in DOMAIN u THEN u[f] ELSE ""]] :
     u \in {[path |-> "/a", query |-> "b?/", fragment |-> "c?"], [path |-> "*"],
            [schema |-> "http", userinfo |-> "u:p", host |-> "h.a", port |-> "80", path |-> "/",
             query |-> "q"],
            [schema |-> "http", host |-> "h", query |-> "q", fragment |-> "f"]}}
\* The target of CONNECT is not parsed: on_url passes is_connect only for a second piece.
Connect == [wire |-> Chars("CONNECT h:80 HTTP/1.1") \o CRLF \o CRLF,
            expect |-> <<[Events(Plain(Req("CONNECT")))[1] EXCEPT !.url = <<>>], [ev |-> "end"]>>]

\* Layouts that are allowed: bare line feeds, empty and folded values, blanks.
Layouts ==
  {[wire |-> Chars("\r\nGET   /p  HTTP/1.1\nA:b\nE:\nE2: \r\n\t\r\nF: x\r\n y\r\n\n"),
    expect |-> Events([Plain(Req("GET")) EXCEPT !.extra =
                 <<H("A", "b"), H("E", ""), H("E2", ""), H("F", "x y")>>])],
   [wire |-> Chars("HTTP/1.1  200\r\nContent-Length: 2 \r\n\r\nab"),
    expect |-> <<[Events([Plain(Ans(200)) EXCEPT !.reason = ""])[1] EXCEPT
                   !.headers = <<H("Content-Length", "2 ")>>],
                 [ev |-> "body", text |-> Chars("ab")], [ev |-> "end"]>>],
   [wire |-> Chars("HTTP/1.1 304\nConnection: x , ?\n\n"),
    expect |-> Events([Plain(Ans(304)) EXCEPT !.reason = "", !.extra = <<H("Connection", "x , ?")>>])],
   [wire |-> Chars("HTTP/1.1 304 \n\n"), expect |-> Events([Plain(Ans(304)) EXCEPT !.reason = ""])],
   [wire |-> Chars("HTTP/1.1 304 \r\nProxy-Connection: close \r\n\r\n"),
    expect |-> <<[Events([Plain(Ans(304)) EXCEPT !.reason = ""])[1] EXCEPT !.keepalive = FALSE,
                   !.headers = <<H("Proxy-Connection", "close ")>>], [ev |-> "end"]>>],
   [wire |-> Chars("HTTP/1.1 304 x\ntransfer-encoding: chunky\n\n"),
    expect |-> Events([Plain(Ans(304)) EXCEPT !.reason = "x",
                                         !.extra = <<H("transfer-encoding", "chunky")>>])]}

Pipelines == {<<a, b>> : a \in {Plain(Req("GET")), M(Req("PUT"), 1, <<>>, <<>>, "chunked", Long, Trailers),
                                M(Req("PUT"), 0, <<>>, <<>>, "length", Tricky, <<>>),
                                M(Req("GET"), 1, <<"close">>, <<>>, "none", <<>>, <<>>)},
                         b \in {Plain(Req("HEAD")), M(Req("POST"), 0, <<"keep-alive">>, <<>>, "length", <<"b">>, <<>>)}}

\* Text no start line begins with, or goes on with.
BadStarts ==
  {"1", "GEX", "HX", "E", "GETX ", "PROPX", "GET @", "GET http:/x", "GET http:// ", "GET /p XTTP",
   "GET /p HTX", "GET /p HTTP/0", "GET /p HTTP/1x", "GET /p HTTP/1000", "GET /p HTTP/1.x",
   "GET /p HTTP/1.1000", "GET /p HTTP/1.1\rx", "GET /p\rx", "GET /p\n:", "GET /p\f", "HTX",
   "HTTP/x", "HTTP/1.1 x", "HTTP/1.1 2x", "HTTP/1.1 2000", "HTTP/1.1 200 OK\rx",
   "GET /0123456789012345678901234567890123456789 "}
\* Text that ends a head as it must not.
BadHeads ==
  {" a", "a b", "a:\rx", "a: b\rx", "Content-Length: x", "Content-Length: 1x", "Content-Length: 999",
   "Content-Length: 1\r\ncontent-length: 1", "Content-Length: 1\r\n 2", "Connection: c\f",
   "\rx", "Content-Length: 1\r\nTransfer-Encoding: chunked\r\n\r\n",
   "long: 012345678901234567890123456789012345678901234567890123456789012345678901234567890123456789012345678901234567890123456789012345678901234567890"}
BadChunks == {"x", "1x", "fff", "1\rx", "1\r\nab", "1\r\na\rx", "0\r\n:", "0\r\n\rx"}
Chunky == M(Req("PUT"), 1, <<>>, <<>>, "chunked", <<>>, <<>>)

MCStreams ==
  {Sent(<<m>>) : m \in {Plain(Req(s)) : s \in Methods} \cup Bodies \cup Options \cup Answers
                        \cup Upgrades \cup Targets}
  \cup {Encoded(m) : m \in {b \in Bodies : Len(b.trailers) < 2}}
  \cup {Connect} \cup Layouts \cup {Sent(ms) : ms \in Pipelines}
  \cup {Refused(<<>>, Chars(t), <<>>) : t \in BadStarts}
  \cup {Refused(<<Plain(Req("GET"))>>, Chars("GET /p HTTP/1.1\r\n" \o t), <<>>) : t \in BadHeads}
  \cup {Refused(<<>>, StartLine(Chunky) \o HeaderLines(Headers(Chunky)) \o CRLF \o Chars(t),
                 SubSeq(Events(Chunky), 1, 1)
                 \o (IF t \in {"1\r\nab", "1\r\na\rx"}
                     THEN <<[ev |-> "body", text |-> <<"a">>]>> ELSE <<>>)) : t \in BadChunks}
=============================================================================
