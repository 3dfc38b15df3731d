------------------------------ MODULE Messages ------------------------------
(***************************************************************************)
(* The head of an HTTP message while the user builds it (the classes       *)
(* http_structured_data, http_request and http_response of src/src/http),  *)
(* and what the peer makes of it when it is sent: as text over HTTP/1      *)
(* (serialize) or as a header block over HTTP/2 (stream.cpp,               *)
(* stream_client.cpp).                                                     *)
(*                                                                         *)
(* The same facts are kept twice, as members (_chunked, _keepalive,        *)
(* _content_len) and as headers, and there are two ways to change them:    *)
(* the setters and the raw header()/remove_header().  A key is a name and  *)
(* whether it is spelled in lower case; the multimap is a function from    *)
(* names to the values in order of insertion.                              *)
(***************************************************************************)
EXTENDS HttpUrl, TLC

CONSTANTS
  Values,    \* header name -> values the user gives it
  MaxSame,   \* bound: values of one name
  MaxLength, \* bound: numbers a content-length header may hold
  Lengths,   \* lengths given to content_len
  Codes,     \* status codes given to status
  Reasons,   \* messages given to status with a code
  Methods    \* method names given to method

VARIABLES
  msg,  \* the message
  raw   \* history: of the names in Twice, those last changed by header() or remove_header()

msgVars == <<msg, raw>>

Names == DOMAIN Values
\* Names whose header says what a member says too.
Twice == {"connection", "content-length", "transfer-encoding"}

EmptyText == ""
Protocols == {"UNSET", "HTTP11", "HTTP10", "HTTP20"}
Key(n) == [name |-> n, lower |-> TRUE]
Keys == [name : Names, lower : BOOLEAN]

MessageType == [kind : {"request", "response"}, headers : [Names -> Seq(STRING)],
                protocol : Protocols, chunked : BOOLEAN, keepalive : BOOLEAN,
                default_keepalive : BOOLEAN, len : Nat, method : STRING, code : Nat, reason : STRING]

-----------------------------------------------------------------------------
(* http_structured_data. *)

\* std::stoull, on the numbers the inputs hold.
Stoull(v) == CHOOSE n \in 0 .. MaxLength : ToString(n) = v

\* The comparison of header() that finds out whether a body is chunked.
IsChunked(value) == ICompare(Chars(value), Chars("chunked"))

\* The values of one name are s.
Put(m, n, s) == [m EXCEPT !.headers[n] = s]

\* remove_header: the key is compared as it is spelled, the map holds lower case only.
RemoveHeader(m, key) == IF key.lower THEN Put(m, key.name, <<>>) ELSE m

Replaced == {"connection", "host", "via", "accept-encoding"}

\* As Header, but a chunked message keeps its content-length.
HeaderKeepsLength(m, key, value) ==
  LET k == Key(key.name)
      kept == IF k.name \in Replaced THEN RemoveHeader(m, k)
              ELSE IF k.name = "content-length" THEN [RemoveHeader(m, k) EXCEPT !.len = Stoull(value)]
              ELSE IF k.name = "transfer-encoding" /\ IsChunked(value)
              THEN [RemoveHeader(m, k) EXCEPT !.chunked = TRUE]
              ELSE m
  IN  Put(kept, k.name, Append(kept.headers[k.name], value))

\* header(key, value).
Header(m, key, value) ==
  LET k == Key(key.name)
      kept == IF k.name \in Replaced THEN RemoveHeader(m, k)
              ELSE IF k.name = "content-length" THEN [RemoveHeader(m, k) EXCEPT !.len = Stoull(value)]
              ELSE IF k.name = "transfer-encoding" /\ IsChunked(value)
              THEN [RemoveHeader(RemoveHeader(m, k), Key("content-length")) EXCEPT !.chunked = TRUE]
              ELSE m
  IN  Put(kept, k.name, Append(kept.headers[k.name], value))

\* The constructors; the status code of a response is not initialized (0 here).
Empty(kind) ==
  LET bare == [kind |-> kind, headers |-> [n \in Names |-> <<>>], protocol |-> "UNSET", chunked |-> FALSE,
               keepalive |-> FALSE, default_keepalive |-> TRUE, len |-> 0,
               method |-> "GET", code |-> 0, reason |-> EmptyText]
  IN  Header(Header(bare, Key("content-length"), "0"), Key("connection"), "close")

Has(m, n) == m.headers[n] # <<>> /\ m.headers[n][1] # EmptyText

Filter(m, names) == [m EXCEPT !.headers = [n \in Names |-> IF n \in names THEN <<>> ELSE @[n]]]

Chunked(m, val) ==
  IF val = m.chunked THEN m
  ELSE [(IF val THEN Header(m, Key("transfer-encoding"), "Chunked")
         ELSE RemoveHeader(m, Key("transfer-encoding"))) EXCEPT !.chunked = val]

Keepalive(m, val) ==
  Header([m EXCEPT !.keepalive = val, !.default_keepalive = FALSE],
         Key("connection"), IF val THEN "keep-alive" ELSE "close")

ContentLen(m, n) ==
  Header(RemoveHeader([m EXCEPT !.len = n], Key("content-length")),
         Key("content-length"), ToString(n))

Protocol(m, val) ==
  LET bare == RemoveHeader([m EXCEPT !.protocol = val], Key("connection"))
  IN  IF val = m.protocol THEN m
      ELSE IF ~m.default_keepalive THEN [m EXCEPT !.protocol = val]
      ELSE CASE val = "HTTP11" -> [bare EXCEPT !.keepalive = TRUE]
             [] val = "HTTP10" -> [Header(bare, Key("connection"), "close") EXCEPT !.keepalive = FALSE]
             [] OTHER -> bare

\* http_request::method(string): an unknown name becomes NONE.
MethodOf(name) == IF name \in {"DELETE", "GET", "HEAD", "POST", "PUT", "CONNECT", "OPTIONS", "TRACE"}
                  THEN name ELSE "NONE"

\* get_default_message: the standard phrase, named by its code.
Standard == {100, 101} \cup 200 .. 206 \cup 300 .. 305 \cup {307} \cup 400 .. 418 \cup 500 .. 505
DefaultMessage(code) == IF code \in Standard THEN ToString(code) ELSE "Damn!"

\* status(code, msg): the message is taken as it is, an empty one too.
Status(m, code, text) == [m EXCEPT !.code = code, !.reason = text]

\* Texts the classes themselves write.
OwnTexts == {EmptyText, "0", "GET", "NONE", "Damn!", "close", "keep-alive", "Chunked", "trailers"}

\* A user writes a length without leading zeros and names every encoding; the rest is about
\* texts: two numbers are printed differently, and which texts icompare takes for "chunked".
ASSUME MessagesAssumption ==
  /\ Twice \subseteq Names /\ \A n \in Names : Values[n] \subseteq STRING
  /\ MaxLength \in Nat /\ Lengths \subseteq 0 .. MaxLength /\ Codes \subseteq Nat
  /\ Reasons \subseteq STRING
  /\ Values["content-length"] \subseteq {ToString(n) : n \in 0 .. MaxLength}
  /\ EmptyText \notin Values["transfer-encoding"]
  /\ ToString(0) = "0" /\ \A n \in Codes \cup 0 .. MaxLength : ToString(n) \in STRING \ {EmptyText}
  /\ \A i, j \in 0 .. MaxLength : ToString(i) = ToString(j) => i = j
  /\ IsChunked("Chunked") /\ ~IsChunked("trailers") /\ Methods \cup OwnTexts \subseteq STRING

-----------------------------------------------------------------------------
(* What is sent. *)

\* serialize: one line for each name, its values are joined.
Separator(n) == IF n = "cookie" THEN "; " ELSE ", "
Joined(n, s) == LET j[k \in 0 .. Len(s)] ==
                      IF k = 0 THEN EmptyText ELSE IF k = 1 THEN s[1] ELSE j[k - 1] \o Separator(n) \o s[k]
                IN  j[Len(s)]
Serialize(m) == [n \in {k \in Names : m.headers[k] # <<>>} |-> Joined(n, m.headers[n])]

\* stream::on_header and stream_client::on_header: the header block of HTTP/2.
ConnectionSpecific == {"connection", "keep-alive", "upgrade", "proxy-connection"}

OnlyTrailers(m) ==
  IF Has(m, "transfer-encoding")
  THEN Header(RemoveHeader(m, Key("transfer-encoding")), Key("transfer-encoding"), "trailers")
  ELSE m

\* Values of a name that comes twice are joined by a comma, cookies too.
Block(m) == [n \in {k \in Names : m.headers[k] # <<>>} |-> Joined(EmptyText, m.headers[n])]
ResponseBlock(m) == Block(OnlyTrailers(Filter(m, ConnectionSpecific)))
RequestBlock(m) == Block(OnlyTrailers(Filter(m, ConnectionSpecific \cup {"host"})))

-----------------------------------------------------------------------------
(* The user. *)

\* A setter writes the names in set.
Set(to, names) == msg' = to /\ raw' = raw \ names

\* Requests have a host and cookies.
Usual == Twice \cup (IF msg.kind = "request" THEN Names ELSE {})

SetHeader(key, value) ==
  /\ key.name \in Usual
  /\ Len(msg.headers[key.name]) < MaxSame
  /\ msg' = Header(msg, key, value)
  /\ raw' = raw \cup ({key.name} \cap Twice)

Remove(key) ==
  /\ msg' = RemoveHeader(msg, key)
  /\ raw' = IF key.lower THEN raw \cup ({key.name} \cap Twice) ELSE raw

\* A flag that has the value already leaves the header alone.
SetChunked(val) == Set(Chunked(msg, val), IF val = msg.chunked THEN {} ELSE {"transfer-encoding"})
SetKeepalive(val) == Set(Keepalive(msg, val), {"connection"})

\* assert(!_chunked || val == 0).
SetContentLen(n) == /\ ~msg.chunked \/ n = 0
                    /\ Set(ContentLen(msg, n), {"content-length"})

SetProtocol(val) == Set(Protocol(msg, val),
                        IF val # msg.protocol /\ msg.default_keepalive THEN {"connection"} ELSE {})

SetMethod(name) == /\ msg.kind = "request"
                   /\ Set([msg EXCEPT !.method = MethodOf(name)], {})
SetStatus(code) == msg.kind = "response" /\ Set(Status(msg, code, DefaultMessage(code)), {})
SetStatusMessage(code, text) == msg.kind = "response" /\ Set(Status(msg, code, text), {})

MsgInit == msg \in {Empty("request"), Empty("response")} /\ raw = {}

MsgNext ==
  \/ \E key \in Keys : \E value \in Values[key.name] : SetHeader(key, value)
  \/ \E key \in Keys : Remove(key)
  \/ \E val \in BOOLEAN : SetChunked(val) \/ SetKeepalive(val)
  \/ \E n \in Lengths : SetContentLen(n)
  \/ \E val \in Protocols \ {"UNSET"} : SetProtocol(val)
  \/ \E name \in Methods : SetMethod(name)
  \/ \E code \in Codes : SetStatus(code)
  \/ \E code \in Codes, text \in Reasons : SetStatusMessage(code, text)

MsgSpec == MsgInit /\ [][MsgNext]_msgVars

-----------------------------------------------------------------------------
(* Properties. *)

MsgTypeOK ==
  /\ msg \in MessageType
  /\ raw \subseteq Twice

\* How the peer reads the head: the connection stays open, the body is chunked.
StaysOpen(head) ==
  IF "connection" \in DOMAIN head THEN head["connection"] = "keep-alive"
  ELSE msg.protocol = "HTTP11"
ReadsChunked(head) ==
  /\ "transfer-encoding" \in DOMAIN head
  /\ IsChunked(head["transfer-encoding"])

(***************************************************************************)
(* What the peer reads in the head is what the members say, by which the   *)
(* connection and the encoder act: whether the connection stays open (as   *)
(* long as the user does not write the connection header by hand), whether *)
(* the body is chunked (as long as transfer-encoding is not changed by     *)
(* hand), and the length, which appears once.  The setters never announce  *)
(* a length for a body that is already chunked, except one of zero.        *)
(***************************************************************************)
PeerReads ==
  LET head == Serialize(msg)
  IN  /\ msg.protocol \in {"HTTP10", "HTTP11"} /\ "connection" \notin raw =>
           StaysOpen(head) = msg.keepalive
      /\ "transfer-encoding" \notin raw => ReadsChunked(head) = msg.chunked
      /\ "content-length" \in DOMAIN head => head["content-length"] = ToString(msg.len)
      /\ {"transfer-encoding", "content-length"} \cap raw = {} =>
           ~(ReadsChunked(head) /\ "content-length" \in DOMAIN head /\ msg.len # 0)

(***************************************************************************)
(* The header block of HTTP/2 has no header that is about the connection,  *)
(* transfer-encoding only as trailers, and all other headers with all      *)
(* their values (stream.cpp:282 "no header connection specific is allowed" *)
(* and "must contain only trailers").                                      *)
(***************************************************************************)
BlockIsAllowed ==
  \A b \in {IF msg.kind = "request" THEN RequestBlock(msg) ELSE ResponseBlock(msg)} :
    /\ DOMAIN b \cap ConnectionSpecific = {}
    /\ "transfer-encoding" \in DOMAIN b => b["transfer-encoding"] = "trailers"
    /\ \A n \in Names \ (ConnectionSpecific \cup {"transfer-encoding", "host"}) :
         msg.headers[n] # <<>> => n \in DOMAIN b /\ b[n] = Joined(EmptyText, msg.headers[n])

(***************************************************************************)
(* The head that goes out, on HTTP/1 and on HTTP/2, says what the members  *)
(* of the message say, whatever calls built it.                            *)
(***************************************************************************)
HeadAgrees == MsgTypeOK /\ PeerReads /\ BlockIsAllowed

\* Does not hold: header(content-length) or content_len(0) on a chunked message announces both.
OneFraming ==
  LET head == Serialize(msg)
  IN  ~("content-length" \in DOMAIN head /\ "transfer-encoding" \in DOMAIN head)

\* Does not hold: header("connection", "close") does not change what keepalive() says.
ConnectionHeaderCounts ==
  msg.protocol \in {"HTTP10", "HTTP11"} => StaysOpen(Serialize(msg)) = msg.keepalive
=============================================================================
