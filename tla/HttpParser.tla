----------------------------- MODULE HttpParser -----------------------------
(***************************************************************************)
(* The decoding half of http_codec (src/src/http/http_codec.cpp and        *)
(* http_codec_impl.h) over http_parser_execute                             *)
(* (src/src/http_parser/http_parser.c): a stream of characters arrives in  *)
(* reads of any length, each handed to http_codec::decode, and the user is *)
(* told of headers, body, trailers, the end of each message and errors.    *)
(*                                                                         *)
(* One action per case of the parser's switch.  A case that ends in        *)
(* REEXECUTE leaves the character where it is.  Where the inner loops of   *)
(* the code run to the end of the read, the model takes one character at a *)
(* time; where a read ends is a choice made after every character          *)
(* (EndOfRead).  Every message is parsed as HTTP_BOTH and on_message_      *)
(* complete resets the parser, so NEW_MESSAGE(), s_dead, s_start_res,      *)
(* s_res_H and the upgrade test of s_message_done have no effect here.     *)
(*                                                                         *)
(* Lengths are Bits wide instead of 64, and a head may have MaxHeaderSize  *)
(* characters instead of 80 * 1024.                                        *)
(***************************************************************************)
EXTENDS HttpUrl, FiniteSets, SequencesExt

CONSTANTS
  Streams,        \* the streams a peer may send: [wire |-> characters, expect |-> events]
  MaxHeaderSize,  \* HTTP_MAX_HEADER_SIZE
  MaxUriLen,      \* max_uri_len
  Bits,           \* the width of content_length
  MaxReads        \* bound: the reads a stream is cut into

NoLength == 2 ^ Bits - 1    \* ULLONG_MAX: no length is known

ASSUME ParserAssumption == MaxHeaderSize \in Nat /\ MaxUriLen \in Nat /\ Bits \in Nat /\ Bits >= 5
                           /\ MaxReads \in Nat

VARIABLES
  stream,  \* what the peer sends
  pos,     \* the next character
  reads,   \* calls of decode
  phase,   \* "idle" between two calls of decode, "first" or "loop" at the head of the
           \* for loop, "case" in the switch, "stop" after a fatal error
  p,       \* http_parser
  mark,    \* the marks of this call: where a piece of text starts, or 0
  inner,   \* the inner loop of a name or value: "no", "yes", or "skip" in its memchr
  d        \* http_codec::impl, with the events the user has seen (out)

vars == <<stream, pos, reads, phase, p, mark, inner, d>>

ch == stream.wire[pos]
Marks == {"header_field", "header_value", "url", "body", "status"}
NoMarks == [k \in Marks |-> 0]

\* The states whose characters count as part of a head: PARSING_HEADER.
BodyStates == {"s_chunk_data", "s_chunk_data_almost_done", "s_chunk_data_done",
               "s_body_identity", "s_body_identity_eof", "s_message_done"}
UrlStates == {"s_req_schema", "s_req_schema_slash", "s_req_schema_slash_slash",
              "s_req_server_start", "s_req_server", "s_req_server_with_at", "s_req_path",
              "s_req_query_string_start", "s_req_query_string",
              "s_req_fragment_start", "s_req_fragment"}

\* http_parser_init(HTTP_BOTH).
ParserInit ==
  [state |-> "s_start_req_or_res", header_state |-> "h_general", index |-> 0, flags |-> {},
   content_length |-> 0, nread |-> 0, type |-> "both", method |-> "DELETE",
   major |-> 0, minor |-> 0, status |-> 0, upgrade |-> FALSE]

\* impl::reset: everything but _version.
Reset(x) ==
  [x EXCEPT !.data = FALSE, !.ignore = FALSE, !.connected = FALSE, !.got_header = FALSE,
            !.headers_completed = FALSE, !.urline = <<>>, !.reason = <<>>, !.key = <<>>,
            !.value = <<>>, !.url = UrlInit, !.msg = [headers |-> <<>>, url |-> <<>>, pieces |-> 0]]

CodecInit ==
  [data |-> FALSE, ignore |-> FALSE, connected |-> FALSE, got_header |-> FALSE,
   headers_completed |-> FALSE, urline |-> <<>>, reason |-> <<>>, key |-> <<>>, value |-> <<>>,
   url |-> UrlInit, version |-> "unset",
   msg |-> [headers |-> <<>>, url |-> <<>>, pieces |-> 0], out |-> <<>>]

Init ==
  /\ stream \in Streams
  /\ pos = 1 /\ reads = 0 /\ phase = "idle" /\ p = ParserInit /\ mark = NoMarks /\ inner = "no"
  /\ d = CodecInit

-----------------------------------------------------------------------------
(* Conditions of the parser. *)

\* http_message_needs_eof; F_SKIPBODY is never set, on_headers_complete returns 0.
NeedsEof(q) ==
  /\ q.type = "response"
  /\ q.status \div 100 # 1 /\ q.status \notin {204, 304}
  /\ "F_CHUNKED" \notin q.flags /\ q.content_length = NoLength

\* http_should_keep_alive.
ShouldKeepAlive(q) ==
  /\ IF q.major > 0 /\ q.minor > 0 THEN "F_CONNECTION_CLOSE" \notin q.flags
     ELSE "F_CONNECTION_KEEP_ALIVE" \in q.flags
  /\ ~NeedsEof(q)

-----------------------------------------------------------------------------
(* The callbacks of http_codec::impl, on its state x. *)

Out(x, e) == [x EXCEPT !.out = Append(@, e)]

OnMessageBegin(x) == [x EXCEPT !.data = TRUE]

\* The fields are cut out of the whole line at the offsets found in this piece.
\* pieces: how many pieces the URL came in (for the properties).
OnUrl(x, w) ==
  LET line == x.urline \o w
      r == ParseUrl(w, x.connected, x.url)
  IN  [x EXCEPT !.urline = line, !.url = r.u, !.connected = TRUE,
                !.msg.pieces = @ + 1,
                !.msg.url = IF r.ok THEN [f \in UrlFields |-> FieldOf(line, r.u, f)] ELSE @]

OnStatus(x, w) == [x EXCEPT !.reason = @ \o w]

\* process_current_header: the header read so far is added to the message.
ProcessCurrentHeader(x) ==
  IF ~x.got_header THEN x
  ELSE [x EXCEPT !.msg.headers = Append(@, <<x.key, x.value>>), !.got_header = FALSE,
                 !.key = <<>>, !.value = <<>>]

\* The trailer read so far is given to the user.
EmitTrailer(x) ==
  IF ~x.got_header THEN x
  ELSE [Out(x, [ev |-> "trailer", key |-> x.key, value |-> x.value]) EXCEPT !.got_header = FALSE,
                                                    !.key = <<>>, !.value = <<>>]

\* on_header_field and on_trailer_field: a new name ends the header before it.
OnHeaderField(x, w) ==
  LET y == IF x.headers_completed THEN EmitTrailer(x) ELSE ProcessCurrentHeader(x)
  IN  [y EXCEPT !.key = @ \o w]

\* on_header_value and on_trailer_value.
OnHeaderValue(x, w) == [x EXCEPT !.got_header = TRUE, !.value = @ \o w]

\* on_headers_complete: q is the parser.
OnHeadersComplete(x, q) ==
  LET v == IF x.version # "unset" THEN x.version ELSE IF q.minor = 1 THEN "1.1" ELSE "1.0"
      y == ProcessCurrentHeader(x)
  IN  [Out(y, [ev |-> "headers", start |-> IF q.type = "request" THEN <<q.method, 0>> ELSE <<"", q.status>>,
               version |-> v, minor |-> q.minor, keepalive |-> ShouldKeepAlive(q),
               headers |-> y.msg.headers, reason |-> y.reason,
               url |-> y.msg.url, pieces |-> y.msg.pieces])
       EXCEPT !.version = v, !.headers_completed = TRUE]

\* on_body; adjacent pieces are one event, since the user sees one text.
OnBody(x, w) ==
  LET n == Len(x.out)
  IN  IF x.ignore \/ w = <<>> THEN x
      ELSE IF x.out[n].ev = "body" THEN [x EXCEPT !.out[n].text = @ \o w]
      ELSE Out(x, [ev |-> "body", text |-> w])

\* on_chunk_header and on_chunk_complete: http_body_is_final.
OnChunk(x, state) == [x EXCEPT !.ignore = @ \/ state = "s_message_done"]

\* on_message_complete.
OnMessageComplete(x) == Reset(Out(EmitTrailer(x), [ev |-> "end"]))

\* The callback that http_codec registers for each text.
OnData(k, x, w) ==
  CASE k = "url"          -> OnUrl(x, w)
    [] k = "status"       -> OnStatus(x, w)
    [] k = "header_field" -> OnHeaderField(x, w)
    [] k = "header_value" -> OnHeaderValue(x, w)
    [] k = "body"         -> OnBody(x, w)

-----------------------------------------------------------------------------
(* How a case ends. *)

At(S) == phase = "case" /\ p.state \in S

\* The next character, the same character again, or the end of the call.
Go(q) == p' = q /\ pos' = pos + 1 /\ phase' = "loop" /\ UNCHANGED <<stream, reads>>
Again(q) == p' = q /\ phase' = "case" /\ UNCHANGED <<stream, reads, pos>>
Return(q) == p' = q /\ pos' = pos + 1 /\ phase' = "idle" /\ UNCHANGED <<stream, reads>>
To(s) == [p EXCEPT !.state = s]
Rest == UNCHANGED <<mark, inner, d>>

\* goto error, then on_parser_error: the user is told and everything is reset.
Fail ==
  /\ d' = Reset(Out(d, [ev |-> "error"]))
  /\ p' = ParserInit /\ mark' = NoMarks /\ inner' = "no" /\ phase' = "stop"
  /\ UNCHANGED <<stream, reads, pos>>

\* CALLBACK_DATA: the text since the mark, if there is one; MARK keeps an older mark.
Text(k) == SubSeq(stream.wire, mark[k], pos - 1)
Marked(k) == mark' = [mark EXCEPT ![k] = IF @ = 0 THEN pos ELSE @]
Unmarked(k) == mark' = [mark EXCEPT ![k] = 0]
DataCallback(k) ==
  /\ d' = IF mark[k] = 0 THEN d ELSE OnData(k, d, Text(k))
  /\ Unmarked(k)

UrlTooLong == Len(d.urline) + (pos - mark["url"]) > MaxUriLen

-----------------------------------------------------------------------------
(* The start line. *)

FirstMethod ==
  [A |-> "ACL", B |-> "BIND", C |-> "CONNECT", D |-> "DELETE", G |-> "GET", H |-> "HEAD",
   L |-> "LOCK", M |-> "MKCOL", N |-> "NOTIFY", O |-> "OPTIONS", P |-> "POST", R |-> "REPORT",
   S |-> "SUBSCRIBE", T |-> "TRACE", U |-> "UNLOCK"]

\* method_strings, from HTTP_METHOD_MAP.
Spelling(m) == Chars(IF m = "MSEARCH" THEN "M-SEARCH" ELSE m)

\* A character that turns the method taken so far into another one.
OtherMethod(m, i, c) ==
  CASE m = "POST" /\ i = 1 /\ c = "U" -> "PUT"
    [] m = "POST" /\ i = 1 /\ c = "A" -> "PATCH"
    [] m = "CONNECT" /\ i = 1 /\ c = "H" -> "CHECKOUT"
    [] m = "CONNECT" /\ i = 2 /\ c = "P" -> "COPY"
    [] m = "MKCOL" /\ i = 1 /\ c = "O" -> "MOVE"
    [] m = "MKCOL" /\ i = 1 /\ c = "E" -> "MERGE"
    [] m = "MKCOL" /\ i = 2 /\ c = "A" -> "MKACTIVITY"
    [] m = "MKCOL" /\ i = 3 /\ c = "A" -> "MKCALENDAR"
    [] m = "SUBSCRIBE" /\ i = 1 /\ c = "E" -> "SEARCH"
    [] m = "REPORT" /\ i = 2 /\ c = "B" -> "REBIND"
    [] m = "POST" /\ i = 1 /\ c = "R" -> "PROPFIND"
    [] m = "PROPFIND" /\ i = 4 /\ c = "P" -> "PROPPATCH"
    [] m = "PUT" /\ i = 2 /\ c = "R" -> "PURGE"
    [] m = "LOCK" /\ i = 1 /\ c = "I" -> "LINK"
    [] m = "UNLOCK" /\ i = 2 /\ c = "S" -> "UNSUBSCRIBE"
    [] m = "UNLOCK" /\ i = 2 /\ c = "B" -> "UNBIND"
    [] m = "UNLOCK" /\ i = 3 /\ c = "I" -> "UNLINK"
    [] m = "MKCOL" /\ i = 1 /\ c = "-" -> "MSEARCH"
    [] OTHER -> "none"

Cleared == [p EXCEPT !.flags = {}, !.content_length = NoLength]

StartReqOrRes ==
  /\ At({"s_start_req_or_res"})
  /\ \/ ch \in {CR, LF} /\ Go(p) /\ Rest
     \/ /\ ch = "H"
        /\ Go([Cleared EXCEPT !.state = "s_res_or_resp_H"])
        /\ d' = OnMessageBegin(d) /\ UNCHANGED <<mark, inner>>
     \/ /\ ch \notin {CR, LF, "H"}
        /\ Again([Cleared EXCEPT !.type = "request", !.state = "s_start_req"]) /\ Rest

ResOrRespH ==
  /\ At({"s_res_or_resp_H"})
  /\ \/ ch = "T" /\ Go([p EXCEPT !.type = "response", !.state = "s_res_HT"]) /\ Rest
     \/ /\ ch = "E" /\ Rest
        /\ Go([p EXCEPT !.type = "request", !.method = "HEAD", !.index = 2,
                        !.state = "s_req_method"])
     \/ ch \notin {"T", "E"} /\ Fail

StartReq ==
  /\ At({"s_start_req"})
  /\ \/ ch \notin DOMAIN FirstMethod /\ Fail
     \/ /\ ch \in DOMAIN FirstMethod
        /\ Go([Cleared EXCEPT !.method = FirstMethod[ch], !.index = 1, !.state = "s_req_method"])
        /\ d' = OnMessageBegin(d) /\ UNCHANGED <<mark, inner>>

ReqMethod ==
  /\ At({"s_req_method"})
  /\ LET w == Spelling(p.method)
         other == OtherMethod(p.method, p.index, ch)
         spelled == p.index < Len(w) /\ ch = w[p.index + 1]
     IN  \/ /\ ch = " " /\ p.index = Len(w)
            /\ Go([p EXCEPT !.index = @ + 1, !.state = "s_req_spaces_before_url"]) /\ Rest
         \/ spelled /\ Go([p EXCEPT !.index = @ + 1]) /\ Rest
         \/ /\ ~spelled /\ other # "none" /\ Rest
            /\ Go([p EXCEPT !.index = @ + 1, !.method = other])
         \/ ~spelled /\ other = "none" /\ ~(ch = " " /\ p.index = Len(w)) /\ Fail

SpacesBeforeUrl ==
  /\ At({"s_req_spaces_before_url"})
  /\ LET new == ParseUrlChar(IF p.method = "CONNECT" THEN "s_req_server_start" ELSE p.state, ch)
     IN  \/ ch = " " /\ Go(p) /\ Rest
         \/ ch # " " /\ new = "s_dead" /\ Fail
         \/ ch # " " /\ new # "s_dead" /\ Go(To(new)) /\ Marked("url") /\ UNCHANGED <<inner, d>>

\* The states in which a URL may not end.
UrlOpen == {"s_req_schema", "s_req_schema_slash", "s_req_schema_slash_slash",
            "s_req_server_start"}

UrlChar ==
  /\ At(UrlStates)
  /\ LET new == ParseUrlChar(p.state, ch)
     IN  \/ ch \notin {" ", CR, LF} /\ new # "s_dead" /\ Go(To(new)) /\ Rest
         \/ /\ \/ ch \notin {" ", CR, LF} /\ new = "s_dead"
               \/ ch \in {" ", CR, LF} /\ (p.state \in UrlOpen \/ UrlTooLong)
            /\ Fail
         \/ /\ ch \in {" ", CR, LF} /\ p.state \notin UrlOpen /\ ~UrlTooLong
            /\ DataCallback("url") /\ UNCHANGED inner
            /\ IF ch = " " THEN Go(To("s_req_http_start"))
               ELSE Go([p EXCEPT !.major = 0, !.minor = 9,
                                 !.state = IF ch = CR THEN "s_req_line_almost_done"
                                           ELSE "s_header_field_start"])

ReqHttpStart ==
  /\ At({"s_req_http_start"})
  /\ \/ ch \in {"H", " "} /\ Go(IF ch = "H" THEN To("s_req_http_H") ELSE p) /\ Rest
     \/ ch \notin {"H", " "} /\ Fail

\* The constants of a start line: what must come, and the state after it.
Constant ==
  [s_req_http_H |-> <<"T", "s_req_http_HT">>, s_req_http_HT |-> <<"T", "s_req_http_HTT">>,
   s_req_http_HTT |-> <<"P", "s_req_http_HTTP">>,
   s_req_http_HTTP |-> <<"/", "s_req_first_http_major">>,
   s_res_HT |-> <<"T", "s_res_HTT">>, s_res_HTT |-> <<"P", "s_res_HTTP">>,
   s_res_HTTP |-> <<"/", "s_res_first_http_major">>,
   s_req_line_almost_done |-> <<LF, "s_header_field_start">>,
   s_res_line_almost_done |-> <<LF, "s_header_field_start">>,
   s_header_almost_done |-> <<LF, "s_header_value_lws">>,
   s_header_value_discard_ws_almost_done |-> <<LF, "s_header_value_discard_lws">>]

ConstantChar ==
  /\ At(DOMAIN Constant)
  /\ \/ ch = Constant[p.state][1] /\ Go(To(Constant[p.state][2])) /\ Rest
     \/ ch # Constant[p.state][1] /\ Fail

\* The number at field f grows by the digit read; it may not exceed 999.
Grown(f, s) == [p EXCEPT ![f] = 10 * @ + Unhex(ch), !.state = s]

FirstDigit ==
  /\ At({"s_req_first_http_major", "s_res_first_http_major",
         "s_req_first_http_minor", "s_res_first_http_minor"})
  /\ \/ (ch \notin Digits \/ (ch = "0" /\ p.state = "s_req_first_http_major")) /\ Fail
     \/ /\ ch \in Digits /\ ~(ch = "0" /\ p.state = "s_req_first_http_major") /\ Rest
        /\ Go(CASE p.state = "s_req_first_http_major" ->
                     [p EXCEPT !.major = Unhex(ch), !.state = "s_req_http_major"]
                [] p.state = "s_res_first_http_major" ->
                     [p EXCEPT !.major = Unhex(ch), !.state = "s_res_http_major"]
                [] p.state = "s_req_first_http_minor" ->
                     [p EXCEPT !.minor = Unhex(ch), !.state = "s_req_http_minor"]
                [] p.state = "s_res_first_http_minor" ->
                     [p EXCEPT !.minor = Unhex(ch), !.state = "s_res_http_minor"])

HttpMajor ==
  /\ At({"s_req_http_major", "s_res_http_major"})
  /\ LET q == Grown("major", p.state)
     IN  \/ /\ ch = "." /\ Rest
            /\ Go(To(IF p.state = "s_req_http_major" THEN "s_req_first_http_minor"
                     ELSE "s_res_first_http_minor"))
         \/ ch \in Digits /\ q.major <= 999 /\ Go(q) /\ Rest
         \/ ch # "." /\ (ch \notin Digits \/ q.major > 999) /\ Fail

HttpMinor ==
  /\ At({"s_req_http_minor", "s_res_http_minor"})
  /\ LET q == Grown("minor", p.state)
         ends == IF p.state = "s_req_http_minor" THEN {CR, LF} ELSE {" "}
     IN  \/ /\ ch \in ends /\ Rest
            /\ Go(To(CASE ch = CR -> "s_req_line_almost_done"
                       [] ch = LF -> "s_header_field_start"
                       [] ch = " " -> "s_res_first_status_code"))
         \/ ch \in Digits /\ q.minor <= 999 /\ Go(q) /\ Rest
         \/ ch \notin ends /\ (ch \notin Digits \/ q.minor > 999) /\ Fail

FirstStatusCode ==
  /\ At({"s_res_first_status_code"})
  /\ \/ ch = " " /\ Go(p) /\ Rest
     \/ ch \in Digits /\ Go([p EXCEPT !.status = Unhex(ch), !.state = "s_res_status_code"]) /\ Rest
     \/ ch \notin Digits \cup {" "} /\ Fail

\* The state after the end of a status line or of its first blank.
AfterStatus == CASE ch = CR -> "s_res_line_almost_done"
                 [] ch = LF -> "s_header_field_start"
                 [] ch = " " -> "s_res_status_start"

StatusCode ==
  /\ At({"s_res_status_code"})
  /\ LET q == Grown("status", p.state)
     IN  \/ ch \in {" ", CR, LF} /\ Go(To(AfterStatus)) /\ Rest
         \/ ch \in Digits /\ q.status <= 999 /\ Go(q) /\ Rest
         \/ ch \notin {" ", CR, LF} /\ (ch \notin Digits \/ q.status > 999) /\ Fail

StatusStart ==
  /\ At({"s_res_status_start"})
  /\ UNCHANGED <<inner, d>>
  /\ \/ ch \in {CR, LF} /\ Go(To(AfterStatus)) /\ UNCHANGED mark
     \/ ch \notin {CR, LF} /\ Go([p EXCEPT !.index = 0, !.state = "s_res_status"]) /\ Marked("status")

Status ==
  /\ At({"s_res_status"})
  /\ \/ ch \in {CR, LF} /\ Go(To(AfterStatus)) /\ DataCallback("status") /\ UNCHANGED inner
     \/ ch \notin {CR, LF} /\ Go(p) /\ Rest

-----------------------------------------------------------------------------
(* Headers. *)

\* The names and values the parser looks for, and what it knows once one is read.
Word ==
  [h_matching_connection |-> <<Chars("connection"), "h_connection">>,
   h_matching_proxy_connection |-> <<Chars("proxy-connection"), "h_connection">>,
   h_matching_content_length |-> <<Chars("content-length"), "h_content_length">>,
   h_matching_transfer_encoding |-> <<Chars("transfer-encoding"), "h_transfer_encoding">>,
   h_matching_upgrade |-> <<Chars("upgrade"), "h_upgrade">>,
   h_matching_transfer_encoding_chunked |-> <<Chars("chunked"), "h_transfer_encoding_chunked">>,
   h_matching_connection_keep_alive |-> <<Chars("keep-alive"), "h_connection_keep_alive">>,
   h_matching_connection_close |-> <<Chars("close"), "h_connection_close">>,
   h_matching_connection_upgrade |-> <<Chars("upgrade"), "h_connection_upgrade">>]

\* One more character c of a word; lost is the state when it is another word.
MatchWord(q, c, lost) ==
  LET w == Word[q.header_state][1]
      i == q.index + 1
  IN  [q EXCEPT !.index = i,
                !.header_state = IF i >= Len(w) \/ c # w[i + 1] THEN lost
                                 ELSE IF i = Len(w) - 1 THEN Word[@][2] ELSE @]

\* Names start with a common prefix; c is in lower case.
NameChar(q, c) ==
  CASE q.header_state = "h_C" ->
         [q EXCEPT !.index = @ + 1, !.header_state = IF c = "o" THEN "h_CO" ELSE "h_general"]
    [] q.header_state = "h_CO" ->
         [q EXCEPT !.index = @ + 1, !.header_state = IF c = "n" THEN "h_CON" ELSE "h_general"]
    [] q.header_state = "h_CON" ->
         [q EXCEPT !.index = @ + 1,
                   !.header_state = CASE c = "n" -> "h_matching_connection"
                                      [] c = "t" -> "h_matching_content_length"
                                      [] OTHER -> "h_general"]
    [] q.header_state \in DOMAIN Word -> MatchWord(q, c, "h_general")
    [] OTHER -> [q EXCEPT !.header_state = "h_general"]

HeaderFieldStart ==
  /\ At({"s_header_field_start"})
  /\ \/ ch = CR /\ Go(To("s_headers_almost_done")) /\ Rest
     \/ ch = LF /\ Again(To("s_headers_almost_done")) /\ Rest
     \/ ch \notin {CR, LF} /\ ~IsToken(ch) /\ Fail
     \/ /\ IsToken(ch) /\ Marked("header_field") /\ UNCHANGED <<inner, d>>
        /\ Go([p EXCEPT !.index = 0, !.state = "s_header_field",
                        !.header_state = CASE Lower(ch) = "c" -> "h_C"
                                           [] Lower(ch) = "p" -> "h_matching_proxy_connection"
                                           [] Lower(ch) = "t" -> "h_matching_transfer_encoding"
                                           [] Lower(ch) = "u" -> "h_matching_upgrade"
                                           [] OTHER -> "h_general"])

\* As HeaderField, but a second content-length is accepted.
HeaderFieldTakesTwoLengths ==
  /\ At({"s_header_field"})
  /\ LET q == NameChar(p, Lower(ch))
     IN  \/ IsToken(ch) /\ Go(q) /\ inner' = "yes" /\ UNCHANGED <<mark, d>>
         \/ /\ ch = ":" /\ Go(To("s_header_value_discard_ws"))
            /\ DataCallback("header_field") /\ inner' = "no"
         \/ ~IsToken(ch) /\ ch # ":" /\ Fail

\* A content-length is noted when its name is read; a second one is an error.
HeaderField ==
  /\ At({"s_header_field"})
  /\ LET q == NameChar(p, Lower(ch))
         length == q.header_state = "h_content_length"
     IN  \/ /\ IsToken(ch) /\ ~(length /\ "F_CONTENTLENGTH" \in p.flags)
            /\ Go(IF length THEN [q EXCEPT !.flags = @ \cup {"F_CONTENTLENGTH"}] ELSE q)
            /\ inner' = "yes" /\ UNCHANGED <<mark, d>>
         \/ IsToken(ch) /\ length /\ "F_CONTENTLENGTH" \in p.flags /\ Fail
         \/ /\ ch = ":" /\ Go(To("s_header_value_discard_ws"))
            /\ DataCallback("header_field") /\ inner' = "no"
         \/ ~IsToken(ch) /\ ch # ":" /\ Fail

\* A character of a value in header_state; c is in lower case.  A list of
\* connection options is matched one option at a time.
ValueChar(q, c) ==
  LET hs == q.header_state
      option == CASE c = "k" -> "h_matching_connection_keep_alive"
                  [] c = "c" -> "h_matching_connection_close"
                  [] c = "u" -> "h_matching_connection_upgrade"
                  [] c \in {" ", "\t"} -> hs
                  [] OTHER -> IF IsToken(c) THEN "h_matching_connection_token" ELSE "h_general"
      flag == [h_connection_keep_alive |-> "F_CONNECTION_KEEP_ALIVE",
               h_connection_close |-> "F_CONNECTION_CLOSE",
               h_connection_upgrade |-> "F_CONNECTION_UPGRADE"]
  IN  CASE hs = "h_content_length" ->
             IF c = " " THEN q ELSE [q EXCEPT !.content_length = (10 * @ + Unhex(c)) % 2 ^ Bits]
        [] hs = "h_matching_connection_token_start" -> [q EXCEPT !.header_state = option]
        [] hs = "h_matching_transfer_encoding_chunked" -> MatchWord(q, c, "h_general")
        [] hs \in {"h_matching_connection_keep_alive", "h_matching_connection_close",
                   "h_matching_connection_upgrade"} ->
             MatchWord(q, c, "h_matching_connection_token")
        [] hs = "h_matching_connection_token" ->
             IF c # "," THEN q
             ELSE [q EXCEPT !.header_state = "h_matching_connection_token_start", !.index = 0]
        [] hs \in DOMAIN flag ->
             IF c = "," THEN [q EXCEPT !.header_state = "h_matching_connection_token_start",
                                       !.index = 0, !.flags = @ \cup {flag[hs]}]
             ELSE IF c = " " THEN q
             ELSE [q EXCEPT !.header_state = "h_matching_connection_token"]
        [] hs = "h_transfer_encoding_chunked" /\ c = " " -> q
        [] OTHER -> [q EXCEPT !.header_state = "h_general"]

\* The header is read: what its value says of the message.
Concluded(q) ==
  LET flag == [h_connection_keep_alive |-> "F_CONNECTION_KEEP_ALIVE",
               h_connection_close |-> "F_CONNECTION_CLOSE",
               h_connection_upgrade |-> "F_CONNECTION_UPGRADE",
               h_transfer_encoding_chunked |-> "F_CHUNKED"]
  IN  IF q.header_state \in DOMAIN flag THEN [q EXCEPT !.flags = @ \cup {flag[q.header_state]}]
      ELSE q

\* The first character of a value decides what is looked for in it.
ValueStart(q, c) ==
  LET hs == q.header_state
      next == CASE hs = "h_transfer_encoding" /\ c = "c" -> "h_matching_transfer_encoding_chunked"
                [] hs = "h_content_length" -> hs
                [] hs = "h_connection" ->
                     CASE c = "k" -> "h_matching_connection_keep_alive"
                       [] c = "c" -> "h_matching_connection_close"
                       [] c = "u" -> "h_matching_connection_upgrade"
                       [] OTHER -> "h_matching_connection_token"
                [] hs = "h_matching_connection_token_start" -> hs
                [] OTHER -> "h_general"
  IN  [q EXCEPT !.state = "s_header_value", !.index = 0, !.header_state = next,
                !.flags = IF hs = "h_upgrade" THEN @ \cup {"F_UPGRADE"} ELSE @,
                !.content_length = IF hs = "h_content_length" THEN Unhex(c) ELSE @]

HeaderValueStart ==
  /\ At({"s_header_value_discard_ws", "s_header_value_start"})
  /\ LET blank == p.state = "s_header_value_discard_ws" /\ ch \in {" ", "\t", CR, LF}
         bad == p.header_state = "h_content_length" /\ ch \notin Digits
     IN  \/ /\ blank /\ Rest
            /\ Go(CASE ch = CR -> To("s_header_value_discard_ws_almost_done")
                    [] ch = LF -> To("s_header_value_discard_lws")
                    [] OTHER -> p)
         \/ ~blank /\ bad /\ Fail
         \/ ~blank /\ ~bad /\ Go(ValueStart(p, Lower(ch))) /\ Marked("header_value")
            /\ UNCHANGED <<inner, d>>

\* The limit is tested before the digit is added, so the length cannot wrap.
BadLength ==
  /\ p.header_state = "h_content_length" /\ ch # " "
  /\ ch \notin Digits \/ (NoLength - 10) \div 10 < p.content_length

HeaderValue ==
  /\ At({"s_header_value"})
  /\ LET bad == BadLength \/ (inner # "skip" /\ ~IsHeaderChar(ch))
     IN  \/ /\ ch = CR /\ Go(To("s_header_almost_done"))
            /\ DataCallback("header_value") /\ inner' = "no"
         \/ /\ ch = LF /\ Again(To("s_header_almost_done"))
            /\ DataCallback("header_value") /\ inner' = "no"
         \/ ch \notin {CR, LF} /\ bad /\ Fail
         \/ /\ ch \notin {CR, LF} /\ ~bad /\ Go(ValueChar(p, Lower(ch))) /\ UNCHANGED <<mark, d>>
            /\ inner' = IF p.header_state = "h_general" THEN "skip" ELSE "yes"

\* After a line: a blank continues the value on the next line.
HeaderValueLws ==
  /\ At({"s_header_value_lws"})
  /\ \/ ch \in {" ", "\t"} /\ Again(To("s_header_value_start")) /\ Rest
     \/ /\ ch \notin {" ", "\t"} /\ Rest
        /\ Again([Concluded(p) EXCEPT !.state = "s_header_field_start"])

\* After a line without a value.
HeaderValueDiscardLws ==
  /\ At({"s_header_value_discard_lws"})
  /\ \/ ch \in {" ", "\t"} /\ Go(To("s_header_value_discard_ws")) /\ Rest
     \/ /\ ch \notin {" ", "\t"}
        /\ Again([Concluded(p) EXCEPT !.state = "s_header_field_start"])
        /\ d' = OnHeaderValue(d, <<>>) /\ UNCHANGED <<mark, inner>>

\* The blank line: the end of the trailers, or of the head.
HeadersAlmostDone ==
  /\ At({"s_headers_almost_done"})
  /\ LET upgrade == {"F_UPGRADE", "F_CONNECTION_UPGRADE"} \subseteq p.flags
                    \/ p.method = "CONNECT"
         clash == {"F_CHUNKED", "F_CONTENTLENGTH"} \subseteq p.flags
     IN  \/ ch # LF /\ Fail
         \/ /\ ch = LF /\ "F_TRAILING" \in p.flags /\ UNCHANGED <<mark, inner>>
            /\ Again(To("s_message_done")) /\ d' = OnChunk(d, "s_message_done")
         \/ ch = LF /\ "F_TRAILING" \notin p.flags /\ clash /\ Fail
         \/ /\ ch = LF /\ "F_TRAILING" \notin p.flags /\ ~clash /\ UNCHANGED <<mark, inner>>
            /\ Again([p EXCEPT !.upgrade = upgrade, !.state = "s_headers_done"])
            /\ d' = OnHeadersComplete(d, [p EXCEPT !.upgrade = upgrade])

\* Which body follows; with an upgrade the call returns at once.
HeadersDone ==
  /\ At({"s_headers_done"})
  /\ UNCHANGED <<mark, inner>>
  /\ LET chunked == "F_CHUNKED" \in p.flags
         known == p.content_length # NoLength
         hasBody == chunked \/ (known /\ p.content_length > 0)
         leave == p.upgrade /\ (p.method = "CONNECT" \/ ~hasBody)
         q == [p EXCEPT !.nread = 0]
     IN  \/ leave /\ Return(ParserInit) /\ d' = OnMessageComplete(d)
         \/ /\ ~leave /\ hasBody /\ UNCHANGED d
            /\ Go([q EXCEPT !.state = IF chunked THEN "s_chunk_size_start" ELSE "s_body_identity"])
         \/ /\ ~leave /\ ~hasBody /\ (known \/ ~NeedsEof(p))
            /\ Go(ParserInit) /\ d' = OnMessageComplete(d)
         \/ /\ ~leave /\ ~hasBody /\ ~known /\ NeedsEof(p) /\ UNCHANGED d
            /\ Go([q EXCEPT !.state = "s_body_identity_eof"])

-----------------------------------------------------------------------------
(* Bodies. *)

\* The last character of the body is seen again by s_message_done.
BodyIdentity ==
  /\ At({"s_body_identity"})
  /\ UNCHANGED inner
  /\ LET q == [p EXCEPT !.content_length = @ - 1]
         from == IF mark["body"] = 0 THEN pos ELSE mark["body"]
     IN  IF q.content_length > 0 THEN Go(q) /\ Marked("body") /\ UNCHANGED d
         ELSE /\ Again([q EXCEPT !.state = "s_message_done"])
              /\ d' = OnBody(d, SubSeq(stream.wire, from, pos)) /\ Unmarked("body")

\* decode never passes an empty read on, so this body has no end.
BodyIdentityEof ==
  /\ At({"s_body_identity_eof"})
  /\ Go(p) /\ Marked("body") /\ UNCHANGED <<inner, d>>

MessageDone ==
  /\ At({"s_message_done"})
  /\ Go(ParserInit) /\ d' = OnMessageComplete(d) /\ UNCHANGED <<mark, inner>>

ChunkSizeStart ==
  /\ At({"s_chunk_size_start"})
  /\ \/ Unhex(ch) < 0 /\ Fail
     \/ /\ Unhex(ch) >= 0 /\ Rest
        /\ Go([p EXCEPT !.content_length = Unhex(ch), !.state = "s_chunk_size"])

ChunkSize ==
  /\ At({"s_chunk_size"})
  /\ LET over == (NoLength - 16) \div 16 < p.content_length
     IN  \/ ch = CR /\ Go(To("s_chunk_size_almost_done")) /\ Rest
         \/ ch \in {";", " "} /\ Go(To("s_chunk_parameters")) /\ Rest
         \/ /\ Unhex(ch) >= 0 /\ ~over /\ Rest
            /\ Go([p EXCEPT !.content_length = (16 * @ + Unhex(ch)) % 2 ^ Bits])
         \/ ch \notin {CR, ";", " "} /\ (Unhex(ch) < 0 \/ over) /\ Fail

ChunkParameters ==
  /\ At({"s_chunk_parameters"})
  /\ Go(IF ch = CR THEN To("s_chunk_size_almost_done") ELSE p) /\ Rest

\* The last chunk has size 0 and is followed by trailers.
ChunkSizeAlmostDone ==
  /\ At({"s_chunk_size_almost_done"})
  /\ LET s == IF p.content_length = 0 THEN "s_header_field_start" ELSE "s_chunk_data"
     IN  \/ ch # LF /\ Fail
         \/ /\ ch = LF /\ UNCHANGED <<mark, inner>> /\ d' = OnChunk(d, s)
            /\ Go([p EXCEPT !.nread = 0, !.state = s,
                            !.flags = IF p.content_length = 0 THEN @ \cup {"F_TRAILING"} ELSE @])

ChunkData ==
  /\ At({"s_chunk_data"})
  /\ Marked("body") /\ UNCHANGED <<inner, d>>
  /\ LET q == [p EXCEPT !.content_length = @ - 1]
     IN  Go(IF q.content_length = 0 THEN [q EXCEPT !.state = "s_chunk_data_almost_done"] ELSE q)

ChunkDataAlmostDone ==
  /\ At({"s_chunk_data_almost_done"})
  /\ \/ ch # CR /\ Fail
     \/ /\ ch = CR /\ Go(To("s_chunk_data_done")) /\ UNCHANGED inner
        /\ DataCallback("body")

ChunkDataDone ==
  /\ At({"s_chunk_data_done"})
  /\ \/ ch # LF /\ Fail
     \/ /\ ch = LF /\ UNCHANGED <<mark, inner>>
        /\ Go([p EXCEPT !.nread = 0, !.state = "s_chunk_size_start"])
        /\ d' = OnChunk(d, "s_chunk_size_start")

-----------------------------------------------------------------------------
(* Reads. *)

\* http_codec::decode calls http_parser_execute: text that the last read cut
\* in two is marked from the start of this one.
Execute ==
  /\ phase = "idle" /\ pos <= Len(stream.wire)
  /\ mark' = CASE p.state = "s_header_field" -> [NoMarks EXCEPT !["header_field"] = pos]
               [] p.state = "s_header_value" -> [NoMarks EXCEPT !["header_value"] = pos]
               [] p.state \in UrlStates -> [NoMarks EXCEPT !["url"] = pos]
               [] p.state = "s_res_status" -> [NoMarks EXCEPT !["status"] = pos]
               [] OTHER -> NoMarks
  /\ phase' = "first" /\ inner' = "no" /\ reads' = reads + 1
  /\ UNCHANGED <<stream, pos, p, d>>

\* As FetchChar, but characters are not counted.
FetchCharUncounted ==
  /\ phase \in {"first", "loop"} /\ pos <= Len(stream.wire)
  /\ phase' = "case" /\ UNCHANGED <<stream, reads, pos, p, mark, inner, d>>

\* The head of the for loop: COUNT_HEADER_SIZE.
FetchChar ==
  /\ phase \in {"first", "loop"} /\ pos <= Len(stream.wire)
  /\ LET n == IF p.state \in BodyStates THEN p.nread ELSE p.nread + 1
     IN  \/ n > MaxHeaderSize /\ Fail
         \/ /\ n <= MaxHeaderSize /\ p' = [p EXCEPT !.nread = n] /\ phase' = "case"
            /\ UNCHANGED <<stream, reads, pos, mark, inner, d>>

\* The read is used up: a name or value in progress is counted again by its
\* inner loop, and a marked text is handed on as far as it goes.
EndOfRead ==
  /\ phase = "loop" /\ (reads < MaxReads \/ pos > Len(stream.wire))
  /\ LET n == IF inner = "no" THEN p.nread ELSE p.nread + 1
         piece(k) == mark[k] > 0
     IN  \/ (n > MaxHeaderSize \/ (piece("url") /\ UrlTooLong)) /\ Fail
         \/ /\ n <= MaxHeaderSize /\ ~(piece("url") /\ UrlTooLong)
            /\ \/ (\A k \in Marks : ~piece(k)) /\ UNCHANGED d
               \/ \E k \in Marks : piece(k) /\ d' = OnData(k, d, Text(k))
            /\ p' = [p EXCEPT !.nread = n] /\ mark' = NoMarks /\ inner' = "no"
            /\ phase' = "idle" /\ UNCHANGED <<stream, reads, pos>>

Next ==
  \/ Execute \/ FetchChar \/ EndOfRead
  \/ StartReqOrRes \/ ResOrRespH \/ StartReq \/ ReqMethod \/ SpacesBeforeUrl \/ UrlChar
  \/ ReqHttpStart \/ ConstantChar \/ FirstDigit \/ HttpMajor \/ HttpMinor
  \/ FirstStatusCode \/ StatusCode \/ StatusStart \/ Status
  \/ HeaderFieldStart \/ HeaderField \/ HeaderValueStart \/ HeaderValue \/ HeaderValueLws
  \/ HeaderValueDiscardLws \/ HeadersAlmostDone \/ HeadersDone
  \/ BodyIdentity \/ BodyIdentityEof \/ MessageDone
  \/ ChunkSizeStart \/ ChunkSize \/ ChunkParameters \/ ChunkSizeAlmostDone
  \/ ChunkData \/ ChunkDataAlmostDone \/ ChunkDataDone

Spec == Init /\ [][Next]_vars

-----------------------------------------------------------------------------
(* Properties. *)

Finished == phase = "stop" \/ (phase = "idle" /\ pos > Len(stream.wire))

\* An event o of the codec is the event e that was meant.  The URL is compared
\* when it came in one piece (see UrlWhole), the version in the first message
\* (see VersionIsCurrent).
Same(o, e, first) ==
  /\ o.ev = e.ev
  /\ o.ev = "headers" =>
       /\ o.start = e.start /\ o.headers = e.headers /\ o.keepalive = e.keepalive
       /\ o.reason = e.reason /\ o.minor = e.minor
       /\ o.pieces = 1 => o.url = e.url
       /\ first => o.version = e.version
  /\ o.ev \in {"body", "trailer"} => o = e

\* However a stream is cut into reads, what the user is told is at every moment
\* a prefix of the messages the peer sent (a body may be part of the way), and
\* at the end all of them; where the stream is malformed there is an error
\* instead, and only body text that was still marked may be missing.  No
\* character of a body is taken for a head, a length is neither doubled,
\* clashing nor wrapped, and a head is limited in size (http_parser_execute,
\* http_codec::decode).
AsSent ==
  LET refused == d.out # <<>> /\ Last(d.out).ev = "error"
      told == IF refused THEN Front(d.out) ELSE d.out
      e == stream.expect
      bad == e # <<>> /\ Last(e).ev = "error"
      n == Len(told)
  IN  /\ n <= Len(e)
      /\ \A i \in 1 .. n :
           \/ Same(told[i], e[i], i = 1)
           \/ /\ i = n /\ (refused \/ ~Finished) /\ told[i].ev = "body" /\ e[i].ev = "body"
              /\ IsPrefix(told[i].text, e[i].text)
      /\ Finished => refused = bad
      /\ refused => \A i \in n + 1 .. Len(e) - 1 : e[i].ev = "body"
      /\ Finished /\ ~refused => n = Len(e)

\* No assertion of the parser or the codec can fail on HTTP/1.x messages: at
\* most one text is marked when a read ends, a chunk size is the first counted
\* character of its line, a body state knows a length that is not 0, and a
\* header value is matched only after its first character was looked at
\* (the assert() calls of http_parser_execute and http_codec_impl.h).
AssertionsHold ==
  /\ Cardinality({k \in Marks : mark[k] > 0}) <= 1
  /\ phase = "case" =>
       /\ p.state = "s_chunk_size_start" => p.nread = 1
       /\ p.state \in {"s_body_identity", "s_chunk_data"} =>
            p.content_length \notin {0, NoLength}
       /\ p.state = "s_chunk_data_almost_done" => p.content_length = 0
       /\ p.state \in {"s_chunk_size_start", "s_chunk_size", "s_chunk_parameters",
                       "s_chunk_size_almost_done", "s_chunk_data",
                       "s_chunk_data_almost_done", "s_chunk_data_done"} =>
            "F_CHUNKED" \in p.flags
       /\ p.state = "s_header_value" => p.header_state \notin {"h_connection", "h_transfer_encoding"}
       /\ p.state = "s_headers_done" => p.major = 1
       /\ p.state \notin {"s_start_req_or_res", "s_start_req"} => d.data
  /\ p.content_length \in 0 .. NoLength /\ p.nread <= MaxHeaderSize

\* A URL that comes in several reads is the URL that was sent
\* (http_codec_impl.h on_url).  It is not: only the last piece is parsed.
UrlWhole ==
  \A i \in 1 .. Len(d.out) :
    d.out[i].ev = "headers" /\ i <= Len(stream.expect) => d.out[i].url = stream.expect[i].url

\* The version of every message is its own (http_codec_impl.h
\* on_headers_complete).  It is that of the first message of the connection.
VersionIsCurrent ==
  \A i \in 1 .. Len(d.out) :
    d.out[i].ev = "headers" => (d.out[i].version = "1.1") = (d.out[i].minor = 1)
=============================================================================
