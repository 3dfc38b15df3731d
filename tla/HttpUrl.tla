------------------------------ MODULE HttpUrl ------------------------------
(***************************************************************************)
(* Characters and URLs as src/src/http_parser/http_parser.c reads them in  *)
(* its strict build (HTTP_PARSER_STRICT is 1): the character classes, the  *)
(* URL state machine shared by http_parser_execute and                     *)
(* http_parser_parse_url, and the split of a URL into its fields.          *)
(*                                                                         *)
(* A character is a string of length one.  The classes list the characters *)
(* of US-ASCII that inputs are made of.                                    *)
(***************************************************************************)
EXTENDS Integers, Sequences

Chars(w) == [i \in 1 .. Len(w) |-> SubSeq(w, i, i)]
CharSet(w) == {SubSeq(w, i, i) : i \in 1 .. Len(w)}

CR == "\r"
LF == "\n"
UpperCase == Chars("ABCDEFGHIJKLMNOPQRSTUVWXYZ")
LowerCase == Chars("abcdefghijklmnopqrstuvwxyz")
Letters == {UpperCase[i] : i \in 1 .. 26} \cup {LowerCase[i] : i \in 1 .. 26}
Digits == CharSet("0123456789")
Hex == Chars("0123456789abcdef")

\* LOWER, on letters.
Lower(c) == IF \E i \in 1 .. 26 : UpperCase[i] = c
            THEN LowerCase[CHOOSE i \in 1 .. 26 : UpperCase[i] = c] ELSE c

\* utils::icompare: equal but for the case of letters.
ICompare(a, b) == Len(a) = Len(b) /\ \A i \in 1 .. Len(a) : Lower(a[i]) = Lower(b[i])

\* unhex: the value of a hexadecimal digit, or -1.
Unhex(c) == IF \E i \in 1 .. 16 : Hex[i] = Lower(c)
            THEN (CHOOSE i \in 1 .. 16 : Hex[i] = Lower(c)) - 1 ELSE -1

\* tokens: the characters of a header name.
IsToken(c) == c \in Letters \cup Digits \cup CharSet("!#$%&'*+-.^_|~")

IsUserinfoChar(c) == c \in Letters \cup Digits \cup CharSet("-_.!~*'%;:&=+$,") \cup {"(", ")"}
IsHostChar(c) == c \in Letters \cup Digits \cup {".", "-"}

\* normal_url_char: every visible character but '#' and '?' (quote, backslash and backtick
\* are left out of the inputs).
IsUrlChar(c) ==
  c \in Letters \cup Digits \cup CharSet("!$%&'*+,-./:;<=>@[]^_{|}~") \cup {"(", ")"}

\* IS_HEADER_CHAR: no control character but the tab.
IsHeaderChar(c) == c \notin {"\f"}

-----------------------------------------------------------------------------
(* parse_url_char. *)

SkipsChar == {" ", CR, LF, "\t", "\f"}

ParseUrlChar(s, ch) ==
  CASE ch \in SkipsChar -> "s_dead"
    [] s = "s_req_spaces_before_url" /\ ch \in {"/", "*"} -> "s_req_path"
    [] s \in {"s_req_spaces_before_url", "s_req_schema"} /\ ch \in Letters -> "s_req_schema"
    [] s = "s_req_schema" /\ ch = ":" -> "s_req_schema_slash"
    [] s = "s_req_schema_slash" /\ ch = "/" -> "s_req_schema_slash_slash"
    [] s = "s_req_schema_slash_slash" /\ ch = "/" -> "s_req_server_start"
    [] s = "s_req_server_with_at" /\ ch = "@" -> "s_dead"
    [] s \in {"s_req_server_with_at", "s_req_server_start", "s_req_server"} ->
         CASE ch = "/" -> "s_req_path"
           [] ch = "?" -> "s_req_query_string_start"
           [] ch = "@" -> "s_req_server_with_at"
           [] IsUserinfoChar(ch) \/ ch \in {"[", "]"} -> "s_req_server"
           [] OTHER -> "s_dead"
    [] s = "s_req_path" /\ ch = "?" -> "s_req_query_string_start"
    [] s \in {"s_req_path", "s_req_query_string_start", "s_req_query_string"} /\ ch = "#" ->
         "s_req_fragment_start"
    [] s = "s_req_path" /\ IsUrlChar(ch) -> "s_req_path"
    [] s \in {"s_req_query_string_start", "s_req_query_string"}
         /\ (IsUrlChar(ch) \/ ch = "?") -> "s_req_query_string"
    [] s = "s_req_fragment_start" /\ ch = "#" -> s
    [] s \in {"s_req_fragment_start", "s_req_fragment"}
         /\ (IsUrlChar(ch) \/ ch \in {"?", "#"}) -> "s_req_fragment"
    [] OTHER -> "s_dead"

-----------------------------------------------------------------------------
(* http_parse_host and http_parser_parse_url. *)

UrlFields == {"schema", "host", "port", "path", "query", "fragment", "userinfo"}

\* http_parser_url: offset and length of each field, and the fields that are set.
UrlInit == [data |-> [f \in UrlFields |-> [off |-> 0, len |-> 0]], set |-> {}]

ParseHostChar(s, ch) ==
  CASE s \in {"userinfo", "userinfo_start"} /\ ch = "@" -> "host_start"
    [] s \in {"userinfo", "userinfo_start"} /\ IsUserinfoChar(ch) -> "userinfo"
    [] s = "host_start" /\ ch = "[" -> "v6_start"
    [] s \in {"host_start", "host"} /\ IsHostChar(ch) -> "host"
    [] s \in {"host", "v6_end"} /\ ch = ":" -> "port_start"
    [] s = "v6" /\ ch = "]" -> "v6_end"
    [] s \in {"v6", "v6_start"} /\ (Unhex(ch) >= 0 \/ ch \in {":", "."}) -> "v6"
    [] s = "v6" /\ ch = "%" -> "v6_zone_start"
    [] s = "v6_zone" /\ ch = "]" -> "v6_end"
    [] s \in {"v6_zone", "v6_zone_start"}
         /\ ch \in Letters \cup Digits \cup {"%", ".", "-", "_", "~"} -> "v6_zone"
    [] s \in {"port", "port_start"} /\ ch \in Digits -> "port"
    [] OTHER -> "dead"

\* The field a host state extends, and the states that may start it.
HostField(s) == CASE s \in {"host", "v6", "v6_zone_start", "v6_zone"} -> "host"
                  [] s = "port" -> "port"
                  [] s = "userinfo" -> "userinfo"
                  [] OTHER -> "none"

\* A field grows by the character at offset i; it starts there when fresh.
Grow(u, f, i, fresh) ==
  [u EXCEPT !.data[f] = IF fresh THEN [off |-> i, len |-> 1] ELSE [@ EXCEPT !.len = @ + 1],
            !.set = @ \cup {f}]

\* One character of the host: the state, and the field it extends.
HostStep(r, new, i) ==
  [s |-> new,
   u |-> IF HostField(new) = "none" THEN r.u
         ELSE Grow(r.u, HostField(new), i,
                   new # r.s /\ new \in {"host", "v6", "port", "userinfo"})]

ParseHost(buf, u, found_at) ==
  LET first == u.data["host"].off
      n == u.data["host"].len
      r[k \in 0 .. n] ==
        IF k = 0 THEN [s |-> IF found_at THEN "userinfo_start" ELSE "host_start",
                       u |-> [u EXCEPT !.data["host"].len = 0]]
        ELSE LET p == r[k - 1]
             IN  IF p.s = "dead" THEN p
                 ELSE HostStep(p, ParseHostChar(p.s, buf[first + k]), first + k - 1)
      end == r[n]
  IN  [ok |-> end.s \in {"host", "v6_end", "port"}, u |-> end.u]

\* The field a URL state belongs to; delimiters belong to none.
UrlField(s) ==
  CASE s = "s_req_schema" -> "schema"
    [] s \in {"s_req_server", "s_req_server_with_at"} -> "host"
    [] s = "s_req_path" -> "path"
    [] s = "s_req_query_string" -> "query"
    [] s = "s_req_fragment" -> "fragment"
    [] OTHER -> "none"

Number(w) == LET v[k \in 0 .. Len(w)] == IF k = 0 THEN 0 ELSE 10 * v[k - 1] + Unhex(w[k])
             IN  v[Len(w)]

FieldOf(buf, u, f) == SubSeq(buf, u.data[f].off + 1, u.data[f].off + u.data[f].len)

\* One character of the URL.
UrlStep(r, new, i) ==
  IF UrlField(new) = "none" THEN [r EXCEPT !.s = new]
  ELSE [s |-> new, uf |-> UrlField(new), at |-> r.at \/ new = "s_req_server_with_at",
        u |-> Grow(r.u, UrlField(new), i, UrlField(new) # r.uf)]

\* The scan of the URL; u0 is what the structure holds from the call before, of which
\* only field_set is cleared.
ScanUrl(buf, is_connect, u0) ==
  LET r[k \in 0 .. Len(buf)] ==
        IF k = 0 THEN [s |-> IF is_connect THEN "s_req_server_start" ELSE "s_req_spaces_before_url",
                       uf |-> "none", at |-> FALSE, u |-> [u0 EXCEPT !.set = {}]]
        ELSE LET p == r[k - 1]
             IN  IF p.s = "s_dead" THEN p ELSE UrlStep(p, ParseUrlChar(p.s, buf[k]), k - 1)
  IN  r[Len(buf)]

\* The checks on the fields of a URL whose host was read.
CheckUrl(buf, is_connect, h) ==
  [ok |-> /\ h.ok
          /\ is_connect => h.u.set = {"host", "port"}
          /\ "port" \in h.u.set => Number(FieldOf(buf, h.u, "port")) <= 65535,
   u |-> h.u]

ParseUrl(buf, is_connect, u0) ==
  LET scan == ScanUrl(buf, is_connect, u0)
  IN  IF scan.s = "s_dead" THEN [ok |-> FALSE, u |-> scan.u]
      ELSE CheckUrl(buf, is_connect,
                    IF "host" \in scan.u.set THEN ParseHost(buf, scan.u, scan.at)
                    ELSE [ok |-> "schema" \notin scan.u.set, u |-> scan.u])
=============================================================================
