----------------------------- MODULE Utilities -----------------------------
(***************************************************************************)
(* The text helpers of src/src/utils (utils.h, utils.cpp, base64.cpp) and  *)
(* the request target http_request::serialize writes.  The state machine   *)
(* reads a text character by character, so that every text up to a length  *)
(* is met; each helper is compared with what it is meant to invert.        *)
(***************************************************************************)
EXTENDS HttpUrl

CONSTANTS
  Starts,    \* texts a walk may start with
  Alphabet,  \* characters that may follow
  MaxText    \* bound: characters that follow

VARIABLES
  text,   \* the text read so far
  start   \* what it started with

textVars == <<text, start>>

-----------------------------------------------------------------------------
(* utils.h and utils.cpp. *)

StartsWith(s, p) == Len(p) <= Len(s) /\ SubSeq(s, 1, Len(p)) = p

\* Where one of the characters comes first at or after position i, or one past the end.
FindFirst(s, i, cs) ==
  IF \E k \in i .. Len(s) : s[k] \in cs
  THEN CHOOSE k \in i .. Len(s) : s[k] \in cs /\ \A j \in i .. k - 1 : s[j] \notin cs
  ELSE Len(s) + 1

\* As HostnameFromUrl, but the authority ends at the path only.
HostnameTakesQuery(s) ==
  LET stop == FindFirst(s, 1, CharSet(":/?#"))
      rest == IF stop > 1 /\ stop <= Len(s) /\ s[stop] = ":" THEN stop + 1 ELSE 1
  IN  IF StartsWith(SubSeq(s, rest, Len(s)), Chars("//"))
      THEN SubSeq(s, rest + 2, FindFirst(s, rest + 2, CharSet("/")) - 1)
      ELSE <<>>

\* hostname_from_url: group 4 of the regular expression
\* (([^:/?#]+):)?(//([^/?#]*))?([^?#]*)(\?([^#]*))?(#(.* ))?
HostnameFromUrl(s) ==
  LET stop == FindFirst(s, 1, CharSet(":/?#"))
      rest == IF stop > 1 /\ stop <= Len(s) /\ s[stop] = ":" THEN stop + 1 ELSE 1
  IN  IF StartsWith(SubSeq(s, rest, Len(s)), Chars("//"))
      THEN SubSeq(s, rest + 2, FindFirst(s, rest + 2, CharSet("/?#")) - 1)
      ELSE <<>>

\* Bytes are numbers below 256.
ToLowerHex(bytes) ==
  [i \in 1 .. 2 * Len(bytes) |->
     LET c == bytes[(i + 1) \div 2] IN Hex[(IF i % 2 = 1 THEN c \div 16 ELSE c % 16) + 1]]

-----------------------------------------------------------------------------
(* base64.cpp. *)

Base64Chars == UpperCase \o LowerCase \o Chars("0123456789+/")
IsBase64(c) == \E i \in 1 .. 64 : Base64Chars[i] = c
Find64(c) == (CHOOSE i \in 1 .. 64 : Base64Chars[i] = c) - 1

\* Three bytes as four numbers below 64, and back.
Split(a) == <<a[1] \div 4, (a[1] % 4) * 16 + (a[2] \div 16), (a[2] % 16) * 4 + (a[3] \div 64), a[3] % 64>>
Merge(a) == <<(a[1] * 4 + (a[2] \div 16)) % 256, ((a[2] % 16) * 16 + (a[3] \div 4)) % 256,
              ((a[3] % 4) * 64 + a[4]) % 256>>

\* The group that starts after n items, filled with zeros.
Group(s, n, size) == [i \in 1 .. size |-> IF n + i <= Len(s) THEN s[n + i] ELSE 0]

Encode64(bytes) ==
  LET code(n) == [i \in 1 .. 4 |-> Base64Chars[Split(Group(bytes, n, 3))[i] + 1]]
      left == Len(bytes) % 3
      e[n \in 0 .. Len(bytes)] ==  \* n bytes are encoded, n a multiple of three
        IF n = 0 THEN <<>> ELSE e[n - 3] \o code(n - 3)
  IN  e[Len(bytes) - left]
        \o (IF left = 0 THEN <<>>
            ELSE SubSeq(code(Len(bytes) - left), 1, left + 1) \o [i \in 1 .. 3 - left |-> "="])

\* As Decode64, but the bytes of a last group that is not full are lost.
Decode64FullGroups(s) ==
  LET last == FindFirst([i \in 1 .. Len(s) |-> IF IsBase64(s[i]) THEN 1 ELSE 0], 1, {0}) - 1
      in == [i \in 1 .. last |-> Find64(s[i])]
      d[n \in 0 .. last] == IF n = 0 THEN <<>> ELSE d[n - 4] \o Merge(Group(in, n - 4, 4))
  IN  d[last - (last % 4)]

\* Up to the first character that is none of the alphabet's; what fills the last group does not
\* reach the bytes that are kept.
Decode64(s) ==
  LET last == FindFirst([i \in 1 .. Len(s) |-> IF IsBase64(s[i]) THEN 1 ELSE 0], 1, {0}) - 1
      in == [i \in 1 .. last |-> Find64(s[i])]
      left == last % 4
      d[n \in 0 .. last] == IF n = 0 THEN <<>> ELSE d[n - 4] \o Merge(Group(in, n - 4, 4))
  IN  d[last - left]
        \o (IF left = 0 THEN <<>> ELSE SubSeq(Merge(Group(in, last - left, 4)), 1, left - 1))

-----------------------------------------------------------------------------
(* http_request. *)

\* The target of the request line.
Target(path, query, fragment) ==
  (IF path # <<>> THEN path ELSE <<"/">>)
    \o (IF query # <<>> THEN <<"?">> \o query ELSE <<>>)
    \o (IF fragment # <<>> THEN <<"#">> \o fragment ELSE <<>>)

\* stream_client::req_pseudo_headers: the :path of HTTP/2.
PseudoPath(path, query, method) ==
  (IF path # <<>> THEN path ELSE IF method = "OPTIONS" THEN <<"*">> ELSE <<"/">>)
    \o (IF query # <<>> THEN <<"?">> \o query ELSE <<>>)

-----------------------------------------------------------------------------
TextInit == start \in Starts /\ text = start

Read(c) == /\ Len(text) < Len(start) + MaxText
           /\ text' = Append(text, c) /\ UNCHANGED start

TextNext == \E c \in Alphabet : Read(c)
TextSpec == TextInit /\ [][TextNext]_textVars

-----------------------------------------------------------------------------
(* Properties. *)

Field(u, f) == IF f \in u.set THEN FieldOf(text, u, f) ELSE <<>>

\* What stands between the scheme and the path of a URL.
Authority(u) ==
  (IF "userinfo" \in u.set THEN Append(Field(u, "userinfo"), "@") ELSE <<>>)
    \o Field(u, "host") \o (IF "port" \in u.set THEN <<":">> \o Field(u, "port") ELSE <<>>)

\* t is accepted as a URL, and its fields fs are those of u where u has them.
ReadsAs(t, u, fs) ==
  \A q \in {ParseUrl(t, FALSE, UrlInit)} :
    /\ q.ok
    /\ \A f \in fs : Field(u, f) # <<>> => f \in q.u.set /\ FieldOf(t, q.u, f) = Field(u, f)

(***************************************************************************)
(* hostname_from_url and http_parser_parse_url agree on every URL the      *)
(* parser accepts: the authority is user information (it may be empty),    *)
(* host and port; the target the client writes for the fields of a URL has *)
(* the same path, query and fragment when it is parsed again, and so has   *)
(* the path of HTTP/2.                                                     *)
(***************************************************************************)
UrlsAgree ==
  \A p \in {ParseUrl(text, FALSE, UrlInit)} : p.ok =>
    /\ "schema" \in p.u.set =>
         HostnameFromUrl(text) \in {Authority(p.u), <<"@">> \o Authority(p.u)}
    /\ ReadsAs(Target(Field(p.u, "path"), Field(p.u, "query"), Field(p.u, "fragment")),
               p.u, {"path", "query", "fragment"})
    /\ ReadsAs(PseudoPath(Field(p.u, "path"), Field(p.u, "query"), "GET"),
               p.u, {"path", "query"})

\* The bytes of a text: places in the alphabet of base64, spread over all eight bits.
Bytes == [i \in 1 .. Len(text) |->
            IF IsBase64(text[i]) THEN (Find64(text[i]) * 85 + i * 37) % 256 ELSE 255 - i]

(***************************************************************************)
(* Decoding what was encoded gives the bytes back, whatever the number of  *)
(* bytes modulo three; hexadecimal digits name the bytes.                  *)
(***************************************************************************)
DecodesBack ==
  \A b \in {Bytes} : \A code \in {Encode64(b)} :
    /\ Len(code) % 4 = 0 /\ Decode64(code) = b
    /\ LET hex == ToLowerHex(b)
       IN  \A i \in 1 .. Len(b) : Unhex(hex[2 * i - 1]) * 16 + Unhex(hex[2 * i]) = b[i]

(***************************************************************************)
(* No text is lost or changed on the way through two helpers that are      *)
(* meant to be inverse to each other, or read differently by two helpers   *)
(* that read the same grammar.                                             *)
(***************************************************************************)
TextsAgree == UrlsAgree /\ DecodesBack
=============================================================================
