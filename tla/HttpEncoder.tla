---------------------------- MODULE HttpEncoder ----------------------------
(***************************************************************************)
(* The text http_codec (src/src/http/http_codec.cpp) writes after the      *)
(* headers of a message; the states it may be called in are part of module *)
(* Http1Server (Accepts).                                                  *)
(***************************************************************************)
EXTENDS HttpUrl

\* transfer_chunked_termination.
LastChunk == <<"0", CR, LF>>

\* utils::from: a size in hexadecimal, without leading zeros.
From(n) == LET h[k \in 0 .. n] == IF k < 16 THEN <<Hex[k + 1]>>
                                  ELSE Append(h[k \div 16], Hex[(k % 16) + 1])
           IN  h[n]

EncodeBody(chunked, data) ==
  IF data = <<>> THEN <<>>
  ELSE IF chunked THEN From(Len(data)) \o <<CR, LF>> \o data \o <<CR, LF>>
  ELSE data

\* Every trailer brings a last chunk of its own.
EncodeTrailer(key, data) == LastChunk \o key \o <<":", " ">> \o data \o <<CR, LF>>

\* state: what was encoded last.
EncodeEom(chunked, state) ==
  IF ~chunked THEN <<>>
  ELSE IF state = "trailer" THEN <<CR, LF>> ELSE LastChunk \o <<CR, LF>>
=============================================================================
