--------------------------- MODULE MCHttp1Server ---------------------------
(* Pipelines of up to MaxReq requests; the chunked response is the first.   *)
EXTENDS Http1Server

MCIds == 1 .. MaxReq
MCChunked == {1}

\* Responses in pieces, or after an interim response, under resets; what closes
\* or fails a connection; what keeps it open or lets it go.
MCEnvs ==
  {{"body", "trailer", "reset"}, {"continue", "reset"},
   {"drop", "close"}, {"close", "reset"}, {"drop", "fail", "reset"}, {"reqtrailer", "fail"},
   {"drop", "reset", "timeout"}, {"reset", "timeout", "nonpersistent"}}
=============================================================================
