--------------------------- MODULE MCHttp2Server ---------------------------
(* Small instances of Http2Server. *)
EXTENDS Http2Server
=============================================================================
