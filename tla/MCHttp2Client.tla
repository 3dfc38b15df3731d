--------------------------- MODULE MCHttp2Client ---------------------------
(* Small instances of Http2Client. *)
EXTENDS Http2Client
=============================================================================
