--------------------------- MODULE MCHttp1Client ---------------------------
(* Small instances of Http1Client. *)
EXTENDS Http1Client
=============================================================================
