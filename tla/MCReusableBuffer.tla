-------------------------- MODULE MCReusableBuffer --------------------------
(* A buffer of four bytes, wrapped around twice. *)
EXTENDS ReusableBuffer

\* GCC evaluates the last argument first; the language leaves the order open.
MCGcc == {"size_first"}
MCAny == {"size_first", "pointer_first"}
=============================================================================
