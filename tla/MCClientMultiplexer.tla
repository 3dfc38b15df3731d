------------------------ MODULE MCClientMultiplexer ------------------------
(* Small instances of ClientMultiplexer; the handlers are interchangeable. *)
EXTENDS ClientMultiplexer

HandlerSymmetry == Permutations(Handlers)
=============================================================================
