---------------------------- MODULE MCHttpServer ----------------------------
EXTENDS HttpServer, TLC

\* A certificate for one name, one for both under another common name, and one
\* whose key cannot be read.
MCCertificates ==
  {[cn |-> "a.h", hosts |-> {"a.h"}, good |-> TRUE],
   [cn |-> "b.h", hosts |-> {"a.h", "b.h"}, good |-> TRUE],
   [cn |-> "b.h", hosts |-> {"b.h"}, good |-> FALSE]}

MCHosts == {"a.h", "b.h"}
MCWildcard == [w \in {"*.h"} |-> MCHosts]
MCOffers == {{}, {"http/1.1", "h2-14"}, {"http/1.1", "http/1.0"}}
MCEnvs == {{"tls", "stop"}, {"tls", "timeout"}, {"stop", "busy", "fail"}}

ConnSymmetry == Permutations(Conns)
=============================================================================
