----------------------- MODULE MCDnsConnectorFactory -----------------------
(* A name with up to three endpoints, so that a queued timer of one attempt *)
(* can meet a later attempt.                                                *)
EXTENDS DnsConnectorFactory
=============================================================================
