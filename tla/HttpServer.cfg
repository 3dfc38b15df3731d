SPECIFICATION Spec
CONSTANTS
  Conns = {c1, c2}
  Certificates <- MCCertificates
  Hosts <- MCHosts
  Wildcard <- MCWildcard
  Offers <- MCOffers
  Envs <- MCEnvs
  MaxStarts = 2
SYMMETRY ConnSymmetry
INVARIANTS ServedWhileRunning CertificateFits HandshakeIsTimed
CHECK_DEADLOCK FALSE
