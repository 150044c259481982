CONSTANTS
  a = a
  b = b
  c = c
  n1 = n1
  n2 = n2
  Hub = {a, b, c}
  Nonce = {n1, n2}
  Attempt = {}
  Url = {None}
  None = None
  MaxTime = 1
  MaxSigned = 2
  MaxDisabled = 2
SPECIFICATION GossipSpec
PROPERTIES
  AdmissionReachesC
  EvictionReachesC
\* Owners may stop acting.
CHECK_DEADLOCK FALSE
