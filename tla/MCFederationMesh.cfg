CONSTANTS
  a = a
  b = b
  c = c
  n1 = n1
  n2 = n2
  Hub = {a, b, c}
  Nonce = {n1, n2, n3}
  Attempt = {k1}
  Url = {None}
  None = None
  MaxTime = 1
  MaxSigned = 1
  MaxDisabled = 0
SPECIFICATION MeshSpec
CONSTRAINT Bounds
INVARIANTS
  RegistryFresh
  ProvenanceIsRedeemed
PROPERTIES
  ClearedOnlyByReinvitation
  EvictionNeverStale
SYMMETRY MeshSymmetry
\* Owners may stop acting, and every nonce and accept is then spent.
CHECK_DEADLOCK FALSE
