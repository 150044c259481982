CONSTANTS
  Hub = {a, b}
  Nonce = {n1, n2}
  Attempt = {k1, k2}
  Url = {None, a, b}
  None = None
  MaxTime = 2
SPECIFICATION Spec
INVARIANTS
  TypeOK
  SingleRedemption
PROPERTIES
  OwnerPolicy
SYMMETRY Symmetry
\* Owners may stop acting, and every nonce and accept is then spent.
CHECK_DEADLOCK FALSE
