CONSTANTS
  Hub = {a, b}
  Nonce = {n1, n2}
  Attempt = {k1, k2}
  Url = {None}
  None = None
  MaxTime = 1
SPECIFICATION Spec
PROPERTIES
  RejoinsOnlyByLaterInvitation
\* Owners may stop acting, and every nonce and accept is then spent.
CHECK_DEADLOCK FALSE
