SPECIFICATION FairSpec
CONSTANTS
  p1 = p1
  Client = {c1, c2}
  Proxy = {x}
  Local = local
  Peer = {p1}
  Ranking <- Rankings
  RowId = {1, 2}
  MaxRequests = 2
  Retention = {0, 1}
  LastSecond = 1
  None = None
INVARIANTS
  LogMatchesAnswer
PROPERTIES
  RefusedAfterAll
  ImplementsService
  ClientsAreFreed
CHECK_DEADLOCK FALSE
