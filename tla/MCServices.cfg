SPECIFICATION MCSpec
CONSTANTS
  None = None
  Unused = Unused
  Gone = Gone
  Idle = Idle
  Failed = Failed
  User = {"1", "2", "3"}
  Name = {"root", "ann", "__system__"}
  System = "__system__"
  Configs <- MCConfigs
  Invite = {"i"}
  Request = {"r", "s"}
  Key = {1, 2, 3}
  Cover = {"s", "b"}
  Poison = {"p"}
  Bytes <- MCBytes
  Cap = {0, 2}
  Fetcher = {"f", "g"}
  Torn = "torn"
  Ttl = 2
  LegTimeout = 1
  Threshold = 2
  Candidates <- MCCandidates
  LastTick = 4
  Speaker = {"a", "b"}
  Group <- MCGroups
  MaxAnswers = 2
  Length = 2
  Modes <- MCModes
  Failing = {"play", "start", "next", "pause"}
  Disturbances = 2
  Manual = {"m"}
  Limit = {0, 1}
  MaxStarts = 3
INVARIANTS
  TypeOK
  OneAccountPerInvite
  DiskWithinCap
  HitsAreTrue
  FaultShows
  RunningRowsAreSyncs
PROPERTIES
  AdminRemains
  FailsOnlyForDeadActor
  Recovers
  ListSettles
  NoStutter
  EndIsNoticed
CHECK_DEADLOCK FALSE
