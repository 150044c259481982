SPECIFICATION BoundedSpec
CONSTANTS
  None = None
  Normal <- MCNormal
  Tolerance = 3
  Callers = {"c1", "c2", "c3"}
  RowOrder <- MCRowOrder
  Rows <- MCRows
  FirstRows <- MCFirstRows
  Fleeting = {"t2"}
  StarKinds = {"track", "artist"}
  Stray <- MCStray
  MaxStars = 2
INVARIANTS
  NothingStranded
PROPERTIES
  StarsFollowRows
  AnsweredMeansMerged
  EveryCallIsAnswered
