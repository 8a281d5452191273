CONSTANTS
  N = 2
  Iters = 3
  MaxTasks = 2
  Modulus = 8
  Builds = {"plain", "atomic"}
SPECIFICATION FairSpec
INVARIANTS
  TotalBounds
  NoTaskLost
PROPERTY CountingEnds
\* The module is removed, or insmod or rmmod has died.
CHECK_DEADLOCK FALSE
