CONSTANTS
  N = 3
  CreateFails = TRUE
  MaxTicks = 2
SPECIFICATION FairSpec
INVARIANTS
  TimerSafe
  ItersBounded
  ThreadsGone
PROPERTY StopHeard
\* A thread that missed its stop sleeps for good, and mod_exit with it.
CHECK_DEADLOCK FALSE
