CONSTANTS
  N = 2
  Iters = 2
  MaxTasks = 2
  Modulus = 8
  Builds = {"atomic"}
SPECIFICATION Spec
INVARIANT CountExact
CHECK_DEADLOCK FALSE
