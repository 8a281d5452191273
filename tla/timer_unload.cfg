CONSTANTS
  N = 1
  CreateFails = FALSE
  MaxTicks = 1
SPECIFICATION FairSpec
PROPERTY UnloadCompletes
CHECK_DEADLOCK FALSE
