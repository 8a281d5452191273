CONSTANTS
  Leaders = {l1, l2}
  Followers = {f1, f2}
  Objs = {o1, o2}
  Size = 2
  CanCrash = {l1, l2, f1, f2}
  None = None
SPECIFICATION FairSpec
INVARIANTS
  CopyComplete
  AckMeansCopied
  NoStaleAck
PROPERTY HandshakeEnds
\* The processes end, or wait for one that was killed.
CHECK_DEADLOCK FALSE
