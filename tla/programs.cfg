CONSTANTS
  Cpus = {cpu1, cpu2}
  Nodes = {n1, n2, n3}
  head = head
  KobUsers = {u1, u2}
  KobValues = {0, 1}
  Invalid = Invalid
  Writers = {w1, w2}
  Tasks = {1, 2, 3, 4}
  MaxDepth = 3
  Refused = Refused
  Null = Null
  MaxGen = 3
  Appenders = {a1, a2, a3}
  LineLens = {2, 5, 6, 8}
  BufSize = 6
  FirstAlloc = 2
  Old = Old
  Clients = {c1, c2}
  BufLen = 2
  Clobbered = 1
  Backlog = 1
  NoClient = NoClient
  Sizes = {0, 1, 2, 3, 6, 8, 63}
  Iterations <- MCIterations
  NThreads = 2
  UintValues = 64
  sqrt_of_UINT32_MAX = 8
  DoubleSize = 2
  RunTimes <- MCRunTimes
  MatA <- MCMatA
  MatB <- MCMatB
SPECIFICATION ProgramsSpec
INVARIANTS
  ListWhole
  OopsExplained
  ReadBack
  OopsNeedsReap
  FamilyShown
  RootAfterLeaf
  AppendWhole
  BufferFits
  RoundTrip
  StopAsked
  ProductRight
  NumbersFit
PROPERTIES
  ImplementsPageSet
  HelloWritten
  LinesMultiply
  EachServed
\* The programs end, and the server may wait for a silent client.
CHECK_DEADLOCK FALSE
