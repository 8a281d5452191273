CONSTANTS
  PerPage = 2
  MaxStructs = 19
  Width = 5
  Senders = {s1, s2}
  Limit = 2
  MaxSend = 3
  MaxSize = 4
  Values = {0, 2, 4}
  Behind <- BehindValues
SPECIFICATION StudiosSpec
INVARIANTS
  WritesInside
  PagesClean
  PrintedExact
  LostOnlyLast
  SortInv
PROPERTIES
  UnloadEnds
  ReceiverEnds
\* The programs end, and a receiver may wait for a lost signal.
CHECK_DEADLOCK FALSE
