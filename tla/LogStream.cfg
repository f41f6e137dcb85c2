SPECIFICATION LogSpec
CONSTANTS
  Watcher = {w1, w2}
  Cap = 2
  Buffer = 2
  MaxLines = 4
INVARIANTS
  InOrderAndOnce
  MissesOnlyWhenFull
  NeverSendsOnClosed
PROPERTIES
  FollowsTheLog
  LeaversAreForgotten
CHECK_DEADLOCK FALSE
