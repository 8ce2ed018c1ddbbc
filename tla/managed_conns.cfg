CONSTANTS
  r1 = r1
  r2 = r2
  r3 = r3
  NoConn = NoConn
  Calls = {r1, r2, r3}
  Sizes <- PayloadSizes
  Cap = 2
  BufSize = 2
SPECIFICATION FairSpec
INVARIANT OwnedOnce
PROPERTY SendIsAnswered
PROPERTY CloseFreesSenders
CHECK_DEADLOCK FALSE
