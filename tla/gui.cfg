CONSTANTS
  f1 = f1
  f2 = f2
  Nobody = Nobody
  FDs = {f1}
  MaxFeed = 2
  MaxOpen = 2
  Cap = 2
  MaxClicks = 1
SPECIFICATION FairSpec
INVARIANT TypeOK
INVARIANT PanicHasCause
 
PROPERTY ClosedIsUnlisted
CHECK_DEADLOCK FALSE
