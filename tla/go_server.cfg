CONSTANTS
  c1 = c1
  c2 = c2
  Undefined = Undefined
  Conns = {c1, c2}
  BufSize = 3
  Half = 4
  SendCap = 2
  MaxSend <- Uneven
  MaxEcho = 0
SPECIFICATION FairSpec
INVARIANT TypeOK
INVARIANT NoStaleBytes
INVARIANT RegisteredIsLive
INVARIANT ListedIfDistinct
PROPERTY QuietClientIsReaped
CHECK_DEADLOCK FALSE
