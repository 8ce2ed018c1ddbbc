CONSTANTS
  c1 = c1
  c2 = c2
  Listener = Listener
  Conns = {c1, c2}
  SendCap = 1
  MaxSend = 2
  BufSize = 2
  MaxEvents = 2
  Faults = TRUE
SPECIFICATION FairSpec
PROPERTY ImplementsContract
PROPERTY InputIsRead
PROPERTY HangupIsClosed
PROPERTY DialIsAccepted
CHECK_DEADLOCK FALSE
