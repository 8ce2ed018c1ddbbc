CONSTANTS
  c1 = c1
  Listener = Listener
  Conns = {c1}
  SendCap = 2
  MaxSend = 6
  BufSize = 3
  MaxEvents = 1
  Faults = TRUE
SPECIFICATION FairSpec
INVARIANT TypeOK
INVARIANT EveryByteAccounted
PROPERTY DropsOnlyUnderBackpressure
PROPERTY ImplementsContract
PROPERTY BufferDrains
CHECK_DEADLOCK FALSE
