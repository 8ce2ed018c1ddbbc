CONSTANTS
  c1 = c1
  c2 = c2
  Undefined = Undefined
  Conns = {c1, c2}
  BufSize = 2
  Half = 4
  SendCap = 1
  MaxSend <- Ample
  MaxEcho = 0
  Payload = 2
  Window = 2
SPECIFICATION FairTraffic
INVARIANT CompleteMeansClosed
PROPERTY TrafficEnds
CHECK_DEADLOCK FALSE
