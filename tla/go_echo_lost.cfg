CONSTANTS
  c1 = c1
  c2 = c2
  Undefined = Undefined
  Conns = {c1}
  BufSize = 3
  Half = 4
  SendCap = 2
  MaxSend <- Uneven
  MaxEcho = 3
SPECIFICATION Spec
INVARIANT EchoIsPrefix
CHECK_DEADLOCK FALSE
