CONSTANTS
  c1 = c1
  c2 = c2
  Undefined = Undefined
  Listener = Listener
  Conns = {c1, c2}
  SendCap = 1
  MaxSend = 2
  BufSize = 2
  MaxEvents = 2
  Faults = TRUE
SPECIFICATION Spec
SYMMETRY Symmetry
INVARIANT NoLostWakeup
INVARIANT DashboardMirrors
CHECK_DEADLOCK FALSE
