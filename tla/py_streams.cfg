CONSTANTS
  v1 = v1
  v2 = v2
  c1 = c1
  c2 = c2
  Nobody = Nobody
  Viewers = {v1}
  Clients = {c1, c2}
  QueueSize = 1
  Window = 1
  Backlog = 1
  MaxLines = 2
SPECIFICATION FairSpec
INVARIANT StreamHasNoGaps
INVARIANT LeakIsShed
PROPERTY HangupFreesServer
PROPERTY UnchokedIsRead
CHECK_DEADLOCK FALSE
