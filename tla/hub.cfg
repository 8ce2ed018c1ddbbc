CONSTANTS
  s1 = s1
  s2 = s2
  Nobody = Nobody
  Subs = {s1, s2}
  Slow = {s2}
  MaxLines = 2
  Window = 1
SPECIFICATION FairSpec
INVARIANT TypeOK
INVARIANT NoWriteAfterReturn
INVARIANT InitNeverMissed
INVARIANT StreamHasNoGaps
INVARIANT InitLostOnlyByOverlap
PROPERTY LeaverIsRemoved
PROPERTY BroadcastEnds
CHECK_DEADLOCK FALSE
