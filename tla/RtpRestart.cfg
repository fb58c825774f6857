SPECIFICATION Spec
CONSTANTS
  Half = 16
  SeqHalf = 4
  Frames = 2
  Silences = {0}
  Window = 3
  Burst = 3
  MaxSent = 8
  MaxHandled = 8
  FirstSeq = {2, 6}
  FirstTime = {29}
  Rewinds = TRUE
INVARIANT RestartAssumed
CHECK_DEADLOCK FALSE
