SPECIFICATION Spec
CONSTANTS
  Half = 16
  SeqHalf = 4
  Frames = 2
  Silences = {0, 3}
  Window = 3
  Burst = 3
  MaxSent = 8
  MaxHandled = 8
  FirstSeq = {6}
  FirstTime = {29}
  Rewinds = FALSE
INVARIANTS DropsAccountFor GapIsTrue
PROPERTY RefusedIsLate
CHECK_DEADLOCK FALSE
