SPECIFICATION Spec
CONSTANTS
  k1 = k1
  k2 = k2
  t1 = t1
  t2 = t2
  Threads = {t1}
  Keys = {k1, k2}
  NoKey = NoKey
  kMaxOutboxFrames = 2
  MaxSends = 4
CHECK_DEADLOCK FALSE
INVARIANT ConvergesOnCurrent
