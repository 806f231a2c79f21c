SPECIFICATION FairSpec
CONSTANTS
  k1 = k1
  k2 = k2
  s1 = s1
  s2 = s2
  w1 = w1
  Run = Run
  Keys = {k1}
  Scopes = {"one", "any"}
  Subscribers = {s1, s2}
  Writers = {w1}
  MaxPending = 2
  MaxCalls = 3
CHECK_DEADLOCK FALSE
INVARIANTS NoLeakedChannel FramesAccounted HeldIsAsked
PROPERTIES HeldGetsAsked CloseEnds
