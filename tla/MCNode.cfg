SPECIFICATION FairSpec
CONSTANTS
  w1 = w1
  w2 = w2
  w3 = w3
  w4 = w4
  p1 = p1
  p2 = p2
  Workers = {w1, w2, w3, w4}
  Peers = {p1, p2}
  MaxHandles = 5
CHECK_DEADLOCK FALSE
INVARIANTS TakenDownWhole WildcardAgrees
PROPERTIES DestroyEnds Connects
