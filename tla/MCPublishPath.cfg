SPECIFICATION FairSpec
CONSTANTS
  k1 = k1
  f1 = f1
  p1 = p1
  p2 = p2
  t1 = t1
  t2 = t2
  PairKeys = {k1, f1}
  OwnKeys = {k1}
  Values = {1, 2, 3, 4}
  MaxOps = 4
  Invalid = Invalid
  Absent = Absent
  Peers = {p1, p2}
  Publishers = {t1}
  MaxHandles = 1
CHECK_DEADLOCK FALSE
INVARIANTS TypeOK IndexesAgree CurrentUnlessRaced OnlyWhatIsDue ThreadInPublishOrder
PROPERTIES RegistrationsSurvive CatchesUp
