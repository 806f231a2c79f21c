SPECIFICATION FairSpec
CONSTANTS
  m1 = m1
  m2 = m2
  k1 = k1
  k2 = k2
  f1 = f1
  f2 = f2
  s1 = s1
  s2 = s2
  Metas = {m1, m2}
  Targets = {k1, k2}
  UserKeys = {k1}
  Fns = {f1}
  NoFn = NoFn
  Nowhere = Nowhere
  Absent = Absent
  Strands = {s1, s2}
  MaxWrites = 3
  MaxCalls = 3
CHECK_DEADLOCK FALSE
INVARIANTS RegistrationsOwned FollowsMetaPair
PROPERTY CatchesOn
