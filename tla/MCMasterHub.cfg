SPECIFICATION FairSpec
CONSTANTS
  c1 = c1
  c2 = c2
  c3 = c3
  kAnyOwner = kAnyOwner
  Components = {c1, c2, c3}
  Ids = {1, 2, 3}
  Seed <- MCSeed
  Desired = {2, kAnyOwner}
CHECK_DEADLOCK FALSE
INVARIANTS SessionsAgree ViewsSettle AnnouncementsFit
PROPERTY ViewsConverge
