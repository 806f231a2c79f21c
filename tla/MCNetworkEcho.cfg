SPECIFICATION NetSpec
CONSTANTS
  a = a
  b = b
  kAnyOwner = kAnyOwner
  Components = {a, b}
  Offers <- MutualOffers
  Writes <- OwnWrites
  MaxOps = 3
CHECK_DEADLOCK FALSE
INVARIANT OnlyOwnersSend
