SPECIFICATION FairSpec
CONSTANTS
  a = a
  b = b
  gui = gui
  kAnyOwner = kAnyOwner
  Nowhere = Nowhere
  Components = {gui, a, b}
  Offers <- ChainOffers
  Writes <- ChainWrites
  MaxOps = 3
CHECK_DEADLOCK FALSE
INVARIANTS NoEcho CurrentUnlessForwarded ListedIsAsked WindowAgrees
PROPERTY Quiet
