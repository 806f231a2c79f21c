SPECIFICATION FairSpec
CONSTANTS
  Base = 10
  kMagic = 5053
  kVersion = 2
  kMaxPayload = 40
  SizeofComponentInfo = 20
  Messages <- MCMessages
  MaxFrames = 2
CHECK_DEADLOCK FALSE
INVARIANT ReadsWhatWasSent
PROPERTIES AllRead BadFrameEnds
