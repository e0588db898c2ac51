SPECIFICATION FairSpec
CONSTANTS
  Depth = 2
  LaneCount = 2
  Bytes = {0, 1}
  BusAddresses = {0, 1, 2}
  Images <- SmallImages
  MaxResets = 1
  None = None
INVARIANTS
  AckMatchesTransfer
  AnswerIsOwn
  ImageKept
PROPERTIES
  StrobeAnswered
  ServesMemory
