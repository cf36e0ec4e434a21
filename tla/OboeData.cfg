SPECIFICATION RecordingSpec
CONSTANTS
  Phones <- MCPhones
  Asked <- MCAsked
  Rates = {0, 2, 3}
  FrameCounts = {0, 3}
  NativeRate = 2
  NativeBurst = 2
  L = 21
  M = 23
  O = 26
  O_MR1 = 27
  P = 28
  R = 30
  Capacity = 3
  Burst = 2
  Sizes = {1, 4}
  Patience = {0, 1}
  MaxFrames = 7
  Kinds = {"play", "write", "record", "read"}
  Ratios <- MCRatios
  Blocks = {2, 3}
  Chunk = 2
  ChildBurst = 2
  Calls = {1, 4}
  MaxEntered = 5
INVARIANTS
  OpensOrFails
  MMapOnlyWhereSafe
  FramesInOrder
  InStep
  NothingLost
  AppDecides
PROPERTIES
  CallsEnd
CHECK_DEADLOCK FALSE
