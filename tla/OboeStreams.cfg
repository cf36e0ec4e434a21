SPECIFICATION FairSpec
CONSTANTS
  Apis = {"aaudio", "opensles"}
  Sdks = {27, 30, 31}
  O_MR1 = 27
  R = 30
  MaxStoppers = 2
  MaxNotices = 2
  Directions = {"output", "input"}
  Faults = {"engine", "mixer", "create", "pause", "play", "stop", "enqueue"}
  MaxFaults = 1
INVARIANTS
  NobodyUsesClosed
  SharedObjectsCounted
PROPERTIES
  ImplementsStream
  ClosesEnd
  StopTakesEffect
  ErrorFollowedUp
CHECK_DEADLOCK FALSE
