SPECIFICATION Spec
CONSTANTS
  Sound = {"track", "empty"}
  NoSound = NoSound
  DataLen <- PoolDataLen
  Callback = {ended}
  NoCallback = NoCallback
  SeekScale = 2
  PoolSize = 2
  Channel = {"music"}
  ChannelOf <- PoolChannelOf
  BufLens = {2}
  CrossFades <- AnyFades
  FadeIns = {2}
  FadeOuts = {0, 3}
  SeekTargets = {1}
  CallsDuringCallback = TRUE
  LateCalls = FALSE
INVARIANTS
  NoStaleCallback
  FramesAligned
  OnlyLoopsPanic
CHECK_DEADLOCK FALSE
