SPECIFICATION Spec
CONSTANTS
  Sound = {"track"}
  NoSound = NoSound
  DataLen <- PoolDataLen
  Callback = {ended}
  NoCallback = NoCallback
  SeekScale = 2
  PoolSize = 1
  Channel = {"music"}
  ChannelOf <- PoolChannelOf
  BufLens = {2}
  CrossFades <- FittingFades
  FadeIns = {2}
  FadeOuts = {0, 3}
  SeekTargets = {0}
  CallsDuringCallback = TRUE
  LateCalls = TRUE
PROPERTIES
  OnlyPlayRevives
