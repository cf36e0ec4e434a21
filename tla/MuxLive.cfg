SPECIFICATION FairSpec
CONSTANTS
  Sound = {"track"}
  NoSound = NoSound
  DataLen <- PoolDataLen
  Callback = {ended}
  NoCallback = NoCallback
  SeekScale = 2
  PoolSize = 2
  Channel = {"music"}
  ChannelOf <- PoolChannelOf
  BufLens = {2}
  CrossFades <- FittingFades
  FadeIns = {2}
  FadeOuts = {0, 3}
  SeekTargets = {}
  CallsDuringCallback = TRUE
  LateCalls = FALSE
PROPERTIES
  ImplementsFairVoices
