SPECIFICATION MusicSpec
CONSTANTS
  opening = opening
  closing = closing
  anthem = anthem
  effect = effect
  long = long
  single = single
  other = other
  List = {long, single, other}
  Callback = {long, single, other}
  Sound = {opening, closing, anthem, effect}
  NoSound = NoSound
  NoCallback = NoCallback
  NoList = NoList
  UnknownList = UnknownList
  Tracks <- MCTracks
  Effect = {}
  GameThread = {game}
  AudioThread = audio
  MusicFade = 2
  Loads <- MCLongLoads
  DataLen <- MCDataLen
  SeekScale = 2
  PoolSize = 2
  Channel = {"music", "sfx"}
  ChannelOf <- MCChannelOf
  BufLens = {2}
  CrossFades <- MCCrossFades
  FadeIns = {2}
  FadeOuts = {}
  SeekTargets = {}
  CallsDuringCallback = TRUE
  LateCalls = FALSE
INVARIANTS
  NextFollows
CHECK_DEADLOCK FALSE
