SPECIFICATION MusicSpec
CONSTANTS
  opening = opening
  closing = closing
  anthem = anthem
  effect = effect
  long = long
  single = single
  other = other
  List = {long, single, other}
  Callback = {long, single, other}
  Sound = {opening, closing, anthem, effect}
  NoSound = NoSound
  NoCallback = NoCallback
  NoList = NoList
  UnknownList = UnknownList
  Tracks <- MCTracks
  Effect = {effect}
  GameThread = {game}
  AudioThread = audio
  MusicFade = 2
  Loads <- MCLoads
  DataLen <- MCDataLen
  SeekScale = 2
  PoolSize = 2
  Channel = {"music", "sfx"}
  ChannelOf <- MCChannelOf
  BufLens = {2}
  CrossFades <- MCCrossFades
  FadeIns = {2}
  FadeOuts = {}
  SeekTargets = {1}
  CallsDuringCallback = TRUE
  LateCalls = FALSE
INVARIANTS
  OneMusic
  LoopsSound
CHECK_DEADLOCK FALSE
