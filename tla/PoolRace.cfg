SPECIFICATION Spec
CONSTANTS
  Sound = {"long", "short"}
  NoSound = NoSound
  DataLen <- RaceDataLen
  NoCallback = NoCallback
  GameThread = {game, script}
  PoolSize = 2
  BufLen = 2
PROPERTIES
  HeardToTheEnd
CHECK_DEADLOCK FALSE
