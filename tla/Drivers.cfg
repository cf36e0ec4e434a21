SPECIFICATION FairSpec
CONSTANTS
  Built = {"oboe", "alsa", "darwin", "windows", "browser"}
  Ids = 8
  MaxFailures = 2
  Frames = 1
  MaxAsk = 3
  Period = 2
  Capacity = 3
  Buffers = 3
  Retries = 1
  MaxNotices = 3
  Answer = 3
INVARIANTS
  NothingTakenForGranted
PROPERTIES
  ImplementsOutput
  KeepsPlaying
