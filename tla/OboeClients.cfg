SPECIFICATION FairSpec
CONSTANTS
  Parts = {"duplex", "tuner", "place", "hint", "even", "resampler", "samples", "graph", "ramp", "loader"}
  CallbacksToDrain = 2
  CallbacksToDiscard = 2
  Cushions = {0, 1}
  Minimums = {0, 1, 2}
  InputCapacity = 6
  Jitter = 1
  MaxStarts = 2
  IdleCount = 2
  MinimumSizes = {1, 2}
  Maximum = 4
  Capacity = 5
  Increment = 1
  MaxRequests = 3
  Width = 8
  QueueSize = 2
  MaxMillis = 11
  MaxLooks = 5
  MaxClosings = 3
  Period = 5
  PartToUse = 4
  Lateness = 1
  Works = {0, 3, 7}
  Breaks = {2, 9}
  MaxCalls = 5
  Rates <- MCRates
  TapCounts = {2, 4, 8}
  Primes <- MCPrimes
  MaxCoefficients = 24
  MaxFrames = 12
  Bits <- MCBits
  Mantissa = 5
  Paths <- MCPaths
  Frames = 2
  Memory = {0, 9}
  Graphs <- MCGraphs
  Buffer = 2
  Largest = 3
  MaxReads = 2
  Full = 216
  Lengths = {0, 2, 3}
  MaxPull = 2
  MaxTargets = 3
  Threads = {app, other}
  P = 28
  Q = 29
  R = 30
  S = 31
  S_V2 = 32
  U = 34
  Levels = {27, 31}
  Workarounds = TRUE
INVARIANTS
  FreshInput
  SessionsBounded
  ReadFollowsPlay
  LoadLeavesTime
  FilterInPlace
  SamplesKept
  OncePerPull
  LinkedBeforeCalled
PROPERTIES
  GlitchesEnd
CHECK_DEADLOCK FALSE
