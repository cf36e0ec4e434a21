SPECIFICATION FairSpec
CONSTANTS
  Parts = {"mixer", "dynamic", "load", "effects", "scheduler"}
  one = one
  three = three
  four = four
  Sound = {one, three, four}
  NoSound = NoSound
  DataLen <- MCDataLen
  Callback = {}
  NoCallback = NoCallback
  SeekScale = 4
  BufLens = {2, 4, 10}
  CrossFades = {0, 2, 4, 6, 8}
  FadeOuts = {0, 3, 6}
  SeekTargets = {0, 1, 3, 4}
  Dynamic = {engine, rain}
  Nil = Nil
  Thread = {game}
  MaxLength = 3
  battle = battle
  town = town
  first = first
  second = second
  third = third
  List = {battle, town}
  Track = {first, second, third}
  ListOf <- MCListOf
  Workers = 2
  Player = {game, script}
  Effect = {1, 2}
  Weights <- MCWeights
  Throttles <- MCThrottles
  Throttle <- MCThrottle
  Never <- MCNever
  MaxTime = 5
  Registry <- MCRegistry
  Path = {"a", "b"}
  Late = 1
  MaxTurns = 3
  MaxTickets = 4
INVARIANTS
  ClosedFormExact
PROPERTIES
  Follows
  HeardAsAsked
  ListsPublished
  LoadReturns
  EffectsPlayed
  PlayedInTime
CHECK_DEADLOCK FALSE
