SPECIFICATION ModesFairSpec
CONSTANTS
  MaxPlayers = 2
  BallsPerGame = 2
  MaxEbs = 1
  MaxEbsPerBip = 2
  TiltWarnings = 2
  BuyIn = TRUE
  BuyinTimeout = 1
  MaxCredits = 2
  MaxCoins = 2
  MaxLive = 2
  Untimely = {"slam"}
  mb1 = mb1
  mb2 = mb2
  Mbs <- MCMbs
  InitTimer = 1
  TimeAdded = 1
  ByteSize = 3
INVARIANTS
  ModesTypeOK
  LocalsArePlayers
  EbLimit
  PlayersPaid
  CountMatches
  ModeHasTask
  NoModeOutsidePlay
PROPERTIES
  TurnsPlayed
  EveryPlayerEnds
  ExitBeforeNextTurn
  GameEnds
