CONSTANTS
  Devices <- MCDevices
  Trough = 1
  Nobody = nobody
  Size <- MCSize
  InitMax <- MCInitMax
  MaxErrors <- MCErrors
  Sleepy <- MCSaucer
  Leaky <- MCNone
  NumBalls = 2
  MaxProbes = 2
  CoilFails = TRUE
  Surprises = 0
  Multiball = 0
  AutoServe = TRUE
  Effects = TRUE
  Starts = 1
  MaxStarts = 1
SPECIFICATION Spec
INVARIANTS
  TypeOK
  BallsAccounted
  GameGoesOn
PROPERTY
  BallEndsWhenDrained
CHECK_DEADLOCK FALSE
