CONSTANTS
  Devices <- MCDevices
  Trough = 1
  Nobody = nobody
  Size <- MCSize
  InitMax <- MCInitMax
  MaxErrors <- MCErrors
  Sleepy <- MCNone
  Leaky <- MCSaucer
  NumBalls = 2
  MaxProbes = 1
  CoilFails = TRUE
  Surprises = 1
  Multiball = 1
  AutoServe = FALSE
  Effects = FALSE
  Starts = 0
  MaxStarts = 1
SPECIFICATION Spec
INVARIANTS
  KicksCovered
  NoBallForgotten
PROPERTY
  SolenoidSpec
CHECK_DEADLOCK FALSE
