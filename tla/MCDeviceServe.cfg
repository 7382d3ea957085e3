CONSTANTS
  Devices <- MCDevices
  Trough = 1
  Nobody = nobody
  Size <- MCSize
  InitMax <- MCInitMax
  MaxErrors <- MCErrors
  Sleepy <- MCNone
  Leaky <- MCNone
  NumBalls = 2
  MaxProbes = 1
  CoilFails = FALSE
  Surprises = 0
  Multiball = 0
  AutoServe = TRUE
  Effects = FALSE
  Starts = 0
  MaxStarts = 1
SPECIFICATION FairSpec
PROPERTY
  BallIsServed
CHECK_DEADLOCK FALSE
