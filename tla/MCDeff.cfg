SPECIFICATION FairSpec
CONSTANTS
  scores = scores
  mode = mode
  jackpot = jackpot
  total = total
  quick = quick
  NONE = NONE
  Effects <- MCEffects
  Prio <- MCPrio
  Flags <- MCFlags
  Background <- MCBackground
  Conditions <- MCConditions
  Endings <- MCEndings
  QueueLen = 2
  StartTimeout = 1
  EndTimeout = 1
  Half = 2
  ScrubEvery = 1
  BonusPolls = 1
  MaxExiting = 1
INVARIANTS
  OneEffectOnDisplay
  PauseWhileShown
  QueuedOnce
PROPERTIES
  ExpiredStaysExpired
  DisplayComesBack
