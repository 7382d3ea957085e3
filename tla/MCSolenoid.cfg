CONSTANTS
  Sols = {0, 1}
  NoSol = none
  PulseTicks = 2
  QueueLen = 3
  Kills = TRUE
SPECIFICATION FairSpec
INVARIANTS
  SyncExclusive
PROPERTIES
  DeferredInOrder
  PulseWaitEnds
