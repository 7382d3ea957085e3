SPECIFICATION FairSpec
CONSTANTS
  Columns <- MCPairColumns
  Rows <- MCPairRows
  ShortColumns <- MCNone
  Opto <- MCPairOpto
  Edge <- MCPairEdge
  Debounce <- MCPairDebounce
  MaxQueued = 1
  TimerHalf = 2
  ShortSeconds = 1
  Second = 1
  MaxPass = 1
INVARIANTS
  QueueConsistent
PROPERTIES
  Settles
