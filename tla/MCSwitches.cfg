SPECIFICATION Spec
CONSTANTS
  Columns <- MCDoorColumns
  Rows <- MCDoorRows
  ShortColumns <- MCNone
  Opto <- MCDoorOpto
  Edge <- MCDoorEdge
  Debounce <- MCDoorDebounce
  MaxQueued = 1
  TimerHalf = 4
  ShortSeconds = 1
  Second = 1
  MaxPass = 1
INVARIANTS
  MatrixReadTwice
  PendingIsStable
