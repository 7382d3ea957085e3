SPECIFICATION Spec
CONSTANTS
  MaxCredits = 3
  UnitsPerCredit = 2
  UnitsPerBonus = 4
  BonusCredits = 1
  CoinUnits = {1, 3}
  Locks = TRUE
  ByteSize = 8
  MaxInserted = 9
  MaxLosses = 2
  Builds = 2
INVARIANT
  ResetOnlyWhenTorn
