SPECIFICATION Spec
CONSTANTS
  MaxLeveragePct = 100
  MaxTotalPct = 100
  StagePct = 100
  MaxPositionPct = 25
  MaxThemePct = 40
  DdReducedAt = 10
  DdNoNewEntryAt = 20
  DdSafeModeAt = 30
  Sym = {"A", "B"}
  ThemeOf <- MCThemeOf
  Prices = {1, 2}
  Qtys = {2, 4}
  InitialCash = 20
  RiskStates = {"NORMAL", "HALT_NEW_ENTRIES", "FULL_BROKER_DISCONNECT"}
  MaxMoves = 2
INVARIANT TypeOK
INVARIANT CapsHold
INVARIANT ExitStaysOpen
PROPERTY LockedUntilRebase
