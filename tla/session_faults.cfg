SPECIFICATION Spec
CONSTANTS
  Sym = {"A"}
  Prices <- MCPrices
  Qtys <- MCQtys
  StopDistance = 2
  Slip = 1
  FeeDiv = 100
  InitialCash = 44
  Faults <- AllFaults
  LivePrices = TRUE
  QuotesFail = TRUE
  MaxNew = 1
  MaxOrders = 4
  MaxResets = 1
INVARIANT StopsNeverOversell
INVARIANT UnknownEntriesBounded
