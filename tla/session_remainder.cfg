SPECIFICATION Spec
CONSTANTS
  Sym = {"A"}
  Prices <- MCPrices
  Qtys <- MCQtysHalf
  StopDistance = 2
  Slip = 1
  FeeDiv = 10
  InitialCash = 60
  Faults <- Partial
  LivePrices = FALSE
  QuotesFail = FALSE
  MaxNew = 1
  MaxOrders = 2
  MaxResets = 0
INVARIANT EveryShareStopped
