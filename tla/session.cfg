SPECIFICATION ModesSpec
CONSTANTS
  Sym = {"A", "B"}
  Prices <- MCPrices
  Qtys <- MCQtysBoth
  StopDistance = 2
  Slip = 1
  FeeDiv = 10
  InitialCash = 46
  Faults <- Partial
  LivePrices = FALSE
  QuotesFail = FALSE
  MaxNew = 2
  MaxOrders = 6
  MaxResets = 0
INVARIANT TypeOK
INVARIANT HealthyIsStopped
INVARIANT LedgerFollowsBroker
INVARIANT OpenStopsMatchHoldings
PROPERTY StopOutIsBooked
