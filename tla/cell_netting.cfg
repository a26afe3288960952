SPECIFICATION NettingSpec
CONSTANTS
  NCells = 2
  TransferPrices = {1}
  FillPrices = {1,2}
  InitCash = 1
  InitPos = 1
  Unallocated = 1
  Budgets <- MCBudgets
  MaxIntents = 3
  MaxUnits = 1
  MaxInFlight = 2
  MaxOrders = 2
INVARIANT NettingTyped
INVARIANT SumsAgree
INVARIANT SalesStayFillable
