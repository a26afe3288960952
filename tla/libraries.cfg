SPECIFICATION LibSpec
CONSTANTS
  MatchIntents = 4
  MatchUnits = 3
  FillIntents = 3
  FillUnits = 7
  Days = 4
  Moves <- MCMoves
  Ids = {"v", "w", "x", "y"}
  StressPct = 25
  TailPcts = {25, 40, 50, 60}
  BlockCounts = {2, 3}
  LeastBlock = 2
  Factor = 3
  Edges <- MCEdges
  Capitals = {0, 1, 3}
  Cells = {"a", "b", "c", "d"}
  Feeds = {"f", "g", "h"}
  MinScore = 1
  Base = 3
  Floor = 1
  Steps <- MCSteps
  Day = 1
  After <- MCAfter
  Track = {"1h", "1w"}
  Extended = {"1m", "3m"}
  Order <- MCOrder
  Thr = 1
  Index <- MCIndex
  Window = 2
  Contrib <- MCContrib
  MaxContrib = 6
  MaxTouch = 2
  Alphas = {"a", "b"}
  MinShadow = 2
  Returns <- MCContrib
  MaxShadow = 3
  People = {"nobody", "human"}
  Bars = {6, 7, 8, 9, 10, 11, 12, 13, 14, 15, 16, 17, 18, 19, 20, 24, 25}
  MinTrades = 6
  Service = {"feed", "broker"}
  Stale = 1
  MaxTime = 2
  MaxFlight = 2
  MaxFault = 2
  NSymbols = 2
  Initial = 5
  Quotes = {1, 2}
  Fee = 1
  Ratios <- MCRatios
  MaxBook = 4
  MaxDay = 4
  MaxPut = 3
  Names = {"s", "t"}
  Budget = 2
  MaxRisk = 2
  Headlines = {"h", "k"}
  Tickers = {"s"}
  Tiers = {1, 6}
  NewsWindow = 1
  LastNews = 3
  MaxBatch = 2
  Cell = {"a", "b"}
  Sym = {"X", "Y"}
  Plans <- MCPlans
  MaxQty = 2
  MaxExits = 2
INVARIANT CellMathIsExact
INVARIANT EstimatesArePrudent
INVARIANT CapitalIsPrudent
INVARIANT VerdictsOfThePath
INVARIANT ProductionIsEarned
INVARIANT TroubleIsSeen
INVARIANT MoneyAddsUp
INVARIANT GuardSeesThePosition
INVARIANT NewsOncePerWindow
INVARIANT StopsTyped
INVARIANT NoDoubleClaim
INVARIANT StopCanFire
PROPERTY HistoryIsKept
CHECK_DEADLOCK FALSE
