SPECIFICATION MathSpec
CONSTANTS
  MatchIntents = 0
  MatchUnits = 0
  FillIntents = 4
  FillUnits = 3
INVARIANT AllocationIsExact
