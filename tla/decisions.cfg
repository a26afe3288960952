SPECIFICATION Spec
CONSTANTS
  Sym = {"A", "B"}
  MaxNew = 1
  FlawSets <- MCFlawSets
INVARIANT NothingUnaccounted
INVARIANT TraceableUnlessCut
INVARIANT OnlyPassedIsSent
INVARIANT UnprotectedIsReported
