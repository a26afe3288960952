SPECIFICATION Spec
CONSTANTS
  c1 = c1
  c2 = c2
  p1 = p1
  p2 = p2
  Cid <- MCCid
  Protective <- MCProtective
  Payload <- MCPayload
  Approvals <- MCApprovals
  NoApproval = NoApproval
  NoPayload = NoPayload
  HasStore = TRUE
  StaleControl = TRUE
  MaxCrashes = 2
INVARIANT TypeOK
INVARIANT NoOrphanOrder
INVARIANT SubmittedOnce
INVARIANT BrokerWorksApproved
INVARIANT OutcomeAgrees
INVARIANT UnknownKeepsHalt
PROPERTY ImplementsOrderOutcome
