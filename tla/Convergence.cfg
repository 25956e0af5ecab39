SPECIFICATION FairSpec
CONSTANTS
  Requests = {r1}
  Proposals = {p1}
  Keys = {k1}
  Reviews = {v1}
  Workers = {w1}
  Refreshers = {f1}
  Statuses = {"Unlisted", "PartiallyFilled", "Filled", "Cancelled", "Rejected"}
  None = None
  ExpiresAt <- Later
  ReviewTtl = 1
  MaxTime = 1
INVARIANTS
  TerminalIsBrokerTruth
PROPERTIES
  ArchivedOnEvidence
  OrdersConverge
  PositionConverges
CHECK_DEADLOCK FALSE
