SPECIFICATION Spec
CONSTANTS
  Requests = {r1, r2}
  Proposals = {p1, p2}
  Keys = {k1, k2}
  Reviews = {v1, v2}
  Workers = {w1}
  Refreshers = {}
  Statuses = {"Filled", "Cancelled"}
  None = None
  ExpiresAt <- Expiry
  ReviewTtl = 1
  MaxTime = 1
SYMMETRY Symmetry
INVARIANTS
  AtMostOnePlacement
  WithdrawnNeverPlaced
  OneOrderPerConfirmation
PROPERTIES
  KeepsPromise
CHECK_DEADLOCK FALSE
