SPECIFICATION FairSpec
CONSTANTS
  Requests = {r1}
  Proposals = {p1}
  Keys = {k1}
  Reviews = {v1}
  Workers = {w1}
  Refreshers = {}
  Statuses = {"Filled", "Cancelled"}
  None = None
  ExpiresAt <- Expiry
  ReviewTtl = 1
  MaxTime = 1
PROPERTIES
  ActiveSetupExists
CHECK_DEADLOCK FALSE
