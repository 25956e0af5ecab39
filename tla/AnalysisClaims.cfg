SPECIFICATION FairSpec
CONSTANTS
  Accounts = {u1}
  Symbols = {x1}
  Requests = {r1, r2}
  Workers = {w1, w2}
  None = None
  MaxCrashes = 1
INVARIANTS
  CompletedIsFresh
  OffersPerSetup
PROPERTIES
  RequestsEnd
CHECK_DEADLOCK FALSE
