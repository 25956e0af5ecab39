SPECIFICATION MCSpec
CONSTANTS
  Opportunities <- SomeOpportunities
  Unit = 4
  LossUnit = 50
  CostUnit = 100
  Platform = 4
  Accounts = {a, b}
  Profiles <- SomeProfiles
  Terms <- SomeTerms
  Equities = {94, 100}
  MaxAge = 0
  None = None
  Bars <- SomeBars
  Signals <- SomeSignals
  Length = 5
  Warmup = 1
  Cooldown = 1
  Tick = 2
  Linear = TRUE
  NoValue = NoValue
SYMMETRY AccountSymmetry
INVARIANTS
  LimitsHold
  LargestAffordable
  CautionOnlyReduces
  CautionNeverRaises
  OrdersFitMandate
  BreachStopsRisk
  TradesAttainable
  EveryMoveOnce
CHECK_DEADLOCK FALSE
