SPECIFICATION Spec
CONSTANTS
  Executions = {e1, e2}
  MaxAttempts = 2
  None = None
  Handlers = {h1, h2}
  Families = {trend, carry}
  Reasons = {risky, pricey}
  Teaching = {risky}
  MinCount = 2
  MaxRows = 2
INVARIANTS
  ToldInOrder
  ToldIsTrue
  LearnedIsCurrent
PROPERTIES
  SettledStays
  DispatchedRunsEnd
CHECK_DEADLOCK FALSE
