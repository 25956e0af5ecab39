SPECIFICATION Spec
CONSTANTS
  Connections = {a1}
  Calls = {j1}
  Proposals = {}
  None = None

INVARIANTS
  RevokedStaysOut
CHECK_DEADLOCK FALSE
