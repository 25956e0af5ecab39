SPECIFICATION Spec
CONSTANTS
  Connections = {a1, a2}
  Calls = {j1, j2}
  Proposals = {p1}
  None = None
SYMMETRY Symmetry
INVARIANTS
  UnlockedByLiveKey
PROPERTIES
  ActiveAccountHeld
CHECK_DEADLOCK FALSE
