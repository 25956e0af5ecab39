SPECIFICATION Spec
CONSTANTS
  Calls = {c1, c2}
  Keys = {k1, k2}
  Reviews = {v1, v2}
  Workers = {}
  Scopes = {{"cancel"}, {"close", "protect"}}
  Stops = {s1, s2}
  None = None
  MaxSequence = 1
SYMMETRY Symmetry
INVARIANTS
  OneAwaiting
  SentAsConfirmed
  CancelledIsTrue
PROPERTIES
  ActionLifecycle
CHECK_DEADLOCK FALSE
