SPECIFICATION FairSpec
CONSTANTS
  Calls = {c1}
  Keys = {k1}
  Reviews = {v1}
  Workers = {w1}
  Scopes = {{"cancel"}, {"close", "protect"}}
  Stops = {s1, s2}
  None = None
  MaxSequence = 1
PROPERTIES
  EffectsComplete
  CancellingResolves
CHECK_DEADLOCK FALSE
