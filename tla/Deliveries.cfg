SPECIFICATION MCSpec
CONSTANTS
  Proposals = {p1, p2}
  Devices = {d1, d2}
  None = None
  MaxAttempts = 2
  RetryLimit = 1
  MaxEvents = 1
  Early = p1
  Gone = d1
INVARIANTS
  DeliveredIsTrue
  PushesBounded
PROPERTIES
  FailedIsRetried
  ReceiptSettles
CHECK_DEADLOCK FALSE
