SPECIFICATION Spec
CONSTANTS
  Waiters = {w1, w2}
  MaxSent = 3
PROPERTIES
  EmptyWaitReturns
CHECK_DEADLOCK FALSE
