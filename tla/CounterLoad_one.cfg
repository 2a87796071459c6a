SPECIFICATION Spec
CONSTANTS
  Waiters = {w1}
  MaxSent = 20
INVARIANTS
  LoadTypeOK
  SleepersCanRely
PROPERTIES
  EmptyWaitReturns
  FirstWaitReturns
CHECK_DEADLOCK FALSE
