SPECIFICATION Spec
CONSTANTS
  a1 = a1
  a2 = a2
  a3 = a3
  n1 = n1
  n2 = n2
  App = App
  None = None
  Agents = {a1, a2, a3}
  Names = {n1, n2}
  Name <- NameOf
  Busy = {a3}
  Ids = {1, 2, 3}
  WaitFirst = TRUE
  ReplicasFail = FALSE
INVARIANTS
  WorkIsComplete
CHECK_DEADLOCK FALSE
