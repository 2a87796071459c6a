SPECIFICATION Spec
CONSTANTS
  cpp = cpp
  lua = lua
  c1 = c1
  m1 = m1
  m2 = m2
  m3 = m3
  m4 = m4
  hcpp = hcpp
  h1 = h1
  h2 = h2
  h3 = h3
  None = None
  Agents = {cpp, lua}
  LuaAgents = {lua}
  Clients = {c1}
  Handlers = {hcpp, h1, h2, h3}
  Msgs = {m1, m2, m3, m4}
  Contents <- FailingContents
  Faults = {"throw", "script", "config", "shutdown", "reply"}
  HomeAgent <- Home
  Primary <- First
INVARIANTS
  TypeOK
  OnePlace
  CounterExact
  ZeroMeansQuiet
  GuardHeldByBuilder
  ThreadsRequested
PROPERTIES
  NoEarlyReturn
  BusSpec
SYMMETRY MsgSymmetry
CHECK_DEADLOCK FALSE
