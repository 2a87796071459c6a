SPECIFICATION FairSpec
CONSTANTS
  cpp = cpp
  lua = lua
  c1 = c1
  m1 = m1
  m2 = m2
  m3 = m3
  m4 = m4
  hcpp = hcpp
  h1 = h1
  h2 = h2
  h3 = h3
  None = None
  Agents = {lua}
  LuaAgents = {lua}
  Clients = {c1}
  Handlers = {h1}
  Msgs = {m1, m2}
  Contents <- LeakContents
  Faults = {}
  HomeAgent <- Home
  Primary <- First
PROPERTIES
  WaitReturns
CHECK_DEADLOCK FALSE
