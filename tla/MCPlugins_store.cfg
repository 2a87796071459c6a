SPECIFICATION Spec
CONSTANTS
  p = p
  q = q
  app = app
  handler = handler
  v1 = v1
  v2 = v2
  d1 = d1
  d2 = d2
  None = None
  Plugins = {p, q}
  Threads = {app, handler}
  Owner = app
  Versions = {v1, v2}
  Contents = {d1, d2}
  Talkative = {p}
  Writers = {q}
  Sources = {v1}
  MaxDepth = 1
  Offered = {p}
  Latest <- LatestOf
  Archives <- ArchiveVersions
INVARIANTS
  TypeOK
  VersionsAgree
  DataSafe
  CacheOffersTable
PROPERTIES
  ScanListsFound
CONSTRAINTS
  OneRace
  OneBackup
SYMMETRY
  Swap
