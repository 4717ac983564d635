SPECIFICATION Spec
CONSTANTS
  Main = Main
  NoServer = NoServer
  NoVM = NoVM
  Servers = {s1, s2}
  Https = {s2}
  Conns = {c1, c2}
  MaxServers = 2
  MaxResponses = 2
  MaxListens = 2
  Creators = {Main, c1}
  Closers = {c1}
  Allowed = {}
INVARIANTS
  ResponseOwnership
  OpenServersServe
  CloseStopsAccepting
PROPERTIES
  CallsReturnAndClientsLeave
CHECK_DEADLOCK FALSE
