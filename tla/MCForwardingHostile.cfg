SPECIFICATION Spec
CONSTANTS
  td = td
  ud = ud
  c1 = c1
  c2 = c2
  r1 = r1
  r2 = r2
  r3 = r3
  near = near
  far = far
  gone = gone
  NoId = NoId
  NoDoc = NoDoc
  Nowhere = Nowhere
  Id = {c1, r1, r2}
  ClientId = {c1}
  Service = {near, far, gone}
  Broker = {td, ud}
  Peer <- MCPeer
  Home <- MCHome
  HasPO = {td}
  Testing = {ud}
  Early = {"po", "service", "broker"}
  Faults = {"retry", "poRetry", "duplicate", "lost", "lookup", "lateLookup", "stale", "po", "empty", "network", "odd", "db", "stop", "protect", "unprotect"}
  MaxFaults = 1
  MaxAnswers = 2
CHECK_DEADLOCK FALSE
INVARIANTS
  TypeOK
  ForwardedRequestsStayOpen
  RunsPerFault
  SuccessMeansRun
