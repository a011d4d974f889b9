SPECIFICATION FairSpec
CONSTANTS
  td = td
  ud = ud
  c1 = c1
  c2 = c2
  r1 = r1
  r2 = r2
  r3 = r3
  near = near
  far = far
  gone = gone
  NoId = NoId
  NoDoc = NoDoc
  Nowhere = Nowhere
  Id = {c1, r1, r2}
  ClientId = {c1}
  Service = {far}
  Broker = {td, ud}
  Peer <- MCPeer
  Home <- MCHome
  HasPO = {td, ud}
  Testing = {}
  Early = {"broker"}
  Faults = {}
  MaxFaults = 1
  MaxAnswers = 2
CHECK_DEADLOCK FALSE
PROPERTIES
  EventuallyAnswered
