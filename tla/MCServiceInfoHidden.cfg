SPECIFICATION Spec
CONSTANTS
  td = td
  ud = ud
  s1 = s1
  s2 = s2
  h1 = h1
  h2 = h2
  d1 = d1
  d2 = d2
  user = user
  client = client
  Unread = Unread
  NewDoc = NewDoc
  Broker = {td, ud}
  Peer <- MCPeer
  Service = {s1, s2}
  Host = {h1, h2}
  Deployment = {d1, d2}
  DeploymentOf <- MCDeploymentOf
  Asker = {client}
  Questions <- MCHiddenQuestions
  Places <- MCListPlaces
  Start <- MCListStart
  MaxMoves = 0
  MaxLooks = 1
  MaxFaults = 1
INVARIANTS
  MissingIsAway
CHECK_DEADLOCK FALSE
