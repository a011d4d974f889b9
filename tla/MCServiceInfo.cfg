SPECIFICATION FairSpec
CONSTANTS
  td = td
  ud = ud
  s1 = s1
  s2 = s2
  h1 = h1
  h2 = h2
  d1 = d1
  d2 = d2
  user = user
  client = client
  Unread = Unread
  NewDoc = NewDoc
  Broker = {td, ud}
  Peer <- MCPeer
  Service = {s1}
  Host = {h1, h2}
  Deployment = {d1}
  DeploymentOf <- MCDeploymentOf
  Asker = {user, client}
  Questions <- MCQuestions
  Places <- MCPlaces
  Start <- MCStart
  MaxMoves = 1
  MaxLooks = 1
  MaxFaults = 1
INVARIANTS
  TypeOK
  NothingInvented
  DuplicatesNeedARace
  MissingWasAway
PROPERTIES
  QuestionsAnswered
  StaleIsCorrected
CHECK_DEADLOCK FALSE
