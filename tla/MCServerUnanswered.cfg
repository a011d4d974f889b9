SPECIFICATION FairSpec
CONSTANTS
  c1 = c1
  c2 = c2
  c3 = c3
  other = other
  Nobody = Nobody
  Conn = {c1, c2, c3}
  Call = {c1, c2, c3, other}
  Asks <- MCAsks
  Code = {200, 404}
  Retries = 1
  MaxFaults = 2
CONSTRAINT OthersAlone
PROPERTIES
  ResultIsAnswered
CHECK_DEADLOCK FALSE
