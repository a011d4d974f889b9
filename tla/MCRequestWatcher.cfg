SPECIFICATION FairSpec
CONSTANTS
  i1 = i1
  i2 = i2
  i3 = i3
  i4 = i4
  Id <- MCId
  MaxErrors = 2
CHECK_DEADLOCK FALSE
INVARIANTS
  TypeOK
  OneChain
  AnsweredOnce
  WatchedUntilAnswered
PROPERTIES
  FinishedIsAnswered
