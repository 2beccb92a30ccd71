SPECIFICATION FairSpec
CONSTANTS
  MaxAttempts = 3
  ReplyLimit = 2
  MaxUpdates = 3
  MaxFaults = 2
INVARIANTS
  NothingForgotten
  AttemptsAreBounded
  RepeatsAtMostOne
PROPERTIES
  SettlesInOrder
  EverySettled
