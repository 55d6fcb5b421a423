CONSTANTS
  Handlers = {h1, h2}
  Forms <- MCForms
  Radix = 10
  Limit = 10
  MaxIndex = 2
  MaxRestarts = 2
  MaxFaults = 1
SPECIFICATION FairSpec
CHECK_DEADLOCK FALSE
INVARIANTS
  InProgressIsOwned
  ExitedMeansDone
  BoardCanBeShown
  ScoresOwnCode
PROPERTIES
  VerdictIsFinal
  NeverReplaced
  AcceptedGetsVerdict
