SPECIFICATION Spec
CONSTANTS
  WordSize = 64
  MaxSenders = {2, 3}
  ToSend <- MCToSend
  MinSendSizes <- MCMinSendSizes
INVARIANTS
  SplitIsExact
  ResultIsFirstFit
PROPERTIES
  NeverWraps
  Terminates
CHECK_DEADLOCK FALSE
