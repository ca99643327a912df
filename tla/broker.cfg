SPECIFICATION FairSpec
CONSTANTS
  None = None
  Epochs = {1, 2}
  RetryCap = 2
  MaxCalls = 4
INVARIANTS
  TypeOK
  AtMostOneEffectPerKey
PROPERTIES
  ImplementsDesk
  CallsReport
CHECK_DEADLOCK FALSE
