SPECIFICATION EvalSpec
CONSTANTS
  None = None
  OpenEnd = None
  Rules <- PolicyRules
  BoundaryInclusivity <- PolicyBoundaryInclusivity
  OverrideMap <- PolicyOverrideMap
  LoopGuardThreshold = 3
  AgentRepetitionThreshold = 2
  UnresponsiveAttempts = 2
  Captains = {c1}
  OriginalCaptain = c0
  MaxEpoch = 3
  MaxRepeats = 4
  MerchantTiers <- SuiteTiers
  InitialDelays <- SuiteDelays
  OverrideLists <- SuiteOverrides
  Intents <- AllIntents
  InjectedEvents <- SuiteEvents
  Scenarios <- ShippedScenarios
  MaxArmed = 1
  MaxTurns = 6
INVARIANTS
  SuiteHoldsForEveryMerchant
  GenerationEventsLand
PROPERTY
  RunsEnd
\* A collected run stops.
CHECK_DEADLOCK FALSE
