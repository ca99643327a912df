SPECIFICATION FairSpec
CONSTANTS
  None = None
  OpenEnd = None
  Rules <- PolicyRules
  BoundaryInclusivity <- PolicyBoundaryInclusivity
  OverrideMap <- PolicyOverrideMap
  LoopGuardThreshold = 3
  AgentRepetitionThreshold = 2
  UnresponsiveAttempts = 2
  Captains = {c1}
  MaxEpoch = 1
  MaxRepeats = 6
  InitialDelays <- TalkDelays
  OverrideLists <- NoOverrideOrOutage
  EtaUpdates <- TalkDelays
  Intents <- AllIntents
  MaxInFlight = 2
INVARIANTS
  StallIsBounded
PROPERTIES
  ToolWaitEnds
