SPECIFICATION FairSpec
CONSTANTS
  None = None
  OpenEnd = None
  Rules <- PolicyRules
  BoundaryInclusivity <- PolicyBoundaryInclusivity
  OverrideMap <- PolicyOverrideMap
  LoopGuardThreshold = 3
  AgentRepetitionThreshold = 2
  UnresponsiveAttempts = 2
  Captains = {c1}
  OriginalCaptain = c0
  MaxEpoch = 4
  MaxRepeats = 2
  MerchantTiers <- GoldAndSilver
  InitialDelays <- ReassignBand
  OverrideLists <- NoOverrideOrOutage
  Intents <- TurnIntents
  InjectedEvents <- Injections
  MaxArmed = 2
  MaxTurns = 2
INVARIANTS
  NoTurnEndsAwaiting
  TicketsMatchHandoff
PROPERTIES
  TurnsEnd
  ImplementsSession
CHECK_DEADLOCK FALSE
