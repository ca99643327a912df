SPECIFICATION Spec
CONSTANTS
  None = None
  OpenEnd = None
  Rules <- PolicyRules
  BoundaryInclusivity <- PolicyBoundaryInclusivity
  OverrideMap <- PolicyOverrideMap
  LoopGuardThreshold = 3
  AgentRepetitionThreshold = 2
  UnresponsiveAttempts = 2
  Captains = {c1}
  MaxEpoch = 2
  MaxRepeats = 2
  InitialDelays <- EdgeDelays
  OverrideLists <- NoOverrideOrOutage
  EtaUpdates <- EdgeEtas
  Intents <- KeyIntents
  MaxInFlight = 2
INVARIANTS
  TypeOK
  RecordIsConsistent
  OneTicketPerHandoff
  TicketModeFollowsOverrides
  AwaitedDispatchIsPermitted
  NoOpenSessionPastThreshold
  NoDispatchDuringOutage
PROPERTIES
  TerminalLatch
  HumanRequestIsSacred
  CancellationEscalates
  ReassignmentNeedsConsent
