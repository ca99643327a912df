SPECIFICATION Spec
CONSTANTS
  None = None
  Packs <- CandidatePacks
  Delays <- SampleDelays
INVARIANTS
  PinnedTableIsUnambiguous
  PinnedTableCoversDelays
  DeclaredEdgeHasOneOwner
\* A pack is loaded once.
CHECK_DEADLOCK FALSE
