SPECIFICATION FairSpec
CONSTANTS
  None = None
  Clients = {t1, t2}
  SessionIds = {s1, s2, s3}
  Events = {e1, e2}
  MaxSessions = 1
  MaxTurns = 2
  MaxTotalTurns = 2
  MaxRequests = 5
INVARIANTS
  CapOvershootIsBounded
  PendingEventsIsExact
PROPERTIES
  ArrivedEventIsApplied
\* The requests are used up.
CHECK_DEADLOCK FALSE
