CONSTANTS
  Messages = {m1, m2}
  Events = {e1}
  Readers = {r1}
  MaxEntries = 4
  None = None
SPECIFICATION Spec
INVARIANTS
  HeardMessagesAreKept
  ReportIsOwnTurn
  TraceShowsCauseWithEffect
