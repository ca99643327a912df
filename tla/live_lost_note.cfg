SPECIFICATION Spec
CONSTANTS
  Messages = {m1, m2}
  Events = {e1}
  Readers = {}
  MaxEntries = 2
  None = None
INVARIANTS
  NotedMessageIsRecorded
