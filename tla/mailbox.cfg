SPECIFICATION Spec
CONSTANTS
  None = None
  Orders = {a, b}
  MaxSends = 5
INVARIANTS
  AppliedInArrivalOrder
  OneDrainPerOrder
  EffectsReachOneCaller
\* The sends are used up.
CHECK_DEADLOCK FALSE
