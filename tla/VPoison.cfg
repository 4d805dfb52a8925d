SPECIFICATION Spec
CONSTANTS
  None = None
  outer = outer  nested = nested  c1 = c1  c2 = c2
  Initial <- MCInitial
  Outer = {outer}
  Inner = {nested}
  Contents = {c1, c2}
  MaxIds = 9
  MaxEdits = 0
  MaxCalls = 2
  MaxCrashes = 1
INVARIANT PendingReplays
CHECK_DEADLOCK FALSE
