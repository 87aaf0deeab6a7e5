CONSTANTS
  a = a
  b = b
  Row = {a, b}
  Ops <- MCOps
  Foreign <- MCForeign
  Initial <- MCInitial
  MaxTime = 4
  Copies = 1
  MaxBreaks = 1
  Reloads = TRUE
  EarlyMutations = FALSE
SPECIFICATION Spec
INVARIANTS ShownIsOverlay ConfirmedIsBehind PendingIsAwaited Converges
PROPERTIES PendingIsSettled
\* The mutations of a behaviour are bounded.
CHECK_DEADLOCK FALSE
