CONSTANTS
  Identities = {a, b, c}
  Window = 1
  Cap = 2
  MaxOpen = 2
  MaxReturns = 2
  MaxTime = 3
SPECIFICATION Spec
INVARIANTS RecentInOrder SessionsCounted
PROPERTIES CountsEveryReturn CountsOnlyReturns
CHECK_DEADLOCK FALSE
