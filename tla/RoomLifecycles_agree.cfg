CONSTANTS
  Replicas = {r1, r2}
  TTL = 2
  MaxTime = 7
  MaxDeletes = 3
SPECIFICATION Spec
INVARIANT LifecyclesAgree
CHECK_DEADLOCK FALSE
