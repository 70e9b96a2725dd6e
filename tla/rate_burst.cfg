CONSTANTS
  Callers = {c1, c2}
  MinInterval = 3
  MaxTime = 6
SPECIFICATION Spec
INVARIANT RateLimited
CHECK_DEADLOCK FALSE
