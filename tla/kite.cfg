CONSTANTS
  Callers = {c1, c2}
  MinInterval = 3
  MaxTime = 5
  MaxAttempts = 4
  BaseDelay = 1
  MaxDelay = 2
  ExpireAfter = 2
SPECIFICATION CallsSpec
INVARIANTS
  EachCallerLimited
  OrdersAccountedFor
PROPERTIES
  TokenLifetime
  BackoffOutlastsInterval
CHECK_DEADLOCK FALSE
