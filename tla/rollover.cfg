SPECIFICATION RolloverSpec
CONSTANTS
    Expiries = {2, 6, 11, 15, 21}
    RolloverDays = 3
    LastDay = 25
INVARIANTS NeverHoldsExpired NoContractSkipped
PROPERTY RollsForward
CHECK_DEADLOCK FALSE
