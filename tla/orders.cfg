SPECIFICATION FairSpec
CONSTANTS
    a = a
    b = b
    nifty = nifty
    gold = gold
    NoCall = NoCall
    Ids <- MCIds
    Instruments <- MCInstruments
    Orders <- MCOrders
    Requests <- ReusedId
    MaxAttempts = 2
    Unreliable = TRUE
    MaxRestarts = 1
CHECK_DEADLOCK FALSE
INVARIANTS
    AtMostOneFill
    SameFillReturned
    FilledIsExecuted
    BookMatchesBroker
    FillIsForTheOrder
PROPERTIES
    FilledForGood
    CallEnds
    ImplementsExactlyOnce
