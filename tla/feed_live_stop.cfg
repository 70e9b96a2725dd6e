SPECIFICATION FairSpec
CONSTANTS
    MaxTicks = 3
    MaxQueue = 0
    Finite = FALSE
    Timeouts = TRUE
    Stops = {"feed"}
CHECK_DEADLOCK FALSE
PROPERTY FeedStops
