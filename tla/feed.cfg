SPECIFICATION ReplaySpec
CONSTANTS
    MaxTicks = 4
    MaxQueue = 2
    Finite = TRUE
    Timeouts = TRUE
    Stops = {"feed", "producer", "consumer"}
    Instruments = {"NIFTY", "BANKNIFTY"}
    Instrument = "NIFTY"
    Times = {1, 2}
CHECK_DEADLOCK FALSE
INVARIANTS
    UnfinishedCounts
    StreamInOrder
    LoadsExactlyValid
PROPERTIES
    FeedStopsInTime
    ProducerStops
    FileDelivered
    ImplementsTickStream
