SPECIFICATION Spec
CONSTANTS
    TrendWeight = 4
    VolatilityWeight = 3
    SentimentWeight = 3
    RiskOn = 3
    RiskOff <- MCRiskOff
    BreakerVolatility = 10
    Unit = 4
    Trends <- MCTrends
    Volatilities = {0, 4, 9, 10, 14}
    Sentiments <- MCSentiments
    MaxBars = 3
INVARIANTS LogTellsTheRegime OneAlarmPerSpell WorseIsNeverBolder
CHECK_DEADLOCK FALSE
