CONSTANTS
  Quotes <- MCQuotes
  Prices <- MCPrices
  OrderSizes = {1, 2, 3, 4, 5, 6}
  Multiplier = 3
  MaxNet = 3
  MaxFills = 5
  BarCount = 6
  Capital = 100000
  SlippageParts = 12
  Scale = 216
  Brokerage = 40
  SttRate = 5
  ExchangeRate = 4
  SebiRate = 2
  StampRate = 3
  GstRate = 108
SPECIFICATION RunSpec
INVARIANTS
  Reconciled
  EquityIsMoney
  SlippageIsTheDifference
CHECK_DEADLOCK FALSE
