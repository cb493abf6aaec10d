SPECIFICATION BooksSpec
CONSTANTS
  Prices <- MCPrices
  WinChances <- MCWinChances
  RiskShares <- MCRiskShares
  Tifs <- MCTifs
  CalibrationAlpha = 70
  MinPWin = 60
  MinRR = 150
  RiskCap = 4
  DailyLossLimit = 2
  UtilizationHardCap = 75
  CommissionPerShare = 0
  CommissionMin = 1
  EquityUsd = 100
  MaxDayLoss = 3
  Registered = {r1}
  Foreign = {f1}
  MaxFilled = 1
  NoMatch = NoMatch
  Orders = {"long", "short", "adopted"}
  SideOf <- MCSideOf
  Fills <- MCFills
  MaxRows = 3
  FirstMonth <- MCFirstMonth
  LastMonth <- MCLastMonth
  MaxTrades = 3
  Pnls <- MCPnls
  NoPnl = NoPnl
INVARIANT ReportsAreProduced
