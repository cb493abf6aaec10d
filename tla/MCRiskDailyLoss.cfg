SPECIFICATION Spec
CONSTANTS
  Prices <- MCPrices
  WinChances <- MCWinChances
  RiskShares <- MCRiskShares
  Tifs <- MCTifs
  CalibrationAlpha = 70
  MinPWin = 60
  MinRR = 150
  RiskCap = 4
  DailyLossLimit = 2
  UtilizationHardCap = 75
  CommissionPerShare = 0
  CommissionMin = 1
  EquityUsd = 100
  MaxDayLoss = 3
INVARIANT
  DailyLossStopsTrading
