SPECIFICATION Spec
CONSTANTS
  SOL = SOL
  tok = tok
  Tokens = {tok}
  UsdOf <- UsdPrices
  SendFlatSol = 97
  WithdrawFlatSol = 145
  SolFlat = 97
  Configs <- ConfigValues
  Margin = 500
  DefaultBps = 30
  RequirePrice = TRUE
  Amounts = {150, 400000}
  Balances <- TwoNotes
  PriceLife = 2
  None = None
  MaxMoves = 2
INVARIANTS FreshQuoteIsAccepted DriftIsTolerated NoMarketNoRelay AdmittedIsPayable SpendableFits
