SPECIFICATION DepositSpec
CONSTANTS
  None = None
  Schedules <- AllWithheld
  Rates = {0, 4000}
  Recipients = {r1}
  Limits = {15}
  RootHistory = 2
  Capacity = 4
  Margin = 500
  PartnerBps = 1000
  Funds = 15
  Wanted = {1}
  Delay = 2
  MaxEpoch = 0
  MaxChanges = 0
INVARIANTS EveryMintHasPreview
