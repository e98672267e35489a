SPECIFICATION DepositSpec
CONSTANTS
  None = None
  Schedules <- FeeSchedules
  Rates = {0, 4000}
  Recipients = {r1}
  Limits = {15}
  RootHistory = 2
  Capacity = 4
  Margin = 500
  PartnerBps = 0
  Funds = 15
  Wanted = {1}
  Delay = 2
  MaxEpoch = 3
  MaxChanges = 1
INVARIANTS GrossWithinAmount
