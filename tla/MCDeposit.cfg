SPECIFICATION DepositSpec
CONSTANTS
  None = None
  Schedules <- FeeSchedules
  Rates = {0, 4000}
  Recipients = {r1, r2}
  Limits = {7, 15}
  RootHistory = 2
  Capacity = 4
  Margin = 500
  PartnerBps = 1000
  Funds = 15
  Wanted = {1, 2, 3, 4, 5, 6, 7, 8, 9, 10}
  Delay = 2
  MaxEpoch = 2
  MaxChanges = 2
INVARIANTS DepositTypeOK TakesAtMostEntered FullBalanceWorks GrossIsSmallest
SYMMETRY AnyRecipient
