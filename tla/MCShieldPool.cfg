SPECIFICATION Spec
CONSTANTS
  SOL = SOL
  Tokens = {}
  NonTransferable = {}
  TransferFee <- NoTransferFee
  admin = admin
  alice = alice
  Parties = {alice}
  Users = {alice}
  Vault = Vault
  Funds <- MCFunds
  Height = 3
  RootHistorySize = 3
  Rent = 1
  U64Max = 9
  None = None
  NoRoot = NoRoot
  Rates = {0}
  Margins = {}
  Limits = {1}
  Amounts = {0, 1, 2}
  ExtAmounts <- PoolExtAmounts
  Fees = {0, 1}
  Gifts = {}
INVARIANTS NoDoubleSpend RootWindow
PROPERTIES ImplementsLedger
CHECK_DEADLOCK FALSE
