SPECIFICATION Spec
CONSTANTS
  SOL = SOL
  Tokens = {tok, soulbound}
  NonTransferable = {soulbound}
  TransferFee <- HalfFee
  admin = admin
  alice = alice
  Parties = {admin, alice}
  Users = {alice}
  Vault = Vault
  Funds <- TwoUnits
  Height = 2
  RootHistorySize = 3
  Rent = 1
  U64Max = 3
  None = None
  NoRoot = NoRoot
  Rates = {5000, 10000, 10001}
  Margins = {0}
  Limits = {}
  Amounts = {0, 1}
  ExtAmounts <- ConfigExtAmounts
  Fees = {0, 1}
  Gifts = {1}
INVARIANTS Accounted NotesNeverLocked
PROPERTIES FeesOnlyToConfigured
CHECK_DEADLOCK FALSE
