SPECIFICATION FairSpec
CONSTANTS
  SOL = SOL
  p1 = p1
  p2 = p2
  s1 = s1
  s2 = s2
  Tokens = {t1}
  Recipients = {r1, r2}
  Provisioners = {p1}
  Syncers = {s1, s2}
  Logos = logos
  Boot = boot
  None = None
  Breakable = {t1}
  MaxChanges = 1
  MaxReverts = 1
  MaxFailures = 1
  MaxCrashes = 1
INVARIANTS TypeOK RowIsReady
PROPERTIES FollowsRecipient CreatedIsRegistered
