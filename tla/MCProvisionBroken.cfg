SPECIFICATION FairSpec
CONSTANTS
  SOL = SOL
  p1 = p1
  p2 = p2
  s1 = s1
  s2 = s2
  Tokens = {t1, t2}
  Recipients = {r1, r2}
  Provisioners = {p1}
  Syncers = {s1}
  Logos = logos
  Boot = boot
  None = None
  Breakable = {t1}
  MaxChanges = 1
  MaxReverts = 0
  MaxFailures = 1
  MaxCrashes = 0
PROPERTIES OthersFollow
