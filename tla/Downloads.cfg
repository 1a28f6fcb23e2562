SPECIFICATION FairSpec
CONSTANTS
  f1 = f1
  f2 = f2
  d1 = d1
  None = None
  Fetches <- TwoFetches
  Dests = {d1}
  Dest <- SameDest
  Limits = {1, 2}
  MaxReloads = 1
  Size = 1
  MaxTimes = 2
INVARIANTS
  TypeOK
  PermitsRespected
  WholeFiles
  TempsOwned
PROPERTIES
  FetchEnds
