SPECIFICATION VerifySpec
CONSTANTS
  None = None
  a1 = a1
  a2 = a2
  Actors <- Solo
  Verifiers <- Solo
  Ids <- Two
  Stem <- OwnStem
  Exts = {mp3}
  Paths <- MCPaths
  Listings <- Published2
  Follows <- Publishing
  Limit <- NoLimit
  PerPage = 3
  Policy <- KeepOne
  Contents <- TwoContents
  Bytes <- SizeIsContent
  Concurrency = 2
  Faults = {"damage"}
PROPERTIES
  DamageRepaired
