SPECIFICATION FairSpec
CONSTANTS
  None = None
  a1 = a1
  a2 = a2
  Actors <- Solo
  Verifiers <- Solo
  Ids <- Three
  Stem <- OwnStem
  Exts = {mp3}
  Paths <- MCPaths
  Listings <- Published3
  Follows <- Publishing
  Limit <- LimitTwo
  PerPage = 3
  Policy <- KeepOne
  Contents <- TwoContents
  Bytes <- SizeIsContent
  Concurrency = 2
  Faults = {"list", "fetch"}
INVARIANTS
  TypeOK
  CachedIntact
  RetentionHolds
  NoChurn
  NoStrayFile
  StoredWindowIsListing
PROPERTIES
  RedownloadOnlyDamaged
  Converges
