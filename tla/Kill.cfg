SPECIFICATION HealSpec
CONSTANTS
  None = None
  a1 = a1
  a2 = a2
  Actors <- Solo
  Verifiers <- Nobody
  Ids <- Two
  Stem <- OwnStem
  Exts = {mp3}
  Paths <- MCPaths
  Listings <- Published2
  Follows <- Retracting
  Limit <- NoLimit
  PerPage = 3
  Policy <- KeepOne
  Contents <- TwoContents
  Bytes <- SizeIsContent
  Concurrency = 2
  Faults = {"fetch", "storage", "io", "crash"}
INVARIANTS
  CachedNeverWrong
PROPERTIES
  NoStuckDownload
