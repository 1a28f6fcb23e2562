SPECIFICATION Spec
CONSTANTS
  None = None
  a1 = a1
  a2 = a2
  Actors <- Pair
  Verifiers <- Nobody
  Ids <- Two
  Stem <- OwnStem
  Exts = {mp3}
  Paths <- MCPaths
  Listings <- Published2
  Follows <- Publishing
  Limit <- Widened
  PerPage = 3
  Policy <- KeepOne
  Contents <- OneContent
  Bytes <- SizeIsContent
  Concurrency = 2
  Faults = {"crash"}
INVARIANTS
  EtagCoversListing
  ProgressOnlyWhileDownloading
  RowsRecorded
PROPERTIES
  FollowsLifecycle
