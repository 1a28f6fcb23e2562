SPECIFICATION Spec
CONSTANTS
  None = None
  Bad = Bad
  url = url
  square = square
  banner = banner
  Ids = {1, 2, 3}
  Paths = {1, 2, 3}
  Dates = {1, 2}
  Contents = {1, 2, 3}
  Sources = {url, square, banner}
  Pages <- MCPages
  ImageSets <- MCImages
  Configs <- MCConfigs
  PerPage = 4
  Audio <- MCAudio
  Playable = {1, 2, 3}
  Bytes <- SizeIsContent
  MaxTrouble = 2
INVARIANTS
  TypeOK
  KeptIsGreedy
  ChurnExplained
  EntriesAccounted
  ArtworkServable
PROPERTIES
  Settles
