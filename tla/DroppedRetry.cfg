SPECIFICATION Spec
CONSTANTS
  None = None
  Bad = Bad
  url = url
  square = square
  banner = banner
  Ids = {1, 2, 3}
  Paths = {1, 2, 3}
  Dates = {1, 2}
  Contents = {1, 2, 3}
  Sources = {url, square, banner}
  Pages <- DroppingPages
  ImageSets <- MCImages
  Configs <- KeepEverything
  PerPage = 4
  Audio <- MCAudio
  Playable = {1, 2, 3}
  Bytes <- SizeIsContent
  MaxTrouble = 2
INVARIANTS
  OnlyListedFetched
