SPECIFICATION FairSpec
CONSTANTS
  None = None
  Clients = {c1}
  RingCap = 1
  WireCap = 1
  LiveCap = 1
  EventLog = 2
  MaxChanges = 2
  MaxEvents = 3
  MaxStarts = 2
  MaxAsks = 2
INVARIANTS
  TypeOK
  LogInOrder
  StreamWhole
  LogReflected
  AnswersMatch
PROPERTIES
  ReportCatchesUp
  OfflineShown
CHECK_DEADLOCK FALSE
