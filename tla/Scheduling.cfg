SPECIFICATION FairSpec
CONSTANTS
  s1 = s1
  s2 = s2
  None = None
  Shows <- TwoShows
  Configs <- OperatorConfigs
  MaxReloads = 1
  RuntimeDir = {}
  Faults = {"install", "exit", "client"}
CHECK_DEADLOCK FALSE
INVARIANTS
  TypeOK
  OneGeneration
  SchedulerSerial
  StopsUnhandled
PROPERTIES
  ReloadTakesEffect
  EveryShowPolled
