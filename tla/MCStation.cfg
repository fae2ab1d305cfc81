SPECIFICATION FairSpec
CONSTANTS
  Levels <- MCLevels
  Late = {1, 2}
  Precharge = 2
  ReportEvery = 2
  QueueDepth = 2
INVARIANTS TypeOK ShownWhileWaiting
PROPERTIES BadContactsOff FaultIsSent
