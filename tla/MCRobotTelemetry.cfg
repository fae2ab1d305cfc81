SPECIFICATION Spec
CONSTANTS
  BufSize = 24
  TagMax = 2
  MsgMax = 3
  Messages <- MCMessages
  RecentLimit = 2
  RecentRoom = 20
  RecentReserve = 6
  UploadLimit = 3
  UploadRoom = 40
  UploadReserve = 10
  RingSize = 4
  MaxCmds = 2
  QueueDepth = 2
  States <- MCStates
  DiagTypes = {1}
  MaxEvents = 6
INVARIANTS TypeOK RingIsNewest HeartbeatRebuilds FreshIsFound
PROPERTIES ResponseSkips
CHECK_DEADLOCK FALSE
