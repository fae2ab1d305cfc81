CONSTANTS
  ConnectTimeout = 10
  WsGrace = 5
  BleGrace = 10
SPECIFICATION FairSpec
INVARIANTS TypeOK BitNeedsSocket
PROPERTIES GraceHonoured BridgeReached DirectRetaken
