CONSTANTS
  ConnectTimeout = 2
  WsGrace = 1
  BleGrace = 2
  Depth = 1
SPECIFICATION UplinkSpec
PROPERTIES BridgeCarries
