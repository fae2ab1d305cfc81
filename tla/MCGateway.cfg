CONSTANTS
  m1 = m1
  m2 = m2
  m3 = m3
  NoMachine = NoMachine
  NumConns = 3
  Machines <- MCMachines
  MaxId = 2
  MaxConnections = 2
  Capacity = 1
  MaxFrames = 2
SPECIFICATION MCSpec
INVARIANTS TypeOK PoolSound LiveIsRegistered
PROPERTIES EmergencyDelivered
CHECK_DEADLOCK FALSE
