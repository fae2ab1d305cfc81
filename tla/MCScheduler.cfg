CONSTANTS
  r1 = r1
  r2 = r2
  r3 = r3
  NoRobot = NoRobot
  NumTasks = 2
  Robots <- MCRobots
  Clients = {c1}
  Priority <- MCPriority
  MaxRetries <- MCMaxRetries
  Capable <- MCCapable
  Rows <- MCRows
  CreateTargets <- MCTargets
  MaxFaults = 1
  MaxOfflines = 1
SPECIFICATION FairSpec
INVARIANTS TypeOK RunningHasRobot StartsAccounted
PROPERTIES ImplementsLedger NotStarved
