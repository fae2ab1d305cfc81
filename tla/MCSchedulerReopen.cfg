CONSTANTS
  r1 = r1
  r2 = r2
  r3 = r3
  NoRobot = NoRobot
  NumTasks = 1
  Robots <- TwoRobots
  Clients = {c1}
  Priority <- OnePriority
  MaxRetries <- OneMaxRetries
  Capable <- OneCapable
  Rows <- TwoRows
  CreateTargets <- OneTargets
  MaxFaults = 0
  MaxOfflines = 1
SPECIFICATION Spec
PROPERTIES NoReopen
