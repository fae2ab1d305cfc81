CONSTANTS
  r1 = r1
  NoRobot = NoRobot
  Robots <- MCRobots
  MaxFaults = 3
SPECIFICATION FairSpec
INVARIANTS TypeOK OfflineIsTold
PROPERTIES SilentLeavesSet LiveComesBack
