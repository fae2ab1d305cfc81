CONSTANTS
  Ranges = {90, 200}
  Durations = {0, 1}
  Dirs = {"forward", "rotateLeft"}
  QueueDepth = 1
  ExploreTurns = 1
  TofTurns = 1
  StopCm = 10
  SlowCm = 30
  SafeCm = 50
SPECIFICATION Spec
INVARIANTS TypeOK BrakedInEmergency
PROPERTIES NothingResumes
