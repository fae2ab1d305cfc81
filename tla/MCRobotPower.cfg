CONSTANTS
  Full = 3
  CriticalPct = 1
  LowPct = 2
  ExitPct = 3
  IdleTimeout = 1
  LightTimeout = 2
  DeepTimeout = 4
  InteractionTimeout = 1
SPECIFICATION FairSpec
INVARIANTS TypeOK IdleBounded
PROPERTIES AlertIsAWindow CriticalSeeksDock ChargedReleases
