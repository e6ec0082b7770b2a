\* Every shipped order of the settings, every response of the universe.
CONSTANTS
  NoTtl = NoTtl
  Panic = Panic
  Configs <- MCOrderedConfigs
  Delivered <- MCResponses
  Threads = {t1, t2}
  Second = 2
  MaxClock = 8
SPECIFICATION TtlSpec
SYMMETRY Symmetry
INVARIANTS
  HitsTellNoMoreThanWasGranted
