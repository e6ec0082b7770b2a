CONSTANTS
  NoTtl = NoTtl
  Panic = Panic
  Configs <- MCConfigs
  Delivered <- MCResponses
  Threads = {t1}
  Second = 1
  MaxClock = 1
SPECIFICATION TtlSpec
INVARIANT AcceptedConfigNeverPanics
CHECK_DEADLOCK FALSE
