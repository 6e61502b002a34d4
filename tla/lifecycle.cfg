\* Two overlapping probes, two signals, a chain of two blocks.
SPECIFICATION FairLifecycleSpec
CONSTANTS
  Requests = {r1, r2}
  CacheTtl = 1
  ClientTtl = 1
  MaxLag = 0
  MaxHeight = 1
  MaxDown = 1
  MaxSignals = 2
INVARIANTS LifecycleTypeOK HealthyIsRecent
PROPERTIES LagIsNotUnderstated  StopCompletes
CHECK_DEADLOCK FALSE
