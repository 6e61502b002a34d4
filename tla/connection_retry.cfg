\* One health check at a time, no overlap: the plain recovery.
SPECIFICATION FairSpec
CONSTANTS
  Checks = {k1}
  Main = main
  Handler = handler
  Pools = {p1, p2, p3}
  NoPool = none
  MaxFailures = 3
PROPERTIES RecoveryIsRetried
CHECK_DEADLOCK FALSE
