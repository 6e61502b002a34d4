\* Three overlapping health checks, with stop signals.
SPECIFICATION FairSpec
CONSTANTS
  Checks = {k1, k2, k3}
  Main = main
  Handler = handler
  Pools = {p1, p2, p3, p4, p5}
  NoPool = none
  MaxFailures = 3
INVARIANTS TypeOK NoPoolIsLost CurrentPoolIsOpen
PROPERTIES ClosedForGood EverythingIsClosed
CHECK_DEADLOCK FALSE
