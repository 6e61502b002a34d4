\* One instance that waits for no confirmation, on four tables, two with a gap; the node may replace any block but genesis.
SPECIFICATION Spec
CONSTANTS
  i1 = i1
  i2 = i2
  none = none
  NoInstance = none
  Instances <- OneInstance
  BatchSize = 2
  ConfirmationDepth = 0
  MaxErrors = 2
  UnseenGaps <- OneToTwo
  FirstHead = 4
  TablesBefore <- MoreTables
  Finality = 9
  MaxHeight = 6
  MaxFork = 3
  MaxFaults = 2
INVARIANTS StoredLinked
PROPERTIES OnlyAppends
