\* Two instances on three tables, two with a gap; a block of the confirmation depth is never replaced.
SPECIFICATION FairSpec
CONSTANTS
  i1 = i1
  i2 = i2
  none = none
  NoInstance = none
  Instances <- TwoInstances
  BatchSize = 2
  ConfirmationDepth = 1
  MaxErrors = 2
  UnseenGaps <- OneToTwo
  FirstHead = 4
  TablesBefore <- FewTables
  Finality = 1
  MaxHeight = 5
  MaxFork = 3
  MaxFaults = 3
INVARIANTS TypeOK StoredIsCanonical NoHole
PROPERTIES ImplementsLog  ConfirmedAreStored
