\* One instance without confirmations; a reorganisation below the stored maximum.
SPECIFICATION FairSpec
CONSTANTS
  i1 = i1
  i2 = i2
  none = none
  NoInstance = none
  Instances <- OneInstance
  BatchSize = 1
  ConfirmationDepth = 0
  MaxErrors = 2
  UnseenGaps <- OneToTwo
  FirstHead = 0
  TablesBefore <- EmptyTable
  Finality = 9
  MaxHeight = 2
  MaxFork = 2
  MaxFaults = 0
PROPERTIES ReorgIsHealed
