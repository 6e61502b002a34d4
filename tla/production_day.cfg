\* A process that is up for more than a day.
SPECIFICATION FairSpec
CONSTANTS
  i1 = i1
  i2 = i2
  Indexers <- OneIndexer
  BatchSize = 2
  MaxHeight = 2
  MaxFork = 1
  MaxFaults = 1
PROPERTY KeepsUp
