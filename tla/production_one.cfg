\* One indexer process: three heights above genesis, two forks, batches of two.
SPECIFICATION FairSpec
CONSTANTS
  i1 = i1
  i2 = i2
  Indexers <- OneIndexer
  BatchSize = 2
  MaxHeight = 3
  MaxFork = 2
  MaxFaults = 2
INVARIANTS TypeOK LinkedInsideBatches ConflictOnlyAtGenesis
PROPERTIES AppendsAboveMax CatchesUp
