\* Two processes, two transactions, two blocks above genesis.
SPECIFICATION FairSpec
CONSTANTS
  Indexers = {i1, i2}
  Txs = {t1, t2}
  MaxHeight = 2
  MaxFork = 2
  MaxFaults = 1
INVARIANTS TypeOK NothingIsSkipped
PROPERTIES EventsCatchUp
