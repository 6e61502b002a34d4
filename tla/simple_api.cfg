\* index.ts and index-failfast.ts on one table, with faults, or one of them without, beside the REST API.
SPECIFICATION FairApiSpec
CONSTANTS
  Indexers = {"index", "failfast"}
  FailFast = {"failfast"}
  BatchSize = 2
  MaxHeight = 2
  MaxFork = 2
  MaxFaults = 1
  PageSize = 2
  SyncedLag = 1
  Together = {{"index", "failfast", "fault"}, {"failfast", "api"}, {"index", "api"}}
INVARIANTS ApiTypeOK HolesWereGivenUp StatusIsTrue PagesMissNothing
PROPERTIES CatchesUpTogether
