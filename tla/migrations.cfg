\* One runner beside initDatabase, two faults.
SPECIFICATION FairSpec
CONSTANTS
  Runners = {r1}
  MaxFaults = 2
INVARIANTS TypeOK TimestampsAreKept AppliedIsInPlace RerunCompletes
PROPERTIES StartupCompletes
