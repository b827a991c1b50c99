CONSTANTS
  Proc = {a, b}
  None = None
  Binaries = {2, 3}
  Faults = TRUE
SPECIFICATION FairSpec
INVARIANTS TypeOK LedgerSound OpenIsMigrated
PROPERTIES RestartRepairs
