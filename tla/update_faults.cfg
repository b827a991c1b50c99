CONSTANTS
  MaxAttempts = 2
SPECIFICATION FairSpec
INVARIANTS TypeOK OldCopyKept SuccessIsComplete RollbackRestores
PROPERTIES RollbackServiceReturns
CHECK_DEADLOCK FALSE
