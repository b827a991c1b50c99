CONSTANTS
  MaxAttempts = 1
SPECIFICATION Spec
INVARIANTS RestoredOnAnyFailure
CHECK_DEADLOCK FALSE
