CONSTANTS
  Proc = {a, b}
  None = None
  Binaries = {2}
  Faults = FALSE
SPECIFICATION Spec
INVARIANTS SafeOnEveryStartup
