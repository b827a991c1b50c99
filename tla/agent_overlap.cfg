CONSTANTS
  Pid = {p1, p2}
  None = None
  OtherNames = {"sshd"}
  Manual = TRUE
  Starvation = TRUE
  ShutdownTimeout = 1
  TimeoutStop = 2
  MaxStarts = 2
SPECIFICATION Spec
SYMMETRY PidSymmetry
INVARIANTS SingleCloser ExitLeavesNothing
