CONSTANTS
  Pid = {p1, p2}
  None = None
  OtherNames = {"sshd"}
  Manual = FALSE
  Starvation = FALSE
  ShutdownTimeout = 1
  TimeoutStop = 2
  MaxStarts = 3
SPECIFICATION FairSpec
INVARIANTS TypeOK NoSigkillAfterService StatusTrue
PROPERTIES StopCompletes
