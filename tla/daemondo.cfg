CONSTANTS
  Pid = {p1, p2, p3}
  NoPid = NoPid
  Unknown = Unknown
  Cmd = Cmd
  Configs <- AllLines
  MaxSignals = 2
  MaxNotices = 1
  QueueLimit = 1
SPECIFICATION Spec
INVARIANT OneDaemon
INVARIANT PidFileExact
PROPERTY TermEnds
PROPERTY DeathNoticed
PROPERTY RestartHonoured
CHECK_DEADLOCK FALSE
