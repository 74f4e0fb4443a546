CONSTANTS
  c1 = c1
  c2 = c2
  Client = {c1, c2}
  Child = {c1}
  None = None
  Listen = Listen
  Pipe = Pipe
  Plans <- Several
  PeerPid = {FALSE, TRUE}
  Faults = {"prerun", "kqueue", "accept", "spurious"}
  MaxSessions = 2
  MaxAsks = 2
SPECIFICATION FairSpec
INVARIANT CleanAfterLoop
INVARIANT RightBounds
INVARIANT OneTraceThread
PROPERTY SessionEnds
PROPERTY NoneWaitsForEver
CHECK_DEADLOCK FALSE
