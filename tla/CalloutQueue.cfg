\* The queue and its reaper with only callouts as children of hald and
\* spawn failures possible.
CONSTANTS
  s1 = s1  s2 = s2  p1 = p1  p2 = p2  runner = runner
  DirMissing = DirMissing
  None = None
  Scripts <- MCScripts
  Listings <- MCListings
  Pids <- MCPids
  OtherChildren = {}
  MaxEvents = 3
  SpawnCanFail = TRUE
SPECIFICATION Spec
INVARIANT TypeOK
INVARIANT SingleFlight
INVARIANT FifoStart
INVARIANT CompletionSafe
PROPERTY EveryCalloutAttempted
PROPERTY DeviceEventCompletesUnlessLastFailed
PROPERTY ImplementsExecutor
