\* hald-runner terminates while no callout is active.
\* A crash (NULL active_callout) ends hald, so deadlock is not checked.
CONSTANTS
  s1 = s1  s2 = s2  p1 = p1  p2 = p2  runner = runner
  DirMissing = DirMissing
  None = None
  Scripts <- MCScripts
  Listings <- MCListings
  MaxEvents = 3
  Pids <- MCPidsWithRunner
  OtherChildren = {runner}
  SpawnCanFail = FALSE
SPECIFICATION Spec
INVARIANT NoNullActiveDeref
CHECK_DEADLOCK FALSE
