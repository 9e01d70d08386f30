\* A pid handed out again while the exit of its first process is queued.
CONSTANTS
  d1 = d1  d2 = d2  p1 = p1  p2 = p2
  Devices <- MCDevices
  Pids <- MCPids
  MaxReqs = 3
SPECIFICATION Spec
INVARIANT StartCallbackAfterExit
CHECK_DEADLOCK FALSE
