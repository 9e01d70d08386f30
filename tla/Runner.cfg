\* The runner client with two devices, two pids and three calls.  The
\* crashes that undefined behaviour causes end hald, so deadlock is not
\* checked.
CONSTANTS
  d1 = d1  d2 = d2  p1 = p1  p2 = p2
  Devices <- MCDevices
  Pids <- MCPids
  MaxReqs = 3
SPECIFICATION Spec
INVARIANT TypeOK
INVARIANT CallbackAtMostOnce
INVARIANT CallbackOnFinalizedOnlyAfterRunSync
INVARIANT RecordsAnswerable
INVARIANT StoreDeviceFinalizedOnlyAfterRunSync
PROPERTY RunCallbackEventually
CHECK_DEADLOCK FALSE
