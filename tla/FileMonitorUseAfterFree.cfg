\* A notify removed while an event for its watch is still queued frees the
\* watch that emit_events_in_idle then reads.
CONSTANTS
  a = a
  b = b
  NoPath = NoPath
  Paths <- MCPaths
  Masks <- MCMasks
  MaxWatches = 2
  MaxNotifies = 3
  MaxWds = 3
  MaxFsEvents = 2
SPECIFICATION Spec
INVARIANT NoUseAfterFree
CHECK_DEADLOCK FALSE
