\* The inotify file monitor: notifies added and removed by the user and by
\* callbacks, kernel events, deletions of watched paths, the read loop and
\* the idle emitter.
CONSTANTS
  a = a
  b = b
  NoPath = NoPath
  Paths <- MCPaths
  Masks <- MCMasks
  MaxWatches = 2
  MaxNotifies = 3
  MaxWds = 3
  MaxFsEvents = 2
SPECIFICATION Spec
INVARIANT TypeOK
INVARIANT WatchNotifyConsistent
INVARIANT NotifyRoutedUnlessRewatched
PROPERTY EventsEventuallyEmitted
CHECK_DEADLOCK FALSE
