\* Nested batches over two devices.  A crash (strcmp on NULL) ends hald, so
\* deadlock is not checked.
CONSTANTS
  d1 = d1  d2 = d2  k1 = k1  k2 = k2
  NULL = NULL
  Devices <- MCDevices
  Keys <- MCKeys
  MaxDepth = 2
  MaxSends = 4
SPECIFICATION Spec
INVARIANT TypeOK
INVARIANT NoUpdateLostOrDuplicated
INVARIANT PendingOnlyInsideBatch
PROPERTY OneSignalPerDevice
PROPERTY FlushCrashesIffInterleaved
CHECK_DEADLOCK FALSE
