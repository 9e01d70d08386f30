\* Unprivileged clients only: what becomes of a client's locks once it has
\* left the bus, with hald connected throughout.
CONSTANTS
  d1 = d1  d2 = d2  c1 = c1  c2 = c2
  Reason = Reason  Absent = Absent  NULL = NULL  NoEntry = NoEntry
  Devices <- MCDevices
  Services <- MCServices
  Privileged = {}
  Caps <- MCCaps
  MaxCapSize = 4
  MaxOutages = 0
  MaxWrites = 0
SPECIFICATION Spec
PROPERTY LockReleasedAfterOwnerExit
CHECK_DEADLOCK FALSE
