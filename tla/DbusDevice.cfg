\* Two clients, of which c2 is privileged, lock, unlock and write the
\* properties of two devices, leave the bus, and hald loses and regains its
\* connection once.  A crash ends hald and a model without clients stops,
\* so deadlock is not checked.
CONSTANTS
  d1 = d1  d2 = d2  c1 = c1  c2 = c2
  Reason = Reason  Absent = Absent  NULL = NULL  NoEntry = NoEntry
  Devices <- MCDevices
  Services <- MCServices
  Privileged = {c2}
  Caps <- MCCaps
  MaxCapSize = 4
  MaxOutages = 1
  MaxWrites = 1
SPECIFICATION Spec
INVARIANT TypeOK
INVARIANT NoUseAfterFinalize
INVARIANT UnlockCrashNeedsPrivilegedWrite
CHECK_DEADLOCK FALSE
