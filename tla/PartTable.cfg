CONSTANTS
  DiskSectors = 4
  MbrEntries <- MCMbrEntries
  EbrData <- MCEbrData
  EbrLink <- MCEbrLink
  GptHeaders <- MCGptHeaders
  GptEntries <- MCGptEntries
  ProbeStarts = {1, 2}
  MaxEbrReads = 4
  NoTable = NoTable
  Foreign = Foreign
  NotFound = NotFound
SPECIFICATION Spec
INVARIANT TypeOK
INVARIANT TableMatchesLayout
INVARIANT FindLocatesPartition
INVARIANT ParseEndsIffChainsEnd
\* probe-volume exits after the partition block
CHECK_DEADLOCK FALSE
