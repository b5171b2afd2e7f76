SPECIFICATION FairSpec
CONSTANTS
  i1 = i1
  i2 = i2
  i3 = i3
  p1 = p1
  p2 = p2
  n1 = n1
  n2 = n2
  Nil = Nil
  NoConfig = NoConfig
  Images = {i1, i2, i3}
  Ports = {p1, p2}
  Nodes = {n1, n2}
  Checksums <- MCChecksums
  SpecChanges <- MCSpecChanges
  Managed = FALSE
  Faults = {"evict","api","crash","address","pause"}
  MaxEvents = 1
INVARIANTS TypeOK RecordedAfterReported
PROPERTIES NothingAfterGone EventuallyServes DeletionCompletes
CHECK_DEADLOCK FALSE
