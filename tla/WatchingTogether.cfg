CONSTANTS
  PathCount = 2
  Watchers = {w1, w2}
  Modes = {"folder", "sftp"}
  good = good
  other = other
  bad = bad
  id1 = id1
  id2 = id2
  NoId = NoId
  FullSize = 2
  MaxInterrupts = 1
  MaxProbeFailures = 1
  Bytes <- MCBytes
  Corrupt <- MCCorrupt
  CallIds <- MCCallIds
  Made <- Pairs
  Limit <- MCLimit
SPECIFICATION Spec
CHECK_DEADLOCK FALSE
INVARIANTS TypeOK OneCallPerRecording OnlyCorruptIsQuarantined QuarantineIsRecorded
