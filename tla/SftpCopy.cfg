CONSTANTS
  PathCount = 3
  Watchers = {w1}
  Modes = {"sftp"}
  good = good
  other = other
  bad = bad
  id1 = id1
  id2 = id2
  NoId = NoId
  FullSize = 1
  MaxInterrupts = 0
  MaxProbeFailures = 0
  Bytes <- MCBytes
  Corrupt <- MCCorrupt
  CallIds <- MCCallIds
  Made <- CopyFirst
  Limit <- MCLimit
SPECIFICATION Spec
CHECK_DEADLOCK FALSE
PROPERTIES RecordingIsImported
