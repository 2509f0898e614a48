CONSTANTS
  MaxSegments = 1
  Workers = {w1}
  Editors = {u1}
  MachineText = {m1}
  HumanText = {h1}
  Drafts = {d1}
  MaxSessions = 3
SPECIFICATION TranscriptSpec
CHECK_DEADLOCK FALSE
INVARIANT ReanalysisShowsCorrections
