CONSTANTS
  Calls = {c1}
  Workers = {w1, w2}
  NoTask = NoTask
  ScheduleLength = 1
  MaxRetries = 1
  MaxRequest = 2
  MaxStageError = 1
  MaxCrash = 1
  MaxDuplicate = 1
  MaxDatabase = 1
  MaxBroker = 1
  MaxTimeLimit = 1
  MaxMishaps = 2
  Limit <- MCLimit
SPECIFICATION Spec
CHECK_DEADLOCK FALSE
INVARIANTS TypeOK RetryIsExplained CompletedIsPublished LossIsExplained
PROPERTIES QuarantineHolds
SYMMETRY WorkersAreAlike
CONSTRAINT FewMishaps
