CONSTANTS
  Calls = {c1}
  Workers = {w1, w2}
  NoTask = NoTask
  ScheduleLength = 2
  MaxRetries = 2
  MaxRequest = 0
  MaxStageError = 0
  MaxCrash = 1
  MaxDuplicate = 0
  MaxDatabase = 0
  MaxBroker = 0
  MaxTimeLimit = 0
  MaxMishaps = 9
  Limit <- MCLimit
SPECIFICATION Spec
CHECK_DEADLOCK FALSE
INVARIANT RestartFailsNoCall
