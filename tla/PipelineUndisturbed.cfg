CONSTANTS
  Calls = {c1, c2}
  Workers = {w1, w2}
  NoTask = NoTask
  ScheduleLength = 2
  MaxRetries = 2
  MaxRequest = 0
  MaxStageError = 4
  MaxCrash = 2
  MaxDuplicate = 0
  MaxDatabase = 0
  MaxBroker = 0
  MaxTimeLimit = 0
  MaxMishaps = 9
  Limit <- MCLimit
SPECIFICATION Spec
CHECK_DEADLOCK FALSE
INVARIANTS InProgressIsServed SessionIsCurrent SuccessIsClean
PROPERTIES ImplementsLifecycle
