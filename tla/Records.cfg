CONSTANTS
  MaxSegments = 2
  Workers = {w1, w2}
  Editors = {u1, u2}
  MachineText = {m1}
  HumanText = {h1}
  Drafts = {d1}
  MaxSessions = 3
  Reviewers = {r1, r2}
  MaxAnalyses = 2
  Documents = {p1, p2}
  MaxRequests = 4
  Calls = {c1, c2}
  Keys = {k1}
  NoKey = NoKey
  MaxFaults = 1
  MaxDeletes = 2
  MaxBackups = 2
  MaxDays = 2
  RetentionDays = 1
  Tenants = {t1, t2}
  Emails = {e1, e2}
  NoTenant = NoTenant
  Requesters = {q1, q2}
  MaxAdminCalls = 2
  MaxOutages = 1
  Clerks = {k2, k3}
  Names = {n1, n2}
  MaxChanges = 4
  Connections = {o1, o2}
  Owners = {t1, t2}
  Unset = Unset
  Visitors = {v1, v2}
  MaxVisits = 3
  MaxTurns = 3
  MaxSecond = 3
  HeardSegments = 1
  Claims = {a1}
  Facts = {f1}
  CriticalFacts = {f1}
  Citations <- MCCitations
SPECIFICATION RecordsSpec
CHECK_DEADLOCK FALSE
INVARIANTS
  RecordsTypeOK
  VersionsFollowCommits LatestTranscriptIsCurrent CorrectionIsExplained FollowUpsAreDistinct
  OfficialStands PublicationWasApproved ArtifactsAreNumbered
  OneCallPerKey RowWithoutObjectHasJob CompletedJobMeansGone
  DanglingInBackupWasBeingRemoved BackupRemains
  AdministratorRemains IdentityAgrees
  SettingsAreSingular NoForeignRows MetricsAgree
  NothingUnsupportedSurvives RemovedMeansReviewed
PROPERTIES CorrectionKept ExpiredIsRemoved
