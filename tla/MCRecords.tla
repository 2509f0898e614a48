------------------------------- MODULE MCRecords -------------------------------
(* The modules of what the application records, one at a time: a behaviour *)
(* is about one topic, and the state of the others does not change.        *)
EXTENDS Transcript, Review, Backup, Membership, Settings, TenantSession, TalkMetrics, Evidence

VARIABLE topic

Topics == {"transcript", "review", "storage", "backup", "members", "settings", "tenants",
           "metrics", "evidence"}

recordVars == <<topic, transcriptVars, reviewVars, allStorageVars, membershipVars, settingsVars,
                tenantVars, metricsVars, evidenceVars>>

(* One citation that holds, one that counts from the end.                  *)
MCCitations == {[segment |-> 0, quote |-> "similar", time |-> "near"],
                [segment |-> -1, quote |-> "contained", time |-> "none"]}

(* A backup is interesting while one call is being uploaded; retention is  *)
(* enough to remove one.                                                   *)
UploadUnderWay ==
  /\ uploads = [c \in Calls |-> IF c = CHOOSE d \in Calls : TRUE THEN "asked" ELSE "done"]
  /\ keys = [c \in Calls |-> NoKey]
  /\ rows = [c \in Calls |-> "absent"] /\ objects = {}
  /\ jobs = <<>> /\ listed = {} /\ removal = [r \in Remover |-> Rest]
  /\ faults = 0 /\ deletes = MaxDeletes
  /\ backup = NoBackup /\ archives = {} /\ restoring = [pc |-> "none"]
  /\ today = 0 /\ backups = 0
  /\ succeeded = FALSE /\ lost = {} /\ overlaid = FALSE

NobodyKnown ==
  /\ members = [t \in Tenants |-> [e \in Emails |-> NoMember]]
  /\ identities = [e \in Emails |-> NoIdentity]
  /\ calls = [q \in Requesters |-> NoRequest]
  /\ made = 0 /\ outages = 0 /\ muddled = {} /\ raced = FALSE

NothingSaid ==
  /\ proposal = [stated |-> {}, outcome |-> "unknown", cites |-> [s \in Subject |-> {}],
                 moments |-> {}, points |-> [c \in Claims |-> 0], score |-> 0,
                 confidence |-> 0, rolesConfidence |-> 0, risk |-> FALSE]
  /\ analysis = proposal /\ unsupported = FALSE /\ official = "proposed"

RecordsInit ==
  /\ topic \in Topics
  /\ TranscriptInit /\ ReviewInit /\ SettingsInit /\ TenantInit
  /\ IF topic = "backup" THEN UploadUnderWay ELSE BackupInit
  /\ IF topic = "members" THEN MembershipInit ELSE NobodyKnown
  /\ IF topic = "metrics" THEN MetricsInit ELSE turns = <<>> /\ metrics = NoMetrics
  /\ IF topic = "evidence" THEN EvidenceInit ELSE NothingSaid

RecordsNext ==
  \/ topic = "transcript" /\ TranscriptNext
       /\ UNCHANGED <<topic, reviewVars, allStorageVars, membershipVars, settingsVars,
                      tenantVars, metricsVars, evidenceVars>>
  \/ topic = "review" /\ ReviewNext
       /\ UNCHANGED <<topic, transcriptVars, allStorageVars, membershipVars, settingsVars,
                      tenantVars, metricsVars, evidenceVars>>
  \/ topic = "storage" /\ ServiceStep
       /\ UNCHANGED <<topic, transcriptVars, reviewVars, membershipVars, settingsVars,
                      tenantVars, metricsVars, evidenceVars>>
  \/ topic = "backup" /\ BackupNext
       /\ UNCHANGED <<topic, transcriptVars, reviewVars, membershipVars, settingsVars,
                      tenantVars, metricsVars, evidenceVars>>
  \/ topic = "members" /\ MembershipNext
       /\ UNCHANGED <<topic, transcriptVars, reviewVars, allStorageVars, settingsVars,
                      tenantVars, metricsVars, evidenceVars>>
  \/ topic = "settings" /\ SettingsNext
       /\ UNCHANGED <<topic, transcriptVars, reviewVars, allStorageVars, membershipVars,
                      tenantVars, metricsVars, evidenceVars>>
  \/ topic = "tenants" /\ TenantNext
       /\ UNCHANGED <<topic, transcriptVars, reviewVars, allStorageVars, membershipVars,
                      settingsVars, metricsVars, evidenceVars>>
  \/ topic = "metrics" /\ Calculate
       /\ UNCHANGED <<topic, transcriptVars, reviewVars, allStorageVars, membershipVars,
                      settingsVars, tenantVars, evidenceVars>>
  \/ topic = "evidence" /\ EvidenceNext
       /\ UNCHANGED <<topic, transcriptVars, reviewVars, allStorageVars, membershipVars,
                      settingsVars, tenantVars, metricsVars>>

NotStorage == <<topic, transcriptVars, reviewVars, backupVars, membershipVars, settingsVars,
                tenantVars, metricsVars, evidenceVars>>

(* The beat starts retention every night, and a task that was started goes *)
(* on until it ends or fails.                                              *)
RetentionRuns ==
  /\ WF_recordVars(topic = "storage" /\ ListExpired /\ UNCHANGED NotStorage)
  /\ WF_recordVars(topic = "storage" /\ (\E c \in Calls : BeginRemoval("retention", c))
                   /\ UNCHANGED NotStorage)
  /\ WF_recordVars(topic = "storage" /\ DeleteObject("retention") /\ UNCHANGED NotStorage)
  /\ WF_recordVars(topic = "storage" /\ DeleteRow("retention") /\ UNCHANGED NotStorage)

RecordsSpec == RecordsInit /\ [][RecordsNext]_recordVars /\ RetentionRuns

(***************************************************************************)
(* Properties                                                              *)
(***************************************************************************)

(* Every record has the values its table, and the sums their definition,   *)
(* allow: no status nobody wrote, no negative number or duration.          *)
RecordsTypeOK ==
  /\ TranscriptTypeOK /\ ReviewTypeOK /\ BackupTypeOK /\ MembershipTypeOK
  /\ SettingsTypeOK /\ TenantTypeOK /\ MetricsTypeOK /\ EvidenceTypeOK

(* An expired call disappears, row and audio, with retention running each  *)
(* night and finitely many failures, whatever a failure left of an earlier *)
(* attempt and beside manual deletions (_run_retention).                   *)
ExpiredIsRemoved ==
  \A c \in Calls : topic = "storage" /\ rows[c] = "expired" ~> c \notin objects /\ rows[c] = "absent"
=============================================================================
