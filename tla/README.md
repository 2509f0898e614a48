# A specification of Mokalemeban

Mokalemeban (`dastyar-hushmand-froosh`) takes recorded sales calls from an Issabel
telephone exchange or from an upload, transcribes and analyses them with an external AI
provider, lets people review the result, and publishes it. This directory holds TLA+
specifications of the parts whose correctness depends on the order of things: who commits
what first, what a process still believes when it commits, and what is left when one of
several steps does not happen. All paths below are relative to the repository.

    cd tla
    tlc -config PipelineOperated.cfg MCCallPipeline.tla      # a run
    tlc -config Records.cfg MCRecords.tla
    tlapm CallPipelineProofs.tla                             # the proofs of one module

`PROJECT.json` lists the components, the runs, the source lines of every definition, and
the hazards of the code with the properties that watch over them.

## 1. Inventory of the system

Processes: `api` (FastAPI, `backend/app/main.py`), `worker` (Celery, `backend/app/tasks.py`),
`watcher` (`backend/app/watcher.py`). Shared state: PostgreSQL, MinIO (audio objects), Redis
(the Celery queue), Keycloak (identities), the drop and quarantine folders.

| Component | State it keeps | Operations | What makes it correct |
|---|---|---|---|
| Status machine (`services/pipeline.py`) | none; the table `_FORWARD`, the retry schedule | `ensure_transition`, `classify_exception`, `RetryPolicy` | only listed changes; transient errors within the schedule are tried again |
| Pipeline worker (`tasks.py`) | `calls.status`, `retry_count`, `next_retry_at`, `error_code`, events, segments, versions; the Celery message | `process_call` in modes `resume`, `reanalyze`, `full`: load, begin, preprocess, transcribe, analyse, settle; failure handler; retry | a call in progress has a message that runs it; it is settled; a row never contradicts itself |
| Call API (`main.py`) | the same rows | `create_call`, `reprocess_call`, `processing_action` (retry, reanalyze, full, quarantine), `queue_analysis_version`, edits of transcript and roles, deletion | a request is served in the end; a quarantine holds |
| Review and versions (`services/versioning.py`, `main.py`) | `analysis_versions`, `review_cases`, the pointers of a call to its latest, reviewed and published version, publication events | create a version; start, approve, reject, return, publish; publication by policy | one official version; a completed call shows it; what is published was approved |
| Segments and corrections (`tasks.py`, `services/versioning.py`, `main.py`) | `transcript_segments`, `transcript_corrections`, numbered transcript versions, the call's latest one | store a transcript, edit text or roles, re-analyse, snapshot | a correction survives every run; the latest version is the last committed and says what the segments say |
| Follow-ups and drafts (`tasks.py`, `services/followups.py`, `main.py`) | `tasks` (unique `dedupe_key`), message drafts | create from an analysis, approve a draft | one of a content per call; none sent before a publication |
| Exports and artifacts (`main.py`, `services/exports.py`) | `artifact_versions` | export, record | different documents, numbered without a gap |
| Watcher (`services/watcher.py`) | `source_imports` (unique path and hash), `calls`, objects, the quarantine folder, a heartbeat | scan: list, observe, hash, look up, validate, import, mark duplicate, quarantine | every complete sound recording becomes one call; corrupt ones are recorded |
| Retention and deletion (`tasks.py`, `main.py`) | `retention_jobs`, calls, objects | upload, delete end to end, nightly retention | a row without audio has a job that says why; a completed job is true; what expired disappears |
| Members and teams (`main.py`, `services/keycloak.py`, `bootstrap_admin.py`) | `memberships`, `teams`, Keycloak users | create, change, deactivate, bootstrap | an administrator is left and can enter; identity and membership agree |
| Scorecards, settings, glossary (`main.py`) | scorecard versions with one active; rows under unique keys | create, activate, insert, rename, delete | exactly one active version; no name twice |
| Tenant isolation (`database.py`, `sql/`) | `app.tenant_id` of a transaction | `tenant_session`, row-level security | no query shows rows of another tenant |
| Talk metrics (`services/metrics.py`) | none | one pass over the segments | silence and overlap as defined, however segments are nested |
| Evidence (`services/evidence.py`, `services/versioning.py`) | the analysis, its confidence | check citations, find reasons for review | nothing unsupported stays; what was removed is seen by a person |
| Backup and restore (`scripts/`) | archives, database and objects | dump, copy, verify, prune, restore | a good archive remains; what it holds fits together |
| AI providers, audio tools, CDR, rendering, front end, load tests | outside, or no state | | not modelled, section 7 |

How they interact. The watcher and the API store an object, commit a call as `queued` and
then publish a Celery message; nothing joins the last two. The worker takes the message and
commits once per stage; between two commits it waits, for minutes, for a provider. The API
writes the status of the same row at any time, without consulting the transition table.
Celery acknowledges late and requeues the message of a lost worker, so a run may be repeated
from the beginning while the row says it is in the middle. Reviewers change versions and the
status of a call in transactions of their own.

What is hard, and where: stale sessions (`expire_on_commit=False`, so a run works from what
it read when it started, and a rollback with no transaction open refreshes nothing); late
acknowledgement and duplicates; two retry counters that are reset at different times; API
writes during a run; several commits per file in the watcher, and files that change between
them; two-store operations (object and row, Keycloak and row, folder and row); check-then-act
without locks (version numbers, reviews, last administrator, active scorecard); row objects
that a session keeps while others write the rows; a tenant setting that ends with the first
transaction of a session. The list
with line numbers is `hazards` in `PROJECT.json`.

## 2. Modules

| Module | What it is |
|---|---|
| `PipelineStates` | the statuses and the transition table, `pipeline.py` |
| `CallPipeline` | calls, broker, workers and operators: the core |
| `CallLifecycle` | the abstract life of a call nobody interferes with |
| `MCCallPipeline` | instances for TLC, with the mishap budget |
| `CallPipelineProofs` | theorems about `CallPipeline` in any environment |
| `PipelineServiceProofs` | theorems about `CallPipeline` when no message is lost, and `CallLifecycle` |
| `Watcher` | scans of a folder or an SFTP server |
| `MCWatcher` | instances for TLC |
| `WatcherProofs` | theorems about `Watcher` |
| `Transcript` | segments, corrections, versions and follow-ups of one call |
| `TranscriptProofs` | theorems about `Transcript` |
| `Review` | analysis versions, review cases, publication, drafts, artifacts |
| `ReviewProofs` | theorems about `Review` and `Evidence` |
| `CallStorage` | a call's row and its audio: upload, deletion, retention |
| `Backup` | extends `CallStorage` with backups and restores beside the services |
| `BackupProofs` | theorems about `Backup`, and so about `CallStorage` beside it |
| `Membership` | members and their Keycloak identities |
| `Settings` | scorecards, teams, glossary, single-row settings |
| `AdministrationProofs` | theorems about `Membership` and `Settings` |
| `TenantSession` | sessions, pooled connections and the policies |
| `TenantSessionProofs` | theorems about `TenantSession` |
| `TalkMetrics` | the pass over the segments, against a reference |
| `Evidence` | validation of citations and the reasons for review |
| `MCRecords` | the nine modules above that record something, one topic per behaviour |

### 2.1 CallPipeline

One step is one committed transaction with the work that leads to it.

| Model | Code |
|---|---|
| `call[c]` | the columns of `calls` that decide: status, `retry_count`, whether `next_retry_at` and `error_code` are set. `uploaded` means that the transaction of the upload is still open |
| `analysis[c]` | the latest analysis version: none, in review, published |
| `broker` | the messages of `process_call` not yet acknowledged |
| `at[w]`, `task[w]` | where a worker is and its message |
| `seen[w]` | the row as its session believes it to be |
| `Import` | `create_call`, and `import_file` of the watcher |
| `Take`, `SkipCompleted`, `Begin`, `Preprocessed`, `Transcribed`, `Analyzed` | `_process_call` from its select to its last commit |
| `Fail` | its `except` branch: roll back, select, decide, record |
| `RefuseRun`, `NothingToReanalyze`, `ErrorInTransaction`, `ErrorBetweenTransactions`, `DatabaseError` | the ways into it |
| `Retry`, `GiveUpRetrying`, `TimeLimit`, `Crash`, `Acknowledge` | `process_call`, `self.retry`, Celery's limits and late acknowledgement |
| `RequestRun`, `RequestReanalysis`, `CorrectTranscript`, `Quarantine`, `PublishAnalysis` | the API handlers that write the status |

*Sessions.* `SessionFactory` is made with `expire_on_commit=False`. What a run read when it
started, and wrote since, is what it checks and changes for all its life, and a flush writes
only the columns whose value it changed (`Flush`). The failure handler begins with
`session.rollback()`. If a transaction is open the rollback expires the objects and the next
select reads the row again (`call[c]`); if none is open, as after an error of storage, ffmpeg
or the provider between two commits, it expires nothing and the handler decides on the old
row (`seen[w]`). This is the difference between `ErrorInTransaction` and
`ErrorBetweenTransactions`. A re-analysis has its transaction open from the select of the
segments to the end.

*Mishaps.* `spent[e]` counts what the environment did, `Limit[e]` bounds it, for each kind
of event separately: operator requests, stage errors, lost workers, duplicates (a lost
acknowledgement, or a retry that waits longer than Redis' visibility timeout), database
errors at the start of a run, failed publications, time limits.

*Abstractions.* (a) An API handler, which selects, changes and commits within milliseconds,
is one step; races between the select and the commit of one are not explored here (a
publication that decides on a latest version just replaced, for one): for versions and cases
`Review` explores them, for segments `Transcript`. Every statement below about what operators cannot do to a call
holds under this abstraction. (b) `Take` merges the delivery of a message and the first
select. (c) The broker is a set: identical copies of a message count once. (d)
`PublishAnalysis` stands for the steps from approval to publication; deletion of a call and
the rows of `pipeline_events` are left out. (e) Segments and follow-ups
are in `Transcript`; extraction rows are left out. They do not decide where a call goes,
except that a re-analysis needs segments, which exist as soon as an analysis does.

*Properties.* `InProgressIsServed`: a call that is queued, in a stage or scheduled for a
retry has a message. `LossIsExplained`: it has one as long as nothing that loses messages has
happened (`NothingLost`: no duplicate, failed publication, time limit or database error at the
start of a run so far) and the stages failed no more often than Celery retries
(`CapSuffices`); so in any environment a call left behind is explained by one of these.
`QueuedIsSettled`: it is eventually completed, in review, failed or
quarantined. `SessionIsCurrent`: no running worker works from a stale row.
`SuccessIsClean`: a success leaves no error, no scheduled retry and a full retry budget.
`RetryIsExplained`: a row that says `retry_scheduled` has the error, the time and a count
within the schedule. `CompletedIsPublished`: a completed call has a published latest
analysis. `QuarantineHolds`: no queued message takes a call out of quarantine.
`ImplementsLifecycle`: the pipeline implements `CallLifecycle` under the mapping
"queued and retry_scheduled are waiting, stages are running, the rest is settled".

*Fairness.* `WF(Work(w))`: a worker that holds a message goes on with it (the coroutine runs,
every wait in it has a timeout). `WF(Deliver(c))`: the broker delivers what it holds to an
idle worker. Nothing is assumed of imports, errors, crashes or operators.

### 2.2 Watcher

| Model | Code |
|---|---|
| `file[p]`, `made[p]` | the file at a path, as it grows to `FullSize`, and what is recorded in it. A content at a size stands for its bytes and its SHA-256 |
| `source[p]` | the row of `source_imports`: unknown, observed (`waiting_for_file` or `discovered`, which decide nothing), imported, quarantined; observed size; whether the stability window has passed; hash |
| `calls` | the calls imported: `external_id`, `source_hash`, the object stored |
| `vault` | the quarantine folder |
| `scan[w]` | the position of a scan: step, files to go, the SFTP listing, the digest of the current file |
| `StartScan`, `SkipProcessed`, `Observe`, `Hash`, `MarkDuplicate`, `Validate`, `Insert`, `Commit`, `Move`, `RecordQuarantine`, `Abort` | `scan_once` / `_scan_client` and the repository methods they call, one step per transaction or file operation |
| `Interrupt` | a lost process, or an error of database, storage or server: either ends the scan |
| `ProbeFails` | a missing ffprobe or its timeout, which raise a `PipelineFailure` and so quarantine the file |
| `Write`, `Age` | the recorder; time. No stability window passes over a half-written file that does not change: this is the assumption the stability check itself makes |

Folder and SFTP are two values of `mode`. They differ as the code does: a folder's file is
measured, hashed, validated and uploaded in four reads of the file itself, and quarantine
moves it away; SFTP measures from a listing made when the scan began, works on a downloaded
copy, skips paths that are done with, and records duplicates. `Insert` waits while another
import is between its flush and its commit, because `object_key` is unique and begins as
`"pending"`.

*Abstractions.* The select of `is_source_processed` is merged with the observation that
follows it, and the hash of a file with the look-up of it. The heartbeat, the cap on the
number of files of a listing, a path that is used again for another file after quarantine,
and the crash between commit and publication (which is `CallPipeline`'s broker mishap) are
not here. Objects orphaned by a rollback are not counted.

*Properties.* `WholeRecording` (folder): what is imported is complete and the object stored
is the one hashed. `OneCallPerRecording`: the same bytes never become two calls (on a folder with
any number of watchers, over SFTP with one: a second watcher with an old listing may replace
the hash of a path that is done with).
`OnlyCorruptIsQuarantined` (folder): no sound file is moved away, unless ffprobe failed.
`DistinctIsImported`: every complete sound recording becomes a call, or belongs to one
already known by its id. `CorruptIsRecorded`: corrupt audio gets a quarantined row.
`QuarantineIsRecorded`: a row that says quarantined has the recording it names in the vault;
and what was moved out of a folder is whole and has its row, unless the scan is about to write
it, a scan was interrupted, or another path took the same hash in between. The
exceptions each of them makes are real weaknesses, and are listed as hazards: a copy over
SFTP, a stale SFTP listing (with the shipped poll interval of 10 s and window of 15 s),
an ffprobe failure, a crash between moving a file and recording it.

*Fairness.* `WF(Watch(w))`: `_scan_loop` never ends and starts another scan after every
error. `WF(Age(p))`: time passes.

### 2.3 Transcript

One call. The point of the module is what SQLAlchemy's session does: rows that a session has
loaded keep the values first loaded (`expire_on_commit=False`), a later select of the same rows
returns these objects, and an update writes only the columns that changed since.

| Model | Code |
|---|---|
| `segments[p]` | the row of `transcript_segments` at a position: id, text and role, `is_manually_corrected` |
| `corrections`, `transcripts`, `latestTranscript` | `transcript_corrections`, `transcript_versions`, `latest_transcript_version_id` |
| `followUps[f]` | how many drafts there are of a content, and how many tasks |
| `work[a]` | the session of a worker or editor: its mode, the rows it loaded, what it writes, the version number it read, the follow-ups it found missing, whether it holds the lock of the call's row |
| `BeginFullRun`, `BeginReanalysis`, `LockAndSelect`, `LookUp` | a run up to its last transaction, the transition to `validating`, `_upsert_segments`, `snapshot_transcript`, `_create_followups` |
| `OpenCorrection`, `FlushCorrection` | `edit_segment`, `update_speaker_roles`, `create_transcript_snapshot` up to their commit |
| `Commit`, `FailSession` | the end of each, under the unique key of versions and the lock of the row |

*Properties.* `VersionsFollowCommits`: max + 1 read without a lock still numbers the versions
in the order of the commits. `CorrectionKept`: only a correction changes a corrected segment.
`CorrectionIsExplained`: the words of a corrected segment are in `transcript_corrections`.
`LatestTranscriptIsCurrent`: the latest version says what the segments say.
`FollowUpsAreDistinct`. The two exceptions are stated with `overlapped`, the kinds of session
that held loaded rows while another one committed: two corrections that overlap may mix text
and role, and a re-analysis that overlaps a correction takes a snapshot of what it loaded
(section 4). *Left out*: times, labels and normalized text of a segment.

### 2.4 Review

| Model | Code |
|---|---|
| `versions`, `cases`, `pointers`, `publications`, `approvals` | the status of `analysis_versions` and `review_cases`, the three pointers of the call, `publication_events`, review events |
| `desk[r]` | a request under way: the case and the call as it loaded them, a draft, an export |
| `AddAnalysis` | `create_analysis_version`, as draft or published by policy |
| `OpenCase`, `Decide` | `_perform_review_action` with `transition_review` and its commit |
| `OpenMessage`, `ApproveMessage` | `approve_message` |
| `Export`, `LockAndNumber`, `RecordArtifact` | an export and `_record_artifact`, with its `FOR UPDATE` |

*Properties.* `OfficialStands`: the version shown as official is in force, in its own status,
in its case and in the last event, unless requests crossed. `PublicationWasApproved` has no
such exception. `ArtifactsAreNumbered`: a number read is still the next when it is written.
What crossed requests can do to the official version is a hazard of the code (no row is
locked, `main.py`) and the reason for `crossed`. `CallPipeline` has what a publication does to
the status of the call.

### 2.5 CallStorage and Backup

| Model | Code |
|---|---|
| `uploads[c]`, `keys[c]` | where `create_call` is, its `Idempotency-Key` |
| `rows[c]`, `objects` | the row of the call (fresh or expired), the audio in MinIO |
| `jobs`, `removal[r]`, `listed` | `retention_jobs`; what the manual deletion and the nightly retention are doing; tonight's list |
| `AskUpload` ... `UploadFails` | `create_call`, with the flush of `object_key = "pending"` |
| `ListExpired`, `BeginRemoval`, `DeleteObject`, `DeleteRow`, `StorageFails`, `RemovalLost` | `_run_retention`, `delete_call_end_to_end` |
| `backup`, `archives`, `succeeded` | a backup under way and the archives written |
| `Dump`, `CopyObject`, `WriteArchive`, `FinishBackup`, `BackupFails` | `create_backup`: `pg_dump`, then `tar` object by object, the archive, `verify_archive`, the sidecar, `prune_expired` |
| `StopServices`, `RestoreDatabase`, `RestoreObjects`, `RestoreFails` | the restore, as `docs/BACKUP_AND_RECOVERY.md` has the operator do it |

*Properties.* `OneCallPerKey`: two uploads with one key never become two calls.
`RowWithoutObjectHasJob`: audio that is gone is explained by a job that is not completed (or
was missing from the archive). `CompletedJobMeansGone`. `ExpiredIsRemoved` (liveness): with
retention running, an expired call disappears, row and audio, whatever an earlier failure
left; this is what makes the job that says `running` for good harmless. In a restored system
too: a restore replaces rows, keys and jobs together. `DanglingInBackupWasBeingRemoved`: the
order, database first, lets no upload fall between the two copies. `BackupRemains`: pruning
comes after verification, so a good archive is always left. The exception of
`CompletedJobMeansGone`, objects laid over others, is a restore onto a storage that was not
emptied, against the document.

### 2.6 Membership, Settings, TenantSession

`Membership`: `create_admin_member`, `update_admin_member` and `bootstrap_admin` as sequences
of single Keycloak calls (`PostUser`, `ReadUser`, `AttachTenant`, `SetEnabled`, `ClearRoles`,
`GrantRole`) between a read and a commit (`WriteMember`), any of which may be the last
(`GiveUp`). `AdministratorRemains`: the last-administrator rule holds as long as updates of a
tenant do not overlap, and the administrator can enter as long as no request failed half way.
`IdentityAgrees`: about everybody whom no request is changing or has left half changed,
Keycloak and the row agree. `muddled` and `raced` record the exceptions; that they exist is a
hazard of an update which changes Keycloak before the row and locks nothing.

`Settings`: `WithActive` is what the unit of work writes of the versions a request had
read. `SettingsAreSingular`: after a change that overlapped no other exactly one scorecard is
active, whatever earlier races left, and unique keys keep names distinct in spite of the
look-up before the insert.

`TenantSession`: `SetTenant` is `set_config(..., true)`, gone at the end of the transaction;
`BeginLater` is the next transaction of the same session on a connection of the pool.
`NoForeignRows`: no query shows another tenant's rows. The module is about a database role to
which policies apply. The compose file connects as the superuser of its own PostgreSQL image,
for whom PostgreSQL applies none; there the conditions in each query alone decide, and these
are not modelled. In a later transaction the policies show nothing and let nothing be
written, so that a worker connected as an ordinary role would not get past its first commit;
`sql/001_row_level_security.sql` opens with "The API sets app.tenant_id for every transaction",
which `database.py:13` does for the first only.

### 2.7 TalkMetrics and Evidence

`TalkMetrics` computes `calculate_metrics` by folds, as the code does, and `MetricsAgree`
compares silence and overlap with counting seconds, for every list of up to 3 segments with
times from 0 to 3, nested, empty and backwards ones among them.

`Evidence` follows an analysis from the provider's answer through
`validate_analysis_evidence` to `_review_reasons`. A citation is what the checks tell apart:
its segment, how the quote compares, how far the time is; a statement may have several. The
score of an answer is within 0.5 of the total of its items, as `schemas.py` accepts, and the
validation adds it up again. `NothingUnsupportedSurvives` is about the fields the checks read:
the executive summary and the drafts of messages are not among them. `RemovedMeansReviewed`: an
analysis that lost anything does not become official by policy, although what was removed may
be the very price that would have made it critical. What the policy approves may differ from
the answer in the score, which is rewritten without a limitation or a reason for review, and
by no more than the tolerance.

## 3. Runs

| Run | Instance | What it shows |
|---|---|---|
| `undisturbed` | 2 calls, 2 workers, 4 stage errors, 2 lost workers, schedule 2 | no call is left behind, sessions are current, success is clean, `CallLifecycle` is implemented, and with it every call settled |
| `operated` | 1 call, 2 workers, 2 requests of any kind, 2 stage errors, schedule 2 | with operators at work a queued call is still settled in the end, which a call left without a message would not be |
| `contended` | 1 call, 2 workers, 2 requests, 2 of all the other mishaps (a lost worker among them), schedule 1 | type correctness; no row contradicts itself, a call without a message is explained, quarantine holds |
| `watching` | 1 watcher, 2 paths, 3 sizes, both modes, 1 interruption, 1 ffprobe failure | complete recordings are imported once, corrupt ones recorded |
| `watching_together` | 2 watchers, 2 paths, 2 sizes, both modes | uniqueness, quarantine and its rows with every interleaving of two scans |
| `records` | one behaviour per topic, below | the invariants of `Transcript`, `Review`, `CallStorage`, `Backup`, `Membership`, `Settings`, `TenantSession`, `TalkMetrics` and `Evidence`; retention removes what expired |
| `restart_mid_run`, `database_error_at_start`, `resume_twice`, `retry_cap_mismatch`, `sftp_copy`, `correction_during_reanalysis` | the smallest that suffice | counterexamples, section 4 |

Why the bounds are enough. The interesting case of the pipeline is two runs of one call: two
workers and two requests give a run in flight, an operator's request and a second run beside
it. A schedule of two delays has a first, a middle and a last attempt; `contended` has one,
so that its boundary is reached within its budget. Calls meet only in the choice of a worker,
so a second call matters for liveness alone (`undisturbed` has it). In `operated` the two
stage errors are too few for Celery's own cap to be reached; what happens when it is reached
is `retry_cap_mismatch`. `contended` uses the symmetry of the workers, which is sound there
because it checks no liveness, and the constraint `FewMishaps`; `QuarantineHolds` is a
property of single steps, which a constraint does not weaken for the states it keeps. The
pairs of recordings in `MCWatcher` are the cases the code tells apart: two different ones,
one twice with one call id or none, one call recorded twice, corrupt ones. Sizes up to 3 give
two different half-written states, which is what a stale listing needs; with two watchers 2
sizes keep the run short.

`records`. These modules share no variables, so that their composition would only multiply
their states. `MCRecords` chooses a topic at the start; the behaviour is then about that topic
and the other variables rest. The topics and their instances:

| Topic | Instance | Case it must reach |
|---|---|---|
| `transcript` | 2 workers, 2 editors, 2 segments, 3 sessions | a first run that hears something, then a re-analysis or a second run beside a correction, or two corrections |
| `review` | 2 reviewers, 2 analyses, 2 documents, 4 requests | two decisions on two versions of a call, a policy publication between them, two exports at once |
| `storage` | 2 calls, 1 key, 2 manual deletions, 1 failure | two uploads with one key; deletion and retention of one call at once, one of them failing |
| `backup` | 1 upload under way, 2 backups, 3 days, retention of 1 day, 1 failure | a second backup that fails when the first has expired; an upload and a removal while objects are copied; a restore |
| `members` | 2 tenants, 2 emails, 2 requests, 1 outage | two administrators of a tenant demoting each other; an email wanted by both tenants |
| `settings` | 2 clerks, 2 names, 4 requests | two scorecards, then two activations at once; two inserts of a name |
| `tenants` | 2 tenants, 2 connections, 2 sessions at a time, 3 in all | a later transaction on a connection that another tenant's session used |
| `metrics`, `evidence` | 3 segments up to second 3; 1 claim, 1 fact that is critical, 1 good and 1 bad citation, scores in halves | every list of segments of the size; for every statement no citation, the good one, the bad one or both; every score the schema accepts for items of 10 points |

A call is removed by somebody and by retention in `storage`, by retention alone in `backup`,
where a manual deletion differs in nothing the archive could tell. Of `Transcript` a third
session is enough to have an overlap after a first run.

Fairness of `records` (`RetentionRuns`): the beat of Celery starts retention each night, and a
retention that has been started goes on; weak fairness of listing, of beginning a removal, and
of its two steps, in topic `storage`. Failures are bounded by `MaxFaults`, which is the
assumption that they end. Uploads, manual deletions and everything else have none.

Deadlock is not checked: everything may be settled and imported, and the budgets spent, and
then the system rests.

## 4. Where the code and its documents disagree

* `restart_mid_run`. A worker restarted after the first commit of a run leaves the call in a
  stage; the requeued message asks for stage to `preprocessing`, which the table does not
  list, and the call fails. `docs/TESTING.md:61` asks for recovery.
* `database_error_at_start`. A transient database error before the first commit makes the
  failure handler itself raise (`queued` to `retry_scheduled` is not listed): the call stays
  queued with no message. `docs/ARCHITECTURE.md:57` promises a retry.
* `resume_twice`. With two `resume` messages of one call the second run, which read the row
  early, reprocesses a completed call. `docs/ARCHITECTURE.md:59`.
* `retry_cap_mismatch`. A full reprocessing resets `retry_count`, nothing resets Celery's
  count: a call says `retry_scheduled` and no retry is scheduled. `README.md:90`.
* `sftp_copy`. Over SFTP a copy of an imported recording violates the unique hash in
  `mark_duplicate`, and every scan ends there: later files are never imported.
  `docs/TESTING.md:59`, `docs/ISSABEL_INTEGRATION.md:129`.
* `correction_during_reanalysis`. A segment is corrected while a re-analysis waits for the
  provider. The correction stays in the segment, but the transcript version which the
  re-analysis makes the call's latest has the words from before.
  `docs/ARCHITECTURE.md:60`, `:69`.

The documents also disagree with each other about retention. `docs/KNOWN_LIMITATIONS.md:25`,
`docs/SECURITY.md:27` and `docs/CURRENT_SYSTEM_AUDIT.md:53` call the scheduled purge incomplete;
`docs/RELEASE_STATUS.md:19` and `README.md:146` say it is there, and so it is in the code. The
model follows the code, and `ExpiredIsRemoved` is checked.

## 5. Proofs

For every value of the constants, from the named assumptions of the modules. "As long as" is
part of the invariant, a condition on what has happened so far; only the two theorems with
"limits" assume something of the environment's budget `Limit` besides:

| Module | Theorems |
|---|---|
| `CallPipelineProofs` | `TypeCorrect`; `RetryExplained` and `CompletedPublished`, the invariants `RetryIsExplained` and `CompletedIsPublished`; `QuarantineHeld`, the action property |
| `PipelineServiceProofs` | `LossExplained`; `SessionCurrent`, `SuccessClean` and `AloneServed` (as long as `Undisturbed`); `InProgressServed` and `ImplementsLifecycleSteps` (limits) |
| `WatcherProofs` | `TypeCorrect`, `WholeRecordings`, `OnlyCorruptQuarantined`, `QuarantineRecorded`, `OneCallEach` |
| `TranscriptProofs` | `VersionsFollowCommitsHolds`, `LatestTranscriptIsCurrentHolds`, `CorrectionIsExplainedHolds`, `FollowUpsAreDistinctHolds`; `CorrectionKeptHolds`, the action property |
| `ReviewProofs` | `OfficialStandsHolds`, `PublicationWasApprovedHolds`, `ArtifactsAreNumberedHolds`; `NothingUnsupportedSurvivesHolds`, `RemovedMeansReviewedHolds` |
| `BackupProofs` | `OneCallPerKeyHolds`, `RowWithoutObjectHasJobHolds`, `CompletedJobMeansGoneHolds`, `DanglingHolds`, `BackupRemainsHolds` |
| `AdministrationProofs` | `MembersTyped`, `AdministratorRemainsHolds`, `IdentityAgreesHolds`; `SettingsAreSingularHolds` |
| `TenantSessionProofs` | `NoForeignRowsHolds` |

*The pipeline.* `RetryIsExplained` and `CompletedIsPublished` are not inductive: a worker
commits according to `seen`, not to the row, and the row it overwrites may be anything. The
strengthening `ExplainedInv` adds `SessionIsInStage`: a session in a stage believes exactly
that stage, with no error and no retry scheduled. Then every write of a worker changes the
status (no status may follow itself, `TransitionChanges`), so the status it meant is the
status the row gets, whatever was there; a failure in a stage changes the error, the time and
the count too, so they are written with `retry_scheduled`; a failure before the first stage
decides on the row itself and so writes all of it; and
`completed` is written only together with a published version. What
remains is that an operator's write of one column never leaves `retry_scheduled` or
`completed` with the others wrong, one step per handler. `QuarantineHeld` needs that only a
worker with an older session, or a request, writes the row: a session that believes
`quarantined` may not begin a run, and the failure handler, which reads the same, may change
nothing either (`quarantined` leads to `queued` only).

*Service.* `InProgressIsServed` is false in general: section 4 has three ways to lose a
message, and a failed publication and a time limit lose it too. `LossExplained` says, in every
environment, that these are all: until one has happened each call in progress has a message. `NothingLost` excludes duplicates, lost
publications, time limits and database errors before the first commit of a run; workers may be
lost (the broker has the message still), stages may fail, operators may do anything.
`CapSuffices` is what keeps `retry_cap_mismatch` away. Both look at `spent`, which only
grows, so a state that satisfies them was reached through states that do (`SoFar`), and
`ServiceInv` need only hold in these. It says that workers hold different messages of the
broker (`HeldByOne`), that a message has been retried no more often than a stage has failed
(`RetriesWereErrors`), so that the cap never refuses, and that each call in progress has a
message that will still serve it (`Served`): one waiting, or one whose worker is where it can
still write. A worker may end without a trace only if somebody else has taken its call on
(`EndsInVain`); each step of a worker is one of four kinds (`GoesOn`, `Settles`,
`EndsInVain`, `SendsAgain`), and the theorem follows from the kinds. `InProgressServed` is its
corollary for an environment whose limits exclude the losses, such as the run `operated`.

`Undisturbed` adds to `NothingLost` that nobody has requested anything and that the schedule is
no longer than Celery's retries. As long as it holds a call has one message at most
(`OneMessageEach`), which is due whenever a retry is (`RetryIsDue`), the row is what the only
session believes, and `AloneInv` gives `SessionIsCurrent`, `SuccessIsClean` and
`InProgressIsServed` without counting stage errors. Where the limits keep it `Undisturbed` for
good, as in the run `undisturbed`, every step of the pipeline is a step of `CallLifecycle` or
a stutter (`ImplementsLifecycleSteps`, for `CallLifecycle`'s formula `Steps`); its fairness is
left to TLC.

*The watcher.* A scan is at the least path of its list, of which a set of natural numbers has
one (`FirstOfMany`). Type correctness needs that a listed file of a server is not lost
(`NoneIsLost`): otherwise a scan could hash nothing. `FolderInv` is the argument of
`WholeRecording`. A row whose window has passed is of a file that is final (complete, or moved
to the vault, under whose name nothing is written again), or the file has grown since it was
observed, and then the next observation sees it (`RowInFolder`). So a scan past the check is
at a final file, whatever another watcher does to the row in between, each of its four reads
of the file is of the whole recording, and its digest is the digest of that
(`ScanInFolder`). A row that is done with has this digest, and by the unique constraint no two
have the same (`HashesDiffer`); a call is of such a row (`CallsInFolder`). This gives
`OneCallPerRecording` for a folder and any number of watchers. On a server it holds for
another reason: the only watcher is at a path it is not done with (`ScanOnServer`), every
call's hash is in a row that is (`CallsHaveRows`), so the constraint at `Commit` looks at all
the calls there are. `VaultInv` is the argument of `QuarantineIsRecorded`: a scan between the
move and the row has moved what its digest says (`ScansAreVaulted`), a row not done with has no
hash (`RowsHashed`), so whoever holds the hash against it is done with, and nothing is written
again under a path that was moved away, so its row cannot be taken for an import afterwards.
What explains a recording in the vault then goes on explaining it (`NextExplained`).

*The transcript.* `TranscriptInv` says what a session may hold. A worker that is storing has
the lock (`SessionFits`, `OneLock`), so what it selected under the lock is what is stored,
except that a re-analysis may hold the older words of a row it had loaded; these it would
write back unchanged (`RunFits`: what it says at such a position is what it loaded), and an
update writes changed columns only, so that nothing is overwritten. That is why
`CorrectionKept` survives the stale session which the version does not survive
(`LatestTranscriptIsCurrent` needs `LoadedIsCurrent`, and with it that nothing overlapped). A
number is at most one above the versions committed, and a unique one is therefore the next:
`VersionsFollowCommits` without any lock. Follow-ups found missing under the lock still are at
the commit.

*Reviews.* `ReviewInv` adds to the properties what a request knows (`RequestFits`): its decision
was allowed by the status it read, that status was `approved` only if the version has an
approval, which it then has for good, and while nothing has crossed the status and the
pointers it read are the present ones. With `CaseFits` (an approved case has an approval, the
published version exists and was announced) this gives the two properties about publication.
`ArtifactsFit` has the numbers of each version a segment 1 .. n, from which `NextNumber` is
n + 1 and stays so while the lock is held.

*Evidence.* `EvidenceInv`: what is judged is what the checks left of the proposal. Whatever
they removed, or whichever citation, lowered the confidence below the threshold for review
(`LoweredIsReviewed`), and checks that remove nothing change nothing but the score
(`PassedIsKept`), so that what was critical in the answer is critical still or was lost to
them, and is reviewed either way (`CriticalIsReviewed`). The score is compared as the sum it
is; what a sum over a set comes to plays no part.

*Storage and backups.* `StorageInv`: the unique object key `"pending"` lets one upload at a
time be between its flush and its commit, so the key it found free is still free there, and
rows, jobs and retention's list are about uploads that have ended (`UploadsFit`); a removal has
a running job of its own (`RemovalsFit`), which is what lets two removals of one call end
without one falsifying the other's job. `Moves` then says of every step of the services that
audio disappears only with a job and does not come back. `BackupInv` carries the same facts over
to the database that a backup under way has dumped and to that of each archive, which is what
`DanglingInBackupWasBeingRemoved` needs at the copy of the objects and the other two after a
restore, while the services rest (`RestoreFits`). `BackupRemains` needs in addition that
archives have distinct identifiers and that one made today is not old enough to be pruned.

*Members.* `MembershipInv` follows each request through its calls to Keycloak (`CallFits`): up
to the call that attaches or enables, the identity is what the rows say (`Agree`); from there
on it has the tenant of the request, then its `enabled`, then its role, while an update still
finds the row as it loaded it. An email that is not `muddled` is the subject of one request at
most, so no other request disturbs this, and an email with rows is in one tenant throughout:
a request of another tenant ends at `ReadUser`. `IdentityAgrees` is the case of no request.
For `AdministratorRemains` an update under way leaves somebody else an administrator or its
own subject (`KeepsAdmin`); this is what the count established, and it stays true until the
commit since only an update takes the role away and, unless `raced`, there is no other one of
the tenant (`UpdatesApart`). That administrator can enter: if a request is about them, it is
not one that disables (`AdminEnters`).

*Settings.* A request that nobody has overtaken has seen the present versions (`ChangeFits`), so
what it writes leaves its target active and nothing else (`OneActive`), whatever earlier
requests had left.

*Sessions of tenants.* `TenantInv`: no two transactions share a connection, the value a
connection falls back to is unset, and a setting on a connection is that of the session in its
first transaction there. A query then sees its own tenant or nobody.

Only model-checked: liveness (`QueuedIsSettled`, `DistinctIsImported`, `CorruptIsRecorded`,
`ExpiredIsRemoved`) and the part of `ImplementsLifecycle` that is fairness; `MetricsAgree`,
which compares two folds over the segments; `RecordsTypeOK`, of which the types of members are
a theorem (`MembersTyped`), those of transcripts, reviews, storage, backups, settings and
sessions a conjunct of the invariants above, and those of metrics and of the score need the
value of a sum. Out of the prover's reach are liveness, `ENABLED`, and what a fold computes
for every input.

## 6. Plan

1. *Done*: all the modules of section 2, and the proofs of section 5.
2. Of the watcher: the cap on the files of an SFTP listing, which counts files that are done
   with, so that on a full server a new one may never be listed.
3. Of the transcript: the normalized text, times and labels of a corrected segment, which a full
   run replaces; only the words a correction changed are in the model.

## 7. Not modelled

* Speaker roles, Persian normalization, glossary matching, file names: rules over strings, in
  one thread and without state. The glossary's rows are a register of `Settings`.
* Audio probing, conversion and silence analysis; the AI providers; CDR queries; MinIO and
  Keycloak beyond the calls made of them: outside, present as the failures and answers above.
* Rendering of exports, logging, the web front end and its local imitation of the API,
  evaluation and load tests: no state of the system.
* Validation of tokens and reading of settings: no state. Who may enter is `CanEnter` of
  `Membership`.
* Rows that nothing else depends on: extraction, usage records, pipeline events, automations,
  tasks that people create and change, the confirmation of an outcome.
* Of metrics the sums of each speaker; of backups the dump of Keycloak's own database and plain
  files; of segments their times and labels; the conditions in single queries.
* Migrations and models as such; the keys and columns that decide a step are mapped with it.
