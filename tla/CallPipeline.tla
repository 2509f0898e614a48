---------------------------- MODULE CallPipeline ----------------------------
(***************************************************************************)
(* The processing of recorded calls: the calls table, the Celery broker,   *)
(* the workers that run process_call and the HTTP handlers that change a   *)
(* call's status (backend/app/tasks.py, main.py).                          *)
(*                                                                         *)
(* A step is one committed transaction together with the work that leads   *)
(* to it.  Between two transactions a worker waits for storage, ffmpeg or  *)
(* the AI provider, and everything else may happen.  A worker's session is *)
(* opened with expire_on_commit=False: what it read when it started, and   *)
(* wrote since, is what it goes on believing (seen), and a flush writes    *)
(* only the columns whose value it changed.                                *)
(*                                                                         *)
(* The broker keeps a message until the worker that ran it acknowledges it *)
(* (task_acks_late), so a delivery may be repeated.  A task id is the      *)
(* request that published it; the broker is a set, so two copies of one    *)
(* message count as one until one of them is acknowledged.                 *)
(***************************************************************************)
EXTENDS Naturals, PipelineStates

CONSTANTS
  Calls,           \* the calls of the tenants
  Workers,         \* the worker processes (celery --concurrency)
  ScheduleLength,  \* len(settings.retry_schedule)
  MaxRetries,      \* settings.processing_max_retries, Celery's own cap
  Limit,           \* how often each event of the environment may happen
  NoTask           \* what an idle worker holds

(* What the environment may do, each at most Limit[e] times:               *)
(*   request      an operator or a user changes the status of a call       *)
(*   stage_error  storage, ffmpeg or a provider raises during a stage      *)
(*   crash        a worker process is lost (task_reject_on_worker_lost)    *)
(*   duplicate    a message is delivered again: its acknowledgement is     *)
(*                lost, or it outlives Redis' visibility timeout           *)
(*   database     the first transaction of a run fails                     *)
(*   broker       publishing a message fails, or its sender dies before it *)
(*   time_limit   task_soft_time_limit or task_time_limit ends a task      *)
Event == {"request", "stage_error", "crash", "duplicate", "database",
          "broker", "time_limit"}

ASSUME LimitAssumption == Limit \in [Event -> Nat]
ASSUME ScheduleAssumption == ScheduleLength \in Nat \ {0}
ASSUME MaxRetriesAssumption == MaxRetries \in Nat

Mode == {"resume", "reanalyze", "full"}

(* What process_call.delay and self.retry put on the queue.                *)
Message == [call : Calls, request : Nat, mode : Mode, retries : Nat]
ASSUME NoTaskAssumption == NoTask \notin Message

(* The columns of a call that decide what happens to it: its status, the   *)
(* failures since its last success, whether next_retry_at and error_code   *)
(* are set.                                                                *)
Row == [status : PipelineState, retryCount : Nat,
        retryAt : BOOLEAN, error : BOOLEAN]
NewRow == [status |-> "uploaded", retryCount |-> 0,
           retryAt |-> FALSE, error |-> FALSE]

(* The latest analysis version of a call: none yet, waiting for a person,  *)
(* or published.                                                           *)
AnalysisState == {"none", "in_review", "published"}

(* Where a worker is: idle; the row is read; in a stage of the provider;   *)
(* a failure is recorded and the retry not yet published.                  *)
Stage == {"preprocessing", "transcribing", "analyzing"}
Step == {"idle", "loaded", "retrying"} \cup Stage

VARIABLES
  call,      \* the committed rows
  analysis,  \* the latest analysis version of each call
  broker,    \* the messages not yet acknowledged
  at,        \* where each worker is
  task,      \* the message each worker runs
  seen,      \* the row as the session of each worker believes it to be
  spent      \* how often each event of the environment has happened

vars == <<call, analysis, broker, at, task, seen, spent>>

TypeOK ==
  /\ call \in [Calls -> Row]
  /\ analysis \in [Calls -> AnalysisState]
  /\ broker \subseteq Message
  /\ at \in [Workers -> Step]
  /\ task \in [Workers -> Message \cup {NoTask}]
  /\ \A w \in Workers : at[w] # "idle" => task[w] \in Message
  /\ seen \in [Workers -> Row]
  /\ spent \in [Event -> Nat]

(* A call starts as the row its upload is about to commit.                 *)
Init ==
  /\ call = [c \in Calls |-> NewRow]
  /\ analysis = [c \in Calls |-> "none"]
  /\ broker = {}
  /\ at = [w \in Workers |-> "idle"]
  /\ task = [w \in Workers |-> NoTask]
  /\ seen = [w \in Workers |-> NewRow]
  /\ spent = [e \in Event |-> 0]

-----------------------------------------------------------------------------
(* The environment's budget.                                               *)
Spend(S) ==
  /\ \A e \in S : spent[e] < Limit[e]
  /\ spent' = [e \in Event |-> IF e \in S THEN spent[e] + 1 ELSE spent[e]]

(* process_call.delay after the commit that made it necessary.             *)
Publish(m, S) ==
  \/ Spend(S) /\ broker' = broker \cup {m}
  \/ Spend(S \cup {"broker"}) /\ UNCHANGED broker

(* The session of worker w writes the columns it changed.                  *)
Dirty(now, before, after) == IF after = before THEN now ELSE after
Flush(row, before, after) ==
  [ status |-> Dirty(row.status, before.status, after.status),
    retryCount |-> Dirty(row.retryCount, before.retryCount, after.retryCount),
    retryAt |-> Dirty(row.retryAt, before.retryAt, after.retryAt),
    error |-> Dirty(row.error, before.error, after.error) ]

(* Worker w is done with its message, whether it ran or failed.            *)
Release(w) ==
  /\ at' = [at EXCEPT ![w] = "idle"]
  /\ task' = [task EXCEPT ![w] = NoTask]
  /\ seen' = [seen EXCEPT ![w] = NewRow]

(* The message leaves the broker, unless its acknowledgement is lost.      *)
Acknowledge(w, S) ==
  /\ Release(w)
  /\ \/ Spend(S) /\ broker' = broker \ {task[w]}
     \/ Spend(S \cup {"duplicate"}) /\ UNCHANGED broker

-----------------------------------------------------------------------------
(* create_call and import_file: the object is stored first, then the row   *)
(* is committed as queued, then the message is published.                  *)
Import(c) ==
  /\ call[c].status = "uploaded"
  /\ call' = [call EXCEPT ![c].status = "queued"]
  /\ Publish([call |-> c, request |-> 0, mode |-> "resume", retries |-> 0], {})
  /\ UNCHANGED <<analysis, at, task, seen>>

(* A worker receives a message and selects the call.                       *)
Receive(w, m) ==
  /\ at[w] = "idle"
  /\ m \in broker
  /\ at' = [at EXCEPT ![w] = "loaded"]
  /\ task' = [task EXCEPT ![w] = m]
  /\ seen' = [seen EXCEPT ![w] = call[m.call]]
  /\ UNCHANGED <<call, analysis, broker>>

(* A message that another worker runs is received only as a duplicate.     *)
Take(w, m) ==
  /\ Receive(w, m)
  /\ Spend(IF \E v \in Workers : task[v] = m THEN {"duplicate"} ELSE {})

AlreadyCompleted(w) == seen[w].status = "completed" /\ task[w].mode = "resume"

(* resume leaves a completed call alone.                                   *)
SkipCompleted(w) ==
  /\ at[w] = "loaded"
  /\ AlreadyCompleted(w)
  /\ Acknowledge(w, {})
  /\ UNCHANGED <<call, analysis>>

(* Where a run of each mode starts.                                        *)
FirstStage(mode) == IF mode = "reanalyze" THEN "analyzing" ELSE "preprocessing"

(* Mutant: the errors of the last run stay.                                *)
StaysUnclear(row, stage) == [row EXCEPT !.status = stage]

(* The row a run starts with.                                              *)
Cleared(row, stage) ==
  [row EXCEPT !.status = stage, !.error = FALSE, !.retryAt = FALSE]

(* The first transaction of a run: the errors are cleared and the status   *)
(* becomes that of the first stage, as _transition allows.                 *)
Begin(w) ==
  LET c == task[w].call
      stage == FirstStage(task[w].mode)
      row == Cleared(seen[w], stage)
  IN /\ at[w] = "loaded"
     /\ ~AlreadyCompleted(w)
     /\ EnsureTransition(seen[w].status, stage)
     /\ call' = [call EXCEPT ![c] = Flush(@, seen[w], row)]
     /\ seen' = [seen EXCEPT ![w] = row]
     /\ at' = [at EXCEPT ![w] = stage]
     /\ UNCHANGED <<analysis, broker, task, spent>>

(* The commit that moves a run to its next stage.                          *)
Advance(w, stage, next) ==
  LET c == task[w].call
      row == [seen[w] EXCEPT !.status = next]
  IN /\ at[w] = stage
     /\ call' = [call EXCEPT ![c] = Flush(@, seen[w], row)]
     /\ seen' = [seen EXCEPT ![w] = row]
     /\ at' = [at EXCEPT ![w] = next]
     /\ UNCHANGED <<analysis, broker, task, spent>>

(* The audio is downloaded, validated and converted.                       *)
Preprocessed(w) ==
  /\ EnsureTransition(seen[w].status, "transcribing")
  /\ Advance(w, "preprocessing", "transcribing")

(* The transcript is there; roles are assigned in the same transaction.    *)
Transcribed(w) ==
  /\ EnsureTransition(seen[w].status, "assigning_roles")
  /\ EnsureTransition("assigning_roles", "analyzing")
  /\ Advance(w, "transcribing", "analyzing")

(* A re-analysis starts from the stored segments, which only the last      *)
(* transaction of a run writes.                                            *)
HasTranscript(w) == task[w].mode = "reanalyze" => analysis[task[w].call] # "none"

(* Mutant: the policy that needs no review publishes nothing.              *)
NeverPublished(final) == IF final \in PipelineState THEN "in_review" ELSE "none"

(* A version is published by policy when no review is required.            *)
VersionFor(final) == IF final = "completed" THEN "published" ELSE "in_review"

(* The last transaction of a run stores the segments, the analysis version *)
(* and the follow-ups, and settles the call: in review, or, when no review *)
(* is required, published by policy and completed.                         *)
Analyzed(w, final) ==
  LET c == task[w].call
      row == [seen[w] EXCEPT !.status = final, !.retryCount = 0]
  IN /\ at[w] = "analyzing"
     /\ HasTranscript(w)
     /\ EnsureTransition(seen[w].status, "validating")
     /\ EnsureTransition("validating", "creating_followups")
     /\ EnsureTransition("creating_followups", final)
     /\ call' = [call EXCEPT ![c] = Flush(@, seen[w], row)]
     /\ analysis' = [analysis EXCEPT ![c] = VersionFor(final)]
     /\ Acknowledge(w, {})

-----------------------------------------------------------------------------
(* Mutant: one attempt more than the schedule has delays for.              *)
WillRetryOnceMore(row, transient) == transient /\ row.retryCount <= ScheduleLength

(* RetryPolicy: a transient error within the schedule is tried again.      *)
WillRetry(row, transient) == transient /\ row.retryCount < ScheduleLength

FailedRow(row, retry) ==
  [ status |-> IF retry THEN "retry_scheduled" ELSE "failed",
    retryCount |-> row.retryCount + 1, retryAt |-> retry, error |-> TRUE ]

(* The except branch of _process_call: roll back, select the call, decide, *)
(* record the failure.  It decides on the row before, which is the current *)
(* one only if the rollback ended a transaction: with none open it expires *)
(* nothing, and the select returns the object the session already holds.   *)
(* When that row's status does not allow the change, ensure_transition     *)
(* raises in the handler, nothing is recorded and the task ends.           *)
Fail(w, before, transient, S) ==
  LET c == task[w].call
      retry == WillRetry(before, transient)
      row == FailedRow(before, retry)
      recorded == EnsureTransition(before.status, row.status)
  IN /\ \/ recorded /\ call' = [call EXCEPT ![c] = Flush(@, before, row)]
        \/ ~recorded /\ UNCHANGED call
     /\ \/ /\ recorded /\ retry
           /\ Spend(S)
           /\ at' = [at EXCEPT ![w] = "retrying"]
           /\ seen' = [seen EXCEPT ![w] = row]
           /\ UNCHANGED <<broker, task>>
        \/ ~(recorded /\ retry) /\ Acknowledge(w, S)
     /\ UNCHANGED analysis

(* InvalidTransition before the first commit: the transaction is open.     *)
RefuseRun(w) ==
  /\ at[w] = "loaded"
  /\ ~AlreadyCompleted(w)
  /\ ~EnsureTransition(seen[w].status, FirstStage(task[w].mode))
  /\ Fail(w, call[task[w].call], FALSE, {})

(* RuntimeError("empty_transcript") of a re-analysis with no segments.     *)
NothingToReanalyze(w) ==
  /\ at[w] = "analyzing"
  /\ ~HasTranscript(w)
  /\ Fail(w, call[task[w].call], FALSE, {})

(* The database fails in the transaction that ends a stage, or, in a       *)
(* re-analysis, anything fails after the segments were selected.           *)
ErrorInTransaction(w, transient) ==
  /\ at[w] \in Stage
  /\ transient \/ at[w] = "analyzing"
  /\ Fail(w, call[task[w].call], transient, {"stage_error"})

(* Storage, ffmpeg or the provider fails between two transactions.         *)
ErrorBetweenTransactions(w, transient) ==
  /\ at[w] \in Stage
  /\ task[w].mode # "reanalyze"
  /\ Fail(w, seen[w], transient, {"stage_error"})

(* The database fails before the first commit: a transient error.          *)
DatabaseError(w) ==
  /\ at[w] = "loaded"
  /\ ~AlreadyCompleted(w)
  /\ Fail(w, call[task[w].call], TRUE, {"database"})

(* Mutant: the first attempt counts as a retry.                            *)
CapCountsFirstAttempt(m) == m.retries + 1 < MaxRetries

(* Celery's cap counts the retries of one message.                         *)
CapAllows(m) == m.retries < MaxRetries

(* Mutant: the message that is tried again goes back to the queue as well. *)
RetryAndRequeue(w) ==
  /\ at[w] = "retrying"
  /\ CapAllows(task[w])
  /\ Release(w)
  /\ Spend({})
  /\ broker' = broker \cup {[task[w] EXCEPT !.retries = @ + 1]}
  /\ UNCHANGED <<call, analysis>>

(* self.retry: the same task, one retry later, if Celery's cap allows it.  *)
Retry(w) ==
  LET m == task[w]
      again == [m EXCEPT !.retries = @ + 1]
  IN /\ at[w] = "retrying"
     /\ CapAllows(m)
     /\ Release(w)
     /\ \/ Spend({}) /\ broker' = (broker \ {m}) \cup {again}
        \/ Spend({"duplicate"}) /\ broker' = broker \cup {again}
     /\ UNCHANGED <<call, analysis>>

(* self.retry raises: the cap is reached, or the broker is gone (Reject).  *)
GiveUpRetrying(w) ==
  /\ at[w] = "retrying"
  /\ Acknowledge(w, IF CapAllows(task[w]) THEN {"broker"} ELSE {})
  /\ UNCHANGED <<call, analysis>>

(* The time limit of the task cancels the coroutine while it awaits: no    *)
(* handler of _process_call sees a CancelledError, and the task is         *)
(* acknowledged as failed.                                                 *)
TimeLimit(w) ==
  /\ at[w] \in Stage
  /\ Acknowledge(w, {"time_limit"})
  /\ UNCHANGED <<call, analysis>>

(* Mutant: the message was acknowledged when it was received.              *)
CrashLosesMessage(w) ==
  /\ at[w] # "idle"
  /\ Spend({"crash"})
  /\ Release(w)
  /\ broker' = broker \ {task[w]}
  /\ UNCHANGED <<call, analysis>>

(* The process is lost: its message goes back to the queue.                *)
Crash(w) ==
  /\ at[w] # "idle"
  /\ Spend({"crash"})
  /\ Release(w)
  /\ UNCHANGED <<call, analysis, broker>>

-----------------------------------------------------------------------------
(* HTTP handlers.  They write the status without consulting the table.     *)
(* Mutant: the action's own name is sent as the mode.                      *)
RequestedByName(c, mode) ==
  [ call |-> c, request |-> spent["request"] + 1,
    mode |-> IF mode = "resume" THEN "retry" ELSE mode, retries |-> 0 ]

(* The message of a request.                                               *)
Requested(c, mode) ==
  [call |-> c, request |-> spent["request"] + 1, mode |-> mode, retries |-> 0]

(* reprocess_call, and processing_action with retry, reanalyze or          *)
(* full_reprocess.                                                         *)
RequestRun(c, mode) ==
  /\ call[c].status # "uploaded"
  /\ call' = [call EXCEPT ![c] =
       [ status |-> "queued", error |-> FALSE, retryAt |-> FALSE,
         retryCount |-> IF mode = "full" THEN 0 ELSE @.retryCount ]]
  /\ Publish(Requested(c, mode), {"request"})
  /\ UNCHANGED <<analysis, at, task, seen>>

(* queue_analysis_version, and an edit of the transcript or of the speaker *)
(* roles with reanalyze: the errors stay.                                  *)
RequestReanalysis(c) ==
  /\ call[c].status # "uploaded"
  /\ call' = [call EXCEPT ![c].status = "queued"]
  /\ Publish(Requested(c, "reanalyze"), {"request"})
  /\ UNCHANGED <<analysis, at, task, seen>>

(* The same edit without reanalyze: the call waits for a review.           *)
CorrectTranscript(c) ==
  /\ analysis[c] # "none"
  /\ Spend({"request"})
  /\ call' = [call EXCEPT ![c].status = "review_needed"]
  /\ UNCHANGED <<analysis, broker, at, task, seen>>

(* processing_action with quarantine.                                      *)
Quarantine(c) ==
  /\ call[c].status # "uploaded"
  /\ Spend({"request"})
  /\ call' = [call EXCEPT ![c].status = "quarantined", ![c].retryAt = FALSE]
  /\ UNCHANGED <<analysis, broker, at, task, seen>>

(* transition_review with publish, for the latest analysis version.        *)
PublishAnalysis(c) ==
  /\ analysis[c] = "in_review"
  /\ Spend({"request"})
  /\ analysis' = [analysis EXCEPT ![c] = "published"]
  /\ call' = [call EXCEPT ![c].status = "completed"]
  /\ UNCHANGED <<broker, at, task, seen>>

-----------------------------------------------------------------------------
(* The steps of a worker that runs a message, in its own time.             *)
Work(w) ==
  \/ SkipCompleted(w)
  \/ Begin(w)
  \/ Preprocessed(w)
  \/ Transcribed(w)
  \/ \E final \in {"completed", "review_needed"} : Analyzed(w, final)
  \/ RefuseRun(w)
  \/ NothingToReanalyze(w)
  \/ \E transient \in BOOLEAN :
       ErrorInTransaction(w, transient) \/ ErrorBetweenTransactions(w, transient)
  \/ Retry(w)
  \/ GiveUpRetrying(w)

Interrupt(w) == DatabaseError(w) \/ TimeLimit(w) \/ Crash(w)

Deliver(c) == \E w \in Workers : \E m \in broker : m.call = c /\ Take(w, m)

(* What a person does to a call.                                           *)
Operate(c) ==
  \/ \E mode \in Mode : RequestRun(c, mode)
  \/ RequestReanalysis(c)
  \/ CorrectTranscript(c)
  \/ Quarantine(c)
  \/ PublishAnalysis(c)

Next ==
  \/ \E c \in Calls : Import(c) \/ Deliver(c) \/ Operate(c)
  \/ \E w \in Workers : Work(w) \/ Interrupt(w)

(* A worker that holds a message goes on with it, and the broker delivers  *)
(* what it holds.  Nobody has to import, fail, crash or operate.           *)
Fairness ==
  /\ \A w \in Workers : WF_vars(Work(w))
  /\ \A c \in Calls : WF_vars(Deliver(c))

Spec == Init /\ [][Next]_vars /\ Fairness

-----------------------------------------------------------------------------
(* Properties.                                                             *)

Settled == {"completed", "review_needed", "failed", "quarantined"}
InProgress == {"queued", "retry_scheduled"} \cup Stage

(* A call shown as scheduled for a retry carries the error that caused it, *)
(* the time of the retry, and a failure count within the schedule: no      *)
(* interleaving of stale sessions and operators leaves the status of one   *)
(* write with the other columns of another.                                *)
RetryIsExplained ==
  \A c \in Calls : call[c].status = "retry_scheduled" =>
    /\ call[c].error /\ call[c].retryAt
    /\ call[c].retryCount \in 1 .. ScheduleLength

(* A completed call has a published analysis version: no run, request or   *)
(* overwritten status completes a call that was never analysed, or whose   *)
(* latest analysis still waits for a person.                               *)
CompletedIsPublished ==
  \A c \in Calls : call[c].status = "completed" => analysis[c] = "published"

(* A quarantine withstands the messages still queued for the call: unless  *)
(* an operator asks for a run, or a run was already past reading the row,  *)
(* no delivery takes the call out of quarantine.                           *)
QuarantineHolds ==
  [][ \A c \in Calls :
        /\ call[c].status = "quarantined"
        /\ spent'["request"] = spent["request"]
        /\ \A w \in Workers : at[w] # "idle" /\ task[w].call = c =>
             seen[w].status = "quarantined"
        => call'[c].status = "quarantined" ]_vars

(* A call that is queued, in a stage or scheduled for a retry has a message *)
(* that will run it: it is never left behind.                              *)
InProgressIsServed ==
  \A c \in Calls : call[c].status \in InProgress => \E m \in broker : m.call = c

(* So far no acknowledgement and no publication was lost, and no run met   *)
(* its time limit or a database error before its first commit.             *)
NothingLost ==
  /\ spent["duplicate"] = 0 /\ spent["broker"] = 0
  /\ spent["database"] = 0 /\ spent["time_limit"] = 0

(* So far the stages failed no more often than Celery retries a message.   *)
CapSuffices == spent["stage_error"] <= MaxRetries

(* A call is left behind only where a message was lost: whatever operators *)
(* request while stages fail and workers are lost, a call in progress that *)
(* no message will run is explained by one of the losses above.            *)
LossIsExplained == NothingLost /\ CapSuffices => InProgressIsServed

(* The session of a running worker never works from a stale row.           *)
SessionIsCurrent ==
  \A w \in Workers : at[w] # "idle" => seen[w] = call[task[w].call]

(* A call that succeeded shows no trace of the failures before: no error,  *)
(* no scheduled retry, and a full retry budget for the next run.           *)
SuccessIsClean ==
  \A c \in Calls : call[c].status \in {"completed", "review_needed"} =>
    ~call[c].error /\ ~call[c].retryAt /\ call[c].retryCount = 0

(* Every call that is queued is eventually settled.                        *)
QueuedIsSettled ==
  \A c \in Calls : call[c].status = "queued" ~> call[c].status \in Settled

(* With nobody interfering, the pipeline is a CallLifecycle.               *)
PhaseOf(status) ==
  CASE status = "uploaded" -> "new"
    [] status \in {"queued", "retry_scheduled"} -> "waiting"
    [] status \in Stage -> "running"
    [] OTHER -> "settled"

Lifecycle == INSTANCE CallLifecycle WITH
  MaxFailures <- ScheduleLength,
  phase <- [c \in Calls |-> PhaseOf(call[c].status)],
  failures <- [c \in Calls |-> call[c].retryCount]

ImplementsLifecycle == Lifecycle!Spec

(* A worker restart loses no call: with no error in any stage, none fails. *)
RestartFailsNoCall ==
  spent["stage_error"] = 0 => \A c \in Calls : call[c].status # "failed"

(* A run in resume mode never reprocesses a completed call.                *)
ResumeLeavesCompletedAlone ==
  [][ \A c \in Calls :
        /\ call[c].status = "completed"
        /\ spent'["request"] = spent["request"]
        /\ \A w \in Workers : at[w] # "idle" => task[w].mode = "resume"
        => call'[c].status = "completed" ]_vars
=============================================================================
