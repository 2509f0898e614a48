------------------------- MODULE CallPipelineProofs -------------------------
(***************************************************************************)
(* Theorems about CallPipeline, for every number of calls, workers,        *)
(* retries and mishaps.                                                    *)
(***************************************************************************)
EXTENDS CallPipeline, TLAPS

-----------------------------------------------------------------------------
(* The operators the actions are built from.                               *)

(* A session that writes what it changed leaves a well-formed row.         *)
LEMMA FlushedRow ==
  ASSUME NEW row \in Row, NEW before \in Row, NEW after \in Row
  PROVE  Flush(row, before, after) \in Row
BY DEF Flush, Dirty, Row

(* A status that a session changed is the status of the row it writes.     *)
LEMMA FlushedStatus ==
  ASSUME NEW row, NEW before, NEW after, after.status # before.status
  PROVE  Flush(row, before, after).status = after.status
BY DEF Flush, Dirty

(* No status may change to itself: a transition is always written.         *)
LEMMA TransitionChanges ==
  ASSUME NEW s \in PipelineState, NEW t, EnsureTransition(s, t)
  PROVE  s # t
BY DEF EnsureTransition, Forward, PipelineState

(* A stage is both a status and the position of a worker.                  *)
LEMMA StagesAreStates == Stage \subseteq PipelineState /\ Stage \subseteq Step
BY DEF Stage, PipelineState, Step

(* Counting a mishap keeps the counters.                                   *)
LEMMA SpentType ==
  ASSUME TypeOK, NEW S, Spend(S)
  PROVE  spent' \in [Event -> Nat]
BY DEF TypeOK, Spend

(* Publishing a message keeps the broker and the counters well-formed.     *)
LEMMA PublishType ==
  ASSUME TypeOK, NEW m \in Message, NEW S, Publish(m, S)
  PROVE  broker' \subseteq Message /\ spent' \in [Event -> Nat]
BY SpentType DEF TypeOK, Publish

(* What the worker part of TypeOK says of every worker but one.            *)
WorkersTyped ==
  /\ at \in [Workers -> Step]
  /\ task \in [Workers -> Message \cup {NoTask}]
  /\ \A w \in Workers : at[w] # "idle" => task[w] \in Message
  /\ seen \in [Workers -> Row]

(* The row of a new call is well-formed.                                   *)
LEMMA NewRowIsRow == NewRow \in Row
BY DEF NewRow, Row, PipelineState

(* A worker that lets go of its message is idle with an empty session.     *)
LEMMA ReleaseType ==
  ASSUME TypeOK, NEW w \in Workers, Release(w)
  PROVE  WorkersTyped'
BY NewRowIsRow DEF TypeOK, WorkersTyped, Release, Step

(* Acknowledging a message, or losing the acknowledgement, keeps types.    *)
LEMMA AcknowledgeType ==
  ASSUME TypeOK, NEW w \in Workers, NEW S, Acknowledge(w, S)
  PROVE  WorkersTyped' /\ broker' \subseteq Message /\ spent' \in [Event -> Nat]
BY ReleaseType, SpentType DEF TypeOK, Acknowledge

-----------------------------------------------------------------------------
(* Type correctness.                                                       *)

(* No call and no message at first.                                        *)
LEMMA InitTypeOK == Init => TypeOK
BY NewRowIsRow DEF Init, TypeOK, AnalysisState, Step

(* Reading and writing one row keeps the table well-formed.                *)
LEMMA WriteRow ==
  ASSUME TypeOK, NEW c \in Calls, NEW row \in Row, call' = [call EXCEPT ![c] = row]
  PROVE  call' \in [Calls -> Row]
BY DEF TypeOK

(* What the failure handler records is a row.                              *)
LEMMA FailedRowIsRow ==
  ASSUME NEW row \in Row, NEW retry \in BOOLEAN
  PROVE  FailedRow(row, retry) \in Row
BY DEF FailedRow, Row, PipelineState

(* What a stage writes when it begins is a row.                            *)
LEMMA ClearedIsRow ==
  ASSUME NEW row \in Row, NEW stage \in PipelineState
  PROVE  Cleared(row, stage) \in Row
BY DEF Cleared, Row

(* A worker that holds a message holds one about a call.                   *)
LEMMA BusyWorker ==
  ASSUME TypeOK, NEW w \in Workers, at[w] # "idle"
  PROVE  task[w] \in Message /\ task[w].call \in Calls /\ task[w].mode \in Mode
BY DEF TypeOK, Message

(* The failure handler.                                                    *)
LEMMA FailTypeOK ==
  ASSUME TypeOK, NEW w \in Workers, at[w] # "idle", NEW before \in Row,
         NEW transient \in BOOLEAN, NEW S, Fail(w, before, transient, S)
  PROVE  TypeOK'
<1> DEFINE c == task[w].call
           retry == WillRetry(before, transient)
           row == FailedRow(before, retry)
<1>1. c \in Calls
  BY BusyWorker
<1>2. retry \in BOOLEAN /\ row \in Row
  BY FailedRowIsRow DEF WillRetry
<1>3. call' \in [Calls -> Row]
  <2>1. call[c] \in Row
    BY <1>1 DEF TypeOK
  <2>2. Flush(call[c], before, row) \in Row
    BY <1>2, <2>1, FlushedRow
  <2> QED
    BY <1>1, <2>2 DEF Fail, TypeOK
<1>4. WorkersTyped' /\ broker' \subseteq Message /\ spent' \in [Event -> Nat]
  <2>1. CASE Acknowledge(w, S)
    BY <2>1, AcknowledgeType
  <2>2. CASE /\ Spend(S)
             /\ at' = [at EXCEPT ![w] = "retrying"]
             /\ seen' = [seen EXCEPT ![w] = row]
             /\ UNCHANGED <<broker, task>>
    <3>1. spent' \in [Event -> Nat]
      BY <2>2, SpentType
    <3> QED
      BY <1>2, <2>2, <3>1 DEF TypeOK, WorkersTyped, Step
  <2> QED
    BY <2>1, <2>2 DEF Fail
<1> QED
  BY <1>3, <1>4 DEF TypeOK, WorkersTyped, Fail

(* A stage ends and the next one begins.                                   *)
LEMMA AdvanceTypeOK ==
  ASSUME TypeOK, NEW w \in Workers, NEW stage \in Stage, NEW next \in Stage,
         Advance(w, stage, next)
  PROVE  TypeOK'
<1> DEFINE c == task[w].call
           row == [seen[w] EXCEPT !.status = next]
<1>1. at[w] # "idle" /\ next \in PipelineState /\ next \in Step
  BY StagesAreStates DEF Advance, Stage
<1>2. c \in Calls /\ call[c] \in Row /\ seen[w] \in Row
  BY <1>1, BusyWorker DEF TypeOK
<1>3. row \in Row
  BY <1>1, <1>2 DEF Row
<1>4. Flush(call[c], seen[w], row) \in Row
  BY <1>2, <1>3, FlushedRow
<1> QED
  BY <1>1, <1>2, <1>3, <1>4 DEF Advance, TypeOK

(* A run begins its first stage.                                           *)
LEMMA BeginTypeOK ==
  ASSUME TypeOK, NEW w \in Workers, Begin(w)
  PROVE  TypeOK'
<1> DEFINE c == task[w].call
           stage == FirstStage(task[w].mode)
           row == Cleared(seen[w], stage)
<1>1. c \in Calls /\ call[c] \in Row /\ seen[w] \in Row
  BY BusyWorker DEF TypeOK, Begin
<1>2. stage \in PipelineState /\ stage \in Step
  BY StagesAreStates DEF FirstStage, Stage
<1>3. row \in Row /\ Flush(call[c], seen[w], row) \in Row
  BY <1>1, <1>2, ClearedIsRow, FlushedRow
<1>4. TypeOK /\ task[w] \in Message
  BY BusyWorker DEF Begin
<1> QED
  BY <1>1, <1>2, <1>3, <1>4 DEF Begin, TypeOK

(* The last commit of a run.                                               *)
LEMMA AnalyzedTypeOK ==
  ASSUME TypeOK, NEW w \in Workers, NEW final \in {"completed", "review_needed"},
         Analyzed(w, final)
  PROVE  TypeOK'
<1> DEFINE c == task[w].call
           row == [seen[w] EXCEPT !.status = final, !.retryCount = 0]
<1>1. c \in Calls /\ call[c] \in Row /\ seen[w] \in Row
  BY BusyWorker DEF TypeOK, Analyzed
<1>2. row \in Row
  BY <1>1 DEF Row, PipelineState
<1>3. call' \in [Calls -> Row]
  BY <1>1, <1>2, FlushedRow DEF Analyzed, TypeOK
<1>4. analysis' \in [Calls -> AnalysisState]
  BY <1>1 DEF Analyzed, TypeOK, AnalysisState, VersionFor
<1>5. WorkersTyped' /\ broker' \subseteq Message /\ spent' \in [Event -> Nat]
  BY AcknowledgeType DEF Analyzed
<1> QED
  BY <1>3, <1>4, <1>5 DEF TypeOK, WorkersTyped

(* Celery sends the message again with its count raised.                   *)
LEMMA RetryTypeOK ==
  ASSUME TypeOK, NEW w \in Workers, Retry(w)
  PROVE  TypeOK'
<1> DEFINE again == [task[w] EXCEPT !.retries = @ + 1]
<1>1. again \in Message
  BY BusyWorker DEF Retry, Message
<1>2. WorkersTyped'
  BY ReleaseType DEF Retry
<1>3. spent' \in [Event -> Nat]
  BY SpentType DEF Retry
<1>4. broker' \subseteq Message
  BY <1>1 DEF Retry, TypeOK
<1> QED
  BY <1>2, <1>3, <1>4 DEF Retry, TypeOK, WorkersTyped

(* The steps of a worker that only end its run.                            *)
LEMMA EndOfRunTypeOK ==
  ASSUME TypeOK, NEW w \in Workers,
         \/ \E S : Acknowledge(w, S) /\ UNCHANGED <<call, analysis>>
         \/ Crash(w)
  PROVE  TypeOK'
<1>1. CASE \E S : Acknowledge(w, S) /\ UNCHANGED <<call, analysis>>
  BY <1>1, AcknowledgeType DEF TypeOK, WorkersTyped
<1>2. CASE Crash(w)
  BY <1>2, ReleaseType, SpentType DEF Crash, TypeOK, WorkersTyped
<1> QED
  BY <1>1, <1>2

(* Every step of a worker, and every one that interrupts it.               *)
LEMMA WorkTypeOK ==
  ASSUME TypeOK, NEW w \in Workers, Work(w) \/ Interrupt(w)
  PROVE  TypeOK'
<1> DEFINE c == task[w].call
<1>1. at[w] # "idle" => call[c] \in Row /\ seen[w] \in Row
  BY BusyWorker DEF TypeOK
<1>2. ASSUME at[w] \in Stage PROVE at[w] # "idle"
  BY <1>2 DEF Stage
<1>3. CASE SkipCompleted(w)
  BY <1>3, EndOfRunTypeOK DEF SkipCompleted
<1>4. CASE Begin(w)
  BY <1>4, BeginTypeOK
<1>5. CASE Preprocessed(w)
  BY <1>5, AdvanceTypeOK DEF Preprocessed, Stage
<1>6. CASE Transcribed(w)
  BY <1>6, AdvanceTypeOK DEF Transcribed, Stage
<1>7. CASE \E final \in {"completed", "review_needed"} : Analyzed(w, final)
  BY <1>7, AnalyzedTypeOK
<1>8. CASE RefuseRun(w)
  BY <1>1, <1>8, FailTypeOK DEF RefuseRun
<1>9. CASE NothingToReanalyze(w)
  BY <1>1, <1>9, FailTypeOK DEF NothingToReanalyze
<1>10. CASE \E transient \in BOOLEAN : ErrorInTransaction(w, transient)
  BY <1>1, <1>2, <1>10, FailTypeOK DEF ErrorInTransaction
<1>11. CASE \E transient \in BOOLEAN : ErrorBetweenTransactions(w, transient)
  BY <1>1, <1>2, <1>11, FailTypeOK DEF ErrorBetweenTransactions
<1>12. CASE Retry(w)
  BY <1>12, RetryTypeOK
<1>13. CASE GiveUpRetrying(w)
  BY <1>13, EndOfRunTypeOK DEF GiveUpRetrying
<1>14. CASE DatabaseError(w)
  BY <1>1, <1>14, FailTypeOK DEF DatabaseError
<1>15. CASE TimeLimit(w)
  BY <1>15, EndOfRunTypeOK DEF TimeLimit
<1>16. CASE Crash(w)
  BY <1>16, EndOfRunTypeOK
<1> QED
  BY <1>3, <1>4, <1>5, <1>6, <1>7, <1>8, <1>9, <1>10, <1>11, <1>12, <1>13,
     <1>14, <1>15, <1>16 DEF Work, Interrupt

(* A message is delivered.                                                 *)
LEMMA TakeTypeOK ==
  ASSUME TypeOK, NEW w \in Workers, NEW m \in broker, Take(w, m)
  PROVE  TypeOK'
<1>1. m \in Message /\ call[m.call] \in Row
  BY DEF TypeOK, Message
<1>2. spent' \in [Event -> Nat]
  BY SpentType DEF Take
<1> QED
  BY <1>1, <1>2 DEF Take, Receive, TypeOK, Step

(* What a request publishes is a message.                                  *)
LEMMA RequestedType ==
  ASSUME TypeOK, NEW c \in Calls, NEW mode \in Mode
  PROVE  Requested(c, mode) \in Message
BY DEF Requested, Message, TypeOK, Event

(* An import, and every handler of the API.                                *)
LEMMA OperateTypeOK ==
  ASSUME TypeOK, NEW c \in Calls, Import(c) \/ Operate(c)
  PROVE  TypeOK'
<1>1. call[c] \in Row
  BY DEF TypeOK
<1>2. CASE Import(c)
  <2>1. [call |-> c, request |-> 0, mode |-> "resume", retries |-> 0] \in Message
    BY DEF Message, Mode
  <2>2. broker' \subseteq Message /\ spent' \in [Event -> Nat]
    BY <1>2, <2>1, PublishType DEF Import
  <2>3. call' \in [Calls -> Row]
    BY <1>1, <1>2 DEF Import, TypeOK, Row, PipelineState
  <2> QED
    BY <1>2, <2>2, <2>3 DEF Import, TypeOK
<1>3. CASE \E mode \in Mode : RequestRun(c, mode)
  <2> PICK mode \in Mode : RequestRun(c, mode)
    BY <1>3
  <2>1. broker' \subseteq Message /\ spent' \in [Event -> Nat]
    BY RequestedType, PublishType DEF RequestRun
  <2>2. call' \in [Calls -> Row]
    BY <1>1 DEF RequestRun, TypeOK, Row, PipelineState
  <2> QED
    BY <2>1, <2>2 DEF RequestRun, TypeOK
<1>4. CASE RequestReanalysis(c)
  <2>1. broker' \subseteq Message /\ spent' \in [Event -> Nat]
    BY <1>4, RequestedType, PublishType DEF RequestReanalysis, Mode
  <2>2. call' \in [Calls -> Row]
    BY <1>1, <1>4 DEF RequestReanalysis, TypeOK, Row, PipelineState
  <2> QED
    BY <1>4, <2>1, <2>2 DEF RequestReanalysis, TypeOK
<1>5. CASE CorrectTranscript(c) \/ Quarantine(c)
  <2>1. spent' \in [Event -> Nat]
    BY <1>5, SpentType DEF CorrectTranscript, Quarantine
  <2>2. CASE CorrectTranscript(c)
    BY <1>1, <2>1, <2>2 DEF CorrectTranscript, TypeOK, Row, PipelineState
  <2>3. CASE Quarantine(c)
    <3>1. [[call[c] EXCEPT !.status = "quarantined"] EXCEPT !.retryAt = FALSE] \in Row
      BY <1>1 DEF Row, PipelineState
    <3>2. call' \in [Calls -> Row]
      BY <2>3, <3>1 DEF Quarantine, TypeOK
    <3> QED
      BY <2>1, <2>3, <3>2 DEF Quarantine, TypeOK
  <2> QED
    BY <1>5, <2>2, <2>3
<1>6. CASE PublishAnalysis(c)
  <2>1. spent' \in [Event -> Nat]
    BY <1>6, SpentType DEF PublishAnalysis
  <2>2. call' \in [Calls -> Row] /\ analysis' \in [Calls -> AnalysisState]
    BY <1>1, <1>6 DEF PublishAnalysis, TypeOK, Row, PipelineState, AnalysisState
  <2> QED
    BY <1>6, <2>1, <2>2 DEF PublishAnalysis, TypeOK
<1> QED
  BY <1>2, <1>3, <1>4, <1>5, <1>6 DEF Operate

(* Every step keeps the types.                                             *)
LEMMA NextTypeOK == TypeOK /\ [Next]_vars => TypeOK'
<1> SUFFICES ASSUME TypeOK, [Next]_vars PROVE TypeOK'
  OBVIOUS
<1>1. CASE \E c \in Calls : Import(c) \/ Operate(c)
  BY <1>1, OperateTypeOK
<1>2. CASE \E c \in Calls : Deliver(c)
  BY <1>2, TakeTypeOK DEF Deliver
<1>3. CASE \E w \in Workers : Work(w) \/ Interrupt(w)
  BY <1>3, WorkTypeOK
<1>4. CASE UNCHANGED vars
  BY <1>4 DEF vars, TypeOK
<1> QED
  BY <1>1, <1>2, <1>3, <1>4 DEF Next

(* Every variable keeps its type through every step of the pipeline.       *)
THEOREM TypeCorrect == Spec => []TypeOK
<1> QED
  BY InitTypeOK, NextTypeOK, PTL DEF Spec

-----------------------------------------------------------------------------
(* The status of a row and the columns that explain it.                    *)

(* In a stage, the session believes in the row its run wrote: the status   *)
(* is the stage, and the errors of earlier runs are cleared.               *)
SessionIsInStage ==
  \A w \in Workers : at[w] \in Stage =>
    seen[w].status = at[w] /\ ~seen[w].error /\ ~seen[w].retryAt

(* Any other status than these two needs no explanation.                   *)
LEMMA PlainStatus ==
  ASSUME TypeOK, RetryIsExplained, CompletedIsPublished, NEW c \in Calls,
         NEW row \in Row, row.status \notin {"retry_scheduled", "completed"},
         call' = [call EXCEPT ![c] = row],
         \A d \in Calls \ {c} : analysis'[d] = analysis[d]
  PROVE  RetryIsExplained' /\ CompletedIsPublished'
BY DEF TypeOK, RetryIsExplained, CompletedIsPublished

(* A session that moves its call to any other status.                      *)
LEMMA FlushKeepsStatus ==
  ASSUME TypeOK, RetryIsExplained, CompletedIsPublished, NEW w \in Workers,
         at[w] # "idle", NEW row \in Row, row.status # seen[w].status,
         row.status \notin {"retry_scheduled", "completed"},
         call' = [call EXCEPT ![task[w].call] = Flush(@, seen[w], row)],
         \A d \in Calls \ {task[w].call} : analysis'[d] = analysis[d]
  PROVE  RetryIsExplained' /\ CompletedIsPublished'
<1> DEFINE c == task[w].call
           written == Flush(call[c], seen[w], row)
<1>1. c \in Calls /\ call[c] \in Row /\ seen[w] \in Row
  BY BusyWorker DEF TypeOK
<1>2. written \in Row /\ written.status = row.status
  BY <1>1, FlushedRow, FlushedStatus
<1>3. call' = [call EXCEPT ![c] = written]
  OBVIOUS
<1> HIDE DEF written
<1> QED
  BY <1>1, <1>2, <1>3, PlainStatus

(* The failure handler, on a row just read or on the one of a stage.       *)
LEMMA FailExplained ==
  ASSUME TypeOK, RetryIsExplained, CompletedIsPublished, NEW w \in Workers,
         at[w] # "idle", NEW before \in Row,
         \/ before = call[task[w].call]
         \/ ~before.error /\ ~before.retryAt,
         NEW transient \in BOOLEAN, NEW S, Fail(w, before, transient, S)
  PROVE  RetryIsExplained' /\ CompletedIsPublished'
<1> DEFINE c == task[w].call
           retry == WillRetry(before, transient)
           row == FailedRow(before, retry)
           written == Flush(call[c], before, row)
<1>1. c \in Calls /\ call[c] \in Row
  BY BusyWorker DEF TypeOK
<1>2. retry \in BOOLEAN /\ row \in Row
  BY FailedRowIsRow DEF WillRetry
<1>3. analysis' = analysis
  BY DEF Fail
<1>4. CASE call' = call
  BY <1>3, <1>4 DEF RetryIsExplained, CompletedIsPublished
<1>5. CASE /\ EnsureTransition(before.status, row.status)
           /\ call' = [call EXCEPT ![c] = written]
  <2>1. before.status # row.status
    BY <1>5, TransitionChanges DEF Row
  <2>2. written \in Row /\ written.status = row.status
    BY <1>1, <1>2, <2>1, FlushedRow, FlushedStatus
  <2>3. CASE ~retry
    <3>1. row.status = "failed"
      BY <2>3 DEF FailedRow
    <3> HIDE DEF written
    <3> QED
      BY <1>1, <1>3, <1>5, <2>2, <3>1, PlainStatus
  <2>4. CASE retry
    <3>1. row.error /\ row.retryAt /\ row.retryCount \in 1 .. ScheduleLength
      <4>1. row.error /\ row.retryAt
        BY <2>4, Zenon DEF FailedRow
      <4>2. before.retryCount \in Nat /\ before.retryCount < ScheduleLength
        BY <2>4 DEF WillRetry, Row
      <4>3. row.retryCount = before.retryCount + 1
        BY DEF FailedRow
      <4> QED
        BY <4>1, <4>2, <4>3, ScheduleAssumption
    <3>2. row.retryCount # before.retryCount /\ row.status = "retry_scheduled"
      BY <2>4 DEF FailedRow, Row
    <3>3. written.retryCount = row.retryCount
      BY <3>2 DEF Flush, Dirty
    <3>4. written.error /\ written.retryAt
      <4>1. CASE before = call[c]
        BY <3>1, <4>1 DEF Flush, Dirty
      <4>2. CASE ~before.error /\ ~before.retryAt
        BY <3>1, <4>2 DEF Flush, Dirty
      <4> QED
        BY <4>1, <4>2
    <3> HIDE DEF written, row
    <3>5. \A d \in Calls : call'[d] = IF d = c THEN written ELSE call[d]
      BY <1>5 DEF TypeOK
    <3>6. RetryIsExplained'
      BY <3>1, <3>3, <3>4, <3>5 DEF RetryIsExplained
    <3>7. CompletedIsPublished'
      BY <1>3, <2>2, <3>2, <3>5 DEF CompletedIsPublished
    <3> QED
      BY <3>6, <3>7
  <2> QED
    BY <2>3, <2>4
<1> QED
  BY <1>4, <1>5 DEF Fail

(* What the safety theorems need to know of a state.                       *)
ExplainedInv ==
  TypeOK /\ SessionIsInStage /\ RetryIsExplained /\ CompletedIsPublished

(* There is nothing to explain at first.                                   *)
LEMMA InitExplained == Init => ExplainedInv
BY InitTypeOK
   DEF Init, ExplainedInv, SessionIsInStage, RetryIsExplained,
       CompletedIsPublished, NewRow, Stage

(* Only a worker's own steps change what its session believes.             *)
LEMMA StageKept ==
  ASSUME TypeOK, SessionIsInStage, NEW w \in Workers,
         at'[w] \notin Stage \/ (/\ seen'[w].status = at'[w]
                                /\ ~seen'[w].error /\ ~seen'[w].retryAt),
         \A v \in Workers \ {w} : at'[v] = at[v] /\ seen'[v] = seen[v]
  PROVE  SessionIsInStage'
BY DEF SessionIsInStage

(* An idle worker has no session.                                          *)
LEMMA ReleaseInStage ==
  ASSUME TypeOK, SessionIsInStage, NEW w \in Workers, Release(w)
  PROVE  SessionIsInStage'
BY StageKept DEF Release, TypeOK, Stage

(* After the failure handler the worker is idle or about to retry.         *)
LEMMA FailInStage ==
  ASSUME TypeOK, SessionIsInStage, NEW w \in Workers, NEW before,
         NEW transient, NEW S, Fail(w, before, transient, S)
  PROVE  SessionIsInStage'
<1>1. CASE Release(w)
  BY <1>1, ReleaseInStage
<1>2. CASE /\ at' = [at EXCEPT ![w] = "retrying"]
           /\ \E row : seen' = [seen EXCEPT ![w] = row]
  BY <1>2, StageKept DEF TypeOK, Stage
<1> QED
  BY <1>1, <1>2 DEF Fail, Acknowledge

(* A run begins: its session has cleared the error and the retry.          *)
LEMMA BeginExplained ==
  ASSUME ExplainedInv, NEW w \in Workers, Begin(w)
  PROVE  ExplainedInv'
<1> USE DEF ExplainedInv
<1> DEFINE stage == FirstStage(task[w].mode)
           row == Cleared(seen[w], stage)
<1>1. seen[w] \in Row /\ at[w] = "loaded"
  BY DEF Begin, TypeOK
<1>2. stage \in {"analyzing", "preprocessing"} /\ stage \in PipelineState
  BY DEF FirstStage, PipelineState
<1>3. /\ row \in Row /\ row.status = stage
      /\ ~row.error /\ ~row.retryAt
  BY <1>1, <1>2, ClearedIsRow DEF Cleared, Row
<1>4. row.status # seen[w].status
  BY <1>1, <1>3, TransitionChanges DEF Begin, Row
<1>5. RetryIsExplained' /\ CompletedIsPublished'
  BY <1>1, <1>2, <1>3, <1>4, FlushKeepsStatus DEF Begin
<1>6. SessionIsInStage'
  BY <1>1, <1>3, StageKept DEF Begin, TypeOK
<1> QED
  BY <1>5, <1>6, BeginTypeOK

(* A stage ends: the status it meant is the status the row gets.           *)
LEMMA AdvanceExplained ==
  ASSUME ExplainedInv, NEW w \in Workers, NEW stage \in Stage,
         NEW next \in Stage, EnsureTransition(seen[w].status, next),
         Advance(w, stage, next)
  PROVE  ExplainedInv'
<1> USE DEF ExplainedInv
<1> DEFINE row == [seen[w] EXCEPT !.status = next]
<1>1. seen[w] \in Row /\ at[w] # "idle"
  BY DEF Advance, TypeOK, Stage
<1>2. next \in PipelineState /\ next \notin {"retry_scheduled", "completed"}
  BY DEF Stage, PipelineState
<1>3. row \in Row /\ row.status = next
  BY <1>1, <1>2 DEF Row
<1>4. ~row.error /\ ~row.retryAt
  <2>1. ~seen[w].error /\ ~seen[w].retryAt
    BY DEF Advance, SessionIsInStage
  <2> QED
    BY <1>1, <2>1 DEF Row
<1>5. row.status # seen[w].status
  BY <1>1, <1>3, TransitionChanges DEF Row
<1>6. RetryIsExplained' /\ CompletedIsPublished'
  BY <1>1, <1>2, <1>3, <1>5, FlushKeepsStatus DEF Advance
<1>7. SessionIsInStage'
  BY <1>3, <1>4, StageKept DEF Advance, TypeOK
<1> QED
  BY <1>6, <1>7, AdvanceTypeOK

(* A run ends: completed is written with a published analysis only.        *)
LEMMA AnalyzedExplained ==
  ASSUME ExplainedInv, NEW w \in Workers,
         NEW final \in {"completed", "review_needed"}, Analyzed(w, final)
  PROVE  ExplainedInv'
<1> USE DEF ExplainedInv
<1> DEFINE c == task[w].call
           row == [seen[w] EXCEPT !.status = final, !.retryCount = 0]
           written == Flush(call[c], seen[w], row)
<1>1. c \in Calls /\ call[c] \in Row /\ seen[w] \in Row /\ at[w] # "idle"
  BY BusyWorker DEF Analyzed, TypeOK
<1>2. row \in Row /\ row.status = final
  BY <1>1 DEF Row, PipelineState
<1>3. row.status # seen[w].status
  BY <1>2 DEF Analyzed, SessionIsInStage, Stage
<1>4. written.status = final
  <2> HIDE DEF row
  <2> QED
    BY <1>2, <1>3, FlushedStatus
<1> HIDE DEF written
<1>5. \A d \in Calls : call'[d] = IF d = c THEN written ELSE call[d]
  BY DEF Analyzed, TypeOK, written
<1>6. \A d \in Calls : analysis'[d] = IF d = c THEN VersionFor(final) ELSE analysis[d]
  BY DEF Analyzed, TypeOK
<1>7. RetryIsExplained'
  BY <1>4, <1>5 DEF RetryIsExplained
<1>8. CompletedIsPublished'
  BY <1>4, <1>5, <1>6 DEF CompletedIsPublished, VersionFor
<1>9. SessionIsInStage'
  BY ReleaseInStage DEF Analyzed, Acknowledge
<1> QED
  BY <1>7, <1>8, <1>9, AnalyzedTypeOK

(* Every step of a worker, and every one that interrupts it.               *)
LEMMA WorkExplained ==
  ASSUME ExplainedInv, NEW w \in Workers, Work(w) \/ Interrupt(w)
  PROVE  ExplainedInv'
<1> USE DEF ExplainedInv
<1>1. TypeOK'
  BY WorkTypeOK
<1>2. at[w] # "idle" => call[task[w].call] \in Row /\ seen[w] \in Row
  BY BusyWorker DEF TypeOK
<1>3. ASSUME at[w] \in Stage
      PROVE  at[w] # "idle" /\ ~seen[w].error /\ ~seen[w].retryAt
  BY <1>3 DEF Stage, SessionIsInStage
<1>4. CASE Begin(w)
  BY <1>4, BeginExplained
<1>5. CASE Preprocessed(w)
  BY <1>5, AdvanceExplained DEF Preprocessed, Stage
<1>6. CASE Transcribed(w)
  <2>1. seen[w].status = "transcribing"
    BY <1>6 DEF Transcribed, Advance, SessionIsInStage, Stage
  <2>2. Advance(w, "transcribing", "analyzing")
    BY <1>6 DEF Transcribed
  <2>3. SessionIsInStage'
    <3>1. /\ at' = [at EXCEPT ![w] = "analyzing"]
          /\ seen' = [seen EXCEPT ![w] = [seen[w] EXCEPT !.status = "analyzing"]]
          /\ at[w] = "transcribing"
      BY <2>2 DEF Advance
    <3>2. ~seen[w].error /\ ~seen[w].retryAt /\ seen[w] \in Row
      BY <1>3, <3>1 DEF Stage, TypeOK
    <3>3. at'[w] = "analyzing" /\ seen'[w].status = "analyzing"
          /\ ~seen'[w].error /\ ~seen'[w].retryAt
      BY <3>1, <3>2 DEF TypeOK, Row
    <3> QED
      BY <3>1, <3>3, StageKept DEF TypeOK
  <2>4. RetryIsExplained' /\ CompletedIsPublished'
    <3> DEFINE row == [seen[w] EXCEPT !.status = "analyzing"]
    <3>1. at[w] # "idle" /\ seen[w] \in Row
      BY <1>2, <2>2 DEF Advance
    <3>2. row \in Row /\ row.status = "analyzing"
      BY <3>1 DEF Row, PipelineState
    <3>3. call' = [call EXCEPT ![task[w].call] = Flush(@, seen[w], row)]
          /\ analysis' = analysis
      BY <2>2 DEF Advance
    <3> HIDE DEF row
    <3> QED
      BY <2>1, <3>1, <3>2, <3>3, FlushKeepsStatus
  <2> QED
    BY <1>1, <2>3, <2>4
<1>7. CASE \E final \in {"completed", "review_needed"} : Analyzed(w, final)
  BY <1>7, AnalyzedExplained
<1>8. CASE \E before \in Row, transient \in BOOLEAN, S \in SUBSET Event :
             /\ at[w] # "idle"
             /\ before = call[task[w].call] \/ (~before.error /\ ~before.retryAt)
             /\ Fail(w, before, transient, S)
  BY <1>1, <1>8, FailExplained, FailInStage
<1>9. CASE RefuseRun(w) \/ NothingToReanalyze(w) \/ DatabaseError(w)
  <2>1. at[w] # "idle"
    BY <1>9 DEF RefuseRun, NothingToReanalyze, DatabaseError
  <2>2. \E transient \in BOOLEAN, S \in SUBSET Event :
          Fail(w, call[task[w].call], transient, S)
    BY <1>9 DEF RefuseRun, NothingToReanalyze, DatabaseError, Event
  <2> QED
    BY <1>2, <1>8, <2>1, <2>2
<1>10. CASE \E transient \in BOOLEAN : ErrorInTransaction(w, transient)
  BY <1>2, <1>3, <1>8, <1>10 DEF ErrorInTransaction, Event
<1>11. CASE \E transient \in BOOLEAN : ErrorBetweenTransactions(w, transient)
  BY <1>2, <1>3, <1>8, <1>11 DEF ErrorBetweenTransactions, Event
<1>12. CASE Release(w) /\ UNCHANGED <<call, analysis>>
  BY <1>1, <1>12, ReleaseInStage DEF RetryIsExplained, CompletedIsPublished
<1>13. CASE SkipCompleted(w) \/ Retry(w) \/ GiveUpRetrying(w) \/ TimeLimit(w) \/ Crash(w)
  BY <1>12, <1>13
     DEF SkipCompleted, Retry, GiveUpRetrying, TimeLimit, Crash, Acknowledge
<1> QED
  BY <1>4, <1>5, <1>6, <1>7, <1>9, <1>10, <1>11, <1>13 DEF Work, Interrupt

(* An import, and every handler of the API.                                *)
LEMMA OperateExplained ==
  ASSUME ExplainedInv, NEW c \in Calls, Import(c) \/ Operate(c)
  PROVE  ExplainedInv'
<1> USE DEF ExplainedInv
<1>1. TypeOK'
  BY OperateTypeOK
<1>2. UNCHANGED <<at, seen>>
  BY DEF Import, Operate, RequestRun, RequestReanalysis, CorrectTranscript,
         Quarantine, PublishAnalysis
<1>3. SessionIsInStage'
  BY <1>2 DEF SessionIsInStage
<1>4. call[c] \in Row
  BY DEF TypeOK
<1>5. CASE \/ Import(c) \/ RequestReanalysis(c) \/ CorrectTranscript(c)
           \/ Quarantine(c) \/ \E mode \in Mode : RequestRun(c, mode)
  <2>1. analysis' = analysis
    BY <1>5 DEF Import, RequestRun, RequestReanalysis, CorrectTranscript, Quarantine
  <2>2. /\ call'[c].status \in {"queued", "review_needed", "quarantined"}
        /\ call'[c] \in Row
        /\ call' = [call EXCEPT ![c] = call'[c]]
    <3>1. CASE Quarantine(c)
      BY <1>1, <1>4, <3>1 DEF Quarantine, TypeOK, Row
    <3>2. CASE Import(c) \/ RequestReanalysis(c) \/ CorrectTranscript(c)
      BY <1>1, <1>4, <3>2 DEF Import, RequestReanalysis, CorrectTranscript, TypeOK, Row
    <3>3. CASE \E mode \in Mode : RequestRun(c, mode)
      BY <1>1, <1>4, <3>3 DEF RequestRun, TypeOK, Row
    <3> QED
      BY <1>5, <3>1, <3>2, <3>3
  <2> QED
    BY <1>1, <1>3, <2>1, <2>2, PlainStatus
<1>6. CASE PublishAnalysis(c)
  <2>1. \A d \in Calls : /\ d # c => call'[d] = call[d] /\ analysis'[d] = analysis[d]
                        /\ analysis'[c] = "published" /\ call'[c].status = "completed"
    BY <1>4, <1>6 DEF PublishAnalysis, TypeOK, Row
  <2> QED
    BY <1>1, <1>3, <2>1 DEF RetryIsExplained, CompletedIsPublished
<1> QED
  BY <1>5, <1>6 DEF Operate

(* A delivery changes no row.                                              *)
LEMMA DeliverExplained ==
  ASSUME ExplainedInv, NEW w \in Workers, NEW m \in broker, Take(w, m)
  PROVE  ExplainedInv'
<1> USE DEF ExplainedInv
<1>1. SessionIsInStage'
  BY StageKept DEF Take, Receive, TypeOK, Stage
<1> QED
  BY <1>1, TakeTypeOK DEF Take, Receive, RetryIsExplained, CompletedIsPublished

(* The strengthened invariant is inductive.                                *)
LEMMA NextExplained == ExplainedInv /\ [Next]_vars => ExplainedInv'
<1> SUFFICES ASSUME ExplainedInv, [Next]_vars PROVE ExplainedInv'
  OBVIOUS
<1>1. CASE \E c \in Calls : Import(c) \/ Operate(c)
  BY <1>1, OperateExplained
<1>2. CASE \E c \in Calls : Deliver(c)
  BY <1>2, DeliverExplained DEF Deliver
<1>3. CASE \E w \in Workers : Work(w) \/ Interrupt(w)
  BY <1>3, WorkExplained
<1>4. CASE UNCHANGED vars
  BY <1>4, NextTypeOK
     DEF vars, ExplainedInv, SessionIsInStage, RetryIsExplained, CompletedIsPublished
<1> QED
  BY <1>1, <1>2, <1>3, <1>4 DEF Next

(* It holds of every behaviour.                                            *)
LEMMA ExplainedAlways == Spec => []ExplainedInv
<1> QED
  BY InitExplained, NextExplained, PTL DEF Spec

(* A call scheduled for a retry always carries the error, the time and the *)
(* failure count of that retry, whatever the sessions and operators do.    *)
THEOREM RetryExplained == Spec => []RetryIsExplained
<1>1. ExplainedInv => RetryIsExplained
  BY DEF ExplainedInv
<1> QED
  BY <1>1, ExplainedAlways, PTL

(* A completed call always has a published analysis.                       *)
THEOREM CompletedPublished == Spec => []CompletedIsPublished
<1>1. ExplainedInv => CompletedIsPublished
  BY DEF ExplainedInv
<1> QED
  BY <1>1, ExplainedAlways, PTL

-----------------------------------------------------------------------------
(* Quarantine.                                                             *)

(* An operator's step is counted as a request.                             *)
LEMMA OperateIsRequest ==
  ASSUME TypeOK, NEW c \in Calls, Operate(c)
  PROVE  spent'["request"] # spent["request"]
<1>1. PICK S : Spend(S) /\ "request" \in S
  <2>1. CASE \/ RequestReanalysis(c)
             \/ \E mode \in Mode : RequestRun(c, mode)
    <3>1. PICK m : Publish(m, {"request"})
      BY <2>1 DEF RequestReanalysis, RequestRun
    <3>2. Spend({"request"}) \/ Spend({"request"} \cup {"broker"})
      BY <3>1 DEF Publish
    <3> QED
      BY <3>2
  <2>2. CASE CorrectTranscript(c) \/ Quarantine(c) \/ PublishAnalysis(c)
    BY <2>2 DEF CorrectTranscript, Quarantine, PublishAnalysis
  <2> QED
    BY <2>1, <2>2 DEF Operate
<1>2. "request" \in Event
  BY DEF Event
<1>3. spent'["request"] = spent["request"] + 1 /\ spent["request"] \in Nat
  BY <1>1, <1>2 DEF Spend, TypeOK
<1> QED
  BY <1>3

(* The failure handler leaves a row it reads as quarantined alone.         *)
LEMMA FailLeavesQuarantine ==
  ASSUME NEW w, NEW before, before.status = "quarantined", NEW transient, NEW S,
         Fail(w, before, transient, S)
  PROVE  call' = call
BY DEF Fail, FailedRow, EnsureTransition, Forward

(* A worker whose session believes the call is quarantined leaves it so.   *)
LEMMA WorkLeavesQuarantine ==
  ASSUME ExplainedInv, NEW w \in Workers, Work(w) \/ Interrupt(w),
         call[task[w].call].status = "quarantined",
         at[w] # "idle" => seen[w].status = "quarantined"
  PROVE  call' = call
<1>1. at[w] \notin Stage
  BY DEF ExplainedInv, SessionIsInStage, Stage
<1>2. CASE Begin(w)
  BY <1>2 DEF Begin, EnsureTransition, Forward, FirstStage
<1>3. CASE RefuseRun(w) \/ DatabaseError(w)
  BY <1>3, FailLeavesQuarantine DEF RefuseRun, DatabaseError
<1>4. CASE SkipCompleted(w) \/ Retry(w) \/ GiveUpRetrying(w) \/ TimeLimit(w) \/ Crash(w)
  BY <1>4 DEF SkipCompleted, Retry, GiveUpRetrying, TimeLimit, Crash
<1> QED
  BY <1>1, <1>2, <1>3, <1>4
     DEF Work, Interrupt, Preprocessed, Transcribed, Advance, Analyzed,
         NothingToReanalyze, ErrorInTransaction, ErrorBetweenTransactions, Stage

(* A worker writes no row but that of its call.                            *)
LEMMA WorkWritesOneRow ==
  ASSUME NEW w \in Workers, Work(w) \/ Interrupt(w)
  PROVE  \E row : call' = [call EXCEPT ![task[w].call] = row] \/ call' = call
BY DEF Work, Interrupt, SkipCompleted, Begin, Preprocessed, Transcribed, Advance,
       Analyzed, RefuseRun, NothingToReanalyze, ErrorInTransaction,
       ErrorBetweenTransactions, DatabaseError, Fail, Retry, GiveUpRetrying,
       TimeLimit, Crash

(* No delivery takes a call out of quarantine: neither the message queued  *)
(* before nor a scheduled retry, unless its run had already read the row   *)
(* or somebody asks for a run.                                             *)
THEOREM QuarantineHeld == Spec => QuarantineHolds
<1> DEFINE Held(c) ==
      (/\ call[c].status = "quarantined"
       /\ spent'["request"] = spent["request"]
       /\ \A w \in Workers : at[w] # "idle" /\ task[w].call = c =>
            seen[w].status = "quarantined")
      => call'[c].status = "quarantined"
<1>1. ExplainedInv /\ [Next]_vars => [\A c \in Calls : Held(c)]_vars
  <2> SUFFICES ASSUME ExplainedInv, Next, NEW c \in Calls,
                      call[c].status = "quarantined",
                      spent'["request"] = spent["request"],
                      \A w \in Workers : at[w] # "idle" /\ task[w].call = c =>
                        seen[w].status = "quarantined"
               PROVE  call'[c].status = "quarantined"
    OBVIOUS
  <2>1. TypeOK
    BY DEF ExplainedInv
  <2>2. CASE \E d \in Calls : Import(d)
    BY <2>1, <2>2 DEF Import, TypeOK
  <2>3. CASE \E d \in Calls : Deliver(d)
    BY <2>3 DEF Deliver, Take, Receive
  <2>4. CASE \E d \in Calls : Operate(d)
    BY <2>1, <2>4, OperateIsRequest
  <2>5. CASE \E w \in Workers : Work(w) \/ Interrupt(w)
    <3> PICK w \in Workers : Work(w) \/ Interrupt(w)
      BY <2>5
    <3>1. CASE task[w].call = c
      BY <3>1, WorkLeavesQuarantine
    <3>2. CASE task[w].call # c
      BY <2>1, <3>2, WorkWritesOneRow DEF TypeOK
    <3> QED
      BY <3>1, <3>2
  <2> QED
    BY <2>2, <2>3, <2>4, <2>5 DEF Next
<1> QED
  BY <1>1, ExplainedAlways, PTL DEF Spec, QuarantineHolds
=============================================================================
