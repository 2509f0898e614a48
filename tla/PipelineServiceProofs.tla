------------------------ MODULE PipelineServiceProofs ------------------------
(***************************************************************************)
(* Theorems about CallPipeline as long as no message was lost: what is in  *)
(* progress is served, whatever operators do; and as long as nobody        *)
(* interferes the pipeline takes the steps of CallLifecycle.               *)
(***************************************************************************)
EXTENDS CallPipelineProofs

Busy(w) == at[w] # "idle"

-----------------------------------------------------------------------------
(* The environment.                                                        *)

(* What has not happened after a step is not what the step counts.         *)
LEMMA NoneIsSpent ==
  ASSUME TypeOK, NEW e \in Event, spent'[e] = 0, NEW S, Spend(S)
  PROVE  e \notin S
BY DEF TypeOK, Spend

(* An acknowledged message is gone.                                        *)
LEMMA Acknowledged ==
  ASSUME TypeOK, NothingLost', NEW w \in Workers, NEW S, Acknowledge(w, S)
  PROVE  Release(w) /\ broker' = broker \ {task[w]} /\ Spend(S)
BY NoneIsSpent DEF NothingLost, Acknowledge, Event

(* A published message is there.                                           *)
LEMMA Published ==
  ASSUME TypeOK, NothingLost', NEW m, NEW S, Publish(m, S)
  PROVE  broker' = broker \cup {m} /\ Spend(S)
BY NoneIsSpent DEF NothingLost, Publish, Event

(* A message is delivered to one worker.                                   *)
LEMMA Taken ==
  ASSUME TypeOK, NothingLost', NEW w \in Workers, NEW m, Take(w, m)
  PROVE  Receive(w, m) /\ \A v \in Workers : task[v] # m
<1>1. PICK S : Spend(S) /\ ((\E v \in Workers : task[v] = m) => "duplicate" \in S)
  BY DEF Take
<1> QED
  BY <1>1, NoneIsSpent DEF NothingLost, Take, Event

(* Counters only grow.                                                     *)
LEMMA SpentGrows ==
  ASSUME TypeOK, NEW S, Spend(S)
  PROVE  /\ \A e \in Event : spent'[e] >= spent[e]
         /\ \A e \in Event \cap S : spent'[e] = spent[e] + 1
BY DEF TypeOK, Spend

-----------------------------------------------------------------------------
(* What a worker does to its call, its message and itself.                 *)

(* It goes on, and has written where.                                      *)
GoesOn(w) ==
  /\ UNCHANGED <<broker, task>>
  /\ \A v \in Workers \ {w} : at'[v] = at[v] /\ seen'[v] = seen[v]
  /\ \E row \in Row :
       /\ call' = [call EXCEPT ![task[w].call] = row]
       /\ \/ at'[w] \in Stage /\ row.status \in Stage
          \/ /\ at'[w] = "retrying" /\ row.status = "retry_scheduled"
             /\ spent'["stage_error"] > spent["stage_error"]

(* It ends, and has settled the call.                                      *)
Settles(w) ==
  /\ Release(w) /\ broker' = broker \ {task[w]}
  /\ \E row \in Row :
       /\ call' = [call EXCEPT ![task[w].call] = row]
       /\ row.status \in {"completed", "review_needed", "failed"}

(* It ends and has written nothing: the call is not in progress, or others *)
(* have taken it over.                                                     *)
EndsInVain(w) ==
  /\ Release(w) /\ broker' = broker \ {task[w]} /\ call' = call
  /\ \/ call[task[w].call].status \notin InProgress
     \/ at[w] = "loaded" /\ seen[w].status = "completed"
     \/ at[w] \in Stage /\ call[task[w].call].status \notin Stage
     \/ at[w] = "retrying" /\ ~CapAllows(task[w])

(* It sends its message again.                                             *)
SendsAgain(w) ==
  /\ at[w] = "retrying" /\ Release(w) /\ call' = call
  /\ broker' = (broker \ {task[w]}) \cup {[task[w] EXCEPT !.retries = @ + 1]}

(* A status on the way is a stage, and a failure may follow each of them.  *)
LEMMA MayFail ==
  ASSUME NEW s \in InProgress
  PROVE  /\ EnsureTransition(s, "failed")
         /\ s \in Stage => EnsureTransition(s, "retry_scheduled")
BY DEF InProgress, Stage, EnsureTransition, Forward

(* The failure handler, on the row of the call or of a stage.              *)
LEMMA FailShape ==
  ASSUME TypeOK, NothingLost', NEW w \in Workers, Busy(w), NEW before \in Row,
         NEW transient \in BOOLEAN, NEW S, Fail(w, before, transient, S),
         \/ before.status \in Stage
         \/ before = call[task[w].call] /\ (~transient \/ at[w] \in Stage),
         transient => "stage_error" \in S
  PROVE  GoesOn(w) \/ Settles(w) \/ EndsInVain(w)
<1> DEFINE c == task[w].call
           retry == WillRetry(before, transient)
           row == FailedRow(before, retry)
           written == Flush(call[c], before, row)
<1>1. c \in Calls /\ call[c] \in Row
  BY BusyWorker DEF TypeOK, Busy
<1>2. retry \in BOOLEAN /\ row \in Row
  BY FailedRowIsRow DEF WillRetry
<1>3. row.status = IF retry THEN "retry_scheduled" ELSE "failed"
  BY DEF FailedRow
<1> HIDE DEF retry, row
<1>4. CASE EnsureTransition(before.status, row.status)
  <2>1. before.status # row.status
    BY <1>4, TransitionChanges DEF Row
  <2>2. written \in Row /\ written.status = row.status
    BY <1>1, <1>2, <2>1, FlushedRow, FlushedStatus
  <2>3. call' = [call EXCEPT ![c] = written]
    BY <1>4 DEF Fail, retry, row
  <2> HIDE DEF written
  <2>4. CASE retry
    <3>1. /\ at' = [at EXCEPT ![w] = "retrying"]
          /\ \E r : seen' = [seen EXCEPT ![w] = r]
          /\ UNCHANGED <<broker, task>>
          /\ Spend(S)
      BY <1>4, <2>4 DEF Fail, retry, row
    <3>2. spent'["stage_error"] > spent["stage_error"]
      <4>1. "stage_error" \in S \cap Event
        BY <2>4 DEF retry, WillRetry, Event
      <4> QED
        BY <3>1, <4>1, SpentGrows DEF TypeOK
    <3> QED
      BY <1>3, <2>2, <2>3, <2>4, <3>1, <3>2 DEF GoesOn, TypeOK
  <2>5. CASE ~retry
    <3>1. Acknowledge(w, S)
      BY <2>5 DEF Fail, retry
    <3> QED
      BY <1>3, <2>2, <2>3, <2>5, <3>1, Acknowledged DEF Settles
  <2> QED
    BY <2>4, <2>5
<1>5. CASE ~EnsureTransition(before.status, row.status)
  <2>1. call' = call /\ Acknowledge(w, S)
    BY <1>5 DEF Fail, retry, row
  <2>2. before.status \notin Stage
    BY <1>3, <1>5, MayFail DEF InProgress
  <2>3. CASE call[c].status \notin InProgress
    BY <2>1, <2>3, Acknowledged DEF EndsInVain
  <2>4. CASE call[c].status \in InProgress
    <3>1. before = call[c] /\ retry
      BY <1>3, <1>5, <2>2, <2>4, MayFail
    <3>2. at[w] \in Stage
      BY <2>2, <3>1 DEF retry, WillRetry
    <3> QED
      BY <2>1, <2>2, <3>1, <3>2, Acknowledged DEF EndsInVain
  <2> QED
    BY <2>3, <2>4
<1> QED
  BY <1>4, <1>5

(* A run reports where it is.                                              *)
LEMMA GoesOnShape ==
  ASSUME TypeOK, NEW w \in Workers, Busy(w), NEW stage \in Stage, NEW row \in Row,
         row.status = stage, EnsureTransition(seen[w].status, stage),
         UNCHANGED <<broker, task>>,
         call' = [call EXCEPT ![task[w].call] = Flush(@, seen[w], row)],
         at' = [at EXCEPT ![w] = stage], seen' = [seen EXCEPT ![w] = row]
  PROVE  GoesOn(w)
<1> DEFINE c == task[w].call
           written == Flush(call[c], seen[w], row)
<1>1. c \in Calls /\ call[c] \in Row /\ seen[w] \in Row
  BY BusyWorker DEF TypeOK, Busy
<1>2. row.status # seen[w].status
  BY <1>1, TransitionChanges DEF Row
<1>3. written \in Row /\ written.status = stage
  BY <1>1, <1>2, FlushedRow, FlushedStatus
<1>4. call' = [call EXCEPT ![c] = written]
  OBVIOUS
<1> HIDE DEF written
<1> QED
  BY <1>3, <1>4 DEF GoesOn, TypeOK

(* Every step of a worker is one of these, or its process is lost.         *)
LEMMA WorkShape ==
  ASSUME ExplainedInv, NothingLost', NEW w \in Workers, Work(w) \/ Interrupt(w)
  PROVE  Busy(w) /\ (GoesOn(w) \/ Settles(w) \/ EndsInVain(w) \/ SendsAgain(w) \/ Crash(w))
<1>1. TypeOK /\ SessionIsInStage
  BY DEF ExplainedInv
<1>2. at[w] \in Stage => Busy(w) /\ seen[w].status = at[w]
  BY <1>1 DEF SessionIsInStage, Stage, Busy
<1>3. Busy(w) => call[task[w].call] \in Row /\ seen[w] \in Row
  BY <1>1, BusyWorker DEF TypeOK, Busy
<1>4. CASE SkipCompleted(w)
  BY <1>1, <1>4, Acknowledged DEF SkipCompleted, AlreadyCompleted, Busy, EndsInVain
<1>5. CASE Begin(w)
  <2> DEFINE stage == FirstStage(task[w].mode)
             row == Cleared(seen[w], stage)
  <2>1. Busy(w) /\ stage \in Stage
    BY <1>5 DEF Begin, Busy, FirstStage, Stage
  <2>2. row \in Row /\ row.status = stage
    BY <1>3, <2>1, ClearedIsRow, StagesAreStates DEF Cleared, Row
  <2> HIDE DEF stage, row
  <2>3. /\ EnsureTransition(seen[w].status, stage)
        /\ UNCHANGED <<broker, task>>
        /\ call' = [call EXCEPT ![task[w].call] = Flush(@, seen[w], row)]
        /\ at' = [at EXCEPT ![w] = stage] /\ seen' = [seen EXCEPT ![w] = row]
    BY <1>5 DEF Begin, stage, row
  <2> QED
    BY <1>1, <2>1, <2>2, <2>3, GoesOnShape
<1>6. CASE Preprocessed(w) \/ Transcribed(w)
  <2>1. PICK next \in Stage :
          /\ Advance(w, at[w], next) /\ at[w] \in Stage /\ next # at[w]
    BY <1>6 DEF Preprocessed, Transcribed, Stage, Advance
  <2> DEFINE row == [seen[w] EXCEPT !.status = next]
             written == Flush(call[task[w].call], seen[w], row)
  <2>2. row \in Row /\ row.status = next /\ next # seen[w].status
    BY <1>2, <1>3, <2>1, StagesAreStates DEF Row
  <2> HIDE DEF row
  <2>3. written \in Row /\ written.status = next
    BY <1>2, <1>3, <2>1, <2>2, FlushedRow, FlushedStatus
  <2> HIDE DEF written
  <2>4. /\ UNCHANGED <<broker, task>>
        /\ call' = [call EXCEPT ![task[w].call] = written]
        /\ at' = [at EXCEPT ![w] = next] /\ seen' = [seen EXCEPT ![w] = row]
    BY <2>1 DEF Advance, row, written
  <2> QED
    BY <1>1, <1>2, <2>1, <2>3, <2>4 DEF GoesOn, TypeOK
<1>7. CASE \E final \in {"completed", "review_needed"} : Analyzed(w, final)
  <2> PICK final \in {"completed", "review_needed"} : Analyzed(w, final)
    BY <1>7
  <2> DEFINE c == task[w].call
             row == [seen[w] EXCEPT !.status = final, !.retryCount = 0]
             written == Flush(call[c], seen[w], row)
  <2>1. Busy(w) /\ at[w] = "analyzing" /\ seen[w].status = "analyzing"
    BY <1>2 DEF Analyzed, Stage
  <2>2. row \in Row /\ row.status = final
    BY <1>3, <2>1 DEF Row, PipelineState
  <2>3. call' = [call EXCEPT ![c] = written] /\ Acknowledge(w, {})
    BY DEF Analyzed
  <2>4. written \in Row /\ written.status = final
    <3> HIDE DEF row
    <3> QED
      BY <1>3, <2>1, <2>2, FlushedRow, FlushedStatus
  <2> HIDE DEF written
  <2> QED
    BY <1>1, <2>1, <2>3, <2>4, Acknowledged DEF Settles
<1>8. CASE RefuseRun(w) \/ NothingToReanalyze(w)
  <2>1. Busy(w) /\ Fail(w, call[task[w].call], FALSE, {})
    BY <1>8 DEF RefuseRun, NothingToReanalyze, Busy
  <2> QED
    BY <1>1, <1>3, <2>1, FailShape
<1>9. CASE \E transient \in BOOLEAN : ErrorInTransaction(w, transient)
  BY <1>1, <1>2, <1>3, <1>9, FailShape DEF ErrorInTransaction
<1>10. CASE \E transient \in BOOLEAN : ErrorBetweenTransactions(w, transient)
  BY <1>1, <1>2, <1>3, <1>10, FailShape DEF ErrorBetweenTransactions
<1>11. CASE Retry(w)
  <2>1. ~Spend({"duplicate"})
    BY <1>1, NoneIsSpent DEF NothingLost, Event
  <2> QED
    BY <1>11, <2>1 DEF Retry, SendsAgain, Busy
<1>12. CASE GiveUpRetrying(w)
  <2>1. PICK S : Acknowledge(w, S) /\ (CapAllows(task[w]) => "broker" \in S)
    BY <1>12 DEF GiveUpRetrying
  <2>2. ~CapAllows(task[w])
    BY <1>1, <2>1, Acknowledged, NoneIsSpent DEF NothingLost, Event
  <2> QED
    BY <1>1, <1>12, <2>1, <2>2, Acknowledged DEF GiveUpRetrying, EndsInVain, Busy
<1>13. CASE DatabaseError(w)
  <2>1. Spend({"database"}) \/ Spend({"database"} \cup {"duplicate"})
    BY <1>13 DEF DatabaseError, Fail, Acknowledge
  <2> QED
    BY <1>1, <2>1, NoneIsSpent DEF NothingLost, Event
<1>14. CASE TimeLimit(w)
  <2>1. Spend({"time_limit"})
    BY <1>1, <1>14, Acknowledged DEF TimeLimit
  <2> QED
    BY <1>1, <2>1, NoneIsSpent DEF NothingLost, Event
<1>15. CASE Crash(w)
  BY <1>15 DEF Crash, Busy
<1> QED
  BY <1>4, <1>5, <1>6, <1>7, <1>8, <1>9, <1>10, <1>11, <1>12, <1>13, <1>14, <1>15
  DEF Work, Interrupt

-----------------------------------------------------------------------------
(* Every step.                                                             *)

(* The counters grow and keep within their limits.                         *)
Counts ==
  \A e \in Event : /\ spent'[e] >= spent[e]
                   /\ spent[e] <= Limit[e] => spent'[e] <= Limit[e]

(* The environment keeps to its budget, and no call returns to its upload. *)
LEMMA NextGrows ==
  ASSUME TypeOK, Next
  PROVE  /\ Counts
         /\ \A c \in Calls : call[c].status # "uploaded" => call'[c].status # "uploaded"
<1>1. \A S : Spend(S) => Counts
  BY LimitAssumption DEF TypeOK, Spend, Counts
<1>2. spent' = spent => Counts
  BY DEF TypeOK, Counts
<1>3. ASSUME NEW c \in Calls, Import(c) \/ Operate(c)
      PROVE  /\ Counts
             /\ \A d \in Calls : call[d].status # "uploaded" => call'[d].status # "uploaded"
  <2>1. Counts
    BY <1>1, <1>3
    DEF Import, Operate, RequestRun, RequestReanalysis, CorrectTranscript, Quarantine,
        PublishAnalysis, Publish
  <2>2. call[c] \in Row
    BY DEF TypeOK
  <2>3. call'[c].status # "uploaded" /\ \A d \in Calls \ {c} : call'[d] = call[d]
    BY <1>3, <2>2
    DEF Import, Operate, RequestRun, RequestReanalysis, CorrectTranscript, Quarantine,
        PublishAnalysis, TypeOK, Row
  <2> QED
    BY <2>1, <2>3
<1>4. ASSUME NEW c \in Calls, Deliver(c)
      PROVE  /\ Counts
             /\ \A d \in Calls : call[d].status # "uploaded" => call'[d].status # "uploaded"
  BY <1>1, <1>4 DEF Deliver, Take, Receive
<1>5. ASSUME NEW w \in Workers, Work(w) \/ Interrupt(w)
      PROVE  /\ Counts
             /\ \A d \in Calls : call[d].status # "uploaded" => call'[d].status # "uploaded"
  <2>1. \A S : Acknowledge(w, S) => Counts
    BY <1>1 DEF Acknowledge
  <2>2. \A before, transient, S : Fail(w, before, transient, S) =>
          /\ Counts
          /\ \A d \in Calls : call[d].status # "uploaded" => call'[d].status # "uploaded"
    BY <1>1, <2>1 DEF Fail, FailedRow, Flush, Dirty, TypeOK
  <2>3. CASE SkipCompleted(w) \/ Retry(w) \/ GiveUpRetrying(w) \/ TimeLimit(w) \/ Crash(w)
    BY <1>1, <2>1, <2>3 DEF SkipCompleted, Retry, GiveUpRetrying, TimeLimit, Crash
  <2>4. CASE Begin(w)
    BY <1>2, <2>4, StagesAreStates DEF Begin, Cleared, FirstStage, Flush, Dirty, TypeOK, Row
  <2>5. CASE Preprocessed(w) \/ Transcribed(w)
    BY <1>2, <2>5 DEF Preprocessed, Transcribed, Advance, Flush, Dirty, TypeOK, Row
  <2>6. CASE \E final \in {"completed", "review_needed"} : Analyzed(w, final)
    BY <2>1, <2>6 DEF Analyzed, Flush, Dirty, TypeOK, Row
  <2>7. CASE \/ RefuseRun(w) \/ NothingToReanalyze(w) \/ DatabaseError(w)
             \/ \E transient \in BOOLEAN :
                  ErrorInTransaction(w, transient) \/ ErrorBetweenTransactions(w, transient)
    BY <2>2, <2>7
    DEF RefuseRun, NothingToReanalyze, DatabaseError, ErrorInTransaction, ErrorBetweenTransactions
  <2> QED
    BY <1>5, <2>3, <2>4, <2>5, <2>6, <2>7 DEF Work, Interrupt
<1> QED
  BY <1>3, <1>4, <1>5 DEF Next

-----------------------------------------------------------------------------
(* Messages and workers.                                                   *)

(* Every message is held by one worker at most, and a request, or the      *)
(* import of a call, has one message.                                      *)
HeldByOne ==
  /\ \A w \in Workers : Busy(w) => task[w] \in broker
  /\ \A v, w \in Workers : Busy(v) /\ Busy(w) /\ task[v] = task[w] => v = w
  /\ \A m, n \in broker : m.call = n.call /\ m.request = n.request => m = n
  /\ \A m \in broker : m.request <= spent["request"] /\ call[m.call].status # "uploaded"

(* Messages leave, workers let go of theirs.                               *)
LEMMA HeldByFewer ==
  ASSUME TypeOK, HeldByOne, Next, broker' \subseteq broker,
         \A v \in Workers : at'[v] # "idle" => /\ Busy(v) /\ task'[v] = task[v]
                                               /\ task[v] \in broker'
  PROVE  HeldByOne'
<1>1. "request" \in Event
  BY DEF Event
<1>2. \A m \in broker : m.call \in Calls /\ m.request \in Nat
  BY DEF TypeOK, Message
<1>3. \A m \in broker' : m.request <= spent'["request"] /\ call'[m.call].status # "uploaded"
  BY <1>1, <1>2, NextGrows, NextTypeOK DEF Counts, HeldByOne, TypeOK
<1> QED
  BY <1>3 DEF HeldByOne, Busy

(* A message is published that nobody holds.                               *)
LEMMA HeldAfterPublication ==
  ASSUME TypeOK, HeldByOne, Next, NEW m \in Message, broker' = broker \cup {m},
         UNCHANGED <<at, task>>, m.request <= spent'["request"],
         call'[m.call].status # "uploaded",
         \A n \in broker : n.call = m.call => n.request # m.request
  PROVE  HeldByOne'
<1>1. "request" \in Event
  BY DEF Event
<1>2. \A n \in broker : n.call \in Calls /\ n.request \in Nat
  BY DEF TypeOK, Message
<1>3. \A n \in broker' : n.request <= spent'["request"] /\ call'[n.call].status # "uploaded"
  BY <1>1, <1>2, NextGrows, NextTypeOK DEF Counts, HeldByOne, TypeOK
<1> QED
  BY <1>3 DEF HeldByOne, Busy

(* A message is sent again by the worker that held it.                     *)
LEMMA HeldAfterRetry ==
  ASSUME TypeOK, HeldByOne, Next, NEW w \in Workers, SendsAgain(w)
  PROVE  /\ HeldByOne'
         /\ \A v \in Workers \ {w} : Busy(v) => task[v] \in broker \ {task[w]}
         /\ \A v \in Workers : at'[v] # "idle" =>
              task'[v] # [task[w] EXCEPT !.retries = @ + 1]
<1> DEFINE m == task[w]
           again == [m EXCEPT !.retries = @ + 1]
<1>1. Busy(w) /\ m \in broker /\ m \in Message
  BY BusyWorker DEF SendsAgain, Busy, HeldByOne
<1>2. again \in Message /\ again.call = m.call /\ again.request = m.request
      /\ again.retries # m.retries
  BY <1>1 DEF Message
<1>3. again \notin broker
  BY <1>1, <1>2 DEF HeldByOne
<1>4. broker' = (broker \ {m}) \cup {again}
  BY DEF SendsAgain
<1> HIDE DEF again
<1>5. \A v \in Workers \ {w} : Busy(v) => task[v] \in broker \ {m}
  BY <1>1 DEF HeldByOne
<1>6. \A v \in Workers : at'[v] # "idle" => v # w /\ Busy(v) /\ task'[v] = task[v]
  BY DEF SendsAgain, Release, TypeOK, Busy
<1>7. "request" \in Event
  BY DEF Event
<1>8. \A n \in broker : n.call \in Calls /\ n.request \in Nat
  BY DEF TypeOK, Message
<1>9. \A n \in broker' : n.request <= spent'["request"] /\ call'[n.call].status # "uploaded"
  <2>1. \A n \in broker : n.request <= spent'["request"] /\ call'[n.call].status # "uploaded"
    BY <1>7, <1>8, NextGrows, NextTypeOK DEF Counts, HeldByOne, TypeOK
  <2> QED
    BY <1>1, <1>2, <1>4, <2>1
<1>10. \A n, o \in broker' : n.call = o.call /\ n.request = o.request => n = o
  BY <1>1, <1>2, <1>4 DEF HeldByOne
<1>11. \A v \in Workers : at'[v] # "idle" => task'[v] \in broker' /\ task'[v] # again
  BY <1>3, <1>4, <1>5, <1>6
<1>12. \A u, v \in Workers : at'[u] # "idle" /\ at'[v] # "idle" /\ task'[u] = task'[v] => u = v
  BY <1>6 DEF HeldByOne
<1> QED
  BY <1>5, <1>9, <1>10, <1>11, <1>12 DEF HeldByOne, Busy, again

(* What an import or a request does to the messages.                       *)
LEMMA OperateShape ==
  ASSUME TypeOK, NothingLost', HeldByOne, NEW c \in Calls, Import(c) \/ Operate(c)
  PROVE  /\ UNCHANGED <<at, task, seen>>
         /\ \A d \in Calls \ {c} : call'[d] = call[d]
         /\ \/ broker' = broker /\ call'[c].status \notin InProgress
            \/ \E m \in Message :
                 /\ m.call = c /\ m.retries = 0 /\ broker' = broker \cup {m}
                 /\ call'[c].status = "queued" /\ m.request <= spent'["request"]
                 /\ \A n \in broker : n.call = c => n.request # m.request
<1>1. call[c] \in Row /\ spent["request"] \in Nat /\ "request" \in Event
  BY DEF TypeOK, Event
<1>2. /\ UNCHANGED <<at, task, seen>>
      /\ \A d \in Calls \ {c} : call'[d] = call[d]
  BY DEF Import, Operate, RequestRun, RequestReanalysis, CorrectTranscript, Quarantine,
         PublishAnalysis, TypeOK
<1>3. CASE Import(c)
  <2> DEFINE m == [call |-> c, request |-> 0, mode |-> "resume", retries |-> 0]
  <2>1. m \in Message /\ m.call = c /\ m.retries = 0 /\ m.request = 0
    BY DEF Message, Mode
  <2>2. broker' = broker \cup {m} /\ Spend({})
    BY <1>3, Published DEF Import
  <2>3. call'[c].status = "queued"
    BY <1>1, <1>3 DEF Import, TypeOK, Row
  <2>4. \A n \in broker : n.call # c
    BY <1>3 DEF Import, HeldByOne
  <2> HIDE DEF m
  <2>5. spent'["request"] \in Nat
    BY <1>1, <1>2, <2>2 DEF Spend
  <2>6. m.request <= spent'["request"]
    BY <2>1, <2>5
  <2> QED
    BY <1>2, <2>1, <2>2, <2>3, <2>4, <2>6
<1>4. ASSUME NEW mode \in Mode, Publish(Requested(c, mode), {"request"}),
             call'[c].status = "queued"
      PROVE  \E m \in Message :
                 /\ m.call = c /\ m.retries = 0 /\ broker' = broker \cup {m}
                 /\ call'[c].status = "queued" /\ m.request <= spent'["request"]
                 /\ \A n \in broker : n.call = c => n.request # m.request
  <2> DEFINE m == Requested(c, mode)
  <2>1. m \in Message
    BY RequestedType
  <2>2. m.call = c /\ m.retries = 0 /\ m.request = spent["request"] + 1
    BY DEF Requested
  <2>3. broker' = broker \cup {m} /\ spent'["request"] = spent["request"] + 1
    BY <1>1, <1>4, Published, SpentGrows
  <2>4. \A n \in broker : n.request \in Nat /\ n.request <= spent["request"]
    BY DEF HeldByOne, TypeOK, Message
  <2> HIDE DEF m
  <2> QED
    BY <1>1, <1>4, <2>1, <2>2, <2>3, <2>4
<1>5. CASE RequestReanalysis(c) \/ \E mode \in Mode : RequestRun(c, mode)
  <2>1. call'[c].status = "queued"
    BY <1>1, <1>5 DEF RequestReanalysis, RequestRun, TypeOK, Row
  <2>2. "reanalyze" \in Mode
    BY DEF Mode
  <2> QED
    BY <1>2, <1>4, <1>5, <2>1, <2>2 DEF RequestReanalysis, RequestRun
<1>6. CASE CorrectTranscript(c) \/ Quarantine(c) \/ PublishAnalysis(c)
  <2>1. call'[c].status \notin InProgress
    BY <1>1, <1>6
    DEF CorrectTranscript, Quarantine, PublishAnalysis, TypeOK, Row, InProgress, Stage
  <2> QED
    BY <1>2, <1>6, <2>1 DEF CorrectTranscript, Quarantine, PublishAnalysis
<1> QED
  BY <1>3, <1>5, <1>6 DEF Operate

(* A delivery: the message is held by the worker that took it alone.       *)
LEMMA HeldAfterDelivery ==
  ASSUME TypeOK, NothingLost', HeldByOne, Next, NEW w \in Workers, NEW m \in broker, Take(w, m)
  PROVE  HeldByOne'
<1>1. /\ broker' = broker /\ call' = call
      /\ at' = [at EXCEPT ![w] = "loaded"] /\ task' = [task EXCEPT ![w] = m]
      /\ \A v \in Workers : task[v] # m
  BY Taken DEF Receive
<1>2. "request" \in Event /\ \A n \in broker : n.request \in Nat
  BY DEF Event, TypeOK, Message
<1>3. \A n \in broker : n.request <= spent'["request"]
  BY <1>2, NextGrows, NextTypeOK DEF Counts, HeldByOne, TypeOK
<1> QED
  BY <1>1, <1>3 DEF HeldByOne, Busy, TypeOK

(* No step gives a message to two workers.                                 *)
LEMMA NextHeldByOne ==
  ASSUME ExplainedInv, NothingLost', HeldByOne, [Next]_vars
  PROVE  HeldByOne'
<1>1. TypeOK
  BY DEF ExplainedInv
<1>2. ASSUME NEW c \in Calls, Import(c) \/ Operate(c) PROVE HeldByOne'
  <2>1. Next
    BY <1>2 DEF Next
  <2>2. CASE broker' = broker
    BY <1>1, <1>2, <2>1, <2>2, OperateShape, HeldByFewer DEF HeldByOne, Busy
  <2>3. CASE broker' # broker
    <3>1. PICK m \in Message :
            /\ m.call = c /\ broker' = broker \cup {m}
            /\ call'[c].status = "queued" /\ m.request <= spent'["request"]
            /\ \A n \in broker : n.call = c => n.request # m.request
      BY <1>1, <1>2, <2>3, OperateShape
    <3> QED
      BY <1>1, <1>2, <2>1, <3>1, OperateShape, HeldAfterPublication
  <2> QED
    BY <2>2, <2>3
<1>3. ASSUME NEW w \in Workers, Work(w) \/ Interrupt(w) PROVE HeldByOne'
  <2>1. Next /\ Busy(w)
    BY <1>3, WorkShape DEF Next
  <2>2. CASE GoesOn(w)
    BY <1>1, <2>1, <2>2, HeldByFewer DEF GoesOn, HeldByOne, Busy
  <2>3. CASE Release(w) /\ broker \ {task[w]} \subseteq broker' /\ broker' \subseteq broker
    <3>1. \A v \in Workers : at'[v] # "idle" => v # w /\ Busy(v) /\ task'[v] = task[v]
      BY <1>1, <2>3 DEF Release, TypeOK, Busy
    <3>2. \A v \in Workers : at'[v] # "idle" => task[v] \in broker'
      BY <2>1, <2>3, <3>1 DEF HeldByOne
    <3> QED
      BY <1>1, <2>1, <2>3, <3>1, <3>2, HeldByFewer
  <2>4. CASE SendsAgain(w)
    BY <1>1, <2>1, <2>4, HeldAfterRetry
  <2> QED
    BY <1>3, <2>2, <2>3, <2>4, WorkShape DEF Settles, EndsInVain, Crash
<1>4. CASE UNCHANGED vars
  BY <1>4 DEF vars, HeldByOne, Busy
<1>5. CASE \E c \in Calls : Deliver(c)
  <2>1. PICK w \in Workers : \E m \in broker : Take(w, m)
    BY <1>5 DEF Deliver
  <2>2. Next
    BY <1>5 DEF Next
  <2> QED
    BY <1>1, <2>1, <2>2, HeldAfterDelivery
<1> QED
  BY <1>2, <1>3, <1>4, <1>5 DEF Next

-----------------------------------------------------------------------------
(* Retries.                                                                *)

(* A message has been tried again at most once for each error.             *)
RetriesWereErrors ==
  /\ \A m \in broker : m.retries <= spent["stage_error"]
  /\ \A w \in Workers : at[w] = "retrying" => task[w].retries < spent["stage_error"]

(* No step counts a retry without an error.                                *)
LEMMA NextRetries ==
  ASSUME ExplainedInv, NothingLost', HeldByOne, RetriesWereErrors, [Next]_vars
  PROVE  RetriesWereErrors'
<1>1. TypeOK /\ TypeOK'
  BY NextTypeOK DEF ExplainedInv
<1>2. /\ spent["stage_error"] \in Nat /\ spent'["stage_error"] \in Nat
      /\ \A m \in broker : m.retries \in Nat
      /\ \A w \in Workers : Busy(w) => task[w].retries \in Nat
  BY <1>1 DEF TypeOK, Event, Message, Busy
<1>3. Next => spent'["stage_error"] >= spent["stage_error"]
  BY <1>1, NextGrows DEF Event, Counts
<1>4. ASSUME NEW c \in Calls, Import(c) \/ Operate(c) PROVE RetriesWereErrors'
  <2>1. Next
    BY <1>4 DEF Next
  <2>2. UNCHANGED <<at, task>> /\ \A m \in broker' : m \in broker \/ m.retries = 0
    BY <1>1, <1>4, OperateShape
  <2> QED
    BY <1>2, <1>3, <2>1, <2>2 DEF RetriesWereErrors, Busy
<1>5. ASSUME NEW w \in Workers, Work(w) \/ Interrupt(w) PROVE RetriesWereErrors'
  <2>1. Next /\ Busy(w)
    BY <1>5, WorkShape DEF Next
  <2>2. CASE GoesOn(w)
    <3>1. /\ at'[w] = "retrying" => spent'["stage_error"] > spent["stage_error"]
          /\ UNCHANGED <<broker, task>> /\ \A v \in Workers \ {w} : at'[v] = at[v]
      BY <2>2 DEF GoesOn, Stage
    <3>2. task[w].retries <= spent["stage_error"]
      BY <2>1 DEF RetriesWereErrors, HeldByOne
    <3> QED
      BY <1>2, <1>3, <2>1, <3>1, <3>2 DEF RetriesWereErrors, Busy
  <2>3. CASE Release(w) /\ broker' \subseteq broker
    BY <1>1, <1>2, <1>3, <2>1, <2>3 DEF RetriesWereErrors, Release, TypeOK, Busy
  <2>4. CASE SendsAgain(w)
    <3>1. [task[w] EXCEPT !.retries = @ + 1].retries <= spent["stage_error"]
      BY <1>1, <1>2, <2>1, <2>4, BusyWorker DEF SendsAgain, RetriesWereErrors, Busy, Message
    <3>2. \A m \in broker' : m.retries <= spent["stage_error"] /\ m.retries \in Nat
      BY <1>1, <1>2, <2>4, <3>1 DEF SendsAgain, RetriesWereErrors, TypeOK, Message
    <3>3. \A v \in Workers : at'[v] = "retrying" => at[v] = "retrying" /\ task'[v] = task[v]
      BY <1>1, <2>4 DEF SendsAgain, Release, TypeOK
    <3> QED
      BY <1>2, <1>3, <2>1, <3>2, <3>3 DEF RetriesWereErrors, Busy
  <2> QED
    BY <1>5, <2>2, <2>3, <2>4, WorkShape DEF Settles, EndsInVain, Crash
<1>6. CASE UNCHANGED vars
  BY <1>6 DEF vars, RetriesWereErrors
<1>7. CASE \E c \in Calls : Deliver(c)
  <2>1. PICK w \in Workers : \E m \in broker : Take(w, m)
    BY <1>7 DEF Deliver
  <2>2. Next
    BY <1>7 DEF Next
  <2>3. /\ broker' = broker /\ at'[w] = "loaded"
        /\ \A v \in Workers \ {w} : at'[v] = at[v] /\ task'[v] = task[v]
    BY <1>1, <2>1 DEF Take, Receive, TypeOK
  <2> QED
    BY <1>2, <1>3, <2>2, <2>3 DEF RetriesWereErrors, Busy
<1> QED
  BY <1>4, <1>5, <1>6, <1>7 DEF Next

-----------------------------------------------------------------------------
(* Whoever is in progress is served.                                       *)

(* A message serves a call as long as the worker that holds it has not     *)
(* been overtaken: it has read the row as it is, or the row is where the   *)
(* worker has put it.                                                      *)
Serves(m, c) ==
  /\ m.call = c
  /\ \A w \in Workers : Busy(w) /\ task[w] = m =>
       \/ at[w] = "loaded" /\ seen[w].status = call[c].status
       \/ at[w] = "retrying" /\ call[c].status = "retry_scheduled"
       \/ at[w] \in Stage /\ call[c].status \in Stage

Served ==
  \A c \in Calls : call[c].status \in InProgress => \E m \in broker : Serves(m, c)

WithinLimits == \A e \in Event : spent[e] <= Limit[e]

ServiceInv ==
  /\ ExplainedInv
  /\ NothingLost => HeldByOne /\ RetriesWereErrors
  /\ NothingLost /\ CapSuffices => Served

(* What has not happened yet had not happened before.                      *)
LEMMA SoFar ==
  ASSUME TypeOK, [Next]_vars
  PROVE  /\ NothingLost' => NothingLost
         /\ CapSuffices' => CapSuffices
         /\ spent'["request"] = 0 => spent["request"] = 0
<1>1. \A e \in Event : spent'[e] >= spent[e]
  <2>1. CASE Next
    BY <2>1, NextGrows DEF Counts
  <2>2. CASE UNCHANGED vars
    BY <2>2 DEF vars, TypeOK
  <2> QED
    BY <2>1, <2>2
<1>2. \A e \in Event : spent[e] \in Nat /\ spent'[e] \in Nat
  BY NextTypeOK DEF TypeOK
<1>3. {"duplicate", "broker", "database", "time_limit", "stage_error", "request"} \subseteq Event
  BY DEF Event
<1>4. NothingLost' => NothingLost
  BY <1>1, <1>2, <1>3 DEF NothingLost
<1>5. CapSuffices' => CapSuffices
  BY <1>1, <1>2, <1>3, MaxRetriesAssumption DEF CapSuffices
<1> QED
  BY <1>1, <1>2, <1>3, <1>4, <1>5

(* A call goes on being served by a message that stays, if who holds it    *)
(* has not moved.                                                          *)
LEMMA StillServed ==
  ASSUME TypeOK, NEW c \in Calls, NEW m \in broker, Serves(m, c),
         m \in broker', call'[c].status = call[c].status,
         \A v \in Workers : at'[v] # "idle" /\ task'[v] = m =>
           Busy(v) /\ task[v] = m /\ at'[v] = at[v] /\ seen'[v] = seen[v]
  PROVE  \E n \in broker' : Serves(n, c)'
BY DEF Serves, Busy

(* What a worker does to its call leaves the others served.                *)
LEMMA OthersServed ==
  ASSUME TypeOK, Served, NEW w \in Workers, Busy(w), NEW c \in Calls, c # task[w].call,
         call'[c] = call[c], call'[c].status \in InProgress,
         \A m \in broker : m # task[w] => m \in broker',
         \A v \in Workers \ {w} : UNCHANGED <<at[v], task[v], seen[v]>>,
         at'[w] # "idle" => task'[w] = task[w]
  PROVE  \E m \in broker' : Serves(m, c)'
<1>1. PICK m \in broker : Serves(m, c)
  BY DEF Served
<1>2. m # task[w] /\ m.call = c
  BY <1>1 DEF Serves
<1> QED
  BY <1>1, <1>2, StillServed DEF Busy

(* The message of a run that reports where it is serves the call.          *)
LEMMA GoesOnServed ==
  ASSUME TypeOK, HeldByOne, Served, NEW w \in Workers, Busy(w), GoesOn(w)
  PROVE  Served'
<1>1. task[w] \in broker /\ task[w].call \in Calls
  BY BusyWorker DEF HeldByOne, Busy
<1>2. PICK row \in Row :
        /\ call' = [call EXCEPT ![task[w].call] = row]
        /\ \/ at'[w] \in Stage /\ row.status \in Stage
           \/ at'[w] = "retrying" /\ row.status = "retry_scheduled"
  BY DEF GoesOn
<1>3. ASSUME NEW c \in Calls, c # task[w].call, call'[c].status \in InProgress
      PROVE  \E m \in broker' : Serves(m, c)'
  BY <1>2, <1>3, OthersServed DEF GoesOn, TypeOK
<1>4. Serves(task[w], task[w].call)'
  <2>1. \A v \in Workers : at'[v] # "idle" /\ task'[v] = task[w] => v = w
    BY DEF HeldByOne, GoesOn, Busy
  <2>2. call'[task[w].call] = row
    BY <1>1, <1>2 DEF TypeOK
  <2>3. task' = task
    BY DEF GoesOn
  <2> QED
    BY <1>2, <2>1, <2>2, <2>3 DEF Serves, Busy
<1> QED
  BY <1>1, <1>3, <1>4 DEF Served, GoesOn

(* A run that settles its call leaves nothing to serve there.              *)
LEMMA SettlesServed ==
  ASSUME TypeOK, Served, NEW w \in Workers, Busy(w), Settles(w)
  PROVE  Served'
<1>1. PICK row \in Row : /\ call' = [call EXCEPT ![task[w].call] = row]
                         /\ row.status \in {"completed", "review_needed", "failed"}
  BY DEF Settles
<1>2. task[w].call \in Calls
  BY BusyWorker DEF Busy
<1>3. ASSUME NEW c \in Calls, call'[c].status \in InProgress
      PROVE  \E m \in broker' : Serves(m, c)'
  <2>1. c # task[w].call
    BY <1>1, <1>2, <1>3 DEF TypeOK, InProgress, Stage
  <2> QED
    BY <1>1, <1>3, <2>1, OthersServed DEF Settles, Release, TypeOK
<1> QED
  BY <1>3 DEF Served

(* A run that ends in vain did not serve its call: it had been overtaken.  *)
LEMMA InVainServed ==
  ASSUME TypeOK, Served, CapSuffices, HeldByOne, RetriesWereErrors,
         NEW w \in Workers, Busy(w), EndsInVain(w)
  PROVE  Served'
<1>1. task[w].call \in Calls /\ task[w].retries \in Nat
  BY BusyWorker DEF Busy, Message
<1>2. at[w] = "retrying" => CapAllows(task[w])
  <2>1. spent["stage_error"] \in Nat
    BY DEF TypeOK, Event
  <2> QED
    BY <1>1, <2>1, MaxRetriesAssumption DEF CapSuffices, RetriesWereErrors, CapAllows
<1>3. ASSUME NEW c \in Calls, call'[c].status \in InProgress
      PROVE  \E m \in broker' : Serves(m, c)'
  <2>1. PICK m \in broker : Serves(m, c)
    BY <1>3 DEF Served, EndsInVain
  <2>2. m # task[w]
    BY <1>2, <1>3, <2>1 DEF Serves, EndsInVain, Busy, InProgress, Stage
  <2>3. m \in broker'
    BY <2>2 DEF EndsInVain
  <2>4. \A v \in Workers : at'[v] # "idle" =>
          Busy(v) /\ task'[v] = task[v] /\ at'[v] = at[v] /\ seen'[v] = seen[v]
    BY DEF EndsInVain, Release, TypeOK, Busy
  <2> QED
    BY <2>1, <2>3, <2>4, StillServed DEF EndsInVain
<1> QED
  BY <1>3 DEF Served

(* The message that is sent again serves the call as before.               *)
LEMMA SendsAgainServed ==
  ASSUME TypeOK, HeldByOne, Next, Served, NEW w \in Workers, SendsAgain(w)
  PROVE  Served'
<1>1. PICK old : old = task[w]
  OBVIOUS
<1>2. PICK again : again = [old EXCEPT !.retries = @ + 1]
  OBVIOUS
<1>3. Busy(w) /\ old \in Message /\ again.call = old.call
  BY <1>1, <1>2, BusyWorker DEF SendsAgain, Busy, Message
<1>4. /\ again \in broker' /\ call' = call
      /\ \A m \in broker : m # old => m \in broker'
      /\ \A v \in Workers : at'[v] # "idle" =>
           v # w /\ Busy(v) /\ task'[v] = task[v] /\ at'[v] = at[v] /\ seen'[v] = seen[v]
  BY <1>1, <1>2 DEF SendsAgain, Release, TypeOK, Busy
<1>5. \A v \in Workers : at'[v] # "idle" => task'[v] # again
  BY <1>1, <1>2, HeldAfterRetry
<1>6. ASSUME NEW c \in Calls, call'[c].status \in InProgress
      PROVE  \E m \in broker' : Serves(m, c)'
  <2>1. PICK m \in broker : Serves(m, c)
    BY <1>4, <1>6 DEF Served
  <2>2. CASE m # old
    BY <1>4, <2>1, <2>2, StillServed
  <2>3. CASE m = old
    <3>1. again.call = c
      BY <1>3, <2>1, <2>3 DEF Serves
    <3>2. Serves(again, c)'
      BY <1>5, <3>1 DEF Serves, Busy
    <3> QED
      BY <1>4, <3>2
  <2> QED
    BY <2>2, <2>3
<1> QED
  BY <1>6 DEF Served

(* A message of a lost process serves the call it served.                  *)
LEMMA CrashServed ==
  ASSUME TypeOK, Served, NEW w \in Workers, Crash(w)
  PROVE  Served'
<1>1. /\ broker' = broker /\ call' = call
      /\ \A v \in Workers : at'[v] # "idle" =>
           Busy(v) /\ task'[v] = task[v] /\ at'[v] = at[v] /\ seen'[v] = seen[v]
  BY DEF Crash, Release, TypeOK, Busy
<1>2. ASSUME NEW c \in Calls, call'[c].status \in InProgress
      PROVE  \E m \in broker' : Serves(m, c)'
  <2>1. PICK m \in broker : Serves(m, c)
    BY <1>1, <1>2 DEF Served
  <2> QED
    BY <1>1, <2>1, StillServed
<1> QED
  BY <1>2 DEF Served

(* The worker that takes a message has read the row as it is.              *)
LEMMA DeliveryServed ==
  ASSUME TypeOK, NothingLost', Served, NEW w \in Workers, NEW m \in broker, Take(w, m)
  PROVE  Served'
<1>1. /\ broker' = broker /\ call' = call
      /\ at' = [at EXCEPT ![w] = "loaded"] /\ task' = [task EXCEPT ![w] = m]
      /\ seen' = [seen EXCEPT ![w] = call[m.call]]
      /\ \A v \in Workers : task[v] # m
  BY Taken DEF Receive
<1>2. ASSUME NEW c \in Calls, call'[c].status \in InProgress
      PROVE  \E n \in broker' : Serves(n, c)'
  <2>1. PICK n \in broker : Serves(n, c)
    BY <1>1, <1>2 DEF Served
  <2>2. CASE n = m
    <3>1. Serves(n, c)'
      BY <1>1, <2>1, <2>2 DEF Serves, Busy, TypeOK
    <3> QED
      BY <1>1, <3>1
  <2>3. CASE n # m
    <3>1. \A v \in Workers : at'[v] # "idle" /\ task'[v] = n =>
            Busy(v) /\ task[v] = n /\ at'[v] = at[v] /\ seen'[v] = seen[v]
      BY <1>1, <2>3 DEF TypeOK, Busy
    <3> QED
      BY <1>1, <2>1, <3>1, StillServed
  <2> QED
    BY <2>2, <2>3
<1> QED
  BY <1>2 DEF Served

(* A request publishes the message that serves its call, or takes the call *)
(* out of progress.                                                        *)
LEMMA OperateServed ==
  ASSUME TypeOK, NothingLost', HeldByOne, Served, NEW c \in Calls, Import(c) \/ Operate(c)
  PROVE  Served'
<1>1. /\ UNCHANGED <<at, task, seen>> /\ \A d \in Calls \ {c} : call'[d] = call[d]
      /\ broker \subseteq broker'
  BY OperateShape
<1>2. ASSUME NEW d \in Calls, d # c, call'[d].status \in InProgress
      PROVE  \E m \in broker' : Serves(m, d)'
  <2>1. PICK m \in broker : Serves(m, d)
    BY <1>1, <1>2 DEF Served
  <2> QED
    BY <1>1, <1>2, <2>1, StillServed DEF Busy
<1>3. ASSUME call'[c].status \in InProgress
      PROVE  \E m \in broker' : Serves(m, c)'
  <2>1. PICK m \in Message :
          /\ m.call = c /\ broker' = broker \cup {m}
          /\ \A n \in broker : n.call = c => n.request # m.request
    BY <1>3, OperateShape
  <2>2. \A v \in Workers : at'[v] # "idle" => task'[v] # m
    BY <1>1, <2>1 DEF HeldByOne, Busy
  <2>3. Serves(m, c)'
    BY <2>1, <2>2 DEF Serves, Busy
  <2> QED
    BY <2>1, <2>3
<1> QED
  BY <1>2, <1>3 DEF Served

(* At first nothing is in progress.                                        *)
LEMMA InitService == Init => ServiceInv
<1> SUFFICES ASSUME Init PROVE ServiceInv
  OBVIOUS
<1>2. HeldByOne /\ RetriesWereErrors
  BY DEF Init, HeldByOne, RetriesWereErrors, Busy
<1>3. Served
  BY DEF Init, Served, NewRow, InProgress, Stage
<1> QED
  BY <1>2, <1>3, InitExplained DEF ServiceInv

(* No step leaves a call behind.                                           *)
LEMMA NextService == ServiceInv /\ [Next]_vars => ServiceInv'
<1> SUFFICES ASSUME ServiceInv, [Next]_vars PROVE ServiceInv'
  OBVIOUS
<1>1. TypeOK /\ ExplainedInv
  BY DEF ServiceInv, ExplainedInv
<1>2. ASSUME NothingLost'
      PROVE  /\ NothingLost /\ HeldByOne /\ RetriesWereErrors
             /\ HeldByOne' /\ RetriesWereErrors'
  <2>1. NothingLost /\ HeldByOne /\ RetriesWereErrors
    BY <1>1, <1>2, SoFar DEF ServiceInv
  <2> QED
    BY <1>1, <1>2, <2>1, NextHeldByOne, NextRetries
<1>3. ASSUME NothingLost', CapSuffices'
      PROVE  Served'
  <2>1. HeldByOne /\ RetriesWereErrors /\ CapSuffices /\ Served
    BY <1>1, <1>2, <1>3, SoFar DEF ServiceInv
  <2>2. ASSUME NEW c \in Calls, Import(c) \/ Operate(c) PROVE Served'
    BY <1>1, <1>3, <2>1, <2>2, OperateServed
  <2>3. ASSUME NEW c \in Calls, Deliver(c) PROVE Served'
    BY <1>1, <1>3, <2>1, <2>3, DeliveryServed DEF Deliver
  <2>4. ASSUME NEW w \in Workers, Work(w) \/ Interrupt(w) PROVE Served'
    <3>1. Next
      BY <2>4 DEF Next
    <3> QED
      BY <1>1, <1>3, <2>1, <2>4, <3>1, WorkShape, GoesOnServed, SettlesServed, InVainServed,
         SendsAgainServed, CrashServed
  <2>5. CASE UNCHANGED vars
    BY <2>1, <2>5 DEF vars, Served, Serves, Busy
  <2> QED
    BY <2>2, <2>3, <2>4, <2>5 DEF Next
<1>4. ExplainedInv'
  BY <1>1, NextExplained
<1> QED
  BY <1>2, <1>3, <1>4 DEF ServiceInv

(* With any number of requests, lost workers and errors of the stages, a   *)
(* call that is queued, in a stage or scheduled for a retry has a message  *)
(* that will run it (process_call, create_call, processing_action), until  *)
(* a message is lost or the stages fail more often than Celery retries.    *)
THEOREM LossExplained == Spec => []LossIsExplained
<1>1. ServiceInv => LossIsExplained
  BY DEF ServiceInv, Served, Serves, InProgressIsServed, LossIsExplained
<1> QED
  BY <1>1, InitService, NextService, PTL DEF Spec

(* The environment keeps to its budget.                                    *)
LEMMA LimitsHold == Spec => [](TypeOK /\ WithinLimits)
<1>1. Init => WithinLimits
  BY LimitAssumption DEF Init, WithinLimits
<1>2. TypeOK /\ WithinLimits /\ [Next]_vars => WithinLimits'
  <2> SUFFICES ASSUME TypeOK, WithinLimits, [Next]_vars PROVE WithinLimits'
    OBVIOUS
  <2>1. CASE Next
    BY <2>1, NextGrows DEF Counts, WithinLimits
  <2>2. CASE UNCHANGED vars
    BY <2>2 DEF vars, WithinLimits
  <2> QED
    BY <2>1, <2>2
<1> QED
  BY <1>1, <1>2, TypeCorrect, PTL DEF Spec

(* What may not happen has not happened.                                   *)
LEMMA WithinLimitsSoFar ==
  ASSUME TypeOK, WithinLimits, NEW e \in Event, Limit[e] = 0
  PROVE  spent[e] = 0
BY DEF TypeOK, WithinLimits

(* Where no message may be lost and the stages may fail no more often than *)
(* Celery retries, no call in progress is left behind.                     *)
THEOREM InProgressServed ==
  ASSUME Limit["duplicate"] = 0, Limit["broker"] = 0,
         Limit["database"] = 0, Limit["time_limit"] = 0,
         Limit["stage_error"] <= MaxRetries
  PROVE  Spec => []InProgressIsServed
<1>1. TypeOK /\ WithinLimits => NothingLost /\ CapSuffices
  <2> SUFFICES ASSUME TypeOK, WithinLimits PROVE NothingLost /\ CapSuffices
    OBVIOUS
  <2>1. NothingLost
    BY WithinLimitsSoFar DEF NothingLost, Event
  <2>2. /\ spent["stage_error"] <= Limit["stage_error"]
        /\ spent["stage_error"] \in Nat /\ Limit["stage_error"] \in Nat
    BY LimitAssumption DEF WithinLimits, TypeOK, Event
  <2> QED
    BY <2>1, <2>2, MaxRetriesAssumption DEF CapSuffices
<1>2. LossIsExplained /\ NothingLost /\ CapSuffices => InProgressIsServed
  BY DEF LossIsExplained
<1> QED
  BY <1>1, <1>2, LossExplained, LimitsHold, PTL

-----------------------------------------------------------------------------
(* Nobody interferes.                                                      *)

(* No message was lost and nobody changed a status, so that Celery's cap   *)
(* need only allow what the schedule does.                                 *)
Undisturbed == NothingLost /\ spent["request"] = 0 /\ ScheduleLength <= MaxRetries

(* A call has one message at most, which resumes it and was sent again no  *)
(* more often than the call has failed.                                    *)
OneMessageEach ==
  /\ \A m, n \in broker : m.call = n.call => m = n
  /\ \A m \in broker : /\ m.mode = "resume"
                       /\ call[m.call].status \in InProgress
                       /\ m.retries <= call[m.call].retryCount

(* A failure that is tried again has been counted, within the schedule.    *)
RetryIsDue ==
  \A w \in Workers : at[w] = "retrying" =>
    /\ task[w].retries < seen[w].retryCount
    /\ seen[w].retryCount <= ScheduleLength

AloneInv ==
  /\ ExplainedInv /\ HeldByOne /\ SuccessIsClean
  /\ OneMessageEach /\ RetryIsDue /\ SessionIsCurrent /\ InProgressIsServed

(* A current session writes the row it means.                              *)
LEMMA FlushCurrent ==
  ASSUME NEW row \in Row, NEW after \in Row
  PROVE  Flush(row, row, after) = after
BY DEF Flush, Dirty, Row

(* What the step of a worker does to a call: the run goes on, fails and is *)
(* put back, succeeds or fails for good.                                   *)
RunStep(w, row) ==
  LET now == call[task[w].call]
  IN /\ row \in Row
     /\ call' = [call EXCEPT ![task[w].call] = row]
     /\ \/ /\ now.status \in InProgress /\ row.status \in Stage
           /\ row.retryCount = now.retryCount
           /\ at' = [at EXCEPT ![w] = row.status]
           /\ seen' = [seen EXCEPT ![w] = row] /\ UNCHANGED <<broker, task>>
        \/ /\ now.status \in Stage /\ row.status = "retry_scheduled"
           /\ row.retryCount = now.retryCount + 1 /\ now.retryCount < ScheduleLength
           /\ at' = [at EXCEPT ![w] = "retrying"]
           /\ seen' = [seen EXCEPT ![w] = row] /\ UNCHANGED <<broker, task>>
        \/ /\ now.status \in Stage
           /\ row.status \in {"completed", "review_needed"}
           /\ ~row.error /\ ~row.retryAt /\ row.retryCount = 0
           /\ Release(w) /\ broker' = broker \ {task[w]}
        \/ /\ now.status \in Stage /\ row.status = "failed"
           /\ row.retryCount = now.retryCount + 1
           /\ Release(w) /\ broker' = broker \ {task[w]}

(* What a worker holds is the one message of its call.                     *)
LEMMA AloneWorker ==
  ASSUME AloneInv, NEW w \in Workers, Busy(w)
  PROVE  /\ task[w] \in broker /\ task[w] \in Message /\ task[w].call \in Calls
         /\ task[w].mode = "resume"
         /\ call[task[w].call] \in Row /\ call[task[w].call].status \in InProgress
         /\ task[w].retries <= call[task[w].call].retryCount
         /\ seen[w] = call[task[w].call]
         /\ at[w] \in Stage => /\ call[task[w].call].status = at[w]
                               /\ ~seen[w].error /\ ~seen[w].retryAt
         /\ \A v \in Workers \ {w} : Busy(v) => task[v].call # task[w].call
<1>1. TypeOK /\ HeldByOne /\ OneMessageEach /\ SessionIsCurrent /\ SessionIsInStage
  BY DEF AloneInv, ExplainedInv
<1>2. task[w] \in Message /\ task[w].call \in Calls /\ task[w] \in broker
  BY <1>1, BusyWorker DEF Busy, HeldByOne
<1>3. call[task[w].call] \in Row /\ seen[w] = call[task[w].call]
  BY <1>1, <1>2 DEF TypeOK, SessionIsCurrent, Busy
<1>4. at[w] \in Stage => /\ call[task[w].call].status = at[w]
                         /\ ~seen[w].error /\ ~seen[w].retryAt
  BY <1>1, <1>3 DEF SessionIsInStage
<1>5. \A v \in Workers \ {w} : Busy(v) => task[v].call # task[w].call
  BY <1>1 DEF HeldByOne, OneMessageEach
<1> QED
  BY <1>1, <1>2, <1>3, <1>4, <1>5 DEF OneMessageEach

(* The failure handler in a stage, or after a crash in one.                *)
LEMMA AloneFails ==
  ASSUME AloneInv, NothingLost', NEW w \in Workers, Busy(w), NEW transient \in BOOLEAN,
         NEW S, call[task[w].call].status \in Stage,
         Fail(w, call[task[w].call], transient, S)
  PROVE  \E row \in Row : RunStep(w, row)
<1> DEFINE now == call[task[w].call]
           retry == WillRetry(now, transient)
           row == FailedRow(now, retry)
<1>1. TypeOK /\ now \in Row
  BY AloneWorker DEF AloneInv, ExplainedInv
<1>2. retry \in BOOLEAN /\ row \in Row
  BY <1>1, FailedRowIsRow DEF WillRetry
<1>3. /\ row.status = IF retry THEN "retry_scheduled" ELSE "failed"
      /\ row.retryCount = now.retryCount + 1
      /\ retry => now.retryCount < ScheduleLength
  BY DEF FailedRow, WillRetry
<1>4. EnsureTransition(now.status, row.status)
  BY <1>2, <1>3, MayFail DEF InProgress
<1>5. call' = [call EXCEPT ![task[w].call] = row]
  <2>1. Flush(now, now, row) = row
    BY <1>1, <1>2, FlushCurrent
  <2> QED
    BY <1>4, <2>1 DEF Fail
<1>6. CASE retry
  <2>1. /\ at' = [at EXCEPT ![w] = "retrying"] /\ seen' = [seen EXCEPT ![w] = row]
        /\ UNCHANGED <<broker, task>>
    BY <1>4, <1>6 DEF Fail
  <2> HIDE DEF retry, row
  <2> QED
    BY <1>2, <1>3, <1>5, <1>6, <2>1 DEF RunStep
<1>7. CASE ~retry
  <2>1. Acknowledge(w, S)
    BY <1>7 DEF Fail
  <2>2. Release(w) /\ broker' = broker \ {task[w]}
    BY <1>1, <2>1, Acknowledged
  <2> HIDE DEF retry, row
  <2> QED
    BY <1>2, <1>3, <1>5, <1>7, <2>2 DEF RunStep
<1> QED
  BY <1>6, <1>7

(* A worker whose session is current either does its run, sends its        *)
(* message again or is lost: nothing it does is refused or in vain, except *)
(* the run of a call that a lost worker left in a stage.                   *)
LEMMA AloneWork ==
  ASSUME AloneInv, Undisturbed', NEW w \in Workers, Work(w) \/ Interrupt(w)
  PROVE  /\ Busy(w)
         /\ (\E row \in Row : RunStep(w, row)) \/ SendsAgain(w) \/ Crash(w)
<1> DEFINE now == call[task[w].call]
<1>1. NothingLost' /\ ExplainedInv /\ TypeOK
  BY DEF Undisturbed, AloneInv, ExplainedInv
<1>2. Busy(w)
  BY <1>1, WorkShape
<1>3. /\ now \in Row /\ seen[w] = now /\ now.status \in InProgress
      /\ task[w].mode = "resume"
      /\ at[w] \in Stage => now.status = at[w] /\ ~now.error /\ ~now.retryAt
  BY <1>2, AloneWorker
<1>4. ~AlreadyCompleted(w) /\ HasTranscript(w)
  BY <1>3 DEF AlreadyCompleted, HasTranscript, InProgress, Stage
<1>5. CASE Begin(w)
  <2>1. PICK row : row = Cleared(now, "preprocessing")
    OBVIOUS
  <2>2. row \in Row /\ row.status = "preprocessing" /\ row.retryCount = now.retryCount
    BY <1>3, <2>1 DEF Cleared, Row, PipelineState
  <2>3. Flush(now, now, row) = row
    BY <1>3, <2>2, FlushCurrent
  <2>4. /\ call' = [call EXCEPT ![task[w].call] = row]
        /\ at' = [at EXCEPT ![w] = row.status]
        /\ seen' = [seen EXCEPT ![w] = row] /\ UNCHANGED <<broker, task>>
    BY <1>3, <1>5, <2>1, <2>2, <2>3 DEF Begin, FirstStage
  <2>5. RunStep(w, row)
    BY <1>3, <2>2, <2>4 DEF RunStep, Stage
  <2> QED
    BY <1>2, <2>2, <2>5
<1>6. CASE Preprocessed(w) \/ Transcribed(w)
  <2>1. PICK next \in Stage : Advance(w, at[w], next)
    BY <1>6 DEF Preprocessed, Transcribed, Advance, Stage
  <2>2. PICK row : row = [now EXCEPT !.status = next]
    OBVIOUS
  <2>3. row \in Row /\ row.status = next /\ row.retryCount = now.retryCount
    BY <1>3, <2>2, StagesAreStates DEF Row
  <2>4. Flush(now, now, row) = row
    BY <1>3, <2>3, FlushCurrent
  <2>5. /\ call' = [call EXCEPT ![task[w].call] = row]
        /\ at' = [at EXCEPT ![w] = row.status]
        /\ seen' = [seen EXCEPT ![w] = row] /\ UNCHANGED <<broker, task>>
    BY <1>3, <2>1, <2>2, <2>3, <2>4 DEF Advance
  <2>6. RunStep(w, row)
    BY <1>3, <2>3, <2>5 DEF RunStep
  <2> QED
    BY <1>2, <2>3, <2>6
<1>7. CASE \E final \in {"completed", "review_needed"} : Analyzed(w, final)
  <2>1. PICK final \in {"completed", "review_needed"} : Analyzed(w, final)
    BY <1>7
  <2>2. PICK row : row = [now EXCEPT !.status = final, !.retryCount = 0]
    OBVIOUS
  <2>3. /\ row \in Row /\ row.status = final /\ row.retryCount = 0
        /\ row.error = now.error /\ row.retryAt = now.retryAt
    BY <1>3, <2>2 DEF Row, PipelineState
  <2>4. Flush(now, now, row) = row
    BY <1>3, <2>3, FlushCurrent
  <2>5. call' = [call EXCEPT ![task[w].call] = row] /\ Acknowledge(w, {})
    BY <1>3, <2>1, <2>2, <2>4 DEF Analyzed
  <2>6. at[w] \in Stage
    BY <2>1 DEF Analyzed, Stage
  <2>7. Release(w) /\ broker' = broker \ {task[w]}
    BY <1>1, <2>5, Acknowledged
  <2>8. RunStep(w, row)
    BY <1>3, <2>1, <2>3, <2>5, <2>6, <2>7 DEF RunStep
  <2> QED
    BY <1>2, <2>3, <2>8
<1>8. CASE RefuseRun(w)
  <2>1. ~EnsureTransition(now.status, "preprocessing") /\ Fail(w, now, FALSE, {})
    BY <1>3, <1>8 DEF RefuseRun, FirstStage
  <2>2. now.status \in Stage
    BY <1>3, <2>1 DEF InProgress, EnsureTransition, Forward
  <2> QED
    BY <1>1, <1>2, <2>1, <2>2, AloneFails
<1>9. CASE \E transient \in BOOLEAN :
             ErrorInTransaction(w, transient) \/ ErrorBetweenTransactions(w, transient)
  <2>1. PICK transient \in BOOLEAN : Fail(w, now, transient, {"stage_error"})
    BY <1>3, <1>9 DEF ErrorInTransaction, ErrorBetweenTransactions
  <2>2. now.status \in Stage
    BY <1>3, <1>9 DEF ErrorInTransaction, ErrorBetweenTransactions
  <2> QED
    BY <1>1, <1>2, <2>1, <2>2, AloneFails
<1>10. ~GiveUpRetrying(w)
  <2>1. SUFFICES ASSUME GiveUpRetrying(w) PROVE FALSE
    OBVIOUS
  <2>2. CapAllows(task[w])
    <3>1. /\ task[w].retries < seen[w].retryCount
          /\ seen[w].retryCount <= ScheduleLength
      BY <2>1 DEF AloneInv, RetryIsDue, GiveUpRetrying
    <3>2. /\ task[w].retries \in Nat /\ seen[w].retryCount \in Nat
      BY <1>2, <1>3, AloneWorker DEF Row, Message
    <3> QED
      BY <3>1, <3>2, ScheduleAssumption, MaxRetriesAssumption
      DEF Undisturbed, CapAllows
  <2>3. PICK S : Acknowledge(w, S) /\ "broker" \in S
    BY <2>1, <2>2 DEF GiveUpRetrying
  <2> QED
    BY <1>1, <2>3, Acknowledged, NoneIsSpent DEF NothingLost, Event
<1>11. CASE Retry(w)
  <2>1. ~Spend({"duplicate"})
    BY <1>1, NoneIsSpent DEF NothingLost, Event
  <2> QED
    BY <1>2, <1>11, <2>1 DEF Retry, SendsAgain
<1>12. ~DatabaseError(w) /\ ~TimeLimit(w)
  <2>1. \A e \in {"database", "time_limit"} : ~Spend({e}) /\ ~Spend({e} \cup {"duplicate"})
    BY <1>1, NoneIsSpent DEF NothingLost, Event
  <2> QED
    BY <2>1 DEF DatabaseError, TimeLimit, Fail, Acknowledge
<1>13. ~SkipCompleted(w) /\ ~NothingToReanalyze(w)
  BY <1>4 DEF SkipCompleted, NothingToReanalyze
<1> QED
  BY <1>2, <1>5, <1>6, <1>7, <1>8, <1>9, <1>10, <1>11, <1>12, <1>13 DEF Work, Interrupt

(* What AloneInv says beyond ExplainedInv and HeldByOne, of a next state   *)
(* whose busy workers and messages are those of this one.                  *)
AloneRest ==
  SuccessIsClean /\ OneMessageEach /\ RetryIsDue /\ SessionIsCurrent /\ InProgressIsServed

(* A run that goes on or ends leaves the other calls to their messages.    *)
LEMMA RunKeepsAlone ==
  ASSUME AloneInv, NEW w \in Workers, Busy(w), NEW row \in Row, RunStep(w, row)
  PROVE  AloneRest'
<1> DEFINE c == task[w].call
           now == call[c]
<1>1. TypeOK /\ OneMessageEach /\ RetryIsDue /\ SessionIsCurrent /\ SuccessIsClean
      /\ InProgressIsServed
  BY DEF AloneInv, ExplainedInv
<1>2. /\ task[w] \in broker /\ task[w] \in Message /\ c \in Calls
      /\ now \in Row /\ task[w].retries <= now.retryCount /\ task[w].mode = "resume"
      /\ \A v \in Workers \ {w} : Busy(v) => task[v].call # c
  BY AloneWorker
<1>3. /\ call'[c] = row /\ \A d \in Calls \ {c} : call'[d] = call[d]
      /\ now.retryCount \in Nat /\ row.retryCount \in Nat /\ task[w].retries \in Nat
  BY <1>1, <1>2 DEF RunStep, TypeOK, Row, Message
<1>4. \A v \in Workers \ {w} : at'[v] = at[v] /\ task'[v] = task[v] /\ seen'[v] = seen[v]
  BY <1>1 DEF RunStep, Release, TypeOK
<1>5. \A m \in broker : m # task[w] => m.call # c /\ m \in broker'
  BY <1>1, <1>2 DEF OneMessageEach, RunStep
<1>6. broker' \subseteq broker
  BY DEF RunStep
<1>7. \/ /\ row.status \in InProgress /\ row.retryCount >= now.retryCount
         /\ broker' = broker /\ task'[w] = task[w] /\ seen'[w] = row
         /\ at'[w] # "retrying" \/ /\ row.retryCount > now.retryCount
                                   /\ row.retryCount <= ScheduleLength
      \/ /\ row.status \notin InProgress /\ task[w] \notin broker' /\ at'[w] = "idle"
         /\ row.status \in {"completed", "review_needed"} =>
              ~row.error /\ ~row.retryAt /\ row.retryCount = 0
  <2>1. CASE UNCHANGED <<broker, task>> /\ row.retryCount = now.retryCount
             /\ row.status \in Stage /\ at' = [at EXCEPT ![w] = row.status]
             /\ seen' = [seen EXCEPT ![w] = row]
    BY <1>1, <1>3, <2>1 DEF TypeOK, InProgress, Stage
  <2>2. CASE UNCHANGED <<broker, task>> /\ row.retryCount = now.retryCount + 1
             /\ row.status = "retry_scheduled" /\ now.retryCount < ScheduleLength
             /\ seen' = [seen EXCEPT ![w] = row]
    BY <1>1, <1>3, <2>2, ScheduleAssumption DEF TypeOK, InProgress
  <2>3. CASE Release(w) /\ broker' = broker \ {task[w]}
             /\ \/ row.status = "failed"
                \/ /\ row.status \in {"completed", "review_needed"}
                   /\ ~row.error /\ ~row.retryAt /\ row.retryCount = 0
    BY <1>1, <2>3 DEF TypeOK, Release, InProgress, Stage
  <2> QED
    BY <2>1, <2>2, <2>3 DEF RunStep
<1>8. SuccessIsClean'
  BY <1>1, <1>3, <1>7 DEF SuccessIsClean, InProgress, Stage
<1>9. OneMessageEach'
  <2>1. \A m \in broker' : m \in Message /\ m.call \in Calls
    BY <1>1, <1>6 DEF TypeOK, Message
  <2>2. ASSUME NEW m \in broker', m # task[w]
        PROVE  call'[m.call] = call[m.call]
    BY <1>3, <1>5, <1>6, <2>1, <2>2
  <2>3. ASSUME task[w] \in broker'
        PROVE  row.status \in InProgress /\ task[w].retries <= row.retryCount
    BY <1>2, <1>3, <1>7, <2>3
  <2> QED
    BY <1>1, <1>2, <1>3, <1>6, <2>2, <2>3 DEF OneMessageEach
<1>10. RetryIsDue'
  <2>1. ASSUME at'[w] = "retrying"
        PROVE  task'[w].retries < seen'[w].retryCount /\ seen'[w].retryCount <= ScheduleLength
    BY <1>2, <1>3, <1>7, <2>1
  <2> QED
    BY <1>1, <1>4, <2>1 DEF RetryIsDue
<1>11. SessionIsCurrent'
  <2>1. \A v \in Workers \ {w} : at'[v] # "idle" => task[v].call \in Calls
    BY <1>1, <1>4, BusyWorker
  <2>2. at'[w] # "idle" => seen'[w] = call'[task'[w].call]
    BY <1>3, <1>7
  <2> QED
    BY <1>1, <1>2, <1>3, <1>4, <2>1, <2>2 DEF SessionIsCurrent, Busy
<1>12. InProgressIsServed'
  BY <1>1, <1>2, <1>3, <1>5, <1>7 DEF InProgressIsServed
<1> QED
  BY <1>8, <1>9, <1>10, <1>11, <1>12 DEF AloneRest

(* A message that is sent again has counted its failure.                   *)
LEMMA RetryKeepsAlone ==
  ASSUME AloneInv, NEW w \in Workers, SendsAgain(w)
  PROVE  AloneRest'
<1>1. TypeOK /\ AloneRest /\ Busy(w) /\ at[w] = "retrying"
  BY DEF AloneInv, AloneRest, ExplainedInv, SendsAgain, Busy
<1>2. /\ task[w] \in broker /\ task[w] \in Message /\ task[w].call \in Calls
      /\ task[w].mode = "resume" /\ call[task[w].call].status \in InProgress
      /\ seen[w] = call[task[w].call] /\ call[task[w].call] \in Row
  BY <1>1, AloneWorker
<1>3. PICK again : again = [task[w] EXCEPT !.retries = @ + 1]
  OBVIOUS
<1>4. /\ again.call = task[w].call /\ again.mode = "resume"
      /\ again.retries = task[w].retries + 1 /\ again \in Message
  BY <1>2, <1>3 DEF Message
<1>5. again.retries <= call[again.call].retryCount
  <2>1. task[w].retries < seen[w].retryCount
    BY <1>1 DEF AloneRest, RetryIsDue
  <2>2. task[w].retries \in Nat /\ seen[w].retryCount \in Nat
    BY <1>2 DEF Message, Row
  <2> QED
    BY <1>2, <1>4, <2>1, <2>2
<1>6. /\ call' = call /\ broker' = (broker \ {task[w]}) \cup {again}
      /\ \A v \in Workers : at'[v] # "idle" =>
           Busy(v) /\ task'[v] = task[v] /\ at'[v] = at[v] /\ seen'[v] = seen[v]
  BY <1>1, <1>3 DEF SendsAgain, Release, TypeOK, Busy
<1>7. OneMessageEach'
  BY <1>1, <1>2, <1>4, <1>5, <1>6 DEF AloneRest, OneMessageEach
<1>8. InProgressIsServed'
  BY <1>1, <1>2, <1>4, <1>6 DEF AloneRest, InProgressIsServed
<1>9. SuccessIsClean'
  BY <1>1, <1>6 DEF AloneRest, SuccessIsClean
<1>10. RetryIsDue' /\ SessionIsCurrent'
  BY <1>1, <1>6 DEF AloneRest, RetryIsDue, SessionIsCurrent
<1> QED
  BY <1>7, <1>8, <1>9, <1>10 DEF AloneRest

(* A lost worker leaves its message and the row as they are.               *)
LEMMA CrashKeepsAlone ==
  ASSUME AloneInv, NEW w \in Workers, Crash(w)
  PROVE  AloneRest'
<1>1. TypeOK /\ AloneRest
  BY DEF AloneInv, AloneRest, ExplainedInv
<1>2. /\ call' = call /\ broker' = broker
      /\ \A v \in Workers : at'[v] # "idle" =>
           Busy(v) /\ task'[v] = task[v] /\ at'[v] = at[v] /\ seen'[v] = seen[v]
  BY <1>1 DEF Crash, Release, TypeOK, Busy
<1> QED
  BY <1>1, <1>2 DEF AloneRest, OneMessageEach, InProgressIsServed, SuccessIsClean,
                    RetryIsDue, SessionIsCurrent

(* A worker reads the row when it receives the message.                    *)
LEMMA DeliveryKeepsAlone ==
  ASSUME AloneInv, NEW w \in Workers, NEW m \in broker, Receive(w, m)
  PROVE  AloneRest'
<1>1. TypeOK /\ AloneRest
  BY DEF AloneInv, AloneRest, ExplainedInv
<1>2. /\ call' = call /\ broker' = broker
      /\ at'[w] = "loaded" /\ task'[w] = m /\ seen'[w] = call[m.call]
      /\ \A v \in Workers \ {w} :
           task'[v] = task[v] /\ at'[v] = at[v] /\ seen'[v] = seen[v]
  BY <1>1 DEF Receive, TypeOK
<1>3. SessionIsCurrent'
  BY <1>1, <1>2 DEF AloneRest, SessionIsCurrent
<1>4. RetryIsDue'
  BY <1>1, <1>2 DEF AloneRest, RetryIsDue
<1> QED
  BY <1>1, <1>2, <1>3, <1>4 DEF AloneRest, OneMessageEach, InProgressIsServed, SuccessIsClean

(* A call is imported once, with the message that runs it.                 *)
LEMMA ImportKeepsAlone ==
  ASSUME AloneInv, NothingLost', NEW c \in Calls, Import(c)
  PROVE  /\ AloneRest'
         /\ \E row \in Row : /\ call' = [call EXCEPT ![c] = row] /\ row.status = "queued"
                             /\ row.retryCount = call[c].retryCount
<1>1. TypeOK /\ HeldByOne /\ AloneRest /\ call[c] \in Row /\ call[c].status = "uploaded"
  BY DEF AloneInv, AloneRest, ExplainedInv, TypeOK, Import
<1>2. PICK row : row = [call[c] EXCEPT !.status = "queued"]
  OBVIOUS
<1>3. row \in Row /\ row.status = "queued" /\ row.retryCount = call[c].retryCount
  BY <1>1, <1>2 DEF Row, PipelineState
<1>4. PICK m : m = [call |-> c, request |-> 0, mode |-> "resume", retries |-> 0]
  OBVIOUS
<1>5. /\ m.call = c /\ m.mode = "resume" /\ m.retries = 0
      /\ broker' = broker \cup {m} /\ UNCHANGED <<at, task, seen>>
      /\ call' = [call EXCEPT ![c] = row]
  BY <1>1, <1>2, <1>4, Published DEF Import
<1>6. /\ call'[c] = row /\ \A d \in Calls \ {c} : call'[d] = call[d]
      /\ row.retryCount \in Nat
  BY <1>1, <1>3, <1>5 DEF TypeOK, Row
<1>7. \A n \in broker : n.call # c /\ n.call \in Calls
  BY <1>1 DEF HeldByOne, TypeOK, Message
<1>8. OneMessageEach'
  BY <1>1, <1>3, <1>5, <1>6, <1>7 DEF AloneRest, OneMessageEach, InProgress
<1>9. SuccessIsClean'
  BY <1>1, <1>3, <1>6 DEF AloneRest, SuccessIsClean
<1>10. InProgressIsServed'
  BY <1>1, <1>5, <1>6 DEF AloneRest, InProgressIsServed
<1>11. SessionIsCurrent' /\ RetryIsDue'
  <2>1. \A v \in Workers : at[v] # "idle" => task[v] \in broker
    BY <1>1 DEF HeldByOne, Busy
  <2> QED
    BY <1>1, <1>5, <1>6, <1>7, <2>1 DEF AloneRest, SessionIsCurrent, RetryIsDue
<1> QED
  BY <1>3, <1>5, <1>8, <1>9, <1>10, <1>11 DEF AloneRest

(* At first nothing has been imported.                                     *)
LEMMA InitAlone == Init => AloneInv
<1> SUFFICES ASSUME Init PROVE AloneInv
  OBVIOUS
<1>1. ExplainedInv /\ HeldByOne
  BY InitExplained DEF Init, HeldByOne, Busy
<1>2. AloneRest
  BY DEF Init, AloneRest, SuccessIsClean, OneMessageEach, RetryIsDue, SessionIsCurrent,
         InProgressIsServed, NewRow, InProgress, Stage
<1> QED
  BY <1>1, <1>2 DEF AloneInv, AloneRest

(* Nobody operates.                                                        *)
LEMMA NobodyOperates ==
  ASSUME TypeOK, Undisturbed', NEW c \in Calls
  PROVE  ~Operate(c)
<1>1. ASSUME NEW m, Publish(m, {"request"}) PROVE FALSE
  BY <1>1, Published, NoneIsSpent DEF Undisturbed, Event
<1>2. ASSUME Spend({"request"}) PROVE FALSE
  BY <1>2, NoneIsSpent DEF Undisturbed, Event
<1> QED
  BY <1>1, <1>2 DEF Operate, RequestRun, RequestReanalysis, CorrectTranscript,
                    Quarantine, PublishAnalysis

(* The steps that are left, by what they do to the calls.                  *)
LEMMA AloneStep ==
  ASSUME AloneInv, Undisturbed', Next
  PROVE  \/ \E c \in Calls : Import(c)
         \/ \E w \in Workers : Busy(w) /\ \E row \in Row : RunStep(w, row)
         \/ /\ call' = call
            /\ \/ \E w \in Workers : SendsAgain(w) \/ Crash(w)
               \/ \E w \in Workers : \E m \in broker : Receive(w, m)
<1>1. TypeOK /\ NothingLost'
  BY DEF AloneInv, ExplainedInv, Undisturbed
<1>2. ASSUME NEW w \in Workers, Work(w) \/ Interrupt(w)
      PROVE  \/ Busy(w) /\ \E row \in Row : RunStep(w, row)
             \/ (SendsAgain(w) \/ Crash(w)) /\ call' = call
  BY <1>2, AloneWork DEF SendsAgain, Crash
<1>3. ASSUME NEW c \in Calls, Deliver(c)
      PROVE  call' = call /\ \E w \in Workers : \E m \in broker : Receive(w, m)
  BY <1>1, <1>3, Taken DEF Deliver, Receive
<1> QED
  BY <1>1, <1>2, <1>3, NobodyOperates DEF Next

(* Every step keeps the invariant.                                         *)
LEMMA NextAlone ==
  ASSUME AloneInv, Undisturbed', [Next]_vars
  PROVE  AloneInv'
<1>1. ExplainedInv /\ HeldByOne /\ AloneRest /\ NothingLost'
  BY DEF AloneInv, AloneRest, Undisturbed
<1>2. ExplainedInv' /\ HeldByOne'
  BY <1>1, NextExplained, NextHeldByOne
<1>3. CASE Next
  BY <1>1, <1>2, <1>3, AloneStep, ImportKeepsAlone, RunKeepsAlone, RetryKeepsAlone,
     CrashKeepsAlone, DeliveryKeepsAlone DEF AloneInv, AloneRest
<1>4. CASE UNCHANGED vars
  BY <1>1, <1>2, <1>4 DEF vars, AloneInv, AloneRest, SuccessIsClean, OneMessageEach,
                          RetryIsDue, SessionIsCurrent, InProgressIsServed
<1> QED
  BY <1>3, <1>4

(* As long as nobody interferes the invariant holds, for any number of     *)
(* crashes and errors.                                                     *)
LEMMA AloneAlways == Spec => [](Undisturbed => AloneInv)
<1>1. (Undisturbed => AloneInv) /\ TypeOK /\ [Next]_vars => (Undisturbed => AloneInv)'
  <2> SUFFICES ASSUME Undisturbed => AloneInv, TypeOK, [Next]_vars, Undisturbed'
               PROVE  AloneInv'
    OBVIOUS
  <2>1. Undisturbed
    BY SoFar DEF Undisturbed
  <2> QED
    BY <2>1, NextAlone
<1> QED
  BY <1>1, InitAlone, TypeCorrect, PTL DEF Spec

(* The session of a worker never works from a stale row (tasks.py opens it *)
(* with expire_on_commit=False) until an operator changes a call or a      *)
(* message is delivered twice.                                             *)
THEOREM SessionCurrent == Spec => [](Undisturbed => SessionIsCurrent)
<1>1. AloneInv => SessionIsCurrent
  BY DEF AloneInv
<1> QED
  BY <1>1, AloneAlways, PTL

(* A call that succeeded shows no trace of the failures before: the error  *)
(* and the retry are cleared when a run begins, the count when it ends     *)
(* (_process_call).                                                        *)
THEOREM SuccessClean == Spec => [](Undisturbed => SuccessIsClean)
<1>1. AloneInv => SuccessIsClean
  BY DEF AloneInv
<1> QED
  BY <1>1, AloneAlways, PTL

(* As long as nobody interferes no call in progress is left behind,        *)
(* whatever the number of errors: the schedule ends before Celery's cap.   *)
THEOREM AloneServed == Spec => [](Undisturbed => InProgressIsServed)
<1>1. AloneInv => InProgressIsServed
  BY DEF AloneInv
<1> QED
  BY <1>1, AloneAlways, PTL

-----------------------------------------------------------------------------
(* With nobody interfering the pipeline takes the steps of CallLifecycle.  *)

(* The calls as CallLifecycle sees them.                                   *)
Phases == [c \in Calls |-> PhaseOf(call[c].status)]
Failures == [c \in Calls |-> call[c].retryCount]

(* A step that writes one row moves one call.                              *)
LEMMA RowMoves ==
  ASSUME TypeOK, NEW c \in Calls, NEW row \in Row, call' = [call EXCEPT ![c] = row]
  PROVE  /\ Phases[c] = PhaseOf(call[c].status)
         /\ Phases' = [Phases EXCEPT ![c] = PhaseOf(row.status)]
         /\ Failures[c] = call[c].retryCount
         /\ Failures' = [Failures EXCEPT ![c] = row.retryCount]
         /\ row.retryCount = call[c].retryCount => UNCHANGED Failures
         /\ PhaseOf(row.status) = PhaseOf(call[c].status) => UNCHANGED Phases
BY DEF Phases, Failures, TypeOK

(* What the actions of CallLifecycle say of a call.                        *)
LEMMA MovesOfLifecycle ==
  ASSUME NEW c \in Calls
  PROVE  /\ /\ Phases[c] = "new" /\ Phases' = [Phases EXCEPT ![c] = "waiting"]
            /\ UNCHANGED Failures
            => Lifecycle!Submit(c)
         /\ /\ Phases[c] = "waiting" /\ Phases' = [Phases EXCEPT ![c] = "running"]
            /\ UNCHANGED Failures
            => Lifecycle!Start(c)
         /\ /\ Phases[c] = "running" /\ Phases' = [Phases EXCEPT ![c] = "waiting"]
            /\ Failures[c] < ScheduleLength
            /\ Failures' = [Failures EXCEPT ![c] = Failures[c] + 1]
            => Lifecycle!PutBack(c)
         /\ /\ Phases[c] = "running" /\ Phases' = [Phases EXCEPT ![c] = "settled"]
            /\ \/ Failures' = [Failures EXCEPT ![c] = 0]
               \/ Failures' = [Failures EXCEPT ![c] = Failures[c] + 1]
            => Lifecycle!Succeed(c) \/ Lifecycle!GiveUp(c)
BY DEF Phases, Failures, Lifecycle!Submit, Lifecycle!Start, Lifecycle!PutBack,
       Lifecycle!Succeed, Lifecycle!GiveUp, Lifecycle!Move

(* The phase of each status a call may have.                               *)
LEMMA PhasesOfStatus ==
  /\ \A s \in {"uploaded"} : PhaseOf(s) = "new"
  /\ \A s \in {"queued", "retry_scheduled"} : PhaseOf(s) = "waiting"
  /\ \A s \in Stage : PhaseOf(s) = "running"
  /\ \A s \in {"completed", "review_needed", "failed"} : PhaseOf(s) = "settled"
BY DEF PhaseOf, Stage

(* They are steps.                                                         *)
LEMMA MovesAreSteps ==
  ASSUME NEW c \in Calls,
         \/ Lifecycle!Submit(c) \/ Lifecycle!Start(c) \/ Lifecycle!PutBack(c)
         \/ Lifecycle!Succeed(c) \/ Lifecycle!GiveUp(c)
  PROVE  Lifecycle!Next
<1>1. Lifecycle!Submit(c) \/ Lifecycle!Start(c) \/ Lifecycle!Run(c)
  BY DEF Lifecycle!Run
<1> QED
  BY <1>1 DEF Lifecycle!Next

(* An import submits the call.                                             *)
LEMMA ImportSubmits ==
  ASSUME AloneInv, NothingLost', NEW c \in Calls, Import(c)
  PROVE  Lifecycle!Submit(c)
<1>1. TypeOK /\ call[c].status = "uploaded"
  BY DEF AloneInv, ExplainedInv, Import
<1>2. PICK row \in Row : /\ call' = [call EXCEPT ![c] = row] /\ row.status = "queued"
                         /\ row.retryCount = call[c].retryCount
  BY ImportKeepsAlone
<1>3. /\ Phases[c] = "new" /\ Phases' = [Phases EXCEPT ![c] = "waiting"]
      /\ Failures' = Failures
  <2>1. PhaseOf(call[c].status) = "new" /\ PhaseOf(row.status) = "waiting"
    BY <1>1, <1>2, PhasesOfStatus
  <2> QED
    BY <1>1, <1>2, <2>1, RowMoves
<1> QED
  BY <1>3, MovesOfLifecycle

(* The step of a run starts, puts back, settles or only moves on the call. *)
LEMMA RunImplements ==
  ASSUME AloneInv, NEW w \in Workers, Busy(w), NEW row \in Row, RunStep(w, row)
  PROVE  Lifecycle!Next \/ UNCHANGED <<Phases, Failures>>
<1>0. PICK c : c = task[w].call
  OBVIOUS
<1> DEFINE now == call[c]
<1>1. TypeOK /\ c \in Calls /\ now \in Row /\ call' = [call EXCEPT ![c] = row]
  BY <1>0, AloneWorker DEF AloneInv, ExplainedInv, RunStep
<1>2. CASE /\ now.status \in InProgress /\ row.status \in Stage
           /\ row.retryCount = now.retryCount
  <2>0. /\ Phases[c] = PhaseOf(now.status)
        /\ Phases' = [Phases EXCEPT ![c] = PhaseOf(row.status)]
        /\ UNCHANGED Failures
        /\ PhaseOf(row.status) = PhaseOf(now.status) => UNCHANGED Phases
    BY <1>1, <1>2, RowMoves
  <2>1. CASE now.status \in Stage
    <3>1. PhaseOf(now.status) = "running" /\ PhaseOf(row.status) = "running"
      BY <1>2, <2>1, PhasesOfStatus
    <3> QED
      BY <2>0, <3>1
  <2>2. CASE now.status \in {"queued", "retry_scheduled"}
    <3>0. PhaseOf(now.status) = "waiting" /\ PhaseOf(row.status) = "running"
      BY <1>2, <2>2, PhasesOfStatus
    <3>1. /\ Phases[c] = "waiting" /\ Phases' = [Phases EXCEPT ![c] = "running"]
          /\ Failures' = Failures
      BY <2>0, <3>0
    <3>2. Lifecycle!Start(c)
      BY <1>1, <3>1, MovesOfLifecycle
    <3> QED
      BY <1>1, <3>2, MovesAreSteps
  <2> QED
    BY <1>2, <2>1, <2>2 DEF InProgress
<1>3. CASE /\ now.status \in Stage /\ row.status = "retry_scheduled"
           /\ row.retryCount = now.retryCount + 1 /\ now.retryCount < ScheduleLength
  <2>1. /\ Phases[c] = "running" /\ Phases' = [Phases EXCEPT ![c] = "waiting"]
        /\ Failures[c] < ScheduleLength
        /\ Failures' = [Failures EXCEPT ![c] = Failures[c] + 1]
    <3>1. PhaseOf(now.status) = "running" /\ PhaseOf(row.status) = "waiting"
      BY <1>3, PhasesOfStatus
    <3>2. /\ Phases[c] = "running" /\ Phases' = [Phases EXCEPT ![c] = PhaseOf(row.status)]
          /\ Failures[c] = now.retryCount
          /\ Failures' = [Failures EXCEPT ![c] = row.retryCount]
      BY <1>1, <3>1, RowMoves
    <3> QED
      BY <1>3, <3>1, <3>2
  <2>2. Lifecycle!PutBack(c)
    BY <1>1, <2>1, MovesOfLifecycle
  <2> QED
    BY <1>1, <2>2, MovesAreSteps
<1>4. CASE /\ now.status \in Stage /\ row.status \in {"completed", "review_needed"}
           /\ row.retryCount = 0
  <2>1. /\ Phases[c] = "running" /\ Phases' = [Phases EXCEPT ![c] = "settled"]
        /\ Failures' = [Failures EXCEPT ![c] = 0]
    <3>1. PhaseOf(now.status) = "running" /\ PhaseOf(row.status) = "settled"
      BY <1>4, PhasesOfStatus
    <3> QED
      BY <1>1, <1>4, <3>1, RowMoves
  <2>2. Lifecycle!Succeed(c) \/ Lifecycle!GiveUp(c)
    BY <1>1, <2>1, MovesOfLifecycle
  <2> QED
    BY <1>1, <2>2, MovesAreSteps
<1>5. CASE /\ now.status \in Stage /\ row.status = "failed"
           /\ row.retryCount = now.retryCount + 1
  <2>1. /\ Phases[c] = "running" /\ Phases' = [Phases EXCEPT ![c] = "settled"]
        /\ Failures' = [Failures EXCEPT ![c] = Failures[c] + 1]
    <3>1. PhaseOf(now.status) = "running" /\ PhaseOf(row.status) = "settled"
      BY <1>5, PhasesOfStatus
    <3>2. /\ Phases[c] = "running" /\ Phases' = [Phases EXCEPT ![c] = PhaseOf(row.status)]
          /\ Failures[c] = now.retryCount
          /\ Failures' = [Failures EXCEPT ![c] = row.retryCount]
      BY <1>1, <3>1, RowMoves
    <3> QED
      BY <1>5, <3>1, <3>2
  <2>2. Lifecycle!Succeed(c) \/ Lifecycle!GiveUp(c)
    BY <1>1, <2>1, MovesOfLifecycle
  <2> QED
    BY <1>1, <2>2, MovesAreSteps
<1> QED
  BY <1>0, <1>2, <1>3, <1>4, <1>5 DEF RunStep

(* The initial state is an initial state, every step a step or a stutter.  *)
THEOREM ImplementsLifecycleSteps ==
  ASSUME Limit["duplicate"] = 0, Limit["broker"] = 0, Limit["database"] = 0,
         Limit["time_limit"] = 0, Limit["request"] = 0, ScheduleLength <= MaxRetries
  PROVE  Spec => Lifecycle!Steps
<1>1. Init => Lifecycle!Init
  <2> SUFFICES ASSUME Init PROVE Lifecycle!Init
    OBVIOUS
  <2>1. \A c \in Calls : call[c].status = "uploaded" /\ call[c].retryCount = 0
    BY DEF Init, NewRow
  <2> QED
    BY <2>1, PhasesOfStatus DEF Lifecycle!Init
<1>2. AloneInv /\ Undisturbed' /\ [Next]_vars => [Lifecycle!Next]_<<Phases, Failures>>
  <2> SUFFICES ASSUME AloneInv, Undisturbed', [Next]_vars
               PROVE  Lifecycle!Next \/ UNCHANGED <<Phases, Failures>>
    OBVIOUS
  <2>1. CASE Next
    <3>1. CASE call' = call
      BY <3>1 DEF Phases, Failures
    <3>2. ASSUME NEW c \in Calls, Import(c) PROVE Lifecycle!Next
      BY <3>2, ImportSubmits DEF Undisturbed, Lifecycle!Next
    <3> QED
      BY <2>1, <3>1, <3>2, AloneStep, RunImplements
  <2>2. CASE UNCHANGED vars
    BY <2>2 DEF vars, Phases, Failures
  <2> QED
    BY <2>1, <2>2
<1>3. AloneInv /\ Undisturbed' /\ [Next]_vars =>
        [Lifecycle!Next]_<<[c \in Calls |-> PhaseOf(call[c].status)],
                           [c \in Calls |-> call[c].retryCount]>>
  BY <1>2 DEF Phases, Failures
<1>4. TypeOK /\ WithinLimits => Undisturbed
  BY WithinLimitsSoFar DEF Undisturbed, NothingLost, Event
<1> QED
  BY <1>1, <1>3, <1>4, AloneAlways, LimitsHold, PTL DEF Spec, Lifecycle!Steps
=============================================================================
