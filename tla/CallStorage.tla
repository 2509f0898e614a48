------------------------------- MODULE CallStorage -------------------------------
(***************************************************************************)
(* A call in two places: its row in the database and its audio in the      *)
(* object storage.  Uploads write both (create_call), a manual deletion    *)
(* and the nightly retention remove both (delete_call_end_to_end in        *)
(* backend/app/main.py, _run_retention in backend/app/tasks.py), and a     *)
(* process or a connection may be lost between any two steps.              *)
(*                                                                         *)
(* A step is a committed transaction or one request to the storage; what a *)
(* transaction has flushed and not committed is seen by nobody, but its    *)
(* unique values make others wait.                                         *)
(***************************************************************************)
EXTENDS Naturals, Sequences, FiniteSets

CONSTANTS
  Calls,      \* the calls that may be uploaded
  Keys,       \* the values of the Idempotency-Key header
  NoKey,      \* no such header
  MaxFaults,  \* how many requests to the storage or the database fail
  MaxDeletes  \* how many manual deletions are requested

ASSUME KeysAssumption == NoKey \notin Keys
ASSUME FaultsAssumption == MaxFaults \in Nat /\ MaxDeletes \in Nat

Remover == {"manual", "retention"}

VARIABLES
  uploads,    \* where the upload of each call is
  keys,       \* the idempotency key of each call
  rows,       \* the rows of calls
  objects,    \* the calls whose audio is in the object storage
  jobs,       \* the rows of retention_jobs, in order
  listed,     \* the expired calls that tonight's retention has yet to remove
  removal,    \* what each remover is doing
  faults, deletes

callVars == <<uploads, keys, rows, objects>>
storageVars == <<callVars, jobs, listed, removal, faults, deletes>>

Rest == [pc |-> "idle"]
Removal == [pc : {"idle"}]
  \cup [pc : {"asked", "emptied"}, call : Calls, job : Nat \ {0}]

StorageTypeOK ==
  /\ uploads \in [Calls -> {"none", "asked", "inserted", "stored", "done"}]
  /\ keys \in [Calls -> Keys \cup {NoKey}]
  /\ rows \in [Calls -> {"absent", "fresh", "expired"}]
  /\ objects \subseteq Calls
  /\ jobs \in Seq([call : Calls, status : {"running", "completed", "failed"}])
  /\ listed \subseteq Calls /\ removal \in [Remover -> Removal]
  /\ faults \in Nat /\ deletes \in Nat

StorageInit ==
  /\ uploads = [c \in Calls |-> "none"] /\ keys = [c \in Calls |-> NoKey]
  /\ rows = [c \in Calls |-> "absent"] /\ objects = {}
  /\ jobs = <<>> /\ listed = {} /\ removal = [r \in Remover |-> Rest]
  /\ faults = 0 /\ deletes = 0

Fault == faults < MaxFaults /\ faults' = faults + 1
Known == {c \in Calls : rows[c] # "absent"}

(***************************************************************************)
(* Uploads                                                                 *)
(***************************************************************************)

(* create_call finds no call with the key; with one it answers that call.  *)
AskUpload(c) ==
  /\ uploads[c] = "none"
  /\ \E k \in Keys \cup {NoKey} :
       /\ k # NoKey => \A d \in Known : keys[d] # k
       /\ keys' = [keys EXCEPT ![c] = k]
  /\ uploads' = [uploads EXCEPT ![c] = "asked"]
  /\ UNCHANGED <<rows, objects, jobs, listed, removal, faults, deletes>>

(* Mutant: external_id is not unique.                                      *)
KeyAlwaysFree(c) == TRUE

(* uq_call_external: a committed call with the key makes the insert fail.  *)
KeyIsFree(c) == keys[c] = NoKey \/ \A d \in Known : keys[d] # keys[c]

(* The flush inserts the row with the object key "pending", which is       *)
(* unique: it waits for every other upload between its flush and its end.  *)
InsertPending(c) ==
  /\ uploads[c] = "asked" /\ KeyIsFree(c)
  /\ \A d \in Calls : uploads[d] \notin {"inserted", "stored"}
  /\ uploads' = [uploads EXCEPT ![c] = "inserted"]
  /\ UNCHANGED <<keys, rows, objects, jobs, listed, removal, faults, deletes>>

(* storage.upload *)
StoreObject(c) ==
  /\ uploads[c] = "inserted"
  /\ objects' = objects \cup {c}
  /\ uploads' = [uploads EXCEPT ![c] = "stored"]
  /\ UNCHANGED <<keys, rows, jobs, listed, removal, faults, deletes>>

CommitUpload(c) ==
  /\ uploads[c] = "stored"
  /\ rows' = [rows EXCEPT ![c] = "fresh"]
  /\ uploads' = [uploads EXCEPT ![c] = "done"]
  /\ UNCHANGED <<keys, objects, jobs, listed, removal, faults, deletes>>

(* A key taken meanwhile, a storage error or a lost process ends the       *)
(* upload without a row; an object already stored stays.                   *)
UploadFails(c) ==
  /\ uploads[c] \in {"asked", "inserted", "stored"}
  /\ KeyIsFree(c) => Fault
  /\ ~KeyIsFree(c) => UNCHANGED faults
  /\ uploads' = [uploads EXCEPT ![c] = "done"]
  /\ UNCHANGED <<keys, rows, objects, jobs, listed, removal, deletes>>

(* created_at passes the organization's retention_days.                    *)
Expire(c) ==
  /\ rows[c] = "fresh"
  /\ rows' = [rows EXCEPT ![c] = "expired"]
  /\ UNCHANGED <<uploads, keys, objects, jobs, listed, removal, faults, deletes>>

(***************************************************************************)
(* Removal                                                                 *)
(***************************************************************************)

(* Mutant: a call whose removal was tried before is not tried again.       *)
ListUntried ==
  /\ removal["retention"] = Rest /\ listed = {}
  /\ listed' = {c \in Calls : rows[c] = "expired" /\ \A i \in DOMAIN jobs : jobs[i].call # c}
  /\ listed' # {}
  /\ UNCHANGED <<callVars, jobs, removal, faults, deletes>>

(* The nightly retention selects the expired calls, once for all of them.  *)
ListExpired ==
  /\ removal["retention"] = Rest /\ listed = {}
  /\ listed' = {c \in Calls : rows[c] = "expired"} /\ listed' # {}
  /\ UNCHANGED <<callVars, jobs, removal, faults, deletes>>

AskRemoval(r, c) ==
  IF r = "retention"
  THEN c \in listed /\ listed' = listed \ {c} /\ UNCHANGED deletes
  ELSE rows[c] # "absent" /\ deletes < MaxDeletes /\ deletes' = deletes + 1 /\ UNCHANGED listed

(* Mutant: the job is committed with the row's deletion.                   *)
BeginUnrecorded(r, c) ==
  /\ removal[r] = Rest /\ AskRemoval(r, c)
  /\ jobs' = jobs
  /\ removal' = [removal EXCEPT ![r] = [pc |-> "asked", call |-> c, job |-> 0]]
  /\ UNCHANGED <<callVars, faults>>

(* The job is committed before anything is removed.                        *)
BeginRemoval(r, c) ==
  /\ removal[r] = Rest /\ AskRemoval(r, c)
  /\ jobs' = Append(jobs, [call |-> c, status |-> "running"])
  /\ removal' = [removal EXCEPT ![r] = [pc |-> "asked", call |-> c, job |-> Len(jobs) + 1]]
  /\ UNCHANGED <<callVars, faults>>

(* storage.delete, which succeeds when there is nothing to delete.         *)
DeleteObject(r) ==
  /\ removal[r].pc = "asked"
  /\ objects' = objects \ {removal[r].call}
  /\ removal' = [removal EXCEPT ![r].pc = "emptied"]
  /\ UNCHANGED <<uploads, keys, rows, jobs, listed, faults, deletes>>

(* The row and the end of the job are one commit; a row that is gone       *)
(* already is a warning.                                                   *)
DeleteRow(r) ==
  /\ removal[r].pc = "emptied"
  /\ rows' = [rows EXCEPT ![removal[r].call] = "absent"]
  /\ jobs' = [jobs EXCEPT ![removal[r].job].status = "completed"]
  /\ removal' = [removal EXCEPT ![r] = Rest]
  /\ UNCHANGED <<uploads, keys, objects, listed, faults, deletes>>

(* Mutant: the job is completed whatever storage.delete says.              *)
FailsUnnoticed(r) ==
  /\ removal[r].pc = "asked" /\ Fault
  /\ objects' \in {objects, objects \ {removal[r].call}}
  /\ jobs' = [jobs EXCEPT ![removal[r].job].status = "completed"]
  /\ removal' = [removal EXCEPT ![r] = Rest]
  /\ UNCHANGED <<uploads, keys, rows, listed, deletes>>

(* storage.delete raises, with or without having deleted: no transaction   *)
(* is open, the rollback expires nothing, and the job is set to failed.    *)
StorageFails(r) ==
  /\ removal[r].pc = "asked" /\ Fault
  /\ objects' \in {objects, objects \ {removal[r].call}}
  /\ jobs' = [jobs EXCEPT ![removal[r].job].status = "failed"]
  /\ removal' = [removal EXCEPT ![r] = Rest]
  /\ UNCHANGED <<uploads, keys, rows, listed, deletes>>

(* The process is lost, or the database refuses the last commit: then the  *)
(* rollback has expired the job, reading job.id raises MissingGreenlet,    *)
(* and the job says running for good.                                      *)
RemovalLost(r) ==
  /\ removal[r] # Rest /\ Fault
  /\ removal' = [removal EXCEPT ![r] = Rest]
  /\ listed' = IF r = "retention" THEN {} ELSE listed
  /\ UNCHANGED <<callVars, jobs, deletes>>

StorageNext ==
  \/ ListExpired
  \/ \E c \in Calls : \/ AskUpload(c) \/ InsertPending(c) \/ StoreObject(c)
                      \/ CommitUpload(c) \/ UploadFails(c) \/ Expire(c)
  \/ \E r \in Remover : \/ \E c \in Calls : BeginRemoval(r, c)
                        \/ DeleteObject(r) \/ DeleteRow(r)
                        \/ StorageFails(r) \/ RemovalLost(r)

(***************************************************************************)
(* Properties                                                              *)
(***************************************************************************)

HasJob(c) == \E i \in DOMAIN jobs : jobs[i].call = c /\ jobs[i].status # "completed"

(* A call is created once for an idempotency key, although two requests    *)
(* may both have found none (create_call, uq_call_external).               *)
OneCallPerKey ==
  \A c, d \in Known : c # d /\ keys[c] # NoKey => keys[c] # keys[d]
=============================================================================
