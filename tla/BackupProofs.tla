------------------------------ MODULE BackupProofs ------------------------------
(***************************************************************************)
(* Proofs about a call's row and audio, their removal, and backups beside  *)
(* the running system, for every number of calls, keys, failures, backups  *)
(* and days.                                                               *)
(***************************************************************************)
EXTENDS Backup, SequenceTheorems, TLAPS

Job == [call : Calls, status : {"running", "completed", "failed"}]
Uploading(c) == uploads[c] \in {"inserted", "stored"}
JobOf(c) == \E i \in DOMAIN jobs : jobs[i].call = c

(* The unique object key "pending" lets one upload at a time come to its   *)
(* commit, so that its key is still free there; rows, jobs and the list of *)
(* retention are about calls whose upload has ended.                       *)
UploadsFit ==
  /\ \A c \in Known : uploads[c] = "done"
  /\ \A c, d \in Calls : Uploading(c) /\ Uploading(d) => c = d
  /\ \A c \in Calls : Uploading(c) => KeyIsFree(c)
  /\ \A c \in Calls : uploads[c] = "stored" => c \in objects
  /\ \A i \in DOMAIN jobs : uploads[jobs[i].call] = "done"
  /\ \A c \in listed : uploads[c] = "done"

(* A removal has a running job of its own.                                 *)
RemovalsFit ==
  /\ \A r \in Remover : removal[r].pc \in {"asked", "emptied"} =>
       /\ removal[r].job \in DOMAIN jobs /\ jobs[removal[r].job].status = "running"
       /\ jobs[removal[r].job].call = removal[r].call
       /\ removal[r].pc = "emptied" => removal[r].call \notin objects
  /\ \A r, s \in Remover :
       r # s /\ removal[r].pc \in {"asked", "emptied"} /\ removal[s].pc \in {"asked", "emptied"} =>
         removal[r].job # removal[s].job

StorageInv == StorageTypeOK /\ UploadsFit /\ RemovalsFit /\ OneCallPerKey

(* Every row has its audio, a job that says why not, or came so from an    *)
(* archive.                                                                *)
RowsFit == \A c \in Known : c \in objects \cup lost \/ HasJob(c)

CompletedFit ==
  \A i \in DOMAIN jobs : jobs[i].status = "completed" =>
    rows[jobs[i].call] = "absent" /\ jobs[i].call \notin objects

(* What a step of the services does to calls whose upload has ended: audio *)
(* disappears with a job, and does not come back.                          *)
Moves ==
  /\ \A c \in Calls : uploads[c] = "done" => uploads'[c] = "done"
  /\ \A c \in objects' : c \in objects \/ uploads[c] # "done"
  /\ \A c \in Calls : JobOf(c) => JobOf(c)'
  /\ \A c \in objects : c \in objects' \/ JobOf(c)'

Kept == StorageInv' /\ Moves /\ (RowsFit => RowsFit') /\ (CompletedFit => CompletedFit')

(***************************************************************************)
(* Data                                                                    *)
(***************************************************************************)

(* What the type says of one removal.                                      *)
LEMMA RemovalFields ==
  ASSUME NEW m \in Removal
  PROVE  /\ m.pc \in {"idle", "asked", "emptied"}
         /\ m.pc = "idle" <=> m = Rest
         /\ m.pc \in {"asked", "emptied"} => m.call \in Calls /\ m.job \in Nat \ {0}
BY DEF Removal, Rest

(* A job is appended.                                                      *)
LEMMA JobBegins ==
  ASSUME NEW list \in Seq(Job), NEW job \in Job, NEW longer, longer = Append(list, job)
  PROVE  /\ longer \in Seq(Job) /\ Len(list) + 1 \in DOMAIN longer
         /\ DOMAIN longer = DOMAIN list \cup {Len(list) + 1} /\ Len(list) + 1 \notin DOMAIN list
         /\ longer[Len(list) + 1] = job /\ \A i \in DOMAIN list : longer[i] = list[i]
BY AppendProperties

(* A job ends.                                                             *)
LEMMA JobEnds ==
  ASSUME NEW list \in Seq(Job), NEW k \in DOMAIN list, NEW status \in {"completed", "failed"},
         NEW after, after = [list EXCEPT ![k].status = status]
  PROVE  /\ after \in Seq(Job) /\ DOMAIN after = DOMAIN list
         /\ after[k].status = status
         /\ \A i \in DOMAIN list : /\ after[i].call = list[i].call
                                   /\ i # k => after[i] = list[i]
<1> DEFINE job == [list[k] EXCEPT !.status = status]
<1>1. list[k] \in Job /\ k \in 1 .. Len(list)
  OBVIOUS
<1>2. job \in Job /\ job.call = list[k].call /\ job.status = status
  BY <1>1 DEF Job
<1>3. after = [list EXCEPT ![k] = job]
  BY <1>1
<1> HIDE DEF job
<1>4. /\ after \in Seq(Job) /\ Len(after) = Len(list)
      /\ \A i \in 1 .. Len(list) : after[i] = IF i = k THEN job ELSE list[i]
  BY <1>1, <1>2, <1>3, ExceptSeq
<1> QED
  BY <1>1, <1>2, <1>4

(* The types of the storage.                                               *)
LEMMA StorageTypes ==
  ASSUME StorageInv
  PROVE  /\ uploads \in [Calls -> {"none", "asked", "inserted", "stored", "done"}]
         /\ keys \in [Calls -> Keys \cup {NoKey}]
         /\ rows \in [Calls -> {"absent", "fresh", "expired"}]
         /\ objects \subseteq Calls /\ jobs \in Seq(Job) /\ listed \subseteq Calls
         /\ removal \in [Remover -> Removal] /\ faults \in Nat /\ deletes \in Nat
         /\ \A i \in DOMAIN jobs : jobs[i] \in Job /\ jobs[i].call \in Calls
<1>1. jobs \in Seq(Job)
  BY DEF StorageInv, StorageTypeOK, Job
<1> HIDE DEF Job
<1>2. \A i \in DOMAIN jobs : jobs[i] \in Job
  BY <1>1
<1>3. \A j \in Job : j.call \in Calls
  BY DEF Job
<1> QED
  BY <1>1, <1>2, <1>3 DEF StorageInv, StorageTypeOK

(***************************************************************************)
(* Uploads                                                                 *)
(***************************************************************************)

(* A key is chosen for a call that is not known.                           *)
LEMMA AskUploadKept ==
  ASSUME StorageInv, NEW c \in Calls, AskUpload(c), lost' = lost
  PROVE  Kept
<1>1. PICK k \in Keys \cup {NoKey} : keys' = [keys EXCEPT ![c] = k]
  BY DEF AskUpload
<1>2. /\ uploads[c] = "none" /\ uploads' = [uploads EXCEPT ![c] = "asked"]
      /\ rows' = rows /\ objects' = objects /\ jobs' = jobs /\ listed' = listed
      /\ removal' = removal /\ faults' = faults /\ deletes' = deletes
  BY DEF AskUpload
<1>3. Known' = Known /\ c \notin Known
  BY <1>2, StorageTypes DEF Known, StorageInv, UploadsFit
<1>4. StorageTypeOK'
  BY <1>1, <1>2, StorageTypes DEF StorageInv, StorageTypeOK
<1>5. UploadsFit'
  <2>1. \A d \in Calls : Uploading(d)' <=> Uploading(d) /\ d # c
    BY <1>2, StorageTypes DEF Uploading
  <2>2. \A d \in Calls : Uploading(d)' => KeyIsFree(d)'
    <3>1. \A d \in Known \cup {e \in Calls : Uploading(e) /\ e # c} : keys'[d] = keys[d]
      BY <1>1, <1>3, StorageTypes DEF Known
    <3> QED
      BY <2>1, <3>1, <1>3 DEF StorageInv, UploadsFit, KeyIsFree
  <2> QED
    BY <1>2, <1>3, <2>1, <2>2, StorageTypes DEF StorageInv, UploadsFit, Known
<1>6. RemovalsFit'
  BY <1>2 DEF StorageInv, RemovalsFit
<1>7. OneCallPerKey'
  <2>1. \A d \in Known : keys'[d] = keys[d]
    BY <1>1, <1>3, StorageTypes DEF Known
  <2> QED
    BY <1>3, <2>1 DEF StorageInv, OneCallPerKey
<1>8. Moves
  BY <1>2, StorageTypes DEF Moves, JobOf
<1>9. (RowsFit => RowsFit') /\ (CompletedFit => CompletedFit')
  BY <1>2, <1>3 DEF RowsFit, CompletedFit, HasJob
<1> QED
  BY <1>4, <1>5, <1>6, <1>7, <1>8, <1>9 DEF Kept, StorageInv

(* An upload inserts its row while no other is between insert and commit.  *)
LEMMA InsertPendingKept ==
  ASSUME StorageInv, NEW c \in Calls, InsertPending(c), lost' = lost
  PROVE  Kept
<1>1. /\ uploads[c] = "asked" /\ uploads' = [uploads EXCEPT ![c] = "inserted"] /\ KeyIsFree(c)
      /\ \A d \in Calls : ~Uploading(d)
      /\ keys' = keys /\ rows' = rows /\ objects' = objects /\ jobs' = jobs /\ listed' = listed
      /\ removal' = removal /\ faults' = faults /\ deletes' = deletes
  BY DEF InsertPending, Uploading
<1>2. Known' = Known
  BY <1>1 DEF Known
<1>3. StorageTypeOK'
  BY <1>1, StorageTypes DEF StorageInv, StorageTypeOK
<1>4. UploadsFit'
  <2>1. \A d \in Calls : Uploading(d)' <=> d = c
    BY <1>1, StorageTypes DEF Uploading
  <2>2. \A d \in Calls : KeyIsFree(d)' <=> KeyIsFree(d)
    BY <1>1, <1>2 DEF KeyIsFree
  <2> QED
    BY <1>1, <1>2, <2>1, <2>2, StorageTypes DEF StorageInv, UploadsFit, Known
<1>5. RemovalsFit' /\ OneCallPerKey'
  BY <1>1, <1>2 DEF StorageInv, RemovalsFit, OneCallPerKey
<1>6. Moves
  BY <1>1, StorageTypes DEF Moves, JobOf
<1>7. (RowsFit => RowsFit') /\ (CompletedFit => CompletedFit')
  BY <1>1, <1>2 DEF RowsFit, CompletedFit, HasJob
<1> QED
  BY <1>3, <1>4, <1>5, <1>6, <1>7 DEF Kept, StorageInv

(* The audio of a call that has no row and no job is stored.               *)
LEMMA StoreObjectKept ==
  ASSUME StorageInv, NEW c \in Calls, StoreObject(c), lost' = lost
  PROVE  Kept
<1>1. /\ uploads[c] = "inserted" /\ uploads' = [uploads EXCEPT ![c] = "stored"]
      /\ objects' = objects \cup {c}
      /\ keys' = keys /\ rows' = rows /\ jobs' = jobs /\ listed' = listed
      /\ removal' = removal /\ faults' = faults /\ deletes' = deletes
  BY DEF StoreObject
<1>2. Known' = Known /\ \A i \in DOMAIN jobs : jobs[i].call # c
  BY <1>1, StorageTypes DEF Known, StorageInv, UploadsFit
<1>3. StorageTypeOK'
  BY <1>1, StorageTypes DEF StorageInv, StorageTypeOK
<1>4. UploadsFit'
  <2>1. \A d \in Calls : Uploading(d)' <=> Uploading(d)
    BY <1>1, StorageTypes DEF Uploading
  <2>2. \A d \in Calls : KeyIsFree(d)' <=> KeyIsFree(d)
    BY <1>1, <1>2 DEF KeyIsFree
  <2> QED
    BY <1>1, <1>2, <2>1, <2>2, StorageTypes DEF StorageInv, UploadsFit, Known
<1>5. RemovalsFit'
  BY <1>1, <1>2 DEF StorageInv, RemovalsFit
<1>6. OneCallPerKey'
  BY <1>1, <1>2 DEF StorageInv, OneCallPerKey
<1>7. Moves
  BY <1>1, StorageTypes DEF Moves, JobOf
<1>8. (RowsFit => RowsFit') /\ (CompletedFit => CompletedFit')
  BY <1>1, <1>2 DEF RowsFit, CompletedFit, HasJob
<1> QED
  BY <1>3, <1>4, <1>5, <1>6, <1>7, <1>8 DEF Kept, StorageInv

(* The row of the one upload under way is committed; its key is free.      *)
LEMMA CommitUploadKept ==
  ASSUME StorageInv, NEW c \in Calls, CommitUpload(c), lost' = lost
  PROVE  Kept
<1>1. /\ uploads[c] = "stored" /\ uploads' = [uploads EXCEPT ![c] = "done"]
      /\ rows' = [rows EXCEPT ![c] = "fresh"]
      /\ keys' = keys /\ objects' = objects /\ jobs' = jobs /\ listed' = listed
      /\ removal' = removal /\ faults' = faults /\ deletes' = deletes
  BY DEF CommitUpload
<1>2. /\ Known' = Known \cup {c} /\ Uploading(c) /\ KeyIsFree(c) /\ c \in objects
      /\ \A i \in DOMAIN jobs : jobs[i].call # c
  BY <1>1, StorageTypes DEF Known, StorageInv, UploadsFit, Uploading
<1>3. StorageTypeOK'
  BY <1>1, StorageTypes DEF StorageInv, StorageTypeOK
<1>4. UploadsFit'
  <2>1. \A d \in Calls : ~Uploading(d)'
    BY <1>1, <1>2, StorageTypes DEF Uploading, StorageInv, UploadsFit
  <2> QED
    BY <1>1, <1>2, <2>1, StorageTypes DEF StorageInv, UploadsFit, Known, Uploading
<1>5. RemovalsFit'
  BY <1>1 DEF StorageInv, RemovalsFit
<1>6. OneCallPerKey'
  BY <1>1, <1>2 DEF StorageInv, OneCallPerKey, KeyIsFree
<1>7. Moves
  BY <1>1, StorageTypes DEF Moves, JobOf
<1>8. (RowsFit => RowsFit') /\ (CompletedFit => CompletedFit')
  BY <1>1, <1>2, StorageTypes DEF RowsFit, CompletedFit, HasJob
<1> QED
  BY <1>3, <1>4, <1>5, <1>6, <1>7, <1>8 DEF Kept, StorageInv

(* An upload ends without a row.                                           *)
LEMMA UploadFailsKept ==
  ASSUME StorageInv, NEW c \in Calls, UploadFails(c), lost' = lost
  PROVE  Kept
<1>1. /\ uploads[c] # "done" /\ uploads' = [uploads EXCEPT ![c] = "done"] /\ faults' \in Nat
      /\ keys' = keys /\ rows' = rows /\ objects' = objects /\ jobs' = jobs /\ listed' = listed
      /\ removal' = removal /\ deletes' = deletes
  BY StorageTypes DEF UploadFails, Fault
<1>2. Known' = Known
  BY <1>1 DEF Known
<1>3. StorageTypeOK'
  BY <1>1, StorageTypes DEF StorageInv, StorageTypeOK
<1>4. UploadsFit'
  <2>1. \A d \in Calls : Uploading(d)' <=> Uploading(d) /\ d # c
    BY <1>1, StorageTypes DEF Uploading
  <2>2. \A d \in Calls : KeyIsFree(d)' <=> KeyIsFree(d)
    BY <1>1, <1>2 DEF KeyIsFree
  <2> QED
    BY <1>1, <1>2, <2>1, <2>2, StorageTypes DEF StorageInv, UploadsFit, Known
<1>5. RemovalsFit' /\ OneCallPerKey'
  BY <1>1, <1>2 DEF StorageInv, RemovalsFit, OneCallPerKey
<1>6. Moves
  BY <1>1, StorageTypes DEF Moves, JobOf
<1>7. (RowsFit => RowsFit') /\ (CompletedFit => CompletedFit')
  BY <1>1, <1>2 DEF RowsFit, CompletedFit, HasJob
<1> QED
  BY <1>3, <1>4, <1>5, <1>6, <1>7 DEF Kept, StorageInv

(* A call grows old.                                                       *)
LEMMA ExpireKept ==
  ASSUME StorageInv, NEW c \in Calls, Expire(c), lost' = lost
  PROVE  Kept
<1>1. /\ rows[c] = "fresh" /\ rows' = [rows EXCEPT ![c] = "expired"]
      /\ uploads' = uploads /\ keys' = keys /\ objects' = objects /\ jobs' = jobs
      /\ listed' = listed /\ removal' = removal /\ faults' = faults /\ deletes' = deletes
  BY DEF Expire
<1>2. Known' = Known
  BY <1>1, StorageTypes DEF Known
<1>3. StorageTypeOK'
  BY <1>1, StorageTypes DEF StorageInv, StorageTypeOK
<1>4. UploadsFit' /\ RemovalsFit' /\ OneCallPerKey'
  BY <1>1, <1>2 DEF StorageInv, UploadsFit, Uploading, KeyIsFree, RemovalsFit, OneCallPerKey
<1>5. Moves
  BY <1>1 DEF Moves, JobOf
<1>6. (RowsFit => RowsFit') /\ (CompletedFit => CompletedFit')
  BY <1>1, <1>2, StorageTypes DEF RowsFit, CompletedFit, HasJob
<1> QED
  BY <1>3, <1>4, <1>5, <1>6 DEF Kept, StorageInv

(***************************************************************************)
(* Removals                                                                *)
(***************************************************************************)

(* Tonight's list is of calls that are known.                              *)
LEMMA ListExpiredKept ==
  ASSUME StorageInv, ListExpired, lost' = lost
  PROVE  Kept
<1>1. /\ listed' \subseteq Known
      /\ uploads' = uploads /\ keys' = keys /\ rows' = rows /\ objects' = objects
      /\ jobs' = jobs /\ removal' = removal /\ faults' = faults /\ deletes' = deletes
  BY DEF ListExpired, Known, callVars
<1>2. Known' = Known
  BY <1>1 DEF Known
<1>3. StorageTypeOK'
  BY <1>1, StorageTypes DEF StorageInv, StorageTypeOK, Known
<1>4. UploadsFit' /\ RemovalsFit' /\ OneCallPerKey'
  BY <1>1, <1>2 DEF StorageInv, UploadsFit, Uploading, KeyIsFree, RemovalsFit, OneCallPerKey
<1>5. Moves /\ (RowsFit => RowsFit') /\ (CompletedFit => CompletedFit')
  BY <1>1, <1>2 DEF Moves, JobOf, RowsFit, CompletedFit, HasJob
<1> QED
  BY <1>3, <1>4, <1>5 DEF Kept, StorageInv

(* A removal begins with a running job of its own, appended to the others. *)
LEMMA BeginRemovalKept ==
  ASSUME StorageInv, NEW r \in Remover, NEW c \in Calls, BeginRemoval(r, c), lost' = lost
  PROVE  Kept
<1> DEFINE job == [call |-> c, status |-> "running"]
           k == Len(jobs) + 1
           m == [pc |-> "asked", call |-> c, job |-> k]
<1>1. /\ jobs' = Append(jobs, job) /\ removal' = [removal EXCEPT ![r] = m]
      /\ uploads' = uploads /\ keys' = keys /\ rows' = rows /\ objects' = objects
      /\ faults' = faults
  BY DEF BeginRemoval, callVars
<1>2. listed' \subseteq listed /\ deletes' \in Nat
  BY StorageTypes DEF BeginRemoval, AskRemoval
<1>3. uploads[c] = "done"
  BY StorageTypes DEF BeginRemoval, AskRemoval, StorageInv, UploadsFit, Known
<1>4. job \in Job /\ job.call = c /\ job.status = "running"
  BY DEF Job
<1>5. k \in Nat \ {0} /\ m \in Removal /\ m.pc = "asked" /\ m.call = c /\ m.job = k
  BY StorageTypes DEF Removal
<1> HIDE DEF job, m
<1>6. /\ jobs' \in Seq(Job) /\ k \in DOMAIN jobs'
      /\ DOMAIN jobs' = DOMAIN jobs \cup {k} /\ k \notin DOMAIN jobs
      /\ jobs'[k] = job /\ \A i \in DOMAIN jobs : jobs'[i] = jobs[i]
  BY <1>1, <1>4, StorageTypes, JobBegins
<1> HIDE DEF k
<1>7. Known' = Known
  BY <1>1 DEF Known
<1>8. StorageTypeOK'
  BY <1>1, <1>2, <1>5, <1>6, StorageTypes DEF StorageInv, StorageTypeOK, Job
<1>9. UploadsFit'
  BY <1>1, <1>2, <1>3, <1>4, <1>6, <1>7 DEF StorageInv, UploadsFit, Uploading, KeyIsFree
<1>10. RemovalsFit'
  <2>1. \A s \in Remover : removal'[s] = IF s = r THEN m ELSE removal[s]
    BY <1>1, StorageTypes
  <2>2. ASSUME NEW s \in Remover, removal'[s].pc \in {"asked", "emptied"}
        PROVE  /\ removal'[s].job \in DOMAIN jobs' /\ jobs'[removal'[s].job].status = "running"
               /\ jobs'[removal'[s].job].call = removal'[s].call
               /\ removal'[s].pc = "emptied" => removal'[s].call \notin objects'
               /\ s # r => removal'[s].job # k
    BY <2>1, <2>2, <1>1, <1>4, <1>5, <1>6 DEF StorageInv, RemovalsFit
  <2>3. ASSUME NEW s \in Remover, NEW u \in Remover, s # u,
               removal'[s].pc \in {"asked", "emptied"}, removal'[u].pc \in {"asked", "emptied"}
        PROVE  removal'[s].job # removal'[u].job
    BY <2>1, <2>2, <2>3, <1>5 DEF StorageInv, RemovalsFit
  <2> QED
    BY <2>2, <2>3 DEF RemovalsFit
<1>11. OneCallPerKey'
  BY <1>1, <1>7 DEF StorageInv, OneCallPerKey
<1>12. Moves
  BY <1>1, <1>6 DEF Moves, JobOf
<1>13. (RowsFit => RowsFit') /\ (CompletedFit => CompletedFit')
  BY <1>1, <1>4, <1>6, <1>7 DEF RowsFit, CompletedFit, HasJob
<1> QED
  BY <1>8, <1>9, <1>10, <1>11, <1>12, <1>13 DEF Kept, StorageInv

(* A removal under way, by its fields.                                     *)
LEMMA RemovalUnderWay ==
  ASSUME StorageInv, NEW r \in Remover, removal[r].pc \in {"asked", "emptied"}
  PROVE  /\ removal[r] \in Removal /\ removal[r].call \in Calls
         /\ removal[r].job \in DOMAIN jobs /\ jobs[removal[r].job].status = "running"
         /\ jobs[removal[r].job].call = removal[r].call
         /\ uploads[removal[r].call] = "done"
         /\ HasJob(removal[r].call)
BY StorageTypes, RemovalFields DEF StorageInv, RemovalsFit, UploadsFit, HasJob

(* The audio is deleted, for which there is a job.                         *)
LEMMA DeleteObjectKept ==
  ASSUME StorageInv, NEW r \in Remover, DeleteObject(r), lost' = lost
  PROVE  Kept
<1> DEFINE c == removal[r].call
           m == [removal[r] EXCEPT !.pc = "emptied"]
<1>1. /\ removal[r].pc = "asked" /\ objects' = objects \ {c}
      /\ removal' = [removal EXCEPT ![r].pc = "emptied"]
      /\ uploads' = uploads /\ keys' = keys /\ rows' = rows /\ jobs' = jobs
      /\ listed' = listed /\ faults' = faults /\ deletes' = deletes
  BY DEF DeleteObject
<1>2. /\ removal[r] \in Removal /\ c \in Calls /\ uploads[c] = "done" /\ HasJob(c)
  BY <1>1, RemovalUnderWay
<1>3. m \in Removal /\ m.pc = "emptied" /\ m.call = c /\ m.job = removal[r].job
  BY <1>1, <1>2 DEF Removal
<1>4. \A s \in Remover : removal'[s] = IF s = r THEN m ELSE removal[s]
  BY <1>1, StorageTypes
<1> HIDE DEF c, m
<1>5. Known' = Known
  BY <1>1 DEF Known
<1>6. StorageTypeOK'
  <2>1. removal' \in [Remover -> Removal]
    BY <1>1, <1>3, <1>4, StorageTypes
  <2> QED
    BY <1>1, <2>1, StorageTypes DEF StorageInv, StorageTypeOK
<1>7. UploadsFit'
  BY <1>1, <1>2, <1>5 DEF StorageInv, UploadsFit, Uploading, KeyIsFree
<1>8. RemovalsFit'
  <2>1. \A s \in Remover : removal'[s].pc \in {"asked", "emptied"} =>
          /\ removal[s].pc \in {"asked", "emptied"} /\ removal'[s].job = removal[s].job
          /\ removal'[s].call = removal[s].call
          /\ removal'[s].pc = "emptied" => removal[s].pc = "emptied" \/ removal[s].call = c
    BY <1>1, <1>3, <1>4 DEF c
  <2> QED
    BY <1>1, <2>1 DEF StorageInv, RemovalsFit
<1>9. OneCallPerKey'
  BY <1>1, <1>5 DEF StorageInv, OneCallPerKey
<1>10. Moves
  BY <1>1, <1>2 DEF Moves, JobOf, HasJob
<1>11. (RowsFit => RowsFit') /\ (CompletedFit => CompletedFit')
  BY <1>1, <1>2, <1>5 DEF RowsFit, CompletedFit, HasJob
<1> QED
  BY <1>6, <1>7, <1>8, <1>9, <1>10, <1>11 DEF Kept, StorageInv

(* A removal ends with its job, and the others keep theirs.                *)
LEMMA RemovalEnds ==
  ASSUME StorageInv, NEW r \in Remover, removal[r].pc \in {"asked", "emptied"},
         NEW status \in {"completed", "failed"},
         jobs' = [jobs EXCEPT ![removal[r].job].status = status],
         removal' = [removal EXCEPT ![r] = Rest], objects' \subseteq objects
  PROVE  /\ jobs' \in Seq(Job) /\ DOMAIN jobs' = DOMAIN jobs
         /\ removal[r].job \in DOMAIN jobs /\ jobs'[removal[r].job].status = status
         /\ \A i \in DOMAIN jobs : /\ jobs'[i].call = jobs[i].call
                                   /\ i # removal[r].job => jobs'[i] = jobs[i]
         /\ removal' \in [Remover -> Removal] /\ RemovalsFit'
<1> DEFINE k == removal[r].job
<1>1. k \in DOMAIN jobs /\ jobs \in Seq(Job)
  BY RemovalUnderWay, StorageTypes
<1>2. /\ jobs' \in Seq(Job) /\ DOMAIN jobs' = DOMAIN jobs /\ jobs'[k].status = status
      /\ \A i \in DOMAIN jobs : /\ jobs'[i].call = jobs[i].call
                                /\ i # k => jobs'[i] = jobs[i]
  BY <1>1, JobEnds
<1>3. Rest \in Removal /\ Rest.pc \notin {"asked", "emptied"}
  BY DEF Rest, Removal
<1>4. removal' \in [Remover -> Removal]
  BY <1>3, StorageTypes
<1>5. \A s \in Remover : removal'[s].pc \in {"asked", "emptied"} =>
        s # r /\ removal'[s] = removal[s]
  BY <1>3, StorageTypes
<1>6. \A s \in Remover : removal'[s].pc \in {"asked", "emptied"} => removal[s].job # k
  BY <1>5 DEF StorageInv, RemovalsFit
<1> HIDE DEF k
<1>7. RemovalsFit'
  BY <1>2, <1>5, <1>6 DEF StorageInv, RemovalsFit
<1> QED
  BY <1>1, <1>2, <1>4, <1>7 DEF k

(* The row is deleted with the end of the job; the audio is gone.          *)
LEMMA DeleteRowKept ==
  ASSUME StorageInv, NEW r \in Remover, DeleteRow(r), lost' = lost
  PROVE  Kept
<1> DEFINE c == removal[r].call
           k == removal[r].job
<1>1. /\ removal[r].pc = "emptied" /\ rows' = [rows EXCEPT ![c] = "absent"]
      /\ jobs' = [jobs EXCEPT ![k].status = "completed"]
      /\ removal' = [removal EXCEPT ![r] = Rest]
      /\ uploads' = uploads /\ keys' = keys /\ objects' = objects
      /\ listed' = listed /\ faults' = faults /\ deletes' = deletes
  BY DEF DeleteRow
<1>2. c \in Calls /\ c \notin objects /\ jobs[k].call = c
  BY <1>1, RemovalUnderWay DEF StorageInv, RemovalsFit
<1>3. /\ jobs' \in Seq(Job) /\ DOMAIN jobs' = DOMAIN jobs /\ k \in DOMAIN jobs
      /\ \A i \in DOMAIN jobs : /\ jobs'[i].call = jobs[i].call
                                /\ i # k => jobs'[i] = jobs[i]
      /\ removal' \in [Remover -> Removal] /\ RemovalsFit'
  BY <1>1, RemovalEnds
<1> HIDE DEF c, k
<1>4. Known' \subseteq Known /\ c \notin Known' /\ rows'[c] = "absent"
      /\ \A d \in Calls : rows[d] = "absent" => rows'[d] = "absent"
  BY <1>1, <1>2, StorageTypes DEF Known
<1>5. StorageTypeOK'
  BY <1>1, <1>3, StorageTypes DEF StorageInv, StorageTypeOK, Job
<1>6. UploadsFit'
  BY <1>1, <1>3, <1>4 DEF StorageInv, UploadsFit, Uploading, KeyIsFree
<1>7. OneCallPerKey'
  BY <1>1, <1>4 DEF StorageInv, OneCallPerKey
<1>8. Moves
  BY <1>1, <1>3 DEF Moves, JobOf
<1>9. RowsFit => RowsFit'
  <2> SUFFICES ASSUME RowsFit, NEW d \in Known', d \notin objects \cup lost PROVE HasJob(d)'
    BY <1>1 DEF RowsFit
  <2>1. d \in Known /\ d # c
    BY <1>4
  <2>2. PICK i \in DOMAIN jobs : jobs[i].call = d /\ jobs[i].status # "completed"
    BY <2>1 DEF RowsFit, HasJob
  <2> QED
    BY <2>1, <2>2, <1>2, <1>3 DEF HasJob
<1>10. CompletedFit => CompletedFit'
  BY <1>1, <1>2, <1>3, <1>4, StorageTypes DEF CompletedFit
<1> QED
  BY <1>3, <1>5, <1>6, <1>7, <1>8, <1>9, <1>10 DEF Kept, StorageInv

(* The storage fails, with or without having deleted the audio; the job    *)
(* says so.                                                                *)
LEMMA StorageFailsKept ==
  ASSUME StorageInv, NEW r \in Remover, StorageFails(r), lost' = lost
  PROVE  Kept
<1> DEFINE c == removal[r].call
           k == removal[r].job
<1>1. /\ removal[r].pc = "asked" /\ objects' \in {objects, objects \ {c}} /\ faults' \in Nat
      /\ jobs' = [jobs EXCEPT ![k].status = "failed"]
      /\ removal' = [removal EXCEPT ![r] = Rest]
      /\ uploads' = uploads /\ keys' = keys /\ rows' = rows
      /\ listed' = listed /\ deletes' = deletes
  BY StorageTypes DEF StorageFails, Fault
<1>2. c \in Calls /\ uploads[c] = "done" /\ jobs[k].call = c
  BY <1>1, RemovalUnderWay
<1>3. /\ jobs' \in Seq(Job) /\ DOMAIN jobs' = DOMAIN jobs /\ k \in DOMAIN jobs
      /\ jobs'[k].status = "failed"
      /\ \A i \in DOMAIN jobs : /\ jobs'[i].call = jobs[i].call
                                /\ i # k => jobs'[i] = jobs[i]
      /\ removal' \in [Remover -> Removal] /\ RemovalsFit'
  BY <1>1, RemovalEnds
<1> HIDE DEF c, k
<1>4. Known' = Known /\ objects' \subseteq objects
  BY <1>1 DEF Known
<1>5. StorageTypeOK'
  BY <1>1, <1>3, <1>4, StorageTypes DEF StorageInv, StorageTypeOK, Job
<1>6. UploadsFit'
  BY <1>1, <1>2, <1>3, <1>4 DEF StorageInv, UploadsFit, Uploading, KeyIsFree
<1>7. OneCallPerKey'
  BY <1>1, <1>4 DEF StorageInv, OneCallPerKey
<1>8. Moves
  BY <1>1, <1>2, <1>3 DEF Moves, JobOf
<1>9. \A d \in Calls : HasJob(d) => HasJob(d)'
  <2> SUFFICES ASSUME NEW d \in Calls, HasJob(d) PROVE HasJob(d)'
    OBVIOUS
  <2>1. PICK i \in DOMAIN jobs : jobs[i].call = d /\ jobs[i].status # "completed"
    BY DEF HasJob
  <2>2. jobs'[i].call = d /\ jobs'[i].status # "completed"
    BY <2>1, <1>3
  <2> QED
    BY <2>2, <1>3 DEF HasJob
<1>10. \A d \in Calls : d = c => HasJob(d)'
  BY <1>2, <1>3 DEF HasJob
<1>11. RowsFit => RowsFit'
  BY <1>1, <1>4, <1>9, <1>10 DEF RowsFit, Known
<1>12. CompletedFit => CompletedFit'
  BY <1>1, <1>3, <1>4 DEF CompletedFit
<1> QED
  BY <1>3, <1>5, <1>6, <1>7, <1>8, <1>11, <1>12 DEF Kept, StorageInv

(* A removal is lost; its job stays as it was.                             *)
LEMMA RemovalLostKept ==
  ASSUME StorageInv, NEW r \in Remover, RemovalLost(r), lost' = lost
  PROVE  Kept
<1>1. /\ removal' = [removal EXCEPT ![r] = Rest] /\ faults' \in Nat /\ listed' \subseteq listed
      /\ uploads' = uploads /\ keys' = keys /\ rows' = rows /\ objects' = objects
      /\ jobs' = jobs /\ deletes' = deletes
  BY StorageTypes DEF RemovalLost, Fault, callVars
<1>2. Known' = Known
  BY <1>1 DEF Known
<1>3. Rest \in Removal /\ Rest.pc \notin {"asked", "emptied"}
  BY DEF Rest, Removal
<1>4. StorageTypeOK'
  BY <1>1, <1>3, StorageTypes DEF StorageInv, StorageTypeOK
<1>5. UploadsFit'
  BY <1>1, <1>2 DEF StorageInv, UploadsFit, Uploading, KeyIsFree
<1>6. RemovalsFit'
  <2>1. \A s \in Remover : removal'[s].pc \in {"asked", "emptied"} => removal'[s] = removal[s]
    BY <1>1, <1>3, StorageTypes
  <2> QED
    BY <1>1, <2>1 DEF StorageInv, RemovalsFit
<1>7. OneCallPerKey'
  BY <1>1, <1>2 DEF StorageInv, OneCallPerKey
<1>8. Moves /\ (RowsFit => RowsFit') /\ (CompletedFit => CompletedFit')
  BY <1>1, <1>2 DEF Moves, JobOf, RowsFit, CompletedFit, HasJob
<1> QED
  BY <1>4, <1>5, <1>6, <1>7, <1>8 DEF Kept, StorageInv

(* Every step of the services.                                             *)
LEMMA StorageKept ==
  ASSUME StorageInv, StorageNext, lost' = lost
  PROVE  Kept
<1>1. CASE ListExpired
  BY <1>1, ListExpiredKept
<1>2. CASE \E c \in Calls : \/ AskUpload(c) \/ InsertPending(c) \/ StoreObject(c)
                            \/ CommitUpload(c) \/ UploadFails(c) \/ Expire(c)
  BY <1>2, AskUploadKept, InsertPendingKept, StoreObjectKept, CommitUploadKept,
     UploadFailsKept, ExpireKept
<1>3. CASE \E r \in Remover : \/ \E c \in Calls : BeginRemoval(r, c)
                              \/ DeleteObject(r) \/ DeleteRow(r)
                              \/ StorageFails(r) \/ RemovalLost(r)
  BY <1>3, BeginRemovalKept, DeleteObjectKept, DeleteRowKept, StorageFailsKept, RemovalLostKept
<1> QED
  BY <1>1, <1>2, <1>3 DEF StorageNext

(***************************************************************************)
(* Backups: the invariant                                                  *)
(***************************************************************************)

(* A dumped database d, with the uploads as they are now.                  *)
Sound(d, now) ==
  /\ \A c \in Calls : d.rows[c] # "absent" => now[c] = "done"
  /\ \A i \in DOMAIN d.jobs : now[d.jobs[i].call] = "done"
  /\ \A c, e \in Calls :
       c # e /\ d.rows[c] # "absent" /\ d.rows[e] # "absent" /\ d.keys[c] # NoKey =>
         d.keys[c] # d.keys[e]

(* Its completed jobs are true of its rows and of the audio held.          *)
Truthful(d, held) ==
  \A i \in DOMAIN d.jobs : d.jobs[i].status = "completed" =>
    d.rows[d.jobs[i].call] = "absent" /\ d.jobs[i].call \notin held

(* While objects are copied, a call of the dump has its audio or a job     *)
(* now; if it was read without audio, a job or no audio from before.       *)
BackupFits ==
  /\ backup.pc = "copying" =>
       /\ Sound(backup.database, uploads)
       /\ overlaid \/ Truthful(backup.database, objects \cup backup.objects)
       /\ \A c \in Calls : backup.database.rows[c] # "absent" => c \in objects \cup lost \/ JobOf(c)
       /\ \A c \in backup.read : backup.database.rows[c] # "absent" =>
            c \in backup.objects \cup lost \/ JobOf(c)
       /\ \A a \in archives : a.id < backups
  /\ backup.pc = "written" => \A a \in archives : a.id = backup.id => a.day = today

ArchivesFit ==
  /\ \A a \in archives : /\ Sound(a.database, uploads)
                         /\ overlaid \/ Truthful(a.database, a.objects)
                         /\ a.id <= backups
  /\ \A a, b \in archives : a.id = b.id => a = b

(* The services rest during a restore, and find what it has restored.      *)
RestoreFits ==
  /\ restoring.pc # "none" =>
       /\ backup = NoBackup /\ listed = {} /\ \A r \in Remover : removal[r] = Rest
       /\ \A c \in Calls : uploads[c] \in {"none", "done"}
  /\ restoring.pc = "database" =>
       /\ restoring.from \in archives
       /\ Tables = restoring.from.database
  /\ restoring.pc = "none" => RowsFit /\ (overlaid \/ CompletedFit)

BackupInv ==
  /\ BackupTypeOK /\ StorageInv
  /\ BackupFits /\ ArchivesFit /\ RestoreFits
  /\ DanglingInBackupWasBeingRemoved /\ BackupRemains

Copying == [pc : {"copying"}, database : Database, objects : SUBSET Calls, read : SUBSET Calls]

(* What the types say of a backup, an archive and a restore.               *)
LEMMA BackupTypes ==
  ASSUME BackupTypeOK
  PROVE  /\ backup.pc \in {"idle", "copying", "written"}
         /\ backup.pc = "idle" <=> backup = NoBackup
         /\ backup.pc = "copying" => backup \in Copying
         /\ backup.pc = "written" => backup.id \in Nat
         /\ archives \subseteq Archive /\ backups \in Nat /\ today \in Nat
         /\ restoring.pc \in {"none", "stopped", "database"}
         /\ restoring.pc = "database" => restoring.from \in Archive
         /\ lost \subseteq Calls /\ overlaid \in BOOLEAN /\ succeeded \in BOOLEAN
<1> DEFINE Written == [pc : {"written"}, id : Nat]
           Quiet == [pc : {"none", "stopped"}]
           Loaded == [pc : {"database"}, from : Archive]
<1>1. backup \in {NoBackup} \cup Copying \cup Written
  BY DEF BackupTypeOK, Copying
<1>2. NoBackup.pc = "idle" /\ \A b \in Copying : b.pc = "copying"
  BY DEF NoBackup, Copying
<1>3. \A b \in Written : b.pc = "written" /\ b.id \in Nat
  OBVIOUS
<1>4. restoring \in Quiet \cup Loaded
  BY DEF BackupTypeOK
<1>5. \A x \in Quiet : x.pc \in {"none", "stopped"}
  OBVIOUS
<1>6. \A x \in Loaded : x.pc = "database" /\ x.from \in Archive
  OBVIOUS
<1> HIDE DEF Written, Quiet, Loaded
<1> QED
  BY <1>1, <1>2, <1>3, <1>4, <1>5, <1>6 DEF BackupTypeOK

(* The fields of an archive and of a backup under way.                     *)
LEMMA ArchiveFields ==
  /\ \A a \in Archive : /\ a.id \in Nat /\ a.database \in Database /\ a.objects \subseteq Calls
                        /\ a.removed \subseteq Calls /\ a.day \in Nat
                        /\ a.whole \in BOOLEAN /\ a.sidecar \in BOOLEAN
  /\ \A b \in Copying : b.pc = "copying" /\ b.database \in Database /\ b.objects \subseteq Calls /\ b.read \subseteq Calls
  /\ \A d \in Database : /\ d.rows \in [Calls -> {"absent", "fresh", "expired"}]
                         /\ d.keys \in [Calls -> Keys \cup {NoKey}]
                         /\ d.jobs \in Seq(Job)
<1>1. \A a \in Archive : /\ a.id \in Nat /\ a.database \in Database /\ a.objects \subseteq Calls
                         /\ a.removed \subseteq Calls /\ a.day \in Nat
                         /\ a.whole \in BOOLEAN /\ a.sidecar \in BOOLEAN
  BY DEF Archive
<1>2. \A b \in Copying : b.pc = "copying" /\ b.database \in Database /\ b.objects \subseteq Calls /\ b.read \subseteq Calls
  BY DEF Copying
<1>3. Database = [rows : [Calls -> {"absent", "fresh", "expired"}],
                  keys : [Calls -> Keys \cup {NoKey}], jobs : Seq(Job)]
  BY DEF Database, Job
<1> QED
  BY <1>1, <1>2, <1>3

(* What the tables hold is a sound database.                               *)
LEMMA TablesAreSound ==
  ASSUME StorageInv
  PROVE  /\ Tables \in Database /\ Sound(Tables, uploads)
         /\ CompletedFit => Truthful(Tables, objects)
         /\ RowsFit => \A c \in Calls : Tables.rows[c] # "absent" => c \in objects \cup lost \/ JobOf(c)
<1>1. Tables.rows = rows /\ Tables.keys = keys /\ Tables.jobs = jobs
  BY DEF Tables
<1>2. Tables \in Database
  BY DEF Tables, Database, StorageInv, StorageTypeOK
<1>3. Sound(Tables, uploads)
  BY <1>1, StorageTypes DEF Sound, StorageInv, UploadsFit, OneCallPerKey, Known
<1>4. CompletedFit => Truthful(Tables, objects)
  BY <1>1 DEF CompletedFit, Truthful
<1>5. RowsFit => \A c \in Calls : Tables.rows[c] # "absent" => c \in objects \cup lost \/ JobOf(c)
  BY <1>1 DEF RowsFit, Known, HasJob, JobOf
<1> QED
  BY <1>2, <1>3, <1>4, <1>5

(* A database stays sound while uploads end.                               *)
LEMMA StaysSound ==
  ASSUME NEW now, NEW later, \A c \in Calls : now[c] = "done" => later[c] = "done"
  PROVE  \A d \in Database : Sound(d, now) => Sound(d, later)
<1> SUFFICES ASSUME NEW d \in Database, Sound(d, now) PROVE Sound(d, later)
  OBVIOUS
<1>1. \A i \in DOMAIN d.jobs : d.jobs[i].call \in Calls
  <2>1. d.jobs \in Seq(Job)
    BY ArchiveFields
  <2>2. \A j \in Job : j.call \in Calls
    BY DEF Job
  <2> HIDE DEF Job
  <2> QED
    BY <2>1, <2>2
<1> QED
  BY <1>1 DEF Sound

(***************************************************************************)
(* Backups: the steps                                                      *)
(***************************************************************************)

(* The services rest, perhaps after a failure.                             *)
LEMMA StorageRests ==
  ASSUME StorageInv, faults' \in Nat,
         UNCHANGED <<uploads, keys, rows, objects, jobs, listed, removal, deletes>>
  PROVE  StorageInv'
<1>1. Known' = Known
  BY DEF Known
<1>2. StorageTypeOK'
  BY StorageTypes DEF StorageInv, StorageTypeOK
<1>3. UploadsFit' /\ RemovalsFit' /\ OneCallPerKey'
  BY <1>1 DEF StorageInv, UploadsFit, Uploading, KeyIsFree, RemovalsFit, OneCallPerKey
<1> QED
  BY <1>2, <1>3 DEF StorageInv

(* A step of the services, beside whatever backup there is.                *)
LEMMA ServiceStepInv ==
  ASSUME BackupInv, ServiceStep
  PROVE  BackupInv'
<1>1. /\ backup' = backup /\ archives' = archives /\ restoring' = restoring /\ today' = today
      /\ backups' = backups /\ succeeded' = succeeded /\ lost' = lost /\ overlaid' = overlaid
      /\ restoring.pc = "none"
  BY DEF ServiceStep, backupVars
<1>2. Kept
  BY <1>1, StorageKept DEF ServiceStep, BackupInv
<1>3. StorageInv' /\ BackupTypeOK'
  BY <1>1, <1>2 DEF Kept, StorageInv, BackupInv, BackupTypeOK
<1>4. \A d \in Database : Sound(d, uploads) => Sound(d, uploads')
  BY <1>2, StaysSound DEF Kept, Moves
<1>5. BackupFits'
  <2> SUFFICES ASSUME backup.pc = "copying"
               PROVE  /\ Sound(backup.database, uploads')
                      /\ overlaid \/ Truthful(backup.database, objects' \cup backup.objects)
                      /\ \A c \in Calls : backup.database.rows[c] # "absent" =>
                           c \in objects' \cup lost \/ JobOf(c)'
                      /\ \A c \in backup.read : backup.database.rows[c] # "absent" =>
                           c \in backup.objects \cup lost \/ JobOf(c)'
    BY <1>1 DEF BackupFits, BackupInv, JobOf
  <2> DEFINE d == backup.database
  <2>1. d \in Database /\ backup.read \subseteq Calls
    BY BackupTypes, ArchiveFields DEF BackupInv
  <2>2. Sound(d, uploads) /\ Sound(d, uploads')
    BY <2>1, <1>4 DEF BackupInv, BackupFits
  <2>3. ASSUME Truthful(d, objects \cup backup.objects)
        PROVE  Truthful(d, objects' \cup backup.objects)
    BY <2>2, <2>3, <1>2 DEF Truthful, Sound, Kept, Moves
  <2>4. \A c \in Calls : d.rows[c] # "absent" => c \in objects' \cup lost \/ JobOf(c)'
    BY <1>2 DEF BackupInv, BackupFits, Kept, Moves
  <2>5. \A c \in backup.read : d.rows[c] # "absent" => c \in backup.objects \cup lost \/ JobOf(c)'
    BY <1>2, <2>1 DEF BackupInv, BackupFits, Kept, Moves
  <2> QED
    BY <2>2, <2>3, <2>4, <2>5 DEF BackupInv, BackupFits
<1>6. ArchivesFit'
  BY <1>1, <1>4, BackupTypes, ArchiveFields DEF BackupInv, ArchivesFit
<1>7. RestoreFits'
  BY <1>1, <1>2 DEF BackupInv, RestoreFits, Kept
<1>8. DanglingInBackupWasBeingRemoved' /\ BackupRemains'
  BY <1>1 DEF BackupInv, DanglingInBackupWasBeingRemoved, BackupRemains
<1> QED
  BY <1>3, <1>5, <1>6, <1>7, <1>8 DEF BackupInv

(* A dump is of a sound database.                                          *)
LEMMA DumpInv ==
  ASSUME BackupInv, Dump
  PROVE  BackupInv'
<1> DEFINE b == [pc |-> "copying", database |-> Tables, objects |-> {}, read |-> {}]
<1>1. /\ backup = NoBackup /\ restoring.pc = "none" /\ backups' = backups + 1 /\ backup' = b
      /\ archives' = archives /\ restoring' = restoring /\ today' = today
      /\ succeeded' = succeeded /\ lost' = lost /\ overlaid' = overlaid
      /\ uploads' = uploads /\ keys' = keys /\ rows' = rows /\ objects' = objects
      /\ jobs' = jobs /\ listed' = listed /\ removal' = removal /\ faults' = faults
      /\ deletes' = deletes
  BY DEF Dump, Starts, storageVars, callVars
<1>2. /\ Tables \in Database /\ Sound(Tables, uploads)
      /\ overlaid \/ Truthful(Tables, objects)
      /\ \A c \in Calls : Tables.rows[c] # "absent" => c \in objects \cup lost \/ JobOf(c)
  BY <1>1, TablesAreSound DEF BackupInv, RestoreFits
<1>3. b \in Copying /\ b.pc = "copying" /\ b.database = Tables /\ b.objects = {} /\ b.read = {}
  BY <1>2 DEF Copying
<1> HIDE DEF b
<1>4. StorageInv'
  BY <1>1, StorageRests, StorageTypes DEF BackupInv
<1>5. BackupTypeOK'
  <2>1. backups' \in Nat
    BY <1>1, BackupTypes DEF BackupInv
  <2> QED
    BY <1>1, <1>3, <1>4, <2>1 DEF BackupInv, BackupTypeOK, StorageInv, Copying
<1>6. BackupFits'
  <2>1. \A a \in archives : a.id < backups'
    BY <1>1, BackupTypes, ArchiveFields DEF BackupInv, ArchivesFit
  <2>2. Sound(b.database, uploads) /\ (overlaid \/ Truthful(b.database, objects \cup b.objects))
    BY <1>2, <1>3
  <2>3. \A c \in Calls : b.database.rows[c] # "absent" => c \in objects \cup lost \/ JobOf(c)
    BY <1>2, <1>3
  <2> QED
    BY <1>1, <1>3, <2>1, <2>2, <2>3 DEF BackupFits, JobOf
<1>7. ArchivesFit'
  BY <1>1, BackupTypes, ArchiveFields DEF BackupInv, ArchivesFit
<1>8. RestoreFits'
  BY <1>1 DEF BackupInv, RestoreFits, RowsFit, CompletedFit, HasJob, Known
<1>9. DanglingInBackupWasBeingRemoved' /\ BackupRemains'
  BY <1>1 DEF BackupInv, DanglingInBackupWasBeingRemoved, BackupRemains
<1> QED
  BY <1>4, <1>5, <1>6, <1>7, <1>8, <1>9 DEF BackupInv

(* No call, job or removal changes.                                        *)
ServicesRest ==
  /\ uploads' = uploads /\ keys' = keys /\ rows' = rows /\ objects' = objects /\ jobs' = jobs
  /\ removal' = removal /\ deletes' = deletes

(* tar reads the audio of a call, or finds none.                           *)
LEMMA CopyObjectInv ==
  ASSUME BackupInv, NEW c \in Calls, CopyObject(c)
  PROVE  BackupInv'
<1> DEFINE copied == backup.objects \cup ({c} \cap objects)
           b == [backup EXCEPT !.read = @ \cup {c}, !.objects = @ \cup ({c} \cap objects)]
<1>1. /\ backup.pc = "copying" /\ backup' = b
      /\ archives' = archives /\ restoring' = restoring /\ today' = today /\ backups' = backups
      /\ succeeded' = succeeded /\ lost' = lost /\ overlaid' = overlaid
      /\ ServicesRest /\ listed' = listed /\ faults' = faults
  BY DEF CopyObject, storageVars, callVars, ServicesRest
<1>2. backup \in Copying
  BY <1>1, BackupTypes DEF BackupInv
<1>3. /\ b \in Copying /\ b.pc = "copying" /\ b.database = backup.database
      /\ b.objects = copied /\ b.read = backup.read \cup {c}
  BY <1>1, <1>2 DEF Copying
<1> HIDE DEF b
<1>4. StorageInv'
  BY <1>1, StorageRests, StorageTypes DEF BackupInv, ServicesRest
<1>5. BackupTypeOK'
  BY <1>1, <1>3, <1>4 DEF BackupInv, BackupTypeOK, StorageInv, Copying
<1>6. BackupFits'
  <2> DEFINE d == backup.database
  <2>1. /\ Sound(d, uploads) /\ \A a \in archives : a.id < backups
        /\ overlaid \/ Truthful(d, objects \cup backup.objects)
        /\ \A e \in Calls : d.rows[e] # "absent" => e \in objects \cup lost \/ JobOf(e)
        /\ \A e \in backup.read : d.rows[e] # "absent" => e \in backup.objects \cup lost \/ JobOf(e)
    BY <1>1 DEF BackupInv, BackupFits
  <2>2. objects \cup copied = objects \cup backup.objects
    OBVIOUS
  <2>3. \A e \in b.read : d.rows[e] # "absent" => e \in b.objects \cup lost \/ JobOf(e)
    BY <1>3, <2>1
  <2> HIDE DEF copied
  <2> QED
    BY <1>1, <1>3, <2>1, <2>2, <2>3 DEF BackupFits, JobOf, ServicesRest
<1>7. ArchivesFit' /\ RestoreFits'
  BY <1>1 DEF BackupInv, ArchivesFit, RestoreFits, RowsFit, CompletedFit, HasJob, Known, Tables, ServicesRest, NoBackup
<1>8. DanglingInBackupWasBeingRemoved' /\ BackupRemains'
  BY <1>1 DEF BackupInv, DanglingInBackupWasBeingRemoved, BackupRemains
<1> QED
  BY <1>4, <1>5, <1>6, <1>7, <1>8 DEF BackupInv

(* The archive is written with what was read.                              *)
LEMMA WriteArchiveInv ==
  ASSUME BackupInv, WriteArchive
  PROVE  BackupInv'
<1>1. PICK whole \in BOOLEAN :
        /\ faults' \in Nat
        /\ archives' = archives \cup
             {[id |-> backups, database |-> backup.database, objects |-> backup.objects,
               removed |-> {jobs[i].call : i \in DOMAIN jobs} \cup lost,
               day |-> today, whole |-> whole, sidecar |-> FALSE]}
  BY StorageTypes DEF WriteArchive, Fault, BackupInv
<1> DEFINE gone == {jobs[i].call : i \in DOMAIN jobs} \cup lost
           n == [id |-> backups, database |-> backup.database, objects |-> backup.objects,
                 removed |-> gone, day |-> today, whole |-> whole, sidecar |-> FALSE]
           b == [pc |-> "written", id |-> backups]
<1>2. /\ backup.pc = "copying" /\ backup.read = Calls /\ backup' = b
      /\ restoring' = restoring /\ today' = today /\ backups' = backups
      /\ succeeded' = succeeded /\ lost' = lost /\ overlaid' = overlaid
      /\ ServicesRest /\ listed' = listed
  BY DEF WriteArchive, callVars, ServicesRest
<1>3. /\ backup \in Copying /\ backups \in Nat /\ today \in Nat /\ lost \subseteq Calls
      /\ backup.database \in Database /\ backup.objects \subseteq Calls
  BY <1>2, BackupTypes, ArchiveFields DEF BackupInv
<1>4. gone \subseteq Calls /\ \A e \in Calls : JobOf(e) \/ e \in lost => e \in gone
  BY <1>3, StorageTypes DEF BackupInv, JobOf
<1> HIDE DEF gone
<1>5. /\ n \in Archive /\ n.id = backups /\ n.database = backup.database
      /\ n.objects = backup.objects /\ n.removed = gone /\ n.day = today /\ n.sidecar = FALSE
  BY <1>3, <1>4 DEF Archive
<1>6. archives' = archives \cup {n}
  BY <1>1 DEF gone
<1>7. b \in [pc : {"written"}, id : Nat] /\ b.pc = "written" /\ b.id = backups
  BY <1>3
<1> HIDE DEF n, b
<1>8. StorageInv'
  BY <1>1, <1>2, StorageRests DEF BackupInv, ServicesRest
<1>9. BackupTypeOK'
  <2>1. archives' \subseteq Archive
    BY <1>5, <1>6, BackupTypes DEF BackupInv
  <2> QED
    BY <1>2, <1>7, <1>8, <2>1 DEF BackupInv, BackupTypeOK, StorageInv
<1>10. /\ Sound(n.database, uploads)
       /\ overlaid \/ Truthful(n.database, n.objects)
       /\ \A e \in Calls : n.database.rows[e] # "absent" => e \in n.objects \cup n.removed
       /\ \A a \in archives : a.id < backups
  <2>1. Truthful(backup.database, objects \cup backup.objects) =>
          Truthful(backup.database, backup.objects)
    BY DEF Truthful
  <2> QED
    BY <1>2, <1>4, <1>5, <2>1 DEF BackupInv, BackupFits
<1>11. BackupFits'
  BY <1>2, <1>5, <1>6, <1>7, <1>10, BackupTypes, ArchiveFields DEF BackupInv, BackupFits
<1>12. ArchivesFit'
  <2>1. \A a \in archives : a.id \in Nat
    BY BackupTypes, ArchiveFields DEF BackupInv
  <2> QED
    BY <1>2, <1>3, <1>5, <1>6, <1>10, <2>1 DEF BackupInv, ArchivesFit, ServicesRest
<1>13. RestoreFits'
  BY <1>2, <1>6 DEF BackupInv, RestoreFits, RowsFit, CompletedFit, HasJob, Known, Tables, ServicesRest, NoBackup
<1>14. DanglingInBackupWasBeingRemoved' /\ BackupRemains'
  BY <1>2, <1>5, <1>6, <1>10 DEF BackupInv, DanglingInBackupWasBeingRemoved, BackupRemains
<1> QED
  BY <1>8, <1>9, <1>11, <1>12, <1>13, <1>14 DEF BackupInv

(* Sealing changes nothing but the sidecar, of the archive just verified.  *)
LEMMA SealedArchives ==
  ASSUME BackupTypeOK
  PROVE  /\ Sealed \subseteq Archive
         /\ \A s \in Sealed : \E a \in archives :
              /\ s.id = a.id /\ s.database = a.database /\ s.objects = a.objects
              /\ s.removed = a.removed /\ s.day = a.day /\ s.whole = a.whole
              /\ s.sidecar => a.sidecar \/ a.id = backup.id
              /\ s = IF a.id = backup.id THEN [a EXCEPT !.sidecar = TRUE] ELSE a
         /\ \A a \in archives : a.id = backup.id =>
              \E s \in Sealed : s.id = a.id /\ s.sidecar /\ s.whole = a.whole
<1> DEFINE seal(a) == [a EXCEPT !.sidecar = TRUE]
<1>1. \A a \in archives :
        /\ seal(a) \in Archive /\ seal(a).id = a.id /\ seal(a).database = a.database
        /\ seal(a).objects = a.objects /\ seal(a).removed = a.removed /\ seal(a).day = a.day
        /\ seal(a).whole = a.whole /\ seal(a).sidecar
  BY BackupTypes DEF Archive
<1>2. Sealed = {IF a.id = backup.id THEN seal(a) ELSE a : a \in archives}
  BY DEF Sealed
<1>3. archives \subseteq Archive
  BY BackupTypes
<1>4. \A s \in Sealed : \E a \in archives : s = IF a.id = backup.id THEN seal(a) ELSE a
  BY <1>2
<1>5. \A a \in archives : a.id = backup.id => seal(a) \in Sealed
  BY <1>2
<1> HIDE DEF seal
<1>7. Sealed \subseteq Archive
  BY <1>1, <1>3, <1>4
<1>8. ASSUME NEW s \in Sealed
      PROVE  \E a \in archives :
               /\ s.id = a.id /\ s.database = a.database /\ s.objects = a.objects
               /\ s.removed = a.removed /\ s.day = a.day /\ s.whole = a.whole
               /\ s.sidecar => a.sidecar \/ a.id = backup.id
               /\ s = IF a.id = backup.id THEN [a EXCEPT !.sidecar = TRUE] ELSE a
  <2>1. PICK a \in archives : s = IF a.id = backup.id THEN seal(a) ELSE a
    BY <1>4
  <2>2. s = IF a.id = backup.id THEN [a EXCEPT !.sidecar = TRUE] ELSE a
    BY <2>1 DEF seal
  <2>3. CASE a.id = backup.id
    BY <1>1, <2>1, <2>2, <2>3
  <2>4. CASE a.id # backup.id
    BY <2>1, <2>2, <2>4
  <2> QED
    BY <2>3, <2>4
<1> QED
  BY <1>1, <1>5, <1>7, <1>8

(* The verified archive is sealed; one written today is not expired.       *)
LEMMA FinishBackupInv ==
  ASSUME BackupInv, FinishBackup
  PROVE  BackupInv'
<1>1. /\ backup.pc = "written" /\ backup' = NoBackup /\ succeeded' = TRUE
      /\ restoring' = restoring /\ today' = today /\ backups' = backups
      /\ lost' = lost /\ overlaid' = overlaid
      /\ ServicesRest /\ listed' = listed /\ faults' = faults
  BY DEF FinishBackup, storageVars, callVars, ServicesRest
<1>2. PICK new \in archives : new.id = backup.id /\ new.whole
  BY DEF FinishBackup
<1>3. new.day = today
  BY <1>1, <1>2 DEF BackupInv, BackupFits
<1>4. /\ archives' \subseteq Sealed
      /\ \A s \in Sealed : s.id = new.id => s \in archives'
  <2>1. CASE archives' = Sealed
    BY <2>1
  <2>2. CASE \E S \in Pruned : archives' = {a \in Sealed : \E b \in S : b.id = a.id}
    <3>1. PICK S \in Pruned : archives' = {a \in Sealed : \E b \in S : b.id = a.id}
      BY <2>2
    <3>2. S \subseteq archives /\ new \in S
      <4>1. today - new.day < RetentionDays
        BY <1>3, RetentionAssumption, BackupTypes DEF BackupInv
      <4> QED
        BY <1>2, <3>1, <4>1 DEF Pruned
    <3> QED
      BY <3>1, <3>2
  <2> QED
    BY <2>1, <2>2 DEF FinishBackup
<1>5. StorageInv'
  BY <1>1, StorageRests, StorageTypes DEF BackupInv, ServicesRest
<1>6. archives' \subseteq Archive
  BY <1>4, SealedArchives DEF BackupInv
<1>7. BackupTypeOK'
  BY <1>1, <1>5, <1>6 DEF BackupInv, BackupTypeOK, StorageInv
<1>8. BackupFits'
  BY <1>1 DEF BackupFits, NoBackup
<1>9. ASSUME NEW s \in archives'
      PROVE  \E a \in archives :
               /\ s.id = a.id /\ s.database = a.database /\ s.objects = a.objects
               /\ s.removed = a.removed /\ s.day = a.day /\ s.whole = a.whole
               /\ s.sidecar => a.sidecar \/ a.id = backup.id
               /\ s = IF a.id = backup.id THEN [a EXCEPT !.sidecar = TRUE] ELSE a
  BY <1>4, <1>9, SealedArchives DEF BackupInv
<1>10. ArchivesFit'
  <2>1. \A s \in archives' : /\ Sound(s.database, uploads)
                             /\ overlaid \/ Truthful(s.database, s.objects)
                             /\ s.id <= backups
    BY <1>9 DEF BackupInv, ArchivesFit
  <2>2. ASSUME NEW s \in archives', NEW u \in archives', s.id = u.id PROVE s = u
    <3>1. PICK a \in archives :
            s.id = a.id /\ s = IF a.id = backup.id THEN [a EXCEPT !.sidecar = TRUE] ELSE a
      BY <1>9
    <3>2. PICK e \in archives :
            u.id = e.id /\ u = IF e.id = backup.id THEN [e EXCEPT !.sidecar = TRUE] ELSE e
      BY <1>9
    <3>3. a = e
      BY <2>2, <3>1, <3>2 DEF BackupInv, ArchivesFit
    <3> QED
      BY <3>1, <3>2, <3>3
  <2> QED
    BY <1>1, <2>1, <2>2 DEF ArchivesFit, ServicesRest
<1>11. RestoreFits'
  <2>1. restoring.pc = "none"
    BY <1>1 DEF BackupInv, RestoreFits, NoBackup
  <2> QED
    BY <1>1, <2>1 DEF BackupInv, RestoreFits, RowsFit, CompletedFit, HasJob, Known, ServicesRest
<1>12. DanglingInBackupWasBeingRemoved'
  BY <1>9 DEF BackupInv, DanglingInBackupWasBeingRemoved
<1>13. BackupRemains'
  <2>1. \E s \in archives' : s.whole /\ s.sidecar
    BY <1>2, <1>4, SealedArchives DEF BackupInv
  <2>2. ASSUME NEW s \in archives', s.sidecar PROVE s.whole
    BY <1>2, <1>9, <2>2 DEF BackupInv, BackupRemains, ArchivesFit
  <2> QED
    BY <2>1, <2>2 DEF BackupRemains
<1> QED
  BY <1>5, <1>7, <1>8, <1>10, <1>11, <1>12, <1>13 DEF BackupInv

(* A backup fails; what it has written stays.                              *)
LEMMA BackupFailsInv ==
  ASSUME BackupInv, BackupFails
  PROVE  BackupInv'
<1>1. /\ backup # NoBackup /\ backup' = NoBackup /\ faults' \in Nat
      /\ archives' = archives /\ restoring' = restoring /\ today' = today /\ backups' = backups
      /\ succeeded' = succeeded /\ lost' = lost /\ overlaid' = overlaid
      /\ ServicesRest /\ listed' = listed
  BY StorageTypes DEF BackupFails, Fault, callVars, ServicesRest, BackupInv
<1>2. StorageInv'
  BY <1>1, StorageRests DEF BackupInv, ServicesRest
<1>3. BackupTypeOK'
  BY <1>1, <1>2 DEF BackupInv, BackupTypeOK, StorageInv
<1>4. BackupFits' /\ ArchivesFit'
  BY <1>1 DEF BackupInv, BackupFits, ArchivesFit, NoBackup, ServicesRest
<1>5. RestoreFits'
  BY <1>1 DEF BackupInv, RestoreFits, RowsFit, CompletedFit, HasJob, Known, ServicesRest
<1>6. DanglingInBackupWasBeingRemoved' /\ BackupRemains'
  BY <1>1 DEF BackupInv, DanglingInBackupWasBeingRemoved, BackupRemains
<1> QED
  BY <1>2, <1>3, <1>4, <1>5, <1>6 DEF BackupInv

(* A day passes, not between writing an archive and verifying it.          *)
LEMMA NextDayInv ==
  ASSUME BackupInv, NextDay
  PROVE  BackupInv'
<1>1. /\ backup.pc # "written" /\ today' = today + 1 /\ backup' = backup
      /\ archives' = archives /\ restoring' = restoring /\ backups' = backups
      /\ succeeded' = succeeded /\ lost' = lost /\ overlaid' = overlaid
      /\ ServicesRest /\ listed' = listed /\ faults' = faults
  BY DEF NextDay, storageVars, callVars, ServicesRest
<1>2. StorageInv'
  BY <1>1, StorageRests, StorageTypes DEF BackupInv, ServicesRest
<1>3. BackupTypeOK'
  BY <1>1, <1>2 DEF BackupInv, BackupTypeOK, StorageInv
<1>4. BackupFits' /\ ArchivesFit'
  BY <1>1 DEF BackupInv, BackupFits, ArchivesFit, JobOf, ServicesRest
<1>5. RestoreFits'
  BY <1>1 DEF BackupInv, RestoreFits, RowsFit, CompletedFit, HasJob, Known, Tables, ServicesRest
<1>6. DanglingInBackupWasBeingRemoved' /\ BackupRemains'
  BY <1>1 DEF BackupInv, DanglingInBackupWasBeingRemoved, BackupRemains
<1> QED
  BY <1>2, <1>3, <1>4, <1>5, <1>6 DEF BackupInv

(* The services are stopped with no upload and no removal under way.       *)
LEMMA StopServicesInv ==
  ASSUME BackupInv, StopServices
  PROVE  BackupInv'
<1>1. /\ backup = NoBackup /\ restoring' = [pc |-> "stopped"] /\ listed' = {}
      /\ \A c \in Calls : uploads[c] \in {"none", "done"}
      /\ \A r \in Remover : removal[r] = Rest
      /\ backup' = backup /\ archives' = archives /\ today' = today /\ backups' = backups
      /\ succeeded' = succeeded /\ lost' = lost /\ overlaid' = overlaid
      /\ ServicesRest /\ faults' = faults
  BY DEF StopServices, callVars, ServicesRest
<1>2. Known' = Known
  BY <1>1 DEF Known, ServicesRest
<1>3. StorageInv'
  <2>1. StorageTypeOK'
    BY <1>1, StorageTypes DEF BackupInv, StorageInv, StorageTypeOK, ServicesRest
  <2>2. UploadsFit' /\ RemovalsFit' /\ OneCallPerKey'
    BY <1>1, <1>2 DEF BackupInv, StorageInv, UploadsFit, Uploading, KeyIsFree, RemovalsFit,
                      OneCallPerKey, ServicesRest
  <2> QED
    BY <2>1, <2>2 DEF StorageInv
<1>4. BackupTypeOK'
  BY <1>1, <1>3 DEF BackupInv, BackupTypeOK, StorageInv
<1>5. BackupFits' /\ ArchivesFit'
  BY <1>1 DEF BackupInv, BackupFits, ArchivesFit, NoBackup, ServicesRest
<1>6. RestoreFits'
  BY <1>1 DEF RestoreFits, ServicesRest
<1>7. DanglingInBackupWasBeingRemoved' /\ BackupRemains'
  BY <1>1 DEF BackupInv, DanglingInBackupWasBeingRemoved, BackupRemains
<1> QED
  BY <1>3, <1>4, <1>5, <1>6, <1>7 DEF BackupInv

(* The tables are replaced by sound ones.                                  *)
LEMMA RestoreDatabaseInv ==
  ASSUME BackupInv, RestoreDatabase
  PROVE  BackupInv'
<1>1. PICK a \in archives :
        /\ rows' = a.database.rows /\ keys' = a.database.keys /\ jobs' = a.database.jobs
        /\ restoring' = [pc |-> "database", from |-> a]
  BY DEF RestoreDatabase
<1> DEFINE d == a.database
<1>2. /\ restoring.pc = "stopped"
      /\ backup' = backup /\ archives' = archives /\ today' = today /\ backups' = backups
      /\ succeeded' = succeeded /\ lost' = lost /\ overlaid' = overlaid
      /\ uploads' = uploads /\ objects' = objects /\ listed' = listed /\ removal' = removal
      /\ faults' = faults /\ deletes' = deletes
  BY DEF RestoreDatabase
<1>3. /\ backup = NoBackup /\ listed = {} /\ \A r \in Remover : removal[r] = Rest
      /\ \A c \in Calls : uploads[c] \in {"none", "done"}
  BY <1>2 DEF BackupInv, RestoreFits
<1>4. a \in Archive /\ d \in Database /\ Sound(d, uploads)
  BY BackupTypes, ArchiveFields DEF BackupInv, ArchivesFit
<1>5. /\ d.rows \in [Calls -> {"absent", "fresh", "expired"}]
      /\ d.keys \in [Calls -> Keys \cup {NoKey}] /\ d.jobs \in Seq(Job)
  BY <1>4, ArchiveFields
<1>6. StorageInv'
  <2>1. StorageTypeOK'
    BY <1>1, <1>2, <1>5, StorageTypes DEF BackupInv, StorageTypeOK, Job
  <2>2. UploadsFit'
    BY <1>1, <1>2, <1>3, <1>4 DEF UploadsFit, Uploading, KeyIsFree, Known, Sound
  <2>3. RemovalsFit'
    BY <1>2, <1>3 DEF RemovalsFit, Rest
  <2>4. OneCallPerKey'
    BY <1>1, <1>4 DEF OneCallPerKey, Known, Sound
  <2> QED
    BY <2>1, <2>2, <2>3, <2>4 DEF StorageInv
<1>7. restoring' \in [pc : {"database"}, from : Archive]
  BY <1>1, <1>4
<1>8. BackupTypeOK'
  BY <1>2, <1>6, <1>7 DEF BackupInv, BackupTypeOK, StorageInv
<1>9. BackupFits' /\ ArchivesFit'
  BY <1>2, <1>3 DEF BackupInv, BackupFits, ArchivesFit, NoBackup
<1>10. RestoreFits'
  <2>1. d = [rows |-> d.rows, keys |-> d.keys, jobs |-> d.jobs]
    BY <1>4 DEF Database
  <2>2. Tables' = d
    BY <1>1, <2>1 DEF Tables
  <2> QED
    BY <1>1, <1>2, <1>3, <2>2 DEF RestoreFits
<1>11. DanglingInBackupWasBeingRemoved' /\ BackupRemains'
  BY <1>2 DEF BackupInv, DanglingInBackupWasBeingRemoved, BackupRemains
<1> QED
  BY <1>6, <1>8, <1>9, <1>10, <1>11 DEF BackupInv

(* The audio of the archive is laid down; the services start.              *)
LEMMA RestoreObjectsInv ==
  ASSUME BackupInv, RestoreObjects
  PROVE  BackupInv'
<1> DEFINE a == restoring.from
<1>1. /\ restoring.pc = "database" /\ lost' = Known \ objects' /\ restoring' = [pc |-> "none"]
      /\ \/ objects' = a.objects /\ overlaid' = overlaid
         \/ objects' = objects \cup a.objects /\ overlaid' = TRUE
      /\ backup' = backup /\ archives' = archives /\ today' = today /\ backups' = backups
      /\ succeeded' = succeeded
      /\ uploads' = uploads /\ keys' = keys /\ rows' = rows /\ jobs' = jobs
      /\ listed' = listed /\ removal' = removal /\ faults' = faults /\ deletes' = deletes
  BY DEF RestoreObjects
<1>2. /\ backup = NoBackup /\ listed = {} /\ \A r \in Remover : removal[r] = Rest
      /\ \A c \in Calls : uploads[c] \in {"none", "done"}
      /\ a \in archives /\ Tables = a.database
  BY <1>1 DEF BackupInv, RestoreFits
<1>3. a \in Archive /\ objects' \subseteq Calls
  BY <1>1, <1>2, BackupTypes, ArchiveFields, StorageTypes DEF BackupInv
<1>4. overlaid' \/ Truthful(Tables, objects')
  BY <1>1, <1>2 DEF BackupInv, ArchivesFit
<1> HIDE DEF a
<1>5. Known' = Known /\ Known \subseteq Calls
  BY <1>1 DEF Known
<1>6. StorageInv'
  <2>1. StorageTypeOK'
    BY <1>1, <1>3, StorageTypes DEF BackupInv, StorageInv, StorageTypeOK
  <2>2. UploadsFit' /\ RemovalsFit' /\ OneCallPerKey'
    BY <1>1, <1>2, <1>5 DEF BackupInv, StorageInv, UploadsFit, Uploading, RemovalsFit,
                            OneCallPerKey, Rest
  <2> QED
    BY <2>1, <2>2 DEF StorageInv
<1>7. BackupTypeOK'
  BY <1>1, <1>5, <1>6 DEF BackupInv, BackupTypeOK, StorageInv
<1>8. BackupFits'
  BY <1>1, <1>2 DEF BackupFits, NoBackup
<1>9. ArchivesFit'
  BY <1>1, BackupTypes DEF BackupInv, ArchivesFit
<1>10. RestoreFits'
  <2>1. RowsFit'
    BY <1>1, <1>5 DEF RowsFit
  <2>2. Truthful(Tables, objects') => CompletedFit'
    BY <1>1 DEF Truthful, CompletedFit, Tables
  <2> QED
    BY <1>1, <1>4, <2>1, <2>2 DEF RestoreFits
<1>11. DanglingInBackupWasBeingRemoved' /\ BackupRemains'
  BY <1>1 DEF BackupInv, DanglingInBackupWasBeingRemoved, BackupRemains
<1> QED
  BY <1>6, <1>7, <1>8, <1>9, <1>10, <1>11 DEF BackupInv

(* A restore fails half way and is begun again.                            *)
LEMMA RestoreFailsInv ==
  ASSUME BackupInv, RestoreFails
  PROVE  BackupInv'
<1>1. /\ restoring.pc = "database" /\ restoring' = [pc |-> "stopped"] /\ faults' \in Nat
      /\ backup' = backup /\ archives' = archives /\ today' = today /\ backups' = backups
      /\ succeeded' = succeeded /\ lost' = lost /\ overlaid' = overlaid
      /\ ServicesRest /\ listed' = listed
  BY StorageTypes DEF RestoreFails, Fault, callVars, ServicesRest, BackupInv
<1>2. StorageInv'
  BY <1>1, StorageRests DEF BackupInv, ServicesRest
<1>3. BackupTypeOK'
  BY <1>1, <1>2 DEF BackupInv, BackupTypeOK, StorageInv
<1>4. BackupFits' /\ ArchivesFit'
  BY <1>1 DEF BackupInv, BackupFits, ArchivesFit, RestoreFits, NoBackup, ServicesRest
<1>5. RestoreFits'
  BY <1>1 DEF BackupInv, RestoreFits, ServicesRest
<1>6. DanglingInBackupWasBeingRemoved' /\ BackupRemains'
  BY <1>1 DEF BackupInv, DanglingInBackupWasBeingRemoved, BackupRemains
<1> QED
  BY <1>2, <1>3, <1>4, <1>5, <1>6 DEF BackupInv

(***************************************************************************)
(* The theorems                                                            *)
(***************************************************************************)

(* Before any call there is nothing to agree or to disagree.               *)
LEMMA BackupInitInv == BackupInit => BackupInv
<1> SUFFICES ASSUME BackupInit PROVE BackupInv
  OBVIOUS
<1> USE DEF BackupInit, StorageInit
<1>1. Known = {} /\ jobs = <<>> /\ DOMAIN jobs = {}
  BY DEF Known
<1>2. StorageTypeOK
  BY DEF StorageTypeOK, Rest, Removal
<1>3. UploadsFit /\ RemovalsFit /\ OneCallPerKey
  BY <1>1 DEF UploadsFit, Uploading, RemovalsFit, Rest, OneCallPerKey
<1>4. BackupTypeOK
  BY <1>2 DEF BackupTypeOK, NoBackup
<1>5. BackupFits /\ ArchivesFit /\ DanglingInBackupWasBeingRemoved /\ BackupRemains
  BY DEF BackupFits, ArchivesFit, NoBackup, DanglingInBackupWasBeingRemoved, BackupRemains
<1>6. RestoreFits
  BY <1>1 DEF RestoreFits, RowsFit, CompletedFit
<1> QED
  BY <1>2, <1>3, <1>4, <1>5, <1>6 DEF BackupInv, StorageInv

(* No step of the services, of a backup or of a restore breaks it.         *)
LEMMA BackupStepInv == BackupInv /\ [BackupNext]_allStorageVars => BackupInv'
<1> SUFFICES ASSUME BackupInv, [BackupNext]_allStorageVars PROVE BackupInv'
  OBVIOUS
<1>1. CASE BackupNext
  BY <1>1, ServiceStepInv, DumpInv, CopyObjectInv, WriteArchiveInv, FinishBackupInv,
     BackupFailsInv, NextDayInv, StopServicesInv, RestoreDatabaseInv, RestoreObjectsInv,
     RestoreFailsInv
  DEF BackupNext
<1>2. CASE UNCHANGED allStorageVars
  <2>1. /\ ServicesRest /\ listed' = listed /\ faults' = faults
        /\ backup' = backup /\ archives' = archives /\ restoring' = restoring
        /\ today' = today /\ backups' = backups /\ succeeded' = succeeded
        /\ lost' = lost /\ overlaid' = overlaid
    BY <1>2 DEF allStorageVars, storageVars, callVars, backupVars, ServicesRest
  <2>2. StorageInv'
    BY <2>1, StorageRests, StorageTypes DEF BackupInv, ServicesRest
  <2>3. BackupTypeOK'
    BY <2>1, <2>2 DEF BackupInv, BackupTypeOK, StorageInv
  <2>4. BackupFits' /\ ArchivesFit'
    BY <2>1 DEF BackupInv, BackupFits, ArchivesFit, JobOf, ServicesRest
  <2>5. RestoreFits'
    BY <2>1 DEF BackupInv, RestoreFits, RowsFit, CompletedFit, HasJob, Known, Tables, ServicesRest
  <2>6. DanglingInBackupWasBeingRemoved' /\ BackupRemains'
    BY <2>1 DEF BackupInv, DanglingInBackupWasBeingRemoved, BackupRemains
  <2> QED
    BY <2>2, <2>3, <2>4, <2>5, <2>6 DEF BackupInv
<1> QED
  BY <1>1, <1>2

(* A call is created once for an idempotency key, beside restores too      *)
(* (create_call, uq_call_external).                                        *)
THEOREM OneCallPerKeyHolds == BackupSpec => []OneCallPerKey
<1>1. BackupInv => OneCallPerKey
  BY DEF BackupInv, StorageInv
<1> QED
  BY <1>1, BackupInitInv, BackupStepInv, PTL DEF BackupSpec

(* Audio that is gone has a job that says why, or was not in the archive,  *)
(* whatever removals, failures and restores there were                     *)
(* (delete_call_end_to_end, _run_retention).                               *)
THEOREM RowWithoutObjectHasJobHolds == BackupSpec => []RowWithoutObjectHasJob
<1>1. BackupInv => RowWithoutObjectHasJob
  BY DEF BackupInv, RestoreFits, RowsFit, RowWithoutObjectHasJob
<1> QED
  BY <1>1, BackupInitInv, BackupStepInv, PTL DEF BackupSpec

(* A completed job means that row and audio are gone, unless objects were  *)
(* restored over others (delete_call_end_to_end, _run_retention).          *)
THEOREM CompletedJobMeansGoneHolds == BackupSpec => []CompletedJobMeansGone
<1>1. BackupInv => CompletedJobMeansGone
  BY DEF BackupInv, RestoreFits, CompletedFit, CompletedJobMeansGone
<1> QED
  BY <1>1, BackupInitInv, BackupStepInv, PTL DEF BackupSpec

(* A call that an archive holds without audio was being removed while the  *)
(* backup ran, or had been restored so (add_compose_artifacts).            *)
THEOREM DanglingHolds == BackupSpec => []DanglingInBackupWasBeingRemoved
<1>1. BackupInv => DanglingInBackupWasBeingRemoved
  BY DEF BackupInv
<1> QED
  BY <1>1, BackupInitInv, BackupStepInv, PTL DEF BackupSpec

(* Once a backup has succeeded a good archive remains, however later ones  *)
(* fail and old ones expire (create_backup, prune_expired).                *)
THEOREM BackupRemainsHolds == BackupSpec => []BackupRemains
<1>1. BackupInv => BackupRemains
  BY DEF BackupInv
<1> QED
  BY <1>1, BackupInitInv, BackupStepInv, PTL DEF BackupSpec
=============================================================================
