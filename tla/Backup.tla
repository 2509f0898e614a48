--------------------------------- MODULE Backup ---------------------------------
(***************************************************************************)
(* scripts/backup.py and scripts/restore.py beside the running system of   *)
(* CallStorage: a backup dumps the database first, then archives the       *)
(* objects one by one while calls come and go, packs both, reads the       *)
(* archive back and only then writes its checksum; a restore replaces the  *)
(* database and lays the objects over the storage.                         *)
(***************************************************************************)
EXTENDS CallStorage

CONSTANTS
  MaxBackups,    \* how many backups are started
  MaxDays,       \* how many days pass
  RetentionDays  \* --retention-days

ASSUME RetentionAssumption == RetentionDays \in Nat \ {0}
ASSUME BackupsAssumption == MaxBackups \in Nat /\ MaxDays \in Nat

VARIABLES
  backup,     \* the backup under way
  archives,   \* the archives in the output directory
  restoring,  \* the restore under way
  today,      \* the day
  backups,    \* how many backups were started
  succeeded,  \* whether a backup ever succeeded
  lost,       \* calls restored from an archive that has no audio of them
  overlaid    \* whether objects were ever restored over others

backupVars == <<backup, archives, restoring, today, backups, succeeded, lost, overlaid>>
allStorageVars == <<storageVars, backupVars>>

Database == [rows : [Calls -> {"absent", "fresh", "expired"}],
             keys : [Calls -> Keys \cup {NoKey}],
             jobs : Seq([call : Calls, status : {"running", "completed", "failed"}])]
NoBackup == [pc |-> "idle"]

(* removed is not in the archive: the calls that were being removed when   *)
(* its objects had been read, or had been restored without audio.          *)
Archive == [id : Nat, database : Database, objects : SUBSET Calls, removed : SUBSET Calls,
            day : Nat, whole : BOOLEAN, sidecar : BOOLEAN]

BackupTypeOK ==
  /\ StorageTypeOK
  /\ backup \in {NoBackup}
       \cup [pc : {"copying"}, database : Database, objects : SUBSET Calls, read : SUBSET Calls]
       \cup [pc : {"written"}, id : Nat]
  /\ archives \subseteq Archive
  /\ restoring \in [pc : {"none", "stopped"}] \cup [pc : {"database"}, from : Archive]
  /\ today \in Nat /\ backups \in Nat
  /\ succeeded \in BOOLEAN /\ lost \subseteq Calls /\ overlaid \in BOOLEAN

BackupInit ==
  /\ StorageInit
  /\ backup = NoBackup /\ archives = {} /\ restoring = [pc |-> "none"]
  /\ today = 0 /\ backups = 0
  /\ succeeded = FALSE /\ lost = {} /\ overlaid = FALSE

Tables == [rows |-> rows, keys |-> keys, jobs |-> jobs]

(***************************************************************************)
(* Backup                                                                  *)
(***************************************************************************)

(* prune_expired deletes by age, and at the age of the retention itself    *)
(* the hour decides.                                                       *)
Pruned ==
  {S \in SUBSET archives : \A a \in archives :
     /\ today - a.day > RetentionDays => a \notin S
     /\ today - a.day < RetentionDays => a \in S}

Starts == backup = NoBackup /\ restoring.pc = "none" /\ backups < MaxBackups

(* Mutant: expired archives are deleted before the backup, to make room.   *)
PruneThenDump ==
  /\ Starts /\ backups' = backups + 1
  /\ backup' = [pc |-> "copying", database |-> Tables, objects |-> {}, read |-> {}]
  /\ archives' \in Pruned
  /\ UNCHANGED <<storageVars, restoring, today, succeeded, lost, overlaid>>

(* pg_dump, one snapshot of the database.                                  *)
Dump ==
  /\ Starts /\ backups' = backups + 1
  /\ backup' = [pc |-> "copying", database |-> Tables, objects |-> {}, read |-> {}]
  /\ UNCHANGED <<storageVars, archives, restoring, today, succeeded, lost, overlaid>>

(* Mutant: tar reads the objects before pg_dump.                           *)
CopyThenDump(c) ==
  /\ backup.pc = "copying" /\ c \notin backup.read
  /\ backup' = [backup EXCEPT !.read = @ \cup {c}, !.objects = @ \cup ({c} \cap objects),
                              !.database = Tables]
  /\ UNCHANGED <<storageVars, archives, restoring, today, backups, succeeded, lost, overlaid>>

(* tar comes to the directory of a call.                                   *)
CopyObject(c) ==
  /\ backup.pc = "copying" /\ c \notin backup.read
  /\ backup' = [backup EXCEPT !.read = @ \cup {c}, !.objects = @ \cup ({c} \cap objects)]
  /\ UNCHANGED <<storageVars, archives, restoring, today, backups, succeeded, lost, overlaid>>

(* The archive is written; the disk may spoil or truncate it.              *)
WriteArchive ==
  /\ backup.pc = "copying" /\ backup.read = Calls
  /\ \E whole \in BOOLEAN :
       /\ IF whole THEN UNCHANGED faults ELSE Fault
       /\ archives' = archives \cup
            {[id |-> backups, database |-> backup.database, objects |-> backup.objects,
              removed |-> {jobs[i].call : i \in DOMAIN jobs} \cup lost,
              day |-> today, whole |-> whole, sidecar |-> FALSE]}
  /\ backup' = [pc |-> "written", id |-> backups]
  /\ UNCHANGED <<callVars, jobs, listed, removal, deletes>>
  /\ UNCHANGED <<restoring, today, backups, succeeded, lost, overlaid>>

Sealed == {IF a.id = backup.id THEN [a EXCEPT !.sidecar = TRUE] ELSE a : a \in archives}

(* verify_archive accepts it, the sidecar is written, and with             *)
(* --prune-expired the expired archives go.                                *)
FinishBackup ==
  /\ backup.pc = "written"
  /\ \E a \in archives : a.id = backup.id /\ a.whole
  /\ \/ archives' = Sealed
     \/ \E S \in Pruned : archives' = {a \in Sealed : \E b \in S : b.id = a.id}
  /\ succeeded' = TRUE
  /\ backup' = NoBackup
  /\ UNCHANGED <<storageVars, restoring, today, backups, lost, overlaid>>

(* A step of create_backup fails, or verify_archive refuses the archive.   *)
BackupFails ==
  /\ backup # NoBackup
  /\ IF \E a \in archives : backup.pc = "written" /\ a.id = backup.id /\ ~a.whole
     THEN UNCHANGED faults ELSE Fault
  /\ backup' = NoBackup
  /\ UNCHANGED <<callVars, jobs, listed, removal, deletes>>
  /\ UNCHANGED <<archives, restoring, today, backups, succeeded, lost, overlaid>>

(* Verification does not take days.                                        *)
NextDay ==
  /\ backup.pc # "written"
  /\ today < MaxDays /\ today' = today + 1
  /\ UNCHANGED <<storageVars, backup, archives, restoring, backups, succeeded, lost, overlaid>>

(***************************************************************************)
(* Restore                                                                 *)
(***************************************************************************)

(* The operator stops the services (docs/BACKUP_AND_RECOVERY.md).          *)
StopServices ==
  /\ restoring.pc = "none" /\ backup = NoBackup
  /\ \E a \in archives : a.whole
  /\ \A c \in Calls : uploads[c] \in {"none", "done"}
  /\ \A r \in Remover : removal[r] = Rest
  /\ restoring' = [pc |-> "stopped"] /\ listed' = {}
  /\ UNCHANGED <<callVars, jobs, removal, faults, deletes>>
  /\ UNCHANGED <<backup, archives, today, backups, succeeded, lost, overlaid>>

(* The sidecar may be ignored (--ignore-sidecar), the manifest's hashes    *)
(* are always compared.                                                    *)
Accepts(a) == a.whole

(* pg_restore --clean.                                                     *)
RestoreDatabase ==
  /\ restoring.pc = "stopped"
  /\ \E a \in archives :
       /\ Accepts(a)
       /\ rows' = a.database.rows /\ keys' = a.database.keys /\ jobs' = a.database.jobs
       /\ restoring' = [pc |-> "database", from |-> a]
  /\ UNCHANGED <<uploads, objects, listed, removal, faults, deletes>>
  /\ UNCHANGED <<backup, archives, today, backups, succeeded, lost, overlaid>>

(* tar -x, onto an empty storage as the document has it or over another.   *)
RestoreObjects ==
  /\ restoring.pc = "database"
  /\ \/ objects' = restoring.from.objects /\ UNCHANGED overlaid
     \/ objects' = objects \cup restoring.from.objects /\ overlaid' = TRUE
  /\ lost' = Known \ objects'
  /\ restoring' = [pc |-> "none"]
  /\ UNCHANGED <<uploads, keys, rows, jobs, listed, removal, faults, deletes>>
  /\ UNCHANGED <<backup, archives, today, backups, succeeded>>

(* The command for the objects fails; the operator starts again.           *)
RestoreFails ==
  /\ restoring.pc = "database" /\ Fault
  /\ restoring' = [pc |-> "stopped"]
  /\ UNCHANGED <<callVars, jobs, listed, removal, deletes>>
  /\ UNCHANGED <<backup, archives, today, backups, succeeded, lost, overlaid>>

ServiceStep == restoring.pc = "none" /\ StorageNext /\ UNCHANGED backupVars

BackupNext ==
  \/ ServiceStep
  \/ Dump \/ \E c \in Calls : CopyObject(c)
  \/ WriteArchive \/ FinishBackup \/ BackupFails \/ NextDay
  \/ StopServices \/ RestoreDatabase \/ RestoreObjects \/ RestoreFails

BackupSpec == BackupInit /\ [][BackupNext]_allStorageVars

(***************************************************************************)
(* Properties                                                              *)
(***************************************************************************)

(* A call whose audio is gone has a job that is not completed: the         *)
(* deletion is known and found, whatever was lost after it began; or it    *)
(* came back from an archive without audio.                                *)
RowWithoutObjectHasJob ==
  restoring.pc = "none" => \A c \in Known \ (objects \cup lost) : HasJob(c)

(* A completed job means that row and audio are gone, unless objects were  *)
(* restored over others (delete_call_end_to_end, _run_retention).          *)
CompletedJobMeansGone ==
  restoring.pc = "none" /\ ~overlaid =>
    \A i \in DOMAIN jobs : jobs[i].status = "completed" =>
      rows[jobs[i].call] = "absent" /\ jobs[i].call \notin objects

(* A call that an archive holds without its audio was being removed while  *)
(* the backup ran: the database is dumped before the objects are read, so  *)
(* that no upload falls between the two (add_compose_artifacts).           *)
DanglingInBackupWasBeingRemoved ==
  \A a \in archives :
    {c \in Calls : a.database.rows[c] # "absent"} \ a.objects \subseteq a.removed

(* Once a backup has succeeded there is always an archive that a restore   *)
(* accepts, however backups fail and archives expire; and a checksum file  *)
(* is never beside a spoilt archive (create_backup, prune_expired).        *)
BackupRemains ==
  /\ succeeded => \E a \in archives : a.whole /\ a.sidecar
  /\ \A a \in archives : a.sidecar => a.whole
=============================================================================
