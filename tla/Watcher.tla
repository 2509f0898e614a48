------------------------------- MODULE Watcher -------------------------------
(***************************************************************************)
(* The watcher of recordings: it scans a drop folder, or an SFTP server,   *)
(* in path order, waits until a file is stable, and imports it as a call,  *)
(* recognises it as a duplicate, or puts it in quarantine                  *)
(* (backend/app/services/watcher.py, watcher.py).                          *)
(*                                                                         *)
(* What is known of a path is a row of source_imports, unique per path and *)
(* per hash.  A scan goes through several transactions for each file; the  *)
(* recorders go on writing between them, and a second watcher may scan the *)
(* same paths.  An exception that is not a PipelineFailure ends a scan     *)
(* with the files after it unseen, until the next scan.                    *)
(*                                                                         *)
(* A recording grows in steps to FullSize; its content at a size stands    *)
(* for its bytes and for their SHA-256.  The modification time moves with  *)
(* the size.  The stability window is longer than a recorder ever pauses:  *)
(* no window passes over a file that is half written and not changing.     *)
(***************************************************************************)
EXTENDS Naturals, FiniteSets, FiniteSetsExt

CONSTANTS
  PathCount,   \* the paths, numbered in the order of a scan
  Watchers,    \* the watcher processes
  Modes,       \* the import modes considered: "folder", "sftp"
  Bytes,       \* the audio a recording may hold
  Corrupt,     \* the audio validate_audio refuses
  CallIds,     \* the unique ids of calls, of the CDR or in a file name
  NoId,        \* a recording without one
  Made,        \* what may be recorded under the paths
  FullSize,    \* the size of a complete recording
  Limit        \* how often each mishap may happen

Paths == 1 .. PathCount
Recording == [bytes : Bytes, id : CallIds \cup {NoId}]
Mishap == {"interrupt", "probe"}

ASSUME PathsAssumption == PathCount \in Nat
ASSUME WatchersAssumption == IsFiniteSet(Watchers)
ASSUME SizeAssumption == FullSize \in Nat \ {0}
ASSUME ModesAssumption == Modes \subseteq {"folder", "sftp"}
ASSUME CorruptAssumption == Corrupt \subseteq Bytes
ASSUME MadeAssumption == Made \subseteq [Paths -> Recording]
ASSUME LimitAssumption == Limit \in [Mishap -> Nat]

Size == 0 .. FullSize
Content == [bytes : Bytes, size : 1 .. FullSize]
Unhashed == [bytes |-> {}, size |-> 0]

(* A row of source_imports: whether the path is known and what became of   *)
(* it, the size last observed, whether the stability window has passed     *)
(* since it changed, and the hash.  An observed path is waiting_for_file   *)
(* or discovered, which decide nothing.                                    *)
SourceStatus == {"unknown", "observed", "imported", "quarantined"}
SourceImport == [status : SourceStatus, seen : Size, aged : BOOLEAN,
                 sha256 : Content \cup {Unhashed}]

(* A call made of a recording, and the object stored for it.               *)
Call == [externalId : CallIds \cup Content, sourceHash : Content, object : Content]

(* Where a scan is with the first path of its todo list.                   *)
Step == {"idle", "look", "hash", "mark", "validate", "insert", "upload",
         "move", "record"}
Scan == [at : Step, todo : SUBSET Paths, listed : [Paths -> Size],
         digest : Content \cup {Unhashed}]

VARIABLES
  mode,    \* issabel_import_mode
  made,    \* what is recorded under each path
  file,    \* the size of each file in the folder or on the server, 0 if none
  source,  \* the rows of source_imports
  calls,   \* the calls imported
  vault,   \* the files moved to the quarantine folder
  scan,    \* the scan of each watcher
  spent    \* how often each mishap has happened

vars == <<mode, made, file, source, calls, vault, scan, spent>>

Idle == [at |-> "idle", todo |-> {}, listed |-> [p \in Paths |-> 0],
         digest |-> Unhashed]

TypeOK ==
  /\ mode \in Modes /\ made \in Made
  /\ file \in [Paths -> Size]
  /\ source \in [Paths -> SourceImport]
  /\ calls \subseteq Call
  /\ vault \subseteq [path : Paths, content : Content]
  /\ scan \in [Watchers -> Scan]
  /\ \A w \in Watchers :
       /\ (scan[w].at = "idle") <=> (scan[w].todo = {})
       /\ scan[w].at \notin {"idle", "look", "hash"} => scan[w].digest \in Content
  /\ spent \in [Mishap -> Nat]

Init ==
  /\ mode \in Modes /\ made \in Made
  /\ file = [p \in Paths |-> 0]
  /\ source = [p \in Paths |-> [status |-> "unknown", seen |-> 0,
                                aged |-> FALSE, sha256 |-> Unhashed]]
  /\ calls = {}
  /\ vault = {}
  /\ scan = [w \in Watchers |-> Idle]
  /\ spent = [m \in Mishap |-> 0]

Processed(row) == row.status \in {"imported", "quarantined"}

(* The file a scan is at, and what it reads of it: the file itself, or the *)
(* local copy it downloaded, whose bytes its digest stands for.            *)
Current(w) == Min(scan[w].todo)
FileContent(p) == [bytes |-> made[p].bytes, size |-> file[p]]
Reads(w) == IF mode = "folder" THEN FileContent(Current(w)) ELSE scan[w].digest
(* Mutant: a file that has vanished is read as an empty one.               *)
NeverGone(w) == w \notin Watchers

Gone(w) == mode = "folder" /\ file[Current(w)] = 0

Go(w, step) == scan' = [scan EXCEPT ![w].at = step]

(* The scan of w turns to its next file, or ends.                          *)
Proceed(w) ==
  LET rest == scan[w].todo \ {Current(w)}
  IN scan' = [scan EXCEPT ![w] =
       IF rest = {} THEN Idle
       ELSE [@ EXCEPT !.at = "look", !.todo = rest, !.listed[Current(w)] = 0,
                      !.digest = Unhashed]]

(* Mutant: nothing keeps two rows from having one hash.                    *)
NeverClaimed(p, hash) == p \in Paths /\ hash \in Content

(* The unique constraint on the hash, for a row of path p.                 *)
Unclaimed(p, hash) == \A q \in Paths \ {p} : source[q].sha256 # hash

-----------------------------------------------------------------------------
(* A recorder creates a file, goes on writing it, or renames it in place.  *)
Write(p) ==
  /\ file[p] = 0 => \A v \in vault : v.path # p
  /\ \E size \in file[p] + 1 .. FullSize : file' = [file EXCEPT ![p] = size]
  /\ UNCHANGED <<mode, made, source, calls, vault, scan, spent>>

(* The stability window of an observed file has passed.                    *)
Age(p) ==
  /\ source[p].status = "observed"
  /\ ~source[p].aged
  /\ file[p] = FullSize \/ source[p].seen # file[p]
  /\ source' = [source EXCEPT ![p].aged = TRUE]
  /\ UNCHANGED <<mode, made, file, calls, vault, scan, spent>>

-----------------------------------------------------------------------------
(* The candidates are listed once, over SFTP with their sizes.             *)
StartScan(w) ==
  LET present == {p \in Paths : file[p] > 0}
  IN /\ scan[w].at = "idle"
     /\ present # {}
     /\ scan' = [scan EXCEPT ![w] =
          [Idle EXCEPT !.at = "look", !.todo = present,
                       !.listed = IF mode = "sftp" THEN file ELSE @]]
     /\ UNCHANGED <<mode, made, file, source, calls, vault, spent>>

(* Over SFTP a path that is done with is not looked at again.              *)
SkipProcessed(w) ==
  /\ scan[w].at = "look"
  /\ mode = "sftp"
  /\ Processed(source[Current(w)])
  /\ Proceed(w)
  /\ UNCHANGED <<mode, made, file, source, calls, vault, spent>>

(* In a folder the file is measured now, over SFTP it was when listed.     *)
SizeOf(w) == LET p == Current(w) IN IF mode = "folder" THEN file[p] ELSE scan[w].listed[p]

(* Mutant: two equal observations are enough.                              *)
SameSize(row, size) == Processed(row) \/ (row.status = "observed" /\ row.seen = size)

Stable(row, size) ==
  Processed(row) \/ (row.status = "observed" /\ row.seen = size /\ row.aged)

(* Mutant: a change is stored and does not restart the window.             *)
StaysAged(row, size) ==
  IF Processed(row) THEN row ELSE [row EXCEPT !.status = "observed", !.seen = size]

(* Mutant: a change restarts the window and is not stored.                 *)
KeepsFirstSize(row, size) ==
  IF row.status = "unknown" THEN [row EXCEPT !.status = "observed", !.seen = size]
  ELSE IF row.status = "observed" /\ row.seen # size THEN [row EXCEPT !.aged = FALSE]
  ELSE row

(* observe_source: a new or a changed file starts a stability window.      *)
Observed(row, size) ==
  IF ~Processed(row) /\ (row.status = "unknown" \/ row.seen # size)
  THEN [row EXCEPT !.status = "observed", !.seen = size, !.aged = FALSE]
  ELSE row

Observe(w) ==
  LET p == Current(w)
  IN /\ scan[w].at = "look"
     /\ ~(mode = "sftp" /\ Processed(source[p]))
     /\ ~Gone(w)
     /\ source' = [source EXCEPT ![p] = Observed(@, SizeOf(w))]
     /\ IF Stable(source[p], SizeOf(w)) THEN Go(w, "hash") ELSE Proceed(w)
     /\ UNCHANGED <<mode, made, file, calls, vault, spent>>

IsDuplicate(p, hash) ==
  \E q \in Paths : Processed(source[q]) /\ (q = p \/ source[q].sha256 = hash)

(* The file is downloaded, over SFTP, and hashed, and the hash looked up.  *)
Hash(w) ==
  LET p == Current(w)
      digest == FileContent(p)
      next == IF ~IsDuplicate(p, digest) THEN "validate" ELSE "mark"
  IN /\ scan[w].at = "hash"
     /\ ~Gone(w)
     /\ IF next = "mark" /\ mode = "folder" THEN Proceed(w)
        ELSE scan' = [scan EXCEPT ![w].at = next, ![w].digest = digest]
     /\ UNCHANGED <<mode, made, file, source, calls, vault, spent>>

(* mark_duplicate: the row of a copy takes the hash of the original.       *)
MarkDuplicate(w) ==
  LET p == Current(w)
  IN /\ scan[w].at = "mark"
     /\ Unclaimed(p, scan[w].digest)
     /\ source' = [source EXCEPT ![p].status = "imported", ![p].sha256 = scan[w].digest]
     /\ Proceed(w)
     /\ UNCHANGED <<mode, made, file, calls, vault, spent>>

-----------------------------------------------------------------------------
(* What validate_audio may say of a content: half a recording passes or    *)
(* not, a file that is gone is corrupt.                                    *)
Verdict(content) ==
  IF content.size = 0 THEN {FALSE}
  ELSE IF content.size < FullSize THEN BOOLEAN
  ELSE {content.bytes \notin Corrupt}

Validate(w) ==
  /\ scan[w].at = "validate"
  /\ \E valid \in Verdict(Reads(w)) : Go(w, IF valid THEN "insert" ELSE "move")
  /\ UNCHANGED <<mode, made, file, source, calls, vault, spent>>

(* ffprobe is missing or takes too long: the audio counts as unsupported.  *)
ProbeFails(w) ==
  /\ scan[w].at = "validate"
  /\ spent["probe"] < Limit["probe"]
  /\ spent' = [spent EXCEPT !["probe"] = @ + 1]
  /\ Go(w, "move")
  /\ UNCHANGED <<mode, made, file, source, calls, vault>>

(* external_id: the id of the call if there is one, or the hash.           *)
ExternalId(p, hash) == IF made[p].id = NoId THEN hash ELSE made[p].id

(* import_file up to its flush.  The row of a call is inserted with the    *)
(* object key "pending", which is unique: one import at a time.  A second  *)
(* recording of a known call is a duplicate.                               *)
Insert(w) ==
  LET id == ExternalId(Current(w), scan[w].digest)
  IN /\ scan[w].at = "insert"
     /\ ~Gone(w)
     /\ \A v \in Watchers : scan[v].at # "upload"
     /\ IF \E c \in calls : c.externalId = id THEN Proceed(w) ELSE Go(w, "upload")
     /\ UNCHANGED <<mode, made, file, source, calls, vault, spent>>

(* Mutant: the row of an import does not take its hash.                    *)
ForgetsHash(row, content) == [row EXCEPT !.status = "imported", !.seen = content.size]

ImportedRow(row, content) ==
  [row EXCEPT !.status = "imported", !.sha256 = content, !.seen = content.size]

(* The rest of import_file: the object is stored, the call and the row of  *)
(* its path are committed; or the hash is taken and the call rolled back.  *)
Commit(w) ==
  LET p == Current(w)
      digest == scan[w].digest
      new == [externalId |-> ExternalId(p, digest), sourceHash |-> digest,
              object |-> Reads(w)]
  IN /\ scan[w].at = "upload"
     /\ ~Gone(w)
     /\ \/ /\ Unclaimed(p, digest)
           /\ calls' = calls \cup {new}
           /\ source' = [source EXCEPT ![p] = ImportedRow(@, digest)]
        \/ /\ ~Unclaimed(p, digest)
           /\ UNCHANGED <<calls, source>>
     /\ Proceed(w)
     /\ UNCHANGED <<mode, made, file, vault, spent>>

(* quarantine: first the file is moved, or the local copy of it ...        *)
Move(w) ==
  LET p == Current(w)
  IN /\ scan[w].at = "move"
     /\ ~Gone(w)
     /\ vault' = vault \cup {[path |-> p, content |-> Reads(w)]}
     /\ file' = IF mode = "folder" THEN [file EXCEPT ![p] = 0] ELSE file
     /\ Go(w, "record")
     /\ UNCHANGED <<mode, made, source, calls, spent>>

(* Mutant: the row is not committed.                                       *)
ForgetQuarantine(w) ==
  /\ scan[w].at = "record"
  /\ Proceed(w)
  /\ UNCHANGED <<mode, made, file, source, calls, vault, spent>>

(* ... then the row of its path says so.                                   *)
RecordQuarantine(w) ==
  LET p == Current(w)
  IN /\ scan[w].at = "record"
     /\ Unclaimed(p, scan[w].digest)
     /\ source' = [source EXCEPT ![p].status = "quarantined", ![p].sha256 = scan[w].digest]
     /\ Proceed(w)
     /\ UNCHANGED <<mode, made, file, calls, vault, spent>>

(* An exception the scan does not handle: the file is gone, or a unique    *)
(* constraint is violated outside import_file.                             *)
Abort(w) ==
  /\ \/ scan[w].at \in {"look", "hash", "insert", "upload", "move"} /\ Gone(w)
     \/ /\ scan[w].at \in {"mark", "record"}
        /\ ~Unclaimed(Current(w), scan[w].digest)
  /\ scan' = [scan EXCEPT ![w] = Idle]
  /\ UNCHANGED <<mode, made, file, source, calls, vault, spent>>

(* The process is lost, or the database, the storage or the server raises. *)
Interrupt(w) ==
  /\ scan[w].at # "idle"
  /\ spent["interrupt"] < Limit["interrupt"]
  /\ spent' = [spent EXCEPT !["interrupt"] = @ + 1]
  /\ scan' = [scan EXCEPT ![w] = Idle]
  /\ UNCHANGED <<mode, made, file, source, calls, vault>>

-----------------------------------------------------------------------------
Watch(w) ==
  \/ StartScan(w)
  \/ SkipProcessed(w)
  \/ Observe(w)
  \/ Hash(w)
  \/ MarkDuplicate(w)
  \/ Validate(w)
  \/ Insert(w)
  \/ Commit(w)
  \/ Move(w)
  \/ RecordQuarantine(w)
  \/ Abort(w)

Next ==
  \/ \E p \in Paths : Write(p) \/ Age(p)
  \/ \E w \in Watchers : Watch(w) \/ ProbeFails(w) \/ Interrupt(w)

(* The scan loop never stops, and time passes.  Nobody has to record.      *)
Fairness ==
  /\ \A w \in Watchers : WF_vars(Watch(w))
  /\ \A p \in Paths : WF_vars(Age(p))

Spec == Init /\ [][Next]_vars /\ Fairness

-----------------------------------------------------------------------------
(* Properties.                                                             *)

Whole(p) == [bytes |-> made[p].bytes, size |-> FullSize]

(* The same bytes never become two calls, under whatever names they appear *)
(* and whichever watchers find them in a folder at the same time.  Over    *)
(* SFTP this is the promise of a single watcher: a second one, with an old *)
(* listing, may replace the hash of a path that is done with.              *)
OneCallPerRecording ==
  mode = "folder" \/ Cardinality(Watchers) = 1 =>
    \A c, d \in calls : c.sourceHash = d.sourceHash => c = d

(* What is imported from a folder is a complete recording: no interleaving *)
(* of recorder and scans imports a file that is still being written, and   *)
(* the object stored is the one whose hash was looked up.                  *)
WholeRecording ==
  mode = "folder" =>
    \A c \in calls : c.sourceHash.size = FullSize /\ c.object = c.sourceHash

(* Unless ffprobe itself failed, only corrupt audio leaves a folder.       *)
OnlyCorruptIsQuarantined ==
  mode = "folder" /\ spent["probe"] = 0 =>
    \A v \in vault : v.content.bytes \in Corrupt

(* A row that says quarantined has the recording it names in the vault;    *)
(* and a recording that was moved out of a folder is whole and has such a  *)
(* row, unless the scan is about to write it, a scan was interrupted, or   *)
(* another path was recorded with the same hash meanwhile.                 *)
QuarantineIsRecorded ==
  /\ \A p \in Paths : source[p].status = "quarantined" =>
       [path |-> p, content |-> source[p].sha256] \in vault
  /\ mode = "folder" => \A v \in vault :
       /\ v.content = Whole(v.path)
       /\ \/ source[v.path].status = "quarantined"
          \/ \E w \in Watchers : scan[w].at = "record" /\ Current(w) = v.path
          \/ spent["interrupt"] > 0
          \/ \E q \in Paths \ {v.path} : Processed(source[q]) /\ source[q].sha256 = v.content

(* The recording at p is a call, or belongs to a call already known.       *)
Imported(p) ==
  \E c \in calls : c.sourceHash = Whole(p) \/ c.externalId = ExternalId(p, Whole(p))

Sound(p) == file[p] = FullSize /\ made[p].bytes \notin Corrupt

(* Every sound recording that is complete becomes a call, whatever else    *)
(* the watcher finds, scan after scan, unless ffprobe failed on it.        *)
RecordingIsImported ==
  \A p \in Paths : Sound(p) ~> Imported(p) \/ spent["probe"] > 0

NoCopies == \A p, q \in Paths : made[p].bytes = made[q].bytes => p = q

(* A stale listing made the scan take half of p for the whole of it.       *)
TakenTooEarly(p) ==
  mode = "sftp" /\ Processed(source[p]) /\ source[p].sha256.size < FullSize

(* The same for a folder; for SFTP as long as nothing is there twice and   *)
(* the recording was not taken too early.                                  *)
DistinctIsImported ==
  \A p \in Paths :
    /\ Sound(p) /\ (mode = "sftp" => NoCopies)
    ~> Imported(p) \/ spent["probe"] > 0 \/ TakenTooEarly(p)

(* Corrupt audio ends in quarantine with a row that says so; a scan that is *)
(* interrupted between the two steps may leave a folder's file without one. *)
CorruptIsRecorded ==
  \A p \in Paths :
    /\ file[p] = FullSize /\ made[p].bytes \in Corrupt
    ~> \/ \E q \in Paths : source[q].status = "quarantined" /\ source[q].sha256 = Whole(p)
       \/ mode = "folder" /\ spent["interrupt"] > 0
       \/ TakenTooEarly(p)
=============================================================================
