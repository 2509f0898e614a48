------------------------------- MODULE Transcript -------------------------------
(***************************************************************************)
(* The transcript of one call: its segments, what people correct in them,  *)
(* the numbered snapshots taken of them, and the runs of the worker that   *)
(* write beside the corrections (backend/app/tasks.py, services/           *)
(* versioning.py, main.py).                                                *)
(*                                                                         *)
(* A session keeps the row objects it has loaded: a later SELECT of the    *)
(* same rows returns these objects with the values first loaded            *)
(* (expire_on_commit=False), and an UPDATE writes only the columns changed *)
(* from these values.  A re-analysis loads the segments, waits minutes for *)
(* the provider, and selects them again in its last transaction.           *)
(*                                                                         *)
(* Every transaction here ends by writing the call's row                   *)
(* (latest_transcript_version_id).  One that wrote the row earlier holds   *)
(* its lock until then, and nobody else commits; the others find out by    *)
(* the unique version number that somebody did.  What a transaction        *)
(* flushes before is applied here when it commits.                         *)
(***************************************************************************)
EXTENDS Naturals, Sequences, FiniteSets

CONSTANTS
  MaxSegments,  \* how many segments a transcript has at most
  Workers,      \* the worker processes
  Editors,      \* the people who correct
  MachineText,  \* what a transcription may produce
  HumanText,    \* what a person may write
  Drafts,       \* the contents of follow-up messages an analysis may propose
  MaxSessions   \* how many runs, corrections and snapshots are started

ASSUME SegmentsAssumption == MaxSegments \in Nat \ {0}
ASSUME ActorsAssumption == Workers \cap Editors = {}
ASSUME SessionsAssumption == MaxSessions \in Nat

Positions == 1 .. MaxSegments
SpeakerRole == {"agent", "customer"}
Wording == [text : MachineText \cup HumanText, role : SpeakerRole]
NoWords == [text |-> {}, role |-> "none"]

(* A row of transcript_segments, and what it says.                         *)
Segment == [id : Nat \ {0}, words : Wording, manual : BOOLEAN]
NoSegment == [id |-> 0, words |-> NoWords, manual |-> FALSE]

FollowUp == Drafts \cup {"task"}

(* A session: "working" outside of its last transaction, "storing" with    *)
(* the call locked and the segments selected, "ready" with max and the     *)
(* existing follow-ups read; said is what it writes at each position.      *)
Session == [pc : {"idle", "working", "storing", "ready"},
            mode : {"full", "reanalyze", "edit"}, locks : BOOLEAN,
            loaded : [Positions -> Segment \cup {NoSegment}],
            said : [Positions -> Wording \cup {NoWords}],
            number : Nat, fresh : SUBSET FollowUp]

TranscriptVersion == [number : Nat \ {0}, source : {"full", "reanalyze", "edit"},
                      said : [Positions -> Wording \cup {NoWords}]]

VARIABLES
  segments,     \* the rows of transcript_segments
  nextSegment,  \* the id of the next row
  corrections,  \* the rows of transcript_corrections
  transcripts,  \* the transcript versions, in the order they were committed
  latestTranscript,  \* latest_transcript_version_id
  followUps,    \* how many drafts there are of each content, and tasks
  work,         \* the session of each worker and editor
  started,      \* how many sessions were started
  overlapped    \* the kinds of session that held segments they had loaded
                \* while another session committed

rowVars == <<segments, nextSegment, corrections>>
versionVars == <<transcripts, latestTranscript>>
transcriptVars == <<rowVars, versionVars, followUps, work, started, overlapped>>

Nothing == [p \in Positions |-> NoSegment]
Silence == [p \in Positions |-> NoWords]
Resting == [pc |-> "idle", mode |-> "edit", locks |-> FALSE, loaded |-> Nothing,
            said |-> Silence, number |-> 0, fresh |-> {}]

TranscriptTypeOK ==
  /\ segments \in [Positions -> Segment \cup {NoSegment}]
  /\ nextSegment \in Nat \ {0}
  /\ corrections \subseteq [segment : Nat \ {0}, old : Wording, new : Wording]
  /\ transcripts \in Seq(TranscriptVersion)
  /\ latestTranscript \in Nat
  /\ followUps \in [FollowUp -> Nat]
  /\ work \in [Workers \cup Editors -> Session]
  /\ started \in Nat
  /\ overlapped \subseteq {"full", "reanalyze", "edit"}

TranscriptInit ==
  /\ segments = Nothing /\ nextSegment = 1 /\ corrections = {}
  /\ transcripts = <<>> /\ latestTranscript = 0
  /\ followUps = [f \in FollowUp |-> 0]
  /\ work = [a \in Workers \cup Editors |-> Resting]
  /\ started = 0
  /\ overlapped = {}

Present(rows) == {p \in Positions : rows[p] # NoSegment}
Said(rows) == [p \in Positions |-> rows[p].words]

Start(a) == work[a].pc = "idle" /\ started < MaxSessions /\ started' = started + 1

(* No other session holds the lock of the call's row.                      *)
LockIsFree(a) == \A b \in DOMAIN work \ {a} : ~work[b].locks

(***************************************************************************)
(* Runs of the worker                                                      *)
(***************************************************************************)

(* A run with new audio hears a prefix of the positions; the roles are     *)
(* assigned before the segments are stored.                                *)
BeginFullRun(w) ==
  /\ Start(w)
  /\ \E n \in Positions, words \in [text : MachineText, role : SpeakerRole] :
       work' = [work EXCEPT ![w] =
         [Resting EXCEPT !.pc = "working", !.mode = "full",
            !.said = [p \in Positions |-> IF p <= n THEN words ELSE NoWords]]]
  /\ UNCHANGED <<rowVars, versionVars, followUps, overlapped>>

(* A re-analysis loads the segments and works on what they say.            *)
BeginReanalysis(w) ==
  /\ Start(w)
  /\ Present(segments) # {}
  /\ work' = [work EXCEPT ![w] =
       [Resting EXCEPT !.pc = "working", !.mode = "reanalyze",
          !.loaded = segments, !.said = Said(segments)]]
  /\ UNCHANGED <<rowVars, versionVars, followUps, overlapped>>

(* The transition to validating writes the call's row; then the segments   *)
(* are selected, and rows the session knows keep the values it loaded.     *)
LockAndSelect(w) ==
  /\ work[w].pc = "working" /\ LockIsFree(w)
  /\ work' = [work EXCEPT ![w].pc = "storing", ![w].locks = TRUE,
       ![w].loaded = [p \in Positions |->
          IF segments[p].id = work[w].loaded[p].id THEN work[w].loaded[p] ELSE segments[p]]]
  /\ UNCHANGED <<rowVars, versionVars, followUps, started, overlapped>>

(* Mutant: what was already created is created again.                      *)
LookUpNothing(w) ==
  /\ work[w].pc = "storing"
  /\ \E proposed \in SUBSET FollowUp :
       work' = [work EXCEPT ![w].pc = "ready",
         ![w].number = Len(transcripts) + 1, ![w].fresh = proposed]
  /\ UNCHANGED <<rowVars, versionVars, followUps, started, overlapped>>

(* snapshot_transcript reads max; _create_followups looks whether what the *)
(* analysis proposes exists.                                               *)
LookUp(w) ==
  /\ work[w].pc = "storing"
  /\ \E proposed \in SUBSET FollowUp :
       work' = [work EXCEPT ![w].pc = "ready",
         ![w].number = Len(transcripts) + 1,
         ![w].fresh = {f \in proposed : followUps[f] = 0}]
  /\ UNCHANGED <<rowVars, versionVars, followUps, started, overlapped>>

(***************************************************************************)
(* Corrections and snapshots                                               *)
(***************************************************************************)

(* edit_segment loads one row and rewrites it; update_speaker_roles loads  *)
(* all and changes the roles of some; create_transcript_snapshot loads     *)
(* none.                                                                   *)
OpenCorrection(u) ==
  /\ Start(u)
  /\ \/ \E p \in Present(segments), words \in [text : HumanText, role : SpeakerRole] :
          work' = [work EXCEPT ![u] = [Resting EXCEPT !.pc = "working",
            !.loaded = [Nothing EXCEPT ![p] = segments[p]],
            !.said = [Silence EXCEPT ![p] = words]]]
     \/ \E S \in SUBSET Present(segments) \ {{}}, role \in SpeakerRole :
          /\ \A p \in S : segments[p].words.role # role
          /\ work' = [work EXCEPT ![u] = [Resting EXCEPT !.pc = "working",
               !.loaded = segments,
               !.said = [p \in Positions |-> IF p \in S
                           THEN [segments[p].words EXCEPT !.role = role] ELSE NoWords]]]
     \/ work' = [work EXCEPT ![u] = [Resting EXCEPT !.pc = "working"]]
  /\ UNCHANGED <<rowVars, versionVars, followUps, overlapped>>

Touched(a) == {p \in Positions : work[a].said[p] # NoWords}

(* The flush before max is read writes the call's row if its status or     *)
(* manually_corrected changes, which depends on what earlier edits left.   *)
FlushCorrection(u) ==
  /\ work[u].pc = "working"
  /\ \A p \in Touched(u) : segments[p].id = work[u].loaded[p].id
  /\ \E locks \in BOOLEAN :
       /\ locks => LockIsFree(u) /\ Touched(u) # {}
       /\ work' = [work EXCEPT ![u].pc = "ready", ![u].locks = locks,
                               ![u].number = Len(transcripts) + 1]
  /\ UNCHANGED <<rowVars, versionVars, followUps, started, overlapped>>

(***************************************************************************)
(* The end of a transaction                                                *)
(***************************************************************************)

(* An UPDATE sets the columns that differ from the values loaded.          *)
Merged(row, loaded, words) ==
  [text |-> IF words.text # loaded.text THEN words.text ELSE row.text,
   role |-> IF words.role # loaded.role THEN words.role ELSE row.role]

(* Mutant: the check of is_manually_corrected covers the text only.        *)
StoredUnlessText(a, p) ==
  LET s == work[a] old == s.loaded[p] row == segments[p] IN
  CASE s.said[p] # NoWords /\ old = NoSegment ->
         [id |-> nextSegment + p, words |-> s.said[p], manual |-> FALSE]
    [] s.said[p] # NoWords /\ old # NoSegment ->
         [row EXCEPT !.words = IF old.manual
            THEN [row.words EXCEPT !.role = s.said[p].role]
            ELSE Merged(row.words, old.words, s.said[p])]
    [] s.said[p] = NoWords -> IF old.manual THEN row ELSE NoSegment

(* _upsert_segments at one position: a new row, a row updated unless it is *)
(* manually corrected, or one no longer heard, deleted unless corrected.   *)
Stored(a, p) ==
  LET s == work[a] old == s.loaded[p] row == segments[p] IN
  CASE s.said[p] # NoWords /\ old = NoSegment ->
         [id |-> nextSegment + p, words |-> s.said[p], manual |-> FALSE]
    [] s.said[p] # NoWords /\ old # NoSegment ->
         IF old.manual THEN row
         ELSE [row EXCEPT !.words = Merged(row.words, old.words, s.said[p])]
    [] s.said[p] = NoWords -> IF old.manual THEN row ELSE NoSegment

(* A correction at one position.                                           *)
Corrected(u, p) ==
  IF work[u].said[p] = NoWords THEN segments[p]
  ELSE [segments[p] EXCEPT !.manual = TRUE,
          !.words = Merged(@, work[u].loaded[p].words, work[u].said[p])]

Written(a, p) == IF work[a].mode = "edit" THEN Corrected(a, p) ELSE Stored(a, p)

(* Mutant: the snapshot is taken before the change.                        *)
SnapshotBefore(a, p) == Said(segments)[p]

(* What the SELECT of snapshot_transcript returns: the session's objects   *)
(* where it holds them, with its own changes.                              *)
Snapshot(a, p) ==
  LET s == work[a] old == s.loaded[p] IN
  IF Written(a, p) = NoSegment \/ old = NoSegment THEN Written(a, p).words
  ELSE IF s.said[p] = NoWords \/ (s.mode # "edit" /\ old.manual) THEN old.words
  ELSE s.said[p]

(* Mutant: without uq_transcript_version.                                  *)
NeverTaken(number) == FALSE
NumberTaken(number) == \E i \in DOMAIN transcripts : transcripts[i].number = number

(* Mutant: old and new change places.                                      *)
RecordedBackwards(u) ==
  {[segment |-> segments[p].id, old |-> work[u].said[p],
    new |-> work[u].loaded[p].words] : p \in Touched(u)}

(* The rows a correction adds to transcript_corrections.                   *)
Recorded(u) ==
  {[segment |-> segments[p].id, old |-> work[u].loaded[p].words,
    new |-> work[u].said[p]] : p \in Touched(u)}

Commit(a) ==
  LET s == work[a] IN
  /\ s.pc = "ready" /\ LockIsFree(a) /\ ~NumberTaken(s.number)
  /\ s.mode = "edit" => \A p \in Touched(a) : segments[p].id = s.loaded[p].id
  /\ segments' = [p \in Positions |-> Written(a, p)]
  /\ nextSegment' = IF \E p \in Positions : segments'[p].id > nextSegment
                    THEN nextSegment + MaxSegments ELSE nextSegment
  /\ corrections' = IF s.mode = "edit" THEN corrections \cup Recorded(a) ELSE corrections
  /\ transcripts' = Append(transcripts, [number |-> s.number, source |-> s.mode,
                                         said |-> [p \in Positions |-> Snapshot(a, p)]])
  /\ latestTranscript' = s.number
  /\ followUps' = [f \in FollowUp |-> followUps[f] + IF f \in s.fresh THEN 1 ELSE 0]
  /\ overlapped' = overlapped \cup
       {work[b].mode : b \in {c \in DOMAIN work \ {a} : Present(work[c].loaded) # {}}}
  /\ work' = [work EXCEPT ![a] = Resting]
  /\ UNCHANGED started

(* A transaction fails: its number or its rows were taken from under it,   *)
(* the database breaks a deadlock, the provider or the process ends.       *)
FailSession(a) ==
  /\ work[a].pc # "idle"
  /\ work' = [work EXCEPT ![a] = Resting]
  /\ UNCHANGED <<rowVars, versionVars, followUps, started, overlapped>>

TranscriptNext ==
  \/ \E w \in Workers : BeginFullRun(w) \/ BeginReanalysis(w) \/ LockAndSelect(w) \/ LookUp(w)
  \/ \E u \in Editors : OpenCorrection(u) \/ FlushCorrection(u)
  \/ \E a \in Workers \cup Editors : Commit(a) \/ FailSession(a)

TranscriptSpec == TranscriptInit /\ [][TranscriptNext]_transcriptVars

(***************************************************************************)
(* Properties                                                              *)
(***************************************************************************)

(* The version number says the order of the commits, without a gap, and    *)
(* the call's latest version is the last: max + 1 read without a lock,     *)
(* kept honest by the unique key, whatever transactions fail               *)
(* (snapshot_transcript).                                                  *)
VersionsFollowCommits ==
  /\ \A i \in DOMAIN transcripts : transcripts[i].number = i
  /\ latestTranscript = Len(transcripts)

(* A corrected segment outlives every run: its row stays, and its words    *)
(* change only with another correction, also when a re-analysis that       *)
(* loaded it before the correction stores after it (_upsert_segments).     *)
CorrectionKept ==
  [][\A p \in Positions : segments[p].manual =>
       /\ segments'[p].id = segments[p].id /\ segments'[p].manual
       /\ segments'[p].words # segments[p].words => Len(transcripts') > Len(transcripts)
            /\ transcripts'[Len(transcripts')].source = "edit"]_transcriptVars

(* What the call shows as its latest transcript is what its segments say,  *)
(* unless a session committed while another held rows it had loaded.       *)
LatestTranscriptIsCurrent ==
  transcripts # <<>> /\ overlapped = {} =>
    transcripts[Len(transcripts)].said = Said(segments)

(* The words of a corrected segment are those of a recorded correction,    *)
(* also beside runs; two corrections that overlap may mix their words.     *)
CorrectionIsExplained ==
  "edit" \notin overlapped =>
    \A p \in Positions : segments[p].manual =>
      \E c \in corrections : c.segment = segments[p].id /\ c.new = segments[p].words

(* However many runs store, a call gets one follow-up task and one draft   *)
(* of a content: a run looks for them with the call's row locked           *)
(* (_create_followups).                                                    *)
FollowUpsAreDistinct == \A f \in FollowUp : followUps[f] <= 1

(* After a re-analysis the latest transcript says what people corrected.   *)
ReanalysisShowsCorrections ==
  transcripts # <<>> /\ transcripts[Len(transcripts)].source = "reanalyze" =>
    \A p \in Positions : segments[p].manual =>
      transcripts[Len(transcripts)].said[p] = segments[p].words
=============================================================================
