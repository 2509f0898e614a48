---------------------------- MODULE TranscriptProofs ----------------------------
(***************************************************************************)
(* Proofs about the transcript of a call, for every number of segments,    *)
(* workers and editors, and every wording.                                 *)
(***************************************************************************)
EXTENDS Transcript, SequenceTheorems, TLAPS

Actors == Workers \cup Editors

(* What a session may be in the present state.  A worker holds the call's  *)
(* row from the selection on; the rows it selected are then the stored     *)
(* ones, except that a re-analysis may hold older words, which it writes   *)
(* back only if they differ from themselves.                               *)
SessionFits(a, s) ==
  /\ s \in Session
  /\ a \in Workers /\ s.pc # "idle" => s.mode # "edit"
  /\ a \in Editors => s.mode = "edit"
  /\ s.locks => s.pc \in {"storing", "ready"}
  /\ s.mode # "edit" /\ s.pc \in {"storing", "ready"} => s.locks
  /\ s.pc # "ready" => s.fresh = {}
  /\ s.pc = "ready" => s.number \in 1 .. Len(transcripts) + 1

EditFits(s) ==
  s.mode = "edit" => s.fresh = {} /\ \A p \in Positions : s.said[p] # NoWords => s.loaded[p] # NoSegment

RunFits(s) ==
  /\ s.mode = "full" /\ s.pc = "working" => s.loaded = Nothing
  /\ s.mode = "reanalyze" /\ s.pc = "working" => s.said = Said(s.loaded)
  /\ s.mode # "edit" /\ s.locks =>
       /\ \A f \in s.fresh : followUps[f] = 0
       /\ \A p \in Positions :
            /\ segments[p].id = s.loaded[p].id
            /\ s.loaded[p] = segments[p] \/ (s.loaded[p] # NoSegment /\ s.said[p] = s.loaded[p].words)

(* Without an overlap what a session loaded is what is stored.             *)
LoadedIsCurrent(s) ==
  overlapped = {} \/ (s.mode = "edit" /\ "edit" \notin overlapped) =>
    \A p \in Positions : s.loaded[p] # NoSegment => s.loaded[p] = segments[p]

Fits(a, s) == SessionFits(a, s) /\ EditFits(s) /\ RunFits(s) /\ LoadedIsCurrent(s)

OneLock == \A a, b \in Actors : a # b => ~(work[a].locks /\ work[b].locks)

TranscriptInv ==
  /\ TranscriptTypeOK
  /\ \A a \in Actors : Fits(a, work[a])
  /\ OneLock
  /\ VersionsFollowCommits
  /\ FollowUpsAreDistinct
  /\ LatestTranscriptIsCurrent
  /\ CorrectionIsExplained

(***************************************************************************)
(* Data                                                                    *)
(***************************************************************************)

(* Nothing is not a wording, and a row is absent when its id is 0.         *)
LEMMA Rows ==
  /\ NoWords \notin Wording
  /\ NoSegment \notin Segment
  /\ \A r \in Segment \cup {NoSegment} : /\ r.id = 0 <=> r = NoSegment
                                         /\ r # NoSegment => r \in Segment /\ r.words \in Wording
                                         /\ r.id \in Nat /\ r.manual \in BOOLEAN
                                         /\ r.manual => r # NoSegment
<1>1. NoWords \notin Wording
  BY DEF NoWords, Wording, SpeakerRole
<1>2. NoSegment.id = 0 /\ NoSegment.manual = FALSE
  BY DEF NoSegment
<1>3. \A r \in Segment : r.id \in Nat \ {0} /\ r.words \in Wording /\ r.manual \in BOOLEAN
  BY DEF Segment
<1>4. NoSegment \notin Segment
  BY <1>2, <1>3
<1>5. \A r \in Segment \cup {NoSegment} :
        /\ r.id = 0 <=> r = NoSegment
        /\ r # NoSegment => r \in Segment /\ r.words \in Wording
  BY <1>2, <1>3
<1>6. \A r \in Segment \cup {NoSegment} : r.id \in Nat /\ r.manual \in BOOLEAN
  <2>1. NoSegment.manual \in BOOLEAN
    BY <1>2, Zenon
  <2> QED
    BY <1>2, <1>3, <2>1
<1>7. \A r \in Segment \cup {NoSegment} : r.manual => r # NoSegment
  BY <1>2
<1> QED
  BY <1>1, <1>4, <1>5, <1>6, <1>7

(* An update of what did not change changes nothing; one of current words  *)
(* stores the new ones.                                                    *)
LEMMA MergedWords ==
  ASSUME NEW row \in Wording, NEW old \in Wording, NEW new \in Wording
  PROVE  /\ Merged(row, old, new) \in Wording
         /\ Merged(row, old, old) = row
         /\ Merged(old, old, new) = new
  BY DEF Merged, Wording

(* A session at rest holds nothing and says nothing.                       *)
LEMMA RestingFields ==
  /\ Resting \in Session
  /\ Resting.pc = "idle" /\ Resting.mode = "edit" /\ ~Resting.locks /\ Resting.fresh = {}
  /\ \A p \in Positions : Resting.loaded[p] = NoSegment /\ Resting.said[p] = NoWords
<1>1. Nothing \in [Positions -> Segment \cup {NoSegment}]
  BY DEF Nothing
<1>2. Silence \in [Positions -> Wording \cup {NoWords}]
  BY DEF Silence
<1>3. Resting \in Session
  BY <1>1, <1>2 DEF Resting, Session
<1>4. /\ Resting.pc = "idle" /\ Resting.mode = "edit" /\ ~Resting.locks /\ Resting.fresh = {}
      /\ \A p \in Positions : Resting.loaded[p] = NoSegment /\ Resting.said[p] = NoWords
  BY DEF Resting, Nothing, Silence
<1> QED
  BY <1>3, <1>4

(* A session at rest fits every state.                                     *)
LEMMA RestingFits ==
  ASSUME NEW a \in Actors
  PROVE  Fits(a, Resting)
BY RestingFields DEF Fits, SessionFits, EditFits, RunFits, LoadedIsCurrent

(***************************************************************************)
(* Steps before the end of a transaction                                   *)
(***************************************************************************)

(* A step that changes one session only keeps the invariant if the new     *)
(* session fits and does not take a lock another holds.                    *)
LEMMA OneSessionChanges ==
  ASSUME TranscriptInv, NEW a \in Actors, NEW s, Fits(a, s),
         s.locks => LockIsFree(a) \/ work[a].locks,
         work' = [work EXCEPT ![a] = s], started' \in Nat,
         UNCHANGED <<rowVars, versionVars, followUps, overlapped>>
  PROVE  TranscriptInv'
<1> USE DEF TranscriptInv
<1>1. work \in [Actors -> Session] /\ s \in Session
  BY DEF TranscriptTypeOK, Actors, Fits, SessionFits
<1>2. /\ segments' = segments /\ nextSegment' = nextSegment /\ corrections' = corrections
      /\ transcripts' = transcripts /\ latestTranscript' = latestTranscript
      /\ followUps' = followUps /\ overlapped' = overlapped
  BY DEF rowVars, versionVars
<1>3. TranscriptTypeOK'
  BY <1>1, <1>2 DEF TranscriptTypeOK, Actors
<1>4. \A b \in Actors : Fits(b, work[b])'
  <2> TAKE b \in Actors
  <2>1. work'[b] = IF b = a THEN s ELSE work[b]
    BY <1>1
  <2>2. Fits(b, work'[b])
    BY <2>1
  <2>3. SessionFits(b, work[b])' /\ EditFits(work[b])'
    BY <1>2, <2>2 DEF Fits, SessionFits, EditFits
  <2>4. RunFits(work[b])'
    BY <1>2, <2>2 DEF Fits, RunFits, Said, Nothing
  <2>5. LoadedIsCurrent(work[b])'
    BY <1>2, <2>2 DEF Fits, LoadedIsCurrent
  <2> QED
    BY <2>3, <2>4, <2>5 DEF Fits
<1>5. OneLock'
  BY <1>1 DEF OneLock, LockIsFree
<1>6. (VersionsFollowCommits /\ FollowUpsAreDistinct)'
  BY <1>2 DEF VersionsFollowCommits, FollowUpsAreDistinct
<1>7. (LatestTranscriptIsCurrent /\ CorrectionIsExplained)'
  BY <1>2 DEF LatestTranscriptIsCurrent, CorrectionIsExplained, Said
<1> QED
  BY <1>3, <1>4, <1>5, <1>6, <1>7

(* What the invariant says of one session.                                 *)
LEMMA OneSession ==
  ASSUME TranscriptInv, NEW a \in Actors
  PROVE  /\ work \in [Actors -> Session] /\ work[a] \in Session
         /\ work[a].loaded \in [Positions -> Segment \cup {NoSegment}]
         /\ work[a].said \in [Positions -> Wording \cup {NoWords}]
         /\ work[a].number \in Nat /\ work[a].fresh \subseteq FollowUp
         /\ work[a].locks \in BOOLEAN
         /\ segments \in [Positions -> Segment \cup {NoSegment}]
         /\ transcripts \in Seq(TranscriptVersion) /\ Len(transcripts) \in Nat
         /\ started \in Nat /\ started + 1 \in Nat
  BY DEF TranscriptInv, TranscriptTypeOK, Actors, Session

(* A full run begins.                                                      *)
LEMMA BeginFullRunInv ==
  ASSUME TranscriptInv, NEW w \in Workers, BeginFullRun(w)
  PROVE  TranscriptInv'
<1> DEFINE heard(n, words) == [p \in Positions |-> IF p <= n THEN words ELSE NoWords]
<1>1. PICK n \in Positions, words \in [text : MachineText, role : SpeakerRole] :
        work' = [work EXCEPT ![w] = [Resting EXCEPT !.pc = "working", !.mode = "full",
                                                    !.said = heard(n, words)]]
  BY DEF BeginFullRun
<1>2. words \in Wording
  BY DEF Wording
<1>3. heard(n, words) \in [Positions -> Wording \cup {NoWords}]
  BY <1>2
<1> DEFINE s == [Resting EXCEPT !.pc = "working", !.mode = "full", !.said = heard(n, words)]
<1>4. Resting \in Session
  BY RestingFits, w \in Actors DEF Fits, SessionFits, Actors
<1>5. /\ s \in Session /\ s.pc = "working" /\ s.mode = "full" /\ ~s.locks /\ s.fresh = {}
      /\ s.loaded = Nothing
  BY <1>3, <1>4 DEF Session, Resting
<1> HIDE DEF s, heard
<1>6. w \in Actors /\ w \notin Editors
  BY ActorsAssumption DEF Actors
<1>7. Fits(w, s)
  BY <1>5, <1>6 DEF Fits, SessionFits, EditFits, RunFits, LoadedIsCurrent, Nothing
<1>8. started' \in Nat
  BY <1>6, OneSession DEF BeginFullRun, Start
<1> QED
  BY <1>1, <1>5, <1>6, <1>7, <1>8, OneSessionChanges DEF BeginFullRun, s

(* A re-analysis begins with the rows as they are.                         *)
LEMMA BeginReanalysisInv ==
  ASSUME TranscriptInv, NEW w \in Workers, BeginReanalysis(w)
  PROVE  TranscriptInv'
<1> DEFINE s == [Resting EXCEPT !.pc = "working", !.mode = "reanalyze",
                                !.loaded = segments, !.said = Said(segments)]
<1>1. w \in Actors /\ w \notin Editors
  BY ActorsAssumption DEF Actors
<1>2. segments \in [Positions -> Segment \cup {NoSegment}] /\ started + 1 \in Nat
  BY <1>1, OneSession
<1>3. Said(segments) \in [Positions -> Wording \cup {NoWords}]
  <2>1. \A p \in Positions : segments[p].words \in Wording \cup {NoWords}
    BY <1>2, Rows DEF NoSegment
  <2> QED
    BY <2>1 DEF Said
<1>4. Resting \in Session
  BY <1>1, RestingFits DEF Fits, SessionFits
<1>5. /\ s \in Session /\ s.pc = "working" /\ s.mode = "reanalyze" /\ ~s.locks /\ s.fresh = {}
      /\ s.loaded = segments /\ s.said = Said(segments)
  BY <1>2, <1>3, <1>4 DEF Session, Resting
<1>6. work' = [work EXCEPT ![w] = s] /\ started' = started + 1
  BY DEF BeginReanalysis, Start
<1> HIDE DEF s
<1>7. Fits(w, s)
  BY <1>1, <1>5 DEF Fits, SessionFits, EditFits, RunFits, LoadedIsCurrent
<1> QED
  BY <1>1, <1>2, <1>5, <1>6, <1>7, OneSessionChanges DEF BeginReanalysis

(* The selection with the lock: a row the run holds and the stored row     *)
(* have one id, and where they differ the run only repeats what it holds.  *)
LEMMA LockAndSelectInv ==
  ASSUME TranscriptInv, NEW w \in Workers, LockAndSelect(w)
  PROVE  TranscriptInv'
<1> DEFINE old == work[w]
           rows == [p \in Positions |->
                      IF segments[p].id = old.loaded[p].id THEN old.loaded[p] ELSE segments[p]]
           s == [old EXCEPT !.pc = "storing", !.locks = TRUE, !.loaded = rows]
<1>1. w \in Actors /\ w \notin Editors
  BY ActorsAssumption DEF Actors
<1>2. /\ old \in Session /\ old.loaded \in [Positions -> Segment \cup {NoSegment}]
      /\ segments \in [Positions -> Segment \cup {NoSegment}] /\ work \in [Actors -> Session]
  BY <1>1, OneSession
<1>3. Fits(w, old) /\ old.pc = "working" /\ LockIsFree(w)
  BY <1>1 DEF TranscriptInv, LockAndSelect
<1>4. old.mode \in {"full", "reanalyze"} /\ old.fresh = {}
  BY <1>1, <1>2, <1>3 DEF Fits, SessionFits, Session
<1>5. rows \in [Positions -> Segment \cup {NoSegment}]
  BY <1>2
<1>6. /\ s \in Session /\ s.pc = "storing" /\ s.locks /\ s.mode = old.mode /\ s.fresh = {}
      /\ s.loaded = rows /\ s.said = old.said
  BY <1>2, <1>4, <1>5 DEF Session
<1>7. work' = [work EXCEPT ![w] = s] /\ started' = started
  BY <1>1, <1>2 DEF LockAndSelect, Session
<1>8. \A p \in Positions : segments[p].id = rows[p].id
  OBVIOUS
<1>9. \A p \in Positions :
        rows[p] = segments[p] \/ (rows[p] # NoSegment /\ old.said[p] = rows[p].words)
  <2> SUFFICES ASSUME NEW p \in Positions, segments[p].id = old.loaded[p].id,
                      old.loaded[p] # segments[p]
               PROVE  old.loaded[p] # NoSegment /\ old.said[p] = old.loaded[p].words
    OBVIOUS
  <2>1. old.loaded[p] # NoSegment
    BY <1>2, Rows
  <2>2. old.mode = "reanalyze"
    BY <1>3, <1>4, <2>1 DEF Fits, RunFits, Nothing
  <2> QED
    BY <1>3, <2>1, <2>2 DEF Fits, RunFits, Said
<1>10. \A p \in Positions : overlapped = {} /\ rows[p] # NoSegment => rows[p] = segments[p]
  BY <1>3 DEF Fits, LoadedIsCurrent
<1> HIDE DEF s, rows, old
<1>11. Fits(w, s)
  BY <1>1, <1>4, <1>6, <1>8, <1>9, <1>10 DEF Fits, SessionFits, EditFits, RunFits, LoadedIsCurrent
<1> QED
  BY <1>1, <1>3, <1>6, <1>7, <1>11, OneSession, OneSessionChanges DEF LockAndSelect

(* The look for follow-ups keeps those of which there is none.             *)
LEMMA LookUpInv ==
  ASSUME TranscriptInv, NEW w \in Workers, LookUp(w)
  PROVE  TranscriptInv'
<1>1. w \in Actors /\ w \notin Editors
  BY ActorsAssumption DEF Actors
<1>2. PICK proposed \in SUBSET FollowUp :
        work' = [work EXCEPT ![w].pc = "ready", ![w].number = Len(transcripts) + 1,
                             ![w].fresh = {f \in proposed : followUps[f] = 0}]
  BY DEF LookUp
<1> DEFINE old == work[w]
           fresh == {f \in proposed : followUps[f] = 0}
           s == [old EXCEPT !.pc = "ready", !.number = Len(transcripts) + 1, !.fresh = fresh]
<1>3. old \in Session /\ work \in [Actors -> Session] /\ Len(transcripts) \in Nat
  BY <1>1, OneSession
<1>4. Fits(w, old) /\ old.pc = "storing"
  BY <1>1 DEF TranscriptInv, LookUp
<1>5. fresh \subseteq FollowUp /\ \A f \in fresh : followUps[f] = 0
  OBVIOUS
<1> HIDE DEF fresh
<1>6. /\ s \in Session /\ s.pc = "ready" /\ s.mode = old.mode /\ s.locks = old.locks
      /\ s.loaded = old.loaded /\ s.said = old.said
      /\ s.number = Len(transcripts) + 1 /\ s.fresh = fresh
  <2>1. fresh \in SUBSET FollowUp /\ Len(transcripts) + 1 \in Nat
    BY <1>3, <1>5
  <2>2. s \in Session
    BY <1>3, <2>1 DEF Session
  <2>3. old \in [pc : {"idle", "working", "storing", "ready"},
                mode : {"full", "reanalyze", "edit"}, locks : BOOLEAN,
                loaded : [Positions -> Segment \cup {NoSegment}],
                said : [Positions -> Wording \cup {NoWords}],
                number : Nat, fresh : SUBSET FollowUp]
    BY <1>3 DEF Session
  <2> HIDE DEF old
  <2> QED
    BY <2>2, <2>3
<1>7. work' = [work EXCEPT ![w] = s]
  BY <1>1, <1>2, <1>3 DEF Session, fresh
<1>8. old.locks /\ old.mode # "edit"
  BY <1>1, <1>4 DEF Fits, SessionFits
<1> HIDE DEF s, old
<1>9. Fits(w, s)
  BY <1>1, <1>3, <1>4, <1>5, <1>6, <1>8
  DEF Fits, SessionFits, EditFits, RunFits, LoadedIsCurrent
<1>10. started' \in Nat
  BY <1>1, OneSession DEF LookUp
<1> QED
  BY <1>1, <1>6, <1>7, <1>8, <1>9, <1>10, OneSessionChanges DEF LookUp, old

(* A correction begins with rows as they are, and says something only      *)
(* about rows it has loaded.                                               *)
LEMMA CorrectionOpened ==
  ASSUME TranscriptInv, NEW u \in Editors, Start(u),
         UNCHANGED <<rowVars, versionVars, followUps, overlapped>>,
         NEW s \in Session, s.pc = "working", s.mode = "edit", ~s.locks, s.fresh = {},
         \A p \in Positions : /\ s.loaded[p] # NoSegment => s.loaded[p] = segments[p]
                              /\ s.said[p] # NoWords => s.loaded[p] # NoSegment,
         work' = [work EXCEPT ![u] = s]
  PROVE  TranscriptInv'
<1>1. u \in Actors /\ u \notin Workers
  BY ActorsAssumption DEF Actors
<1>2. Fits(u, s)
  BY <1>1 DEF Fits, SessionFits, EditFits, RunFits, LoadedIsCurrent
<1>3. started' \in Nat
  BY <1>1, OneSession DEF Start
<1> QED
  BY <1>1, <1>2, <1>3, OneSessionChanges

(* A person opens a segment, the roles of all, or nothing.                 *)
LEMMA OpenCorrectionInv ==
  ASSUME TranscriptInv, NEW u \in Editors, OpenCorrection(u)
  PROVE  TranscriptInv'
<1>1. /\ segments \in [Positions -> Segment \cup {NoSegment}]
      /\ Nothing \in [Positions -> Segment \cup {NoSegment}]
      /\ Silence \in [Positions -> Wording \cup {NoWords}]
      /\ \A p \in Positions : Nothing[p] = NoSegment /\ Silence[p] = NoWords
  BY OneSession, u \in Actors DEF Nothing, Silence, Actors
<1>2. Start(u) /\ UNCHANGED <<rowVars, versionVars, followUps, overlapped>>
  BY DEF OpenCorrection
<1>3. CASE \E p \in Present(segments), words \in [text : HumanText, role : SpeakerRole] :
             work' = [work EXCEPT ![u] = [Resting EXCEPT !.pc = "working",
               !.loaded = [Nothing EXCEPT ![p] = segments[p]],
               !.said = [Silence EXCEPT ![p] = words]]]
  <2>1. PICK p \in Present(segments), words \in [text : HumanText, role : SpeakerRole] :
          work' = [work EXCEPT ![u] = [Resting EXCEPT !.pc = "working",
            !.loaded = [Nothing EXCEPT ![p] = segments[p]],
            !.said = [Silence EXCEPT ![p] = words]]]
    BY <1>3
  <2>2. p \in Positions /\ segments[p] # NoSegment /\ words \in Wording
    BY DEF Present, Wording
  <2> DEFINE loaded == [Nothing EXCEPT ![p] = segments[p]]
             said == [Silence EXCEPT ![p] = words]
             s == [Resting EXCEPT !.pc = "working", !.loaded = loaded, !.said = said]
  <2>3. /\ loaded \in [Positions -> Segment \cup {NoSegment}]
        /\ said \in [Positions -> Wording \cup {NoWords}]
    BY <1>1, <2>2
  <2>4. \A q \in Positions : /\ loaded[q] # NoSegment => loaded[q] = segments[q]
                             /\ said[q] # NoWords => loaded[q] # NoSegment
    BY <1>1, <2>2
  <2>5. work' = [work EXCEPT ![u] = s]
    BY <2>1
  <2> HIDE DEF loaded, said
  <2>6. /\ s \in Session /\ s.pc = "working" /\ s.mode = "edit" /\ ~s.locks /\ s.fresh = {}
        /\ s.loaded = loaded /\ s.said = said
    BY <2>3 DEF Session, Resting
  <2> HIDE DEF s
  <2> QED
    BY <1>2, <2>4, <2>5, <2>6, CorrectionOpened
<1>4. CASE \E S \in SUBSET Present(segments) \ {{}}, role \in SpeakerRole :
             work' = [work EXCEPT ![u] = [Resting EXCEPT !.pc = "working",
               !.loaded = segments,
               !.said = [p \in Positions |-> IF p \in S
                           THEN [segments[p].words EXCEPT !.role = role] ELSE NoWords]]]
  <2>1. PICK S \in SUBSET Present(segments) \ {{}}, role \in SpeakerRole :
          work' = [work EXCEPT ![u] = [Resting EXCEPT !.pc = "working",
            !.loaded = segments,
            !.said = [p \in Positions |-> IF p \in S
                        THEN [segments[p].words EXCEPT !.role = role] ELSE NoWords]]]
    BY <1>4
  <2> DEFINE said == [p \in Positions |-> IF p \in S
                        THEN [segments[p].words EXCEPT !.role = role] ELSE NoWords]
             s == [Resting EXCEPT !.pc = "working", !.loaded = segments, !.said = said]
  <2>2. \A p \in S : p \in Positions /\ segments[p] # NoSegment
    BY DEF Present
  <2>3. \A p \in S : [segments[p].words EXCEPT !.role = role] \in Wording
    <3>1. \A p \in S : segments[p].words \in Wording
      BY <1>1, <2>2, Rows
    <3> QED
      BY <3>1 DEF Wording
  <2>4. said \in [Positions -> Wording \cup {NoWords}]
    BY <2>3
  <2>5. \A p \in Positions : said[p] # NoWords => segments[p] # NoSegment
    BY <2>2
  <2>6. work' = [work EXCEPT ![u] = s]
    BY <2>1
  <2> HIDE DEF said
  <2>7. /\ s \in Session /\ s.pc = "working" /\ s.mode = "edit" /\ ~s.locks /\ s.fresh = {}
        /\ s.loaded = segments /\ s.said = said
    BY <1>1, <2>4 DEF Session, Resting
  <2> HIDE DEF s
  <2> QED
    BY <1>2, <2>5, <2>6, <2>7, CorrectionOpened
<1>5. CASE work' = [work EXCEPT ![u] = [Resting EXCEPT !.pc = "working"]]
  <2> DEFINE s == [Resting EXCEPT !.pc = "working"]
  <2>1. /\ s \in Session /\ s.pc = "working" /\ s.mode = "edit" /\ ~s.locks /\ s.fresh = {}
        /\ s.loaded = Nothing /\ s.said = Silence
    BY <1>1 DEF Session, Resting
  <2>2. work' = [work EXCEPT ![u] = s]
    BY <1>5
  <2> HIDE DEF s
  <2> QED
    BY <1>1, <1>2, <2>1, <2>2, CorrectionOpened
<1> QED
  BY <1>3, <1>4, <1>5 DEF OpenCorrection

(* The flush of a correction, which may take the call's lock.              *)
LEMMA FlushCorrectionInv ==
  ASSUME TranscriptInv, NEW u \in Editors, FlushCorrection(u)
  PROVE  TranscriptInv'
<1>1. u \in Actors /\ u \notin Workers
  BY ActorsAssumption DEF Actors
<1>2. PICK locks \in BOOLEAN :
        /\ locks => LockIsFree(u)
        /\ work' = [work EXCEPT ![u].pc = "ready", ![u].locks = locks,
                                ![u].number = Len(transcripts) + 1]
  BY DEF FlushCorrection
<1> DEFINE old == work[u]
           number == Len(transcripts) + 1
           s == [old EXCEPT !.pc = "ready", !.locks = locks, !.number = number]
<1>3. old \in Session /\ work \in [Actors -> Session] /\ Len(transcripts) \in Nat /\ number \in Nat
  BY <1>1, OneSession
<1>4. Fits(u, old) /\ old.pc = "working"
  BY <1>1 DEF TranscriptInv, FlushCorrection
<1>5. number \in 1 .. Len(transcripts) + 1
  BY <1>3
<1>6. work' = [work EXCEPT ![u] = s]
  BY <1>1, <1>2, <1>3 DEF Session
<1> HIDE DEF number
<1>7. /\ s \in Session /\ s.pc = "ready" /\ s.mode = old.mode /\ s.locks = locks
      /\ s.loaded = old.loaded /\ s.said = old.said
      /\ s.number = number /\ s.fresh = old.fresh
  BY <1>3 DEF Session
<1> HIDE DEF s, old
<1>8. Fits(u, s)
  BY <1>1, <1>4, <1>5, <1>7 DEF Fits, SessionFits, EditFits, RunFits, LoadedIsCurrent
<1>9. started' \in Nat
  BY <1>1, OneSession DEF FlushCorrection
<1> QED
  BY <1>1, <1>2, <1>6, <1>7, <1>8, <1>9, OneSessionChanges DEF FlushCorrection

(* A session that fails leaves nothing.                                    *)
LEMMA FailSessionInv ==
  ASSUME TranscriptInv, NEW a \in Actors, FailSession(a)
  PROVE  TranscriptInv'
<1>1. Fits(a, Resting) /\ ~Resting.locks
  BY RestingFits DEF Resting
<1>2. started' \in Nat
  BY OneSession DEF FailSession
<1> QED
  BY <1>1, <1>2, OneSessionChanges DEF FailSession

(* An empty call, with no session.                                         *)
LEMMA TranscriptInitInv == TranscriptInit => TranscriptInv
<1> SUFFICES ASSUME TranscriptInit PROVE TranscriptInv
  OBVIOUS
<1>1. \A a \in Actors : work[a] = Resting
  BY DEF TranscriptInit, Actors
<1>2. \A a \in Actors : Fits(a, work[a])
  BY <1>1, RestingFits
<1>3. segments = Nothing /\ \A p \in Positions : segments[p] = NoSegment
  BY DEF TranscriptInit, Nothing
<1>4. TranscriptTypeOK
  <2>1. work \in [Workers \cup Editors -> Session]
    BY <1>1, <1>2 DEF TranscriptInit, Fits, SessionFits, Actors
  <2>2. segments \in [Positions -> Segment \cup {NoSegment}]
    BY <1>3 DEF Nothing
  <2> QED
    BY <2>1, <2>2 DEF TranscriptTypeOK, TranscriptInit
<1>5. OneLock
  BY <1>1 DEF OneLock, Resting
<1>6. VersionsFollowCommits /\ FollowUpsAreDistinct
  BY DEF TranscriptInit, VersionsFollowCommits, FollowUpsAreDistinct
<1>7. LatestTranscriptIsCurrent /\ CorrectionIsExplained
  BY <1>3, Rows DEF TranscriptInit, LatestTranscriptIsCurrent, CorrectionIsExplained
<1> QED
  BY <1>2, <1>4, <1>5, <1>6, <1>7 DEF TranscriptInv

(***************************************************************************)
(* The end of a transaction                                                *)
(***************************************************************************)

(* What the rules of the session say of one position when it commits.      *)
LEMMA CommitPosition ==
  ASSUME TranscriptInv, NEW a \in Actors, Commit(a), NEW p \in Positions
  PROVE  /\ segments[p] \in Segment \cup {NoSegment}
         /\ work[a].loaded[p] \in Segment \cup {NoSegment}
         /\ work[a].said[p] \in Wording \cup {NoWords}
         /\ work[a].mode = "edit" /\ work[a].said[p] # NoWords =>
              /\ work[a].loaded[p] # NoSegment /\ segments[p].id = work[a].loaded[p].id
         /\ work[a].mode # "edit" =>
              /\ segments[p].id = work[a].loaded[p].id
              /\ \/ work[a].loaded[p] = segments[p]
                 \/ work[a].loaded[p] # NoSegment /\ work[a].said[p] = work[a].loaded[p].words
         /\ overlapped = {} \/ (work[a].mode = "edit" /\ "edit" \notin overlapped) =>
              (work[a].loaded[p] # NoSegment => work[a].loaded[p] = segments[p])
<1>1. Fits(a, work[a]) /\ work[a].pc = "ready"
  BY DEF TranscriptInv, Commit
<1>2. work[a].mode = "edit" /\ work[a].said[p] # NoWords =>
        work[a].loaded[p] # NoSegment /\ segments[p].id = work[a].loaded[p].id
  BY <1>1 DEF Fits, EditFits, Commit, Touched
<1>3. work[a].mode # "edit" => work[a].locks
  BY <1>1 DEF Fits, SessionFits
<1> QED
  BY <1>1, <1>2, <1>3, OneSession DEF Fits, RunFits, LoadedIsCurrent

(* A correction keeps the row, marks it, and stores what it says unless    *)
(* the row is not the one it loaded.                                       *)
LEMMA CorrectedRow ==
  ASSUME TranscriptInv, NEW a \in Actors, Commit(a), NEW p \in Positions,
         work[a].mode = "edit"
  PROVE  /\ Corrected(a, p) \in Segment \cup {NoSegment}
         /\ Corrected(a, p).id = segments[p].id
         /\ segments[p].manual => Corrected(a, p).manual
         /\ work[a].said[p] = NoWords => Corrected(a, p) = segments[p]
         /\ work[a].said[p] # NoWords /\ work[a].loaded[p] = segments[p] =>
              Corrected(a, p).words = work[a].said[p]
<1> DEFINE row == segments[p]
           old == work[a].loaded[p]
           words == work[a].said[p]
<1>1. /\ row \in Segment \cup {NoSegment} /\ old \in Segment \cup {NoSegment}
      /\ words \in Wording \cup {NoWords}
      /\ words # NoWords => old # NoSegment /\ row.id = old.id
  BY CommitPosition
<1>2. CASE words = NoWords
  BY <1>1, <1>2 DEF Corrected
<1>3. CASE words # NoWords
  <2>1. row \in Segment /\ old.words \in Wording /\ row.words \in Wording /\ words \in Wording
    BY <1>1, <1>3, Rows
  <2>2. Corrected(a, p) = [row EXCEPT !.manual = TRUE, !.words = Merged(row.words, old.words, words)]
    BY <1>3, <2>1 DEF Corrected, Segment
  <2>3. Merged(row.words, old.words, words) \in Wording
        /\ (old = row => Merged(row.words, old.words, words) = words)
    <3>1. Merged(row.words, old.words, words) \in Wording
      BY <2>1, MergedWords
    <3>2. Merged(row.words, row.words, words) = words
      BY <2>1, MergedWords
    <3> QED
      BY <3>1, <3>2
  <2> HIDE DEF words, old, row
  <2>4. /\ Corrected(a, p) \in Segment /\ Corrected(a, p).id = row.id /\ Corrected(a, p).manual
        /\ Corrected(a, p).words = Merged(row.words, old.words, words)
    BY <2>1, <2>2, <2>3 DEF Segment
  <2>5. /\ Corrected(a, p) \in Segment \cup {NoSegment} /\ Corrected(a, p).manual
        /\ old = row => Corrected(a, p).words = words
    BY <2>3, <2>4
  <2> QED
    BY <1>3, <2>4, <2>5 DEF row, old, words
<1> QED
  BY <1>2, <1>3

(* A run leaves a corrected row as it is, and corrects none.               *)
LEMMA StoredRow ==
  ASSUME TranscriptInv, NEW a \in Actors, Commit(a), NEW p \in Positions,
         work[a].mode # "edit"
  PROVE  /\ Stored(a, p) \in Segment \cup {NoSegment}
         /\ segments[p].manual => Stored(a, p) = segments[p]
         /\ Stored(a, p).manual => segments[p].manual
<1> DEFINE row == segments[p]
           old == work[a].loaded[p]
           words == work[a].said[p]
           new == [id |-> nextSegment + p, words |-> words, manual |-> FALSE]
           kept == [row EXCEPT !.words = Merged(row.words, old.words, words)]
<1>1. /\ row \in Segment \cup {NoSegment} /\ old \in Segment \cup {NoSegment}
      /\ words \in Wording \cup {NoWords} /\ row.id = old.id
      /\ old = row \/ (old # NoSegment /\ words = old.words)
  BY CommitPosition
<1>2. nextSegment + p \in Nat \ {0}
  BY DEF TranscriptInv, TranscriptTypeOK, Positions
<1>3. Stored(a, p) = IF words # NoWords
                     THEN IF old = NoSegment THEN new ELSE IF old.manual THEN row ELSE kept
                     ELSE IF old.manual THEN row ELSE NoSegment
  BY DEF Stored
<1>4. ~NoSegment.manual
  BY DEF NoSegment
<1>5. CASE words # NoWords /\ old = NoSegment
  <2>1. row = NoSegment
    BY <1>1, <1>5
  <2>2. new \in Segment /\ ~new.manual
    BY <1>1, <1>2, <1>5 DEF Segment
  <2>3. Stored(a, p) = new
    BY <1>3, <1>5
  <2> QED
    BY <1>4, <2>1, <2>2, <2>3
<1>6. CASE words # NoWords /\ old # NoSegment /\ ~old.manual
  <2>1. row \in Segment /\ old.words \in Wording /\ row.words \in Wording /\ words \in Wording
    BY <1>1, <1>6, Rows
  <2>2. /\ Merged(row.words, old.words, words) \in Wording
        /\ words = old.words => Merged(row.words, old.words, words) = row.words
    BY <2>1, MergedWords
  <2>3. Stored(a, p) = kept
    BY <1>3, <1>6
  <2>4. kept \in Segment /\ kept.manual = row.manual
    BY <2>1, <2>2 DEF Segment
  <2>5. row.manual => words = old.words
    BY <1>1, <1>6
  <2>6. row.manual => kept = row
    BY <2>1, <2>2, <2>5 DEF Segment
  <2> QED
    BY <2>3, <2>4, <2>6
<1>7. CASE old.manual
  <2>1. old # NoSegment
    BY <1>4, <1>7
  <2> QED
    BY <1>1, <1>3, <1>7, <2>1, Rows
<1>8. CASE words = NoWords /\ ~old.manual
  <2>1. Stored(a, p) = NoSegment
    BY <1>3, <1>8
  <2>2. ~row.manual
    <3>1. old # NoSegment => old.words # NoWords
      BY <1>1, Rows
    <3> QED
      BY <1>1, <1>8, <3>1
  <2> QED
    BY <1>4, <2>1, <2>2
<1> QED
  BY <1>5, <1>6, <1>7, <1>8

(* Without an overlap the snapshot shows what is stored.                   *)
LEMMA SnapshotIsCurrent ==
  ASSUME TranscriptInv, NEW a \in Actors, Commit(a), NEW p \in Positions, overlapped = {}
  PROVE  Snapshot(a, p) = Written(a, p).words
<1> DEFINE row == segments[p]
           old == work[a].loaded[p]
           words == work[a].said[p]
<1>1. /\ row \in Segment \cup {NoSegment} /\ words \in Wording \cup {NoWords}
      /\ old # NoSegment => old = row
  BY CommitPosition
<1> SUFFICES ASSUME Written(a, p) # NoSegment, old # NoSegment
             PROVE  Snapshot(a, p) = Written(a, p).words
  BY DEF Snapshot
<1>2. Snapshot(a, p) = IF words = NoWords \/ (work[a].mode # "edit" /\ old.manual)
                       THEN old.words ELSE words
  BY DEF Snapshot
<1>3. CASE work[a].mode = "edit"
  <2>1. Written(a, p) = Corrected(a, p)
    BY <1>3 DEF Written
  <2> QED
    BY <1>1, <1>2, <1>3, <2>1, CorrectedRow
<1>4. CASE work[a].mode # "edit"
  <2>1. Written(a, p) = Stored(a, p)
    BY <1>4 DEF Written
  <2>2. CASE old.manual
    BY <1>1, <1>2, <1>4, <2>1, <2>2, StoredRow
  <2>3. CASE ~old.manual
    <3>1. words # NoWords
      BY <2>1, <2>3 DEF Stored
    <3>2. Stored(a, p) = [row EXCEPT !.words = Merged(row.words, old.words, words)]
      BY <2>3, <3>1 DEF Stored
    <3>3. row \in Segment /\ Merged(row.words, old.words, words) = words
      BY <1>1, <3>1, Rows, MergedWords
    <3>4. Stored(a, p).words = words
      BY <3>2, <3>3 DEF Segment
    <3> QED
      BY <1>2, <2>1, <2>3, <3>1, <3>4
  <2> QED
    BY <2>2, <2>3
<1> QED
  BY <1>3, <1>4

(* What a session writes is a row; a run keeps corrected rows.             *)
LEMMA WrittenRow ==
  ASSUME TranscriptInv, NEW a \in Actors, Commit(a), NEW p \in Positions
  PROVE  /\ segments'[p] = Written(a, p)
         /\ Written(a, p) \in Segment \cup {NoSegment}
         /\ segments[p].manual => Written(a, p).id = segments[p].id /\ Written(a, p).manual
         /\ work[a].mode # "edit" /\ (segments[p].manual \/ Written(a, p).manual) =>
              segments[p].manual /\ Written(a, p) = segments[p]
<1>1. segments'[p] = Written(a, p)
  BY DEF Commit
<1>2. CASE work[a].mode = "edit"
  BY <1>1, <1>2, CorrectedRow DEF Written
<1>3. CASE work[a].mode # "edit"
  BY <1>1, <1>3, StoredRow DEF Written
<1> QED
  BY <1>2, <1>3

(* The number is the next one: only the first of those who read the same   *)
(* maximum commits.                                                        *)
LEMMA NextNumber ==
  ASSUME TranscriptInv, NEW a \in Actors, Commit(a)
  PROVE  work[a].number = Len(transcripts) + 1
<1>1. work[a].number \in 1 .. Len(transcripts) + 1 /\ Len(transcripts) \in Nat
  BY OneSession DEF TranscriptInv, Fits, SessionFits, Commit
<1>2. \A i \in 1 .. Len(transcripts) : transcripts[i].number = i
  BY OneSession DEF TranscriptInv, VersionsFollowCommits
<1>3. ~NumberTaken(work[a].number)
  BY DEF Commit
<1>4. DOMAIN transcripts = 1 .. Len(transcripts)
  BY OneSession
<1>5. work[a].number \notin 1 .. Len(transcripts)
  BY <1>2, <1>3, <1>4 DEF NumberTaken
<1> QED
  BY <1>1, <1>5

(* The sessions that do not commit hold no lock, and what they loaded is   *)
(* recorded as overlapped.                                                 *)
LEMMA OthersFit ==
  ASSUME TranscriptInv, NEW a \in Actors, Commit(a), NEW b \in Actors, b # a,
         Len(transcripts') = Len(transcripts) + 1
  PROVE  Fits(b, work[b])'
<1> DEFINE s == work[b]
<1>1. work' = [work EXCEPT ![a] = Resting] /\ work \in [Actors -> Session]
  BY OneSession DEF Commit
<1>2. work'[b] = s
  BY <1>1
<1>3. Fits(b, s) /\ ~s.locks
  BY DEF TranscriptInv, Commit, LockIsFree, TranscriptTypeOK, Actors
<1>4. /\ overlapped \subseteq overlapped'
      /\ Present(s.loaded) # {} => s.mode \in overlapped'
  BY DEF Commit, TranscriptInv, TranscriptTypeOK, Actors
<1>5. (SessionFits(b, s))'
  <2>1. Len(transcripts) \in Nat
    BY OneSession
  <2> QED
    BY <1>2, <1>3, <2>1 DEF Fits, SessionFits
<1>6. (EditFits(s))'
  BY <1>2, <1>3 DEF Fits, EditFits
<1>7. (RunFits(s))'
  BY <1>2, <1>3 DEF Fits, RunFits, Said, Nothing
<1>8. (LoadedIsCurrent(s))'
  BY <1>2, <1>3, <1>4 DEF LoadedIsCurrent, Present
<1> QED
  BY <1>5, <1>6, <1>7, <1>8 DEF Fits

(* A commit adds a follow-up only where there is none: who holds the lock  *)
(* has looked since the last commit, and a correction adds none.           *)
LEMMA CommitFollowUps ==
  ASSUME TranscriptInv, NEW a \in Actors, Commit(a)
  PROVE  followUps' \in [FollowUp -> Nat] /\ FollowUpsAreDistinct'
<1>1. followUps' = [f \in FollowUp |-> followUps[f] + IF f \in work[a].fresh THEN 1 ELSE 0]
  BY DEF Commit
<1>2. followUps \in [FollowUp -> Nat] /\ \A f \in FollowUp : followUps[f] <= 1
  BY DEF TranscriptInv, TranscriptTypeOK, FollowUpsAreDistinct
<1>3. \A f \in work[a].fresh : followUps[f] = 0
  BY DEF TranscriptInv, Fits, SessionFits, EditFits, RunFits, Commit
<1>4. \A f \in FollowUp : followUps'[f] \in Nat /\ followUps'[f] <= 1
  BY <1>1, <1>2, <1>3
<1> QED
  BY <1>1, <1>4 DEF FollowUpsAreDistinct

(* The version a commit appends.                                           *)
LEMMA CommitVersion ==
  ASSUME TranscriptInv, NEW a \in Actors, Commit(a)
  PROVE  \E said \in [Positions -> Wording \cup {NoWords}] :
           /\ \A p \in Positions : said[p] = Snapshot(a, p)
           /\ transcripts' = Append(transcripts,
                [number |-> Len(transcripts) + 1, source |-> work[a].mode, said |-> said])
<1> DEFINE said == [p \in Positions |-> Snapshot(a, p)]
<1>1. \A p \in Positions : Snapshot(a, p) \in Wording \cup {NoWords}
  <2> TAKE p \in Positions
  <2>1. Written(a, p).words \in Wording \cup {NoWords}
    BY WrittenRow, Rows DEF NoSegment
  <2>2. CASE Written(a, p) = NoSegment \/ work[a].loaded[p] = NoSegment
    BY <2>1, <2>2 DEF Snapshot
  <2>3. CASE work[a].loaded[p] # NoSegment
    <3>1. work[a].loaded[p].words \in Wording /\ work[a].said[p] \in Wording \cup {NoWords}
      BY <2>3, CommitPosition, Rows
    <3> QED
      BY <2>1, <3>1 DEF Snapshot
  <2> QED
    BY <2>2, <2>3
<1>2. said \in [Positions -> Wording \cup {NoWords}]
  BY <1>1
<1>3. transcripts' = Append(transcripts,
        [number |-> Len(transcripts) + 1, source |-> work[a].mode, said |-> said])
  BY NextNumber DEF Commit
<1> QED
  BY <1>2, <1>3

(* The rows of a correction are recorded with the words they get.          *)
LEMMA RecordedCorrections ==
  ASSUME TranscriptInv, NEW a \in Actors, Commit(a), work[a].mode = "edit"
  PROVE  /\ Recorded(a) \subseteq [segment : Nat \ {0}, old : Wording, new : Wording]
         /\ \A p \in Positions : work[a].said[p] # NoWords =>
              \E c \in Recorded(a) : c.segment = segments[p].id /\ c.new = work[a].said[p]
<1>1. \A p \in Touched(a) : /\ p \in Positions /\ segments[p].id \in Nat \ {0}
                            /\ work[a].loaded[p].words \in Wording
                            /\ work[a].said[p] \in Wording
  <2> TAKE p \in Touched(a)
  <2>1. p \in Positions /\ work[a].said[p] # NoWords
    BY DEF Touched
  <2> QED
    BY <2>1, CommitPosition, Rows
<1>2. Recorded(a) \subseteq [segment : Nat \ {0}, old : Wording, new : Wording]
  BY <1>1 DEF Recorded
<1>3. \A p \in Positions : work[a].said[p] # NoWords =>
        \E c \in Recorded(a) : c.segment = segments[p].id /\ c.new = work[a].said[p]
  <2> TAKE p \in Positions
  <2> HAVE work[a].said[p] # NoWords
  <2> DEFINE c == [segment |-> segments[p].id, old |-> work[a].loaded[p].words,
                   new |-> work[a].said[p]]
  <2>1. c \in Recorded(a)
    BY DEF Recorded, Touched
  <2>2. c.segment = segments[p].id /\ c.new = work[a].said[p]
    OBVIOUS
  <2> QED
    BY <2>1, <2>2
<1> QED
  BY <1>2, <1>3

(* A commit.                                                               *)
LEMMA CommitInv ==
  ASSUME TranscriptInv, NEW a \in Actors, Commit(a)
  PROVE  TranscriptInv'
<1>1. PICK said \in [Positions -> Wording \cup {NoWords}] :
        /\ \A p \in Positions : said[p] = Snapshot(a, p)
        /\ transcripts' = Append(transcripts,
             [number |-> Len(transcripts) + 1, source |-> work[a].mode, said |-> said])
  BY CommitVersion
<1> DEFINE version == [number |-> Len(transcripts) + 1, source |-> work[a].mode, said |-> said]
<1>2. /\ work \in [Actors -> Session] /\ transcripts \in Seq(TranscriptVersion)
      /\ Len(transcripts) \in Nat /\ work[a].mode \in {"full", "reanalyze", "edit"}
      /\ segments \in [Positions -> Segment \cup {NoSegment}]
  BY OneSession DEF Session
<1>3. version \in TranscriptVersion /\ version.number = Len(transcripts) + 1 /\ version.said = said
  BY <1>2 DEF TranscriptVersion
<1> HIDE DEF version
<1>4. /\ transcripts' \in Seq(TranscriptVersion) /\ Len(transcripts') = Len(transcripts) + 1
      /\ transcripts'[Len(transcripts')] = version
      /\ \A i \in 1 .. Len(transcripts) : transcripts'[i] = transcripts[i]
  BY <1>1, <1>2, <1>3 DEF version
<1>5. segments' \in [Positions -> Segment \cup {NoSegment}]
  BY WrittenRow DEF Commit
<1>6. latestTranscript' = Len(transcripts) + 1
  BY NextNumber DEF Commit
<1>7. overlapped \subseteq overlapped'
  BY DEF Commit
<1>8. TranscriptTypeOK'
  <2>1. nextSegment' \in Nat \ {0}
    BY SegmentsAssumption DEF Commit, TranscriptInv, TranscriptTypeOK
  <2>2. corrections' \subseteq [segment : Nat \ {0}, old : Wording, new : Wording]
    BY RecordedCorrections DEF Commit, TranscriptInv, TranscriptTypeOK
  <2>3. work' \in [Workers \cup Editors -> Session]
    BY <1>2, RestingFits DEF Commit, Fits, SessionFits, Actors
  <2>4. overlapped' \subseteq {"full", "reanalyze", "edit"}
    <3>1. \A b \in DOMAIN work : work[b].mode \in {"full", "reanalyze", "edit"}
      BY <1>2 DEF Session
    <3> QED
      BY <3>1 DEF Commit, TranscriptInv, TranscriptTypeOK
  <2>5. started' \in Nat
    BY DEF Commit, TranscriptInv, TranscriptTypeOK
  <2> QED
    BY <1>2, <1>4, <1>5, <1>6, <2>1, <2>2, <2>3, <2>4, <2>5, CommitFollowUps DEF TranscriptTypeOK
<1>9. \A b \in Actors : Fits(b, work[b])'
  <2> TAKE b \in Actors
  <2>1. CASE b = a
    <3>1. work'[b] = Resting
      BY <1>2, <2>1 DEF Commit
    <3> QED
      BY <2>1, <3>1, RestingFields DEF Fits, SessionFits, EditFits, RunFits, LoadedIsCurrent
  <2>2. CASE b # a
    BY <1>4, <2>2, OthersFit
  <2> QED
    BY <2>1, <2>2
<1>10. OneLock'
  BY <1>2 DEF OneLock, Commit, LockIsFree, Resting
<1>11. VersionsFollowCommits'
  BY <1>2, <1>3, <1>4, <1>6 DEF VersionsFollowCommits, TranscriptInv
<1>12. LatestTranscriptIsCurrent'
  <2> SUFFICES ASSUME overlapped' = {} PROVE said = Said(segments)'
    BY <1>3, <1>4 DEF LatestTranscriptIsCurrent
  <2>1. \A p \in Positions : said[p] = segments'[p].words
    BY <1>1, <1>7, SnapshotIsCurrent, WrittenRow
  <2> QED
    BY <2>1 DEF Said
<1>13. CorrectionIsExplained'
  <2> SUFFICES ASSUME "edit" \notin overlapped', NEW p \in Positions, segments'[p].manual
               PROVE  \E c \in corrections' : /\ c.segment = segments'[p].id
                                              /\ c.new = segments'[p].words
    BY DEF CorrectionIsExplained
  <2>1. corrections \subseteq corrections'
    BY DEF Commit
  <2>2. segments[p].manual /\ segments'[p] = segments[p] =>
          \E c \in corrections : c.segment = segments'[p].id /\ c.new = segments'[p].words
    BY <1>7 DEF TranscriptInv, CorrectionIsExplained
  <2>3. CASE work[a].mode # "edit"
    BY <2>1, <2>2, <2>3, WrittenRow
  <2>4. CASE work[a].mode = "edit" /\ work[a].said[p] = NoWords
    BY <2>1, <2>2, <2>4, WrittenRow, CorrectedRow DEF Written
  <2>5. CASE work[a].mode = "edit" /\ work[a].said[p] # NoWords
    <3>1. work[a].loaded[p] = segments[p]
      BY <1>7, <2>5, CommitPosition
    <3>2. segments'[p].id = segments[p].id /\ segments'[p].words = work[a].said[p]
      BY <2>5, <3>1, WrittenRow, CorrectedRow DEF Written
    <3>3. Recorded(a) \subseteq corrections'
      BY <2>5 DEF Commit
    <3> QED
      BY <2>5, <3>2, <3>3, RecordedCorrections
  <2> QED
    BY <2>3, <2>4, <2>5
<1> QED
  BY <1>8, <1>9, <1>10, <1>11, <1>12, <1>13, CommitFollowUps DEF TranscriptInv

(***************************************************************************)
(* Theorems                                                                *)
(***************************************************************************)

(* Every step keeps the invariant.                                         *)
LEMMA TranscriptStepInv == TranscriptInv /\ [TranscriptNext]_transcriptVars => TranscriptInv'
<1> SUFFICES ASSUME TranscriptInv, [TranscriptNext]_transcriptVars PROVE TranscriptInv'
  OBVIOUS
<1>1. ASSUME NEW w \in Workers,
             BeginFullRun(w) \/ BeginReanalysis(w) \/ LockAndSelect(w) \/ LookUp(w)
      PROVE  TranscriptInv'
  BY <1>1, BeginFullRunInv, BeginReanalysisInv, LockAndSelectInv, LookUpInv
<1>2. ASSUME NEW u \in Editors, OpenCorrection(u) \/ FlushCorrection(u)
      PROVE  TranscriptInv'
  BY <1>2, OpenCorrectionInv, FlushCorrectionInv
<1>3. ASSUME NEW a \in Actors, Commit(a) \/ FailSession(a)
      PROVE  TranscriptInv'
  BY <1>3, CommitInv, FailSessionInv
<1>4. CASE UNCHANGED transcriptVars
  <2> USE <1>4 DEF TranscriptInv, transcriptVars, rowVars, versionVars
  <2>1. (TranscriptTypeOK /\ OneLock)'
    BY DEF TranscriptTypeOK, OneLock
  <2>2. \A a \in Actors : Fits(a, work[a])'
    <3> TAKE a \in Actors
    <3>1. SessionFits(a, work[a])' /\ EditFits(work[a])'
      BY DEF Fits, SessionFits, EditFits
    <3>2. RunFits(work[a])' /\ LoadedIsCurrent(work[a])'
      BY DEF Fits, RunFits, LoadedIsCurrent, Said, Nothing
    <3> QED
      BY <3>1, <3>2 DEF Fits
  <2>3. (VersionsFollowCommits /\ FollowUpsAreDistinct)'
    BY DEF VersionsFollowCommits, FollowUpsAreDistinct
  <2>4. (LatestTranscriptIsCurrent /\ CorrectionIsExplained)'
    BY DEF LatestTranscriptIsCurrent, CorrectionIsExplained
  <2> QED
    BY <2>1, <2>2, <2>3, <2>4
<1> QED
  BY <1>1, <1>2, <1>3, <1>4 DEF TranscriptNext, Actors

(* The invariant holds in every behaviour.                                 *)
LEMMA TranscriptInvHolds == TranscriptSpec => []TranscriptInv
BY TranscriptInitInv, TranscriptStepInv, PTL DEF TranscriptSpec

(* Version numbers follow the commits without a gap, and the latest is the *)
(* last, however many sessions read the same maximum                       *)
(* (snapshot_transcript, uq_transcript_version).                           *)
THEOREM VersionsFollowCommitsHolds == TranscriptSpec => []VersionsFollowCommits
<1>1. TranscriptInv => VersionsFollowCommits
  BY DEF TranscriptInv
<1> QED
  BY <1>1, TranscriptInvHolds, PTL

(* A call gets one follow-up task and one draft of a content               *)
(* (_create_followups, behind the lock of the call's row).                 *)
THEOREM FollowUpsAreDistinctHolds == TranscriptSpec => []FollowUpsAreDistinct
<1>1. TranscriptInv => FollowUpsAreDistinct
  BY DEF TranscriptInv
<1> QED
  BY <1>1, TranscriptInvHolds, PTL

(* Without overlapping sessions the latest transcript is what the segments *)
(* say (snapshot_transcript after every change).                           *)
THEOREM LatestTranscriptIsCurrentHolds == TranscriptSpec => []LatestTranscriptIsCurrent
<1>1. TranscriptInv => LatestTranscriptIsCurrent
  BY DEF TranscriptInv
<1> QED
  BY <1>1, TranscriptInvHolds, PTL

(* The words of a corrected segment are those of a recorded correction     *)
(* unless corrections overlapped (edit_segment, update_speaker_roles).     *)
THEOREM CorrectionIsExplainedHolds == TranscriptSpec => []CorrectionIsExplained
<1>1. TranscriptInv => CorrectionIsExplained
  BY DEF TranscriptInv
<1> QED
  BY <1>1, TranscriptInvHolds, PTL

(* One position of a step, for the theorem below.                          *)
LEMMA CorrectionStep ==
  ASSUME TranscriptInv, [TranscriptNext]_transcriptVars, NEW p \in Positions, segments[p].manual
  PROVE  /\ segments'[p].id = segments[p].id /\ segments'[p].manual
         /\ segments'[p].words # segments[p].words =>
              /\ Len(transcripts') > Len(transcripts)
              /\ transcripts'[Len(transcripts')].source = "edit"
<1>1. CASE segments' = segments
  BY <1>1
<1>2. ASSUME NEW a \in Actors, Commit(a)
      PROVE  /\ segments'[p].id = segments[p].id /\ segments'[p].manual
             /\ segments'[p].words # segments[p].words =>
                  /\ Len(transcripts') > Len(transcripts)
                  /\ transcripts'[Len(transcripts')].source = "edit"
  <2>1. segments'[p].id = segments[p].id /\ segments'[p].manual
    BY <1>2, WrittenRow
  <2>2. work[a].mode # "edit" => segments'[p] = segments[p]
    BY <1>2, WrittenRow
  <2>3. PICK said \in [Positions -> Wording \cup {NoWords}] :
          transcripts' = Append(transcripts,
            [number |-> Len(transcripts) + 1, source |-> work[a].mode, said |-> said])
    BY <1>2, CommitVersion
  <2> DEFINE version == [number |-> Len(transcripts) + 1, source |-> work[a].mode, said |-> said]
  <2>4. version \in TranscriptVersion /\ version.source = work[a].mode
    BY OneSession DEF TranscriptVersion, Session
  <2> HIDE DEF version
  <2>5. Len(transcripts') > Len(transcripts) /\ transcripts'[Len(transcripts')] = version
    BY <2>3, <2>4, OneSession DEF version
  <2> QED
    BY <2>1, <2>2, <2>4, <2>5
<1>3. segments' = segments \/ \E a \in Actors : Commit(a)
  BY DEF TranscriptNext, transcriptVars, rowVars, Actors, BeginFullRun, BeginReanalysis,
         LockAndSelect, LookUp, OpenCorrection, FlushCorrection, FailSession
<1> QED
  BY <1>1, <1>2, <1>3

(* No run of the worker changes or deletes what a person corrected, not    *)
(* even one that loaded it before (_upsert_segments, is_manually_corrected *)
(* and the columns an UPDATE writes).                                      *)
THEOREM CorrectionKeptHolds == TranscriptSpec => CorrectionKept
<1>1. TranscriptInv /\ [TranscriptNext]_transcriptVars =>
        [\A p \in Positions : segments[p].manual =>
          /\ segments'[p].id = segments[p].id /\ segments'[p].manual
          /\ segments'[p].words # segments[p].words => Len(transcripts') > Len(transcripts)
               /\ transcripts'[Len(transcripts')].source = "edit"]_transcriptVars
  BY CorrectionStep
<1> QED
  BY <1>1, TranscriptInvHolds, PTL DEF TranscriptSpec, CorrectionKept
=============================================================================
