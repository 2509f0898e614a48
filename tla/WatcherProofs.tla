---------------------------- MODULE WatcherProofs ----------------------------
(***************************************************************************)
(* Theorems about Watcher, for every number of paths, watchers, recordings *)
(* and mishaps.                                                            *)
(***************************************************************************)
EXTENDS Watcher, FiniteSetTheorems, WellFoundedInduction, TLAPS

-----------------------------------------------------------------------------
(* The todo list of a scan.                                                *)

(* A set of natural numbers has a first element.                           *)
LEMMA FirstOfMany ==
  ASSUME NEW S, S \subseteq Nat, S # {}
  PROVE  Min(S) \in S
<1>1. PICK p \in S : \A q \in S : ~(<<q, p>> \in OpToRel(<, Nat))
  BY NatLessThanWellFounded, WFMin
<1>2. ASSUME NEW q \in S PROVE p <= q
  <2>1. <<q, p>> \in Nat \X Nat
    OBVIOUS
  <2>2. ~(<<q, p>>[1] < <<q, p>>[2])
    BY <1>1, <2>1 DEF OpToRel
  <2> QED
    BY <2>2
<1> QED
  BY <1>2 DEF Min

(* A scan is at one of the files it has listed.                            *)
LEMMA CurrentIsListed ==
  ASSUME TypeOK, NEW w \in Watchers, scan[w].at # "idle"
  PROVE  Current(w) \in scan[w].todo /\ Current(w) \in Paths
<1>1. scan[w].todo \subseteq Nat /\ scan[w].todo # {} /\ scan[w].todo \subseteq Paths
  BY PathsAssumption DEF TypeOK, Scan, Paths
<1> QED
  BY <1>1, FirstOfMany DEF Current

(* As long as the list stays, so does the file.                            *)
LEMMA CurrentStays ==
  ASSUME NEW w, scan'[w].todo = scan[w].todo
  PROVE  Current(w)' = Current(w)
BY DEF Current

(* A scan that turns to its next file, or ends.                            *)
LEMMA ProceedShape ==
  ASSUME TypeOK, NEW w \in Watchers, scan[w].at # "idle", Proceed(w)
  PROVE  /\ scan' \in [Watchers -> Scan]
         /\ \A v \in Watchers \ {w} : scan'[v] = scan[v]
         /\ scan'[w].at \in {"idle", "look"}
         /\ scan'[w].at = "idle" <=> scan'[w].todo = {}
         /\ scan'[w].todo \subseteq scan[w].todo
<1> DEFINE p == Current(w)
           rest == scan[w].todo \ {p}
           next == [scan[w] EXCEPT !.at = "look", !.todo = rest, !.listed[p] = 0,
                                   !.digest = Unhashed]
<1>1. scan[w] \in Scan /\ p \in Paths /\ 0 \in Size
  BY CurrentIsListed, SizeAssumption DEF TypeOK, Size
<1>2. /\ Idle \in Scan /\ Idle.at = "idle" /\ Idle.todo = {}
  BY <1>1 DEF Idle, Scan, Step
<1>3. next \in Scan /\ next.at = "look" /\ next.todo = rest
  BY <1>1 DEF Scan, Step
<1>4. scan' = [scan EXCEPT ![w] = IF rest = {} THEN Idle ELSE next]
  BY DEF Proceed
<1>5. scan \in [Watchers -> Scan]
  BY DEF TypeOK
<1> HIDE DEF next
<1> QED
  BY <1>2, <1>3, <1>4, <1>5

(* A scan that goes on with its file.                                      *)
LEMMA GoShape ==
  ASSUME TypeOK, NEW w \in Watchers, NEW step \in Step \ {"idle"}, scan[w].at # "idle",
         NEW digest \in Content \cup {Unhashed},
         scan' = [scan EXCEPT ![w].at = step, ![w].digest = digest]
         \/ (Go(w, step) /\ digest = scan[w].digest)
  PROVE  /\ scan' \in [Watchers -> Scan]
         /\ \A v \in Watchers \ {w} : scan'[v] = scan[v]
         /\ scan'[w].at = step /\ scan'[w].digest = digest
         /\ scan'[w].todo = scan[w].todo /\ scan[w].todo # {}
<1> DEFINE next == [scan[w] EXCEPT !.at = step, !.digest = digest]
<1>1. scan[w] \in Scan /\ scan[w].todo # {} /\ scan \in [Watchers -> Scan]
  BY DEF TypeOK
<1>2. /\ next \in Scan /\ next.at = step /\ next.digest = digest
      /\ next.todo = scan[w].todo
  BY <1>1 DEF Scan
<1>3. scan' = [scan EXCEPT ![w] = next]
  BY <1>1 DEF Go, Scan
<1> HIDE DEF next
<1> QED
  BY <1>1, <1>2, <1>3

-----------------------------------------------------------------------------
(* Type correctness.                                                       *)

(* A server loses no file that was listed.                                 *)
NoneIsLost ==
  mode = "sftp" => \A w \in Watchers : \A p \in scan[w].todo : file[p] > 0

TypeInv == TypeOK /\ NoneIsLost

ScansTyped ==
  /\ scan \in [Watchers -> Scan]
  /\ \A w \in Watchers :
       /\ (scan[w].at = "idle") <=> (scan[w].todo = {})
       /\ scan[w].at \notin {"idle", "look", "hash"} => scan[w].digest \in Content

(* What the scan of one watcher may become.                                *)
LEMMA ScanTyped ==
  ASSUME TypeOK, NEW w \in Watchers, scan' \in [Watchers -> Scan],
         \A v \in Watchers \ {w} : scan'[v] = scan[v],
         scan'[w].at = "idle" <=> scan'[w].todo = {},
         scan'[w].at \notin {"idle", "look", "hash"} => scan'[w].digest \in Content
  PROVE  ScansTyped'
BY DEF TypeOK, ScansTyped

(* A scan that proceeds.                                                   *)
LEMMA ProceedTyped ==
  ASSUME TypeOK, NEW w \in Watchers, scan[w].at # "idle", Proceed(w)
  PROVE  ScansTyped'
BY ProceedShape, ScanTyped

(* A scan that goes on.                                                    *)
LEMMA GoTyped ==
  ASSUME TypeOK, NEW w \in Watchers, NEW step \in Step \ {"idle"},
         scan[w].at \notin {"idle", "look", "hash"} \/ (step = "hash" /\ scan[w].at = "look"),
         Go(w, step)
  PROVE  ScansTyped'
<1>1. /\ scan[w].at # "idle" /\ scan[w].digest \in Content \cup {Unhashed}
      /\ scan[w].at \notin {"idle", "look", "hash"} => scan[w].digest \in Content
  BY DEF TypeOK, Scan
<1>2. /\ scan' \in [Watchers -> Scan]
      /\ \A v \in Watchers \ {w} : scan'[v] = scan[v]
      /\ scan'[w].at = step /\ scan'[w].digest = scan[w].digest
      /\ scan'[w].todo = scan[w].todo /\ scan[w].todo # {}
  BY <1>1, GoShape
<1> QED
  BY <1>1, <1>2, ScanTyped

(* An empty scan.                                                          *)
LEMMA IdleTyped ==
  ASSUME TypeOK, NEW w \in Watchers, scan' = [scan EXCEPT ![w] = Idle]
  PROVE  ScansTyped' /\ scan'[w] = Idle /\ Idle.todo = {} /\ Idle.at = "idle"
<1>1. Idle \in Scan /\ Idle.at = "idle" /\ Idle.todo = {}
  BY SizeAssumption DEF Idle, Scan, Step, Size
<1>2. /\ scan' \in [Watchers -> Scan] /\ scan'[w] = Idle
      /\ \A v \in Watchers \ {w} : scan'[v] = scan[v]
  BY <1>1 DEF TypeOK
<1> QED
  BY <1>1, <1>2, ScanTyped

(* A scan that begins.                                                     *)
LEMMA StartTyped ==
  ASSUME TypeOK, NEW w \in Watchers, StartScan(w)
  PROVE  /\ ScansTyped' /\ \A v \in Watchers \ {w} : scan'[v] = scan[v]
         /\ scan'[w].at = "look" /\ scan'[w].todo = {p \in Paths : file[p] > 0}
<1> DEFINE present == {p \in Paths : file[p] > 0}
           next == [Idle EXCEPT !.at = "look", !.todo = present,
                                !.listed = IF mode = "sftp" THEN file ELSE @]
<1>1. Idle \in Scan /\ file \in [Paths -> Size] /\ scan \in [Watchers -> Scan]
  BY SizeAssumption DEF Idle, Scan, Step, Size, TypeOK
<1>2. next \in Scan /\ next.at = "look" /\ next.todo = present
  BY <1>1 DEF Scan, Step
<1>3. scan' = [scan EXCEPT ![w] = next] /\ present # {}
  BY DEF StartScan
<1> HIDE DEF next, present
<1>4. /\ scan' \in [Watchers -> Scan] /\ scan'[w] = next
      /\ \A v \in Watchers \ {w} : scan'[v] = scan[v]
  BY <1>1, <1>2, <1>3
<1> QED
  BY <1>2, <1>3, <1>4, ScanTyped DEF present

(* What a watcher reads and stores.                                        *)
LEMMA ContentTyped ==
  ASSUME TypeOK, NEW p \in Paths
  PROVE  /\ file[p] # 0 => FileContent(p) \in Content
         /\ FileContent(p).bytes = made[p].bytes /\ FileContent(p).size = file[p]
         /\ \A hash \in Content : ExternalId(p, hash) \in CallIds \cup Content
<1>1. file[p] \in Size /\ made[p] \in Recording
  BY MadeAssumption DEF TypeOK
<1> QED
  BY <1>1, SizeAssumption DEF FileContent, Content, Size, ExternalId, Recording

(* Every step of a watcher keeps the types; only a scan that begins lists  *)
(* files.                                                                  *)
LEMMA WatchTyped ==
  ASSUME TypeInv, NEW w \in Watchers, Watch(w) \/ ProbeFails(w) \/ Interrupt(w)
  PROVE  /\ ScansTyped' /\ mode' = mode /\ made' = made
         /\ \A v \in Watchers \ {w} : scan'[v] = scan[v]
         /\ scan'[w].todo \subseteq scan[w].todo \/ StartScan(w)
<1>0. {"insert", "move", "upload", "record"} \subseteq Step \ {"idle"}
  BY DEF Step
<1>1. TypeOK /\ scan[w] \in Scan /\ scan[w].digest \in Content \cup {Unhashed}
  BY DEF TypeInv, TypeOK, Scan
<1>2. ASSUME scan[w].at # "idle"
      PROVE  /\ Current(w) \in Paths /\ Current(w) \in scan[w].todo
             /\ ~Gone(w) => FileContent(Current(w)) \in Content
  <2>1. Current(w) \in Paths /\ Current(w) \in scan[w].todo
    BY <1>1, <1>2, CurrentIsListed
  <2>2. mode \in {"folder", "sftp"} /\ file[Current(w)] \in Nat
    BY <1>1, <2>1, ModesAssumption, SizeAssumption DEF TypeOK, Size
  <2>3. ~Gone(w) => file[Current(w)] # 0
    BY <2>1, <2>2 DEF Gone, TypeInv, NoneIsLost
  <2> QED
    BY <1>1, <2>1, <2>3, ContentTyped
<1>3. ASSUME scan[w].at # "idle", Proceed(w)
      PROVE  /\ ScansTyped' /\ \A v \in Watchers \ {w} : scan'[v] = scan[v]
             /\ scan'[w].todo \subseteq scan[w].todo
  BY <1>1, <1>3, ProceedTyped, ProceedShape
<1>4. ASSUME NEW step \in Step \ {"idle"}, Go(w, step),
             scan[w].at \notin {"idle", "look", "hash"} \/ (step = "hash" /\ scan[w].at = "look")
      PROVE  /\ ScansTyped' /\ \A v \in Watchers \ {w} : scan'[v] = scan[v]
             /\ scan'[w].todo \subseteq scan[w].todo
  BY <1>1, <1>4, GoTyped, GoShape
<1>5. ASSUME scan' = [scan EXCEPT ![w] = Idle]
      PROVE  /\ ScansTyped' /\ \A v \in Watchers \ {w} : scan'[v] = scan[v]
             /\ scan'[w].todo \subseteq scan[w].todo
  BY <1>1, <1>5, IdleTyped DEF TypeOK
<1>6. CASE StartScan(w)
  BY <1>1, <1>6, StartTyped DEF StartScan
<1>7. CASE SkipProcessed(w) \/ MarkDuplicate(w) \/ Commit(w) \/ RecordQuarantine(w)
  BY <1>3, <1>7 DEF SkipProcessed, MarkDuplicate, Commit, RecordQuarantine
<1>8. CASE Observe(w)
  <2>1. Go(w, "hash") \/ Proceed(w)
    BY <1>8 DEF Observe
  <2> QED
    BY <1>3, <1>4, <1>8, <2>1 DEF Observe, Step
<1>9. CASE Hash(w)
  <2>1. CASE Proceed(w)
    BY <1>3, <1>9, <2>1 DEF Hash
  <2>2. CASE ~Proceed(w)
    <3>1. scan[w].at = "hash" /\ FileContent(Current(w)) \in Content
      BY <1>2, <1>9 DEF Hash
    <3>2. PICK digest \in Content : digest = FileContent(Current(w))
      BY <3>1
    <3>3. PICK step \in {"validate", "mark"} :
            scan' = [scan EXCEPT ![w].at = step, ![w].digest = digest]
      BY <1>9, <2>2, <3>2 DEF Hash
    <3>4. step \in Step \ {"idle"} /\ digest \in Content \cup {Unhashed} /\ scan[w].at # "idle"
      BY <3>1, <3>3 DEF Step
    <3>5. /\ scan' \in [Watchers -> Scan]
          /\ \A v \in Watchers \ {w} : scan'[v] = scan[v]
          /\ scan'[w].at = step /\ scan'[w].digest = digest
          /\ scan'[w].todo = scan[w].todo /\ scan[w].todo # {}
      BY <1>1, <3>3, <3>4, GoShape
    <3>6. ScansTyped'
      BY <1>1, <3>3, <3>4, <3>5, ScanTyped
    <3> QED
      BY <1>9, <3>5, <3>6 DEF Hash
  <2> QED
    BY <2>1, <2>2
<1>10. CASE Validate(w) \/ ProbeFails(w)
  <2>1. PICK step \in {"insert", "move"} : Go(w, step)
    BY <1>10 DEF Validate, ProbeFails
  <2>2. scan[w].at = "validate" /\ mode' = mode /\ made' = made
    BY <1>10 DEF Validate, ProbeFails
  <2>3. step \in Step \ {"idle"} /\ scan[w].at \notin {"idle", "look", "hash"}
    BY <1>0, <2>1, <2>2
  <2> QED
    BY <1>4, <2>1, <2>2, <2>3
<1>11. CASE Insert(w)
  <2>1. mode' = mode /\ made' = made /\ scan[w].at \notin {"idle", "look", "hash"}
    BY <1>11 DEF Insert
  <2>2. CASE Proceed(w)
    BY <1>3, <2>1, <2>2
  <2>3. ASSUME NEW step \in {"upload"}, Go(w, step)
        PROVE  /\ ScansTyped' /\ \A v \in Watchers \ {w} : scan'[v] = scan[v]
               /\ scan'[w].todo \subseteq scan[w].todo
    <3>1. step \in Step \ {"idle"}
      BY <1>0
    <3> QED
      BY <1>4, <2>1, <2>3, <3>1
  <2> QED
    BY <1>11, <2>1, <2>2, <2>3 DEF Insert
<1>12. CASE Move(w)
  <2>1. scan[w].at = "move" /\ mode' = mode /\ made' = made
    BY <1>12 DEF Move
  <2>2. PICK step \in {"record"} : Go(w, step)
    BY <1>12 DEF Move
  <2>3. step \in Step \ {"idle"} /\ scan[w].at \notin {"idle", "look", "hash"}
    BY <1>0, <2>1, <2>2
  <2> QED
    BY <1>4, <2>1, <2>2, <2>3
<1>13. CASE Abort(w) \/ Interrupt(w)
  BY <1>5, <1>13 DEF Abort, Interrupt
<1> QED
  BY <1>6, <1>7, <1>8, <1>9, <1>10, <1>11, <1>12, <1>13 DEF Watch

(* At first there is no recording and no scan.                             *)
LEMMA InitTypeInv == Init => TypeInv
<1> SUFFICES ASSUME Init PROVE TypeInv
  OBVIOUS
<1>1. 0 \in Size /\ Idle \in Scan /\ Idle.at = "idle" /\ Idle.todo = {}
  BY SizeAssumption DEF Idle, Scan, Step, Size
<1>2. file \in [Paths -> Size] /\ source \in [Paths -> SourceImport]
  BY <1>1 DEF Init, SourceImport, SourceStatus
<1>3. \A w \in Watchers : scan[w] = Idle
  BY DEF Init
<1> QED
  BY <1>1, <1>2, <1>3 DEF Init, TypeInv, TypeOK, NoneIsLost

(* What an observation makes of a row.                                     *)
LEMMA ObservedTyped ==
  ASSUME NEW row \in SourceImport, NEW size \in Size
  PROVE  Observed(row, size) \in SourceImport
BY DEF Observed, SourceImport, SourceStatus

(* What an import or a quarantine makes of it.                             *)
LEMMA ProcessedTyped ==
  ASSUME NEW row \in SourceImport, NEW content \in Content, NEW status \in SourceStatus
  PROVE  /\ ImportedRow(row, content) \in SourceImport
         /\ [row EXCEPT !.status = status, !.sha256 = content] \in SourceImport
<1>1. content.size \in Size
  BY SizeAssumption DEF Content, Size
<1>2. "imported" \in SourceStatus
  BY DEF SourceStatus
<1> QED
  BY <1>1, <1>2 DEF ImportedRow, SourceImport

(* The rest of a watcher's step.                                           *)
LEMMA WatchStores ==
  ASSUME TypeInv, NEW w \in Watchers, Watch(w) \/ ProbeFails(w) \/ Interrupt(w)
  PROVE  /\ file' \in [Paths -> Size] /\ source' \in [Paths -> SourceImport]
         /\ calls' \subseteq Call /\ spent' \in [Mishap -> Nat]
         /\ vault' \subseteq [path : Paths, content : Content]
         /\ mode = "sftp" => file' = file
<1> DEFINE p == Current(w)
<1>1. TypeOK /\ mode \in {"folder", "sftp"} /\ 0 \in Size
  BY ModesAssumption, SizeAssumption DEF TypeInv, TypeOK, Size
<1>2. /\ file \in [Paths -> Size] /\ source \in [Paths -> SourceImport]
      /\ calls \subseteq Call /\ spent \in [Mishap -> Nat]
      /\ vault \subseteq [path : Paths, content : Content]
  BY <1>1 DEF TypeOK
<1>3. ASSUME scan[w].at # "idle"
      PROVE  p \in Paths /\ SizeOf(w) \in Size
  <2>1. p \in Paths /\ scan[w] \in Scan
    BY <1>1, <1>3, CurrentIsListed DEF TypeOK
  <2> QED
    BY <1>2, <2>1 DEF SizeOf, Scan
<1>4. ASSUME scan[w].at \notin {"idle", "look", "hash"}
      PROVE  scan[w].digest \in Content /\ (~Gone(w) => Reads(w) \in Content)
  <2>1. scan[w].digest \in Content
    BY <1>1, <1>4 DEF TypeOK
  <2>2. CASE mode = "folder"
    BY <1>1, <1>3, <1>4, <2>1, <2>2, ContentTyped DEF Reads, Gone
  <2>3. CASE mode = "sftp"
    BY <2>1, <2>3 DEF Reads
  <2> QED
    BY <1>1, <2>1, <2>2, <2>3
<1>5. CASE UNCHANGED <<file, source, calls, vault, spent>>
  BY <1>2, <1>5
<1>6. CASE ProbeFails(w) \/ Interrupt(w)
  <2>1. "probe" \in Mishap /\ "interrupt" \in Mishap
    BY DEF Mishap
  <2>2. spent' \in [Mishap -> Nat]
    BY <1>2, <1>6, <2>1 DEF ProbeFails, Interrupt
  <2>3. UNCHANGED <<file, source, calls, vault>>
    BY <1>6 DEF ProbeFails, Interrupt
  <2> QED
    BY <1>2, <2>2, <2>3
<1>7. CASE Observe(w)
  <2>1. /\ source' = [source EXCEPT ![p] = Observed(source[p], SizeOf(w))]
        /\ UNCHANGED <<file, calls, vault, spent>> /\ scan[w].at # "idle"
    BY <1>7 DEF Observe
  <2>2. Observed(source[p], SizeOf(w)) \in SourceImport
    BY <1>2, <1>3, <2>1, ObservedTyped
  <2> QED
    BY <1>2, <2>1, <2>2
<1>8. CASE MarkDuplicate(w) \/ RecordQuarantine(w)
  <2>1. PICK status \in SourceStatus :
          source' = [source EXCEPT ![p].status = status, ![p].sha256 = scan[w].digest]
    BY <1>8 DEF MarkDuplicate, RecordQuarantine, SourceStatus
  <2>2. UNCHANGED <<file, calls, vault, spent>> /\ scan[w].at \notin {"idle", "look", "hash"}
    BY <1>8 DEF MarkDuplicate, RecordQuarantine
  <2>3. p \in Paths /\ source[p] \in SourceImport /\ scan[w].digest \in Content /\ 0 \in Size
    BY <1>1, <1>2, <1>3, <1>4, <2>2
  <2>4. PICK row : row = [source[p] EXCEPT !.status = status, !.sha256 = scan[w].digest]
    OBVIOUS
  <2>5. row \in SourceImport
    BY <2>3, <2>4, ProcessedTyped
  <2>6. source' = [source EXCEPT ![p] = row]
    BY <1>2, <2>1, <2>3, <2>4
  <2> QED
    BY <1>2, <2>2, <2>5, <2>6
<1>9. CASE Commit(w)
  <2>1. /\ scan[w].at \notin {"idle", "look", "hash"} /\ ~Gone(w)
        /\ UNCHANGED <<file, vault, spent>>
    BY <1>9 DEF Commit
  <2>2. /\ p \in Paths /\ scan[w].digest \in Content /\ Reads(w) \in Content
        /\ source[p] \in SourceImport /\ 0 \in Size
    BY <1>1, <1>2, <1>3, <1>4, <2>1
  <2>3. ExternalId(p, scan[w].digest) \in CallIds \cup Content
    BY <1>1, <2>2, ContentTyped
  <2>4. ImportedRow(source[p], scan[w].digest) \in SourceImport
    BY <2>2, ProcessedTyped DEF SourceStatus
  <2>5. [externalId |-> ExternalId(p, scan[w].digest), sourceHash |-> scan[w].digest,
         object |-> Reads(w)] \in Call
    BY <2>2, <2>3 DEF Call
  <2>6. source' \in [Paths -> SourceImport]
    BY <1>2, <1>9, <2>4 DEF Commit
  <2>7. calls' \subseteq Call
    BY <1>2, <1>9, <2>5 DEF Commit
  <2> QED
    BY <1>2, <2>1, <2>6, <2>7
<1>10. CASE Move(w)
  <2>1. /\ scan[w].at \notin {"idle", "look", "hash"} /\ ~Gone(w)
        /\ UNCHANGED <<source, calls, spent>>
        /\ vault' = vault \cup {[path |-> p, content |-> Reads(w)]}
        /\ file' = IF mode = "folder" THEN [file EXCEPT ![p] = 0] ELSE file
    BY <1>10 DEF Move
  <2>2. p \in Paths /\ Reads(w) \in Content
    BY <1>3, <1>4, <2>1
  <2> QED
    BY <1>1, <1>2, <2>1, <2>2
<1> QED
  BY <1>5, <1>6, <1>7, <1>8, <1>9, <1>10
  DEF Watch, StartScan, SkipProcessed, Hash, Validate, Insert, Abort

(* Every step keeps the types, and the files listed on a server.           *)
LEMMA NextTypeInv == TypeInv /\ [Next]_vars => TypeInv'
<1> SUFFICES ASSUME TypeInv, [Next]_vars PROVE TypeInv'
  OBVIOUS
<1>1. TypeOK /\ file \in [Paths -> Size] /\ source \in [Paths -> SourceImport]
  BY DEF TypeInv, TypeOK
<1>2. CASE \E w \in Watchers : Watch(w) \/ ProbeFails(w) \/ Interrupt(w)
  <2>1. PICK w \in Watchers : Watch(w) \/ ProbeFails(w) \/ Interrupt(w)
    BY <1>2
  <2>2. /\ ScansTyped' /\ mode' = mode /\ made' = made
        /\ \A v \in Watchers \ {w} : scan'[v] = scan[v]
        /\ scan'[w].todo \subseteq scan[w].todo \/ StartScan(w)
    BY <2>1, WatchTyped
  <2>3. /\ file' \in [Paths -> Size] /\ source' \in [Paths -> SourceImport]
        /\ calls' \subseteq Call /\ spent' \in [Mishap -> Nat]
        /\ vault' \subseteq [path : Paths, content : Content]
        /\ mode = "sftp" => file' = file
    BY <2>1, WatchStores
  <2>4. NoneIsLost'
    BY <1>1, <2>2, <2>3, StartTyped DEF TypeInv, NoneIsLost, StartScan
  <2> QED
    BY <1>1, <2>2, <2>3, <2>4 DEF TypeInv, TypeOK, ScansTyped
<1>3. CASE \E p \in Paths : Write(p)
  <2>1. PICK p \in Paths : Write(p)
    BY <1>3
  <2>2. PICK size \in file[p] + 1 .. FullSize : file' = [file EXCEPT ![p] = size]
    BY <2>1 DEF Write
  <2>3. size \in Size /\ size > 0
    BY <1>1, <2>2, SizeAssumption DEF Size
  <2>4. file' \in [Paths -> Size] /\ \A q \in Paths : file[q] > 0 => file'[q] > 0
    BY <1>1, <2>2, <2>3
  <2>5. UNCHANGED <<mode, made, source, calls, vault, scan, spent>>
    BY <2>1 DEF Write
  <2>6. \A w \in Watchers : scan[w].todo \subseteq Paths
    BY <1>1 DEF TypeOK, Scan
  <2> QED
    BY <1>1, <2>4, <2>5, <2>6 DEF TypeInv, TypeOK, NoneIsLost
<1>4. CASE \E p \in Paths : Age(p)
  <2>1. PICK p \in Paths : Age(p)
    BY <1>4
  <2>2. [source[p] EXCEPT !.aged = TRUE] \in SourceImport
    BY <1>1 DEF SourceImport
  <2>3. source' \in [Paths -> SourceImport]
    BY <1>1, <2>1, <2>2 DEF Age
  <2> QED
    BY <1>1, <2>1, <2>3 DEF Age, TypeInv, TypeOK, NoneIsLost
<1>5. CASE UNCHANGED vars
  BY <1>5 DEF vars, TypeInv, TypeOK, NoneIsLost
<1> QED
  BY <1>2, <1>3, <1>4, <1>5 DEF Next

(* What the watcher believes of paths, files and calls is well-formed: in  *)
(* particular a scan that hashes a file has a file to hash.                *)
THEOREM TypeCorrect == Spec => []TypeOK
<1>1. TypeInv => TypeOK
  BY DEF TypeInv
<1> QED
  BY <1>1, InitTypeInv, NextTypeInv, PTL DEF Spec

-----------------------------------------------------------------------------
(* A folder.                                                               *)

Vaulted(p) == \E v \in vault : v.path = p

(* Nothing will be written to p any more: the recording is complete, or it *)
(* is in the vault.                                                        *)
Final(p) == file[p] = FullSize \/ (file[p] = 0 /\ Vaulted(p))

(* A row whose window has passed is of a file that is final, or that has   *)
(* grown since it was observed; a row that is done with has the hash of    *)
(* the whole recording.                                                    *)
RowInFolder(p) ==
  /\ source[p].status # "unknown" /\ file[p] = 0 => Vaulted(p)
  /\ source[p].status = "observed" => source[p].seen <= file[p] \/ file[p] = 0
  /\ source[p].status = "observed" /\ source[p].aged =>
       Final(p) \/ source[p].seen < file[p]
  /\ Processed(source[p]) => Final(p) /\ source[p].sha256 = Whole(p)

(* A scan past the stability check is at a final file, and has hashed all  *)
(* of it.                                                                  *)
ScanInFolder(w) ==
  /\ scan[w].at # "mark"
  /\ \A p \in scan[w].todo : file[p] = 0 => Vaulted(p)
  /\ scan[w].at \notin {"idle", "look"} => Final(Current(w))
  /\ scan[w].at \notin {"idle", "look", "hash"} => scan[w].digest = Whole(Current(w))
  /\ scan[w].at = "move" /\ spent["probe"] = 0 =>
       file[Current(w)] = 0 \/ made[Current(w)].bytes \in Corrupt

CallOf(p) == [externalId |-> ExternalId(p, Whole(p)), sourceHash |-> Whole(p),
              object |-> Whole(p)]

CallsInFolder == \A c \in calls : \E p \in Paths : Processed(source[p]) /\ c = CallOf(p)

HashesDiffer ==
  \A p, q \in Paths : /\ Processed(source[p]) /\ Processed(source[q])
                      /\ source[p].sha256 = source[q].sha256
                      => p = q

FolderInv ==
  mode = "folder" =>
    /\ \A p \in Paths : RowInFolder(p)
    /\ \A w \in Watchers : ScanInFolder(w)
    /\ CallsInFolder /\ HashesDiffer
    /\ spent["probe"] = 0 => \A v \in vault : v.content.bytes \in Corrupt

(* Files grow, or go to the vault for good.                                *)
LEMMA FilesKept ==
  ASSUME TypeInv, mode = "folder", Next
  PROVE  /\ mode' = mode /\ made' = made
         /\ spent'["probe"] = 0 => spent["probe"] = 0
         /\ \A p \in Paths :
              /\ Vaulted(p) => Vaulted(p)'
              /\ Final(p) => Final(p)'
              /\ file[p] = 0 /\ Vaulted(p) => file'[p] = 0
              /\ file'[p] >= file[p] \/ (file'[p] = 0 /\ Vaulted(p)')
<1>1. TypeOK /\ file \in [Paths -> Size] /\ spent \in [Mishap -> Nat]
  BY DEF TypeInv, TypeOK
<1>2. ASSUME UNCHANGED <<file, vault>>
      PROVE  \A p \in Paths :
              /\ Vaulted(p) => Vaulted(p)'
              /\ Final(p) => Final(p)'
              /\ file[p] = 0 /\ Vaulted(p) => file'[p] = 0
              /\ file'[p] >= file[p]
  BY <1>1, <1>2, SizeAssumption DEF Vaulted, Final, Size
<1>3. CASE \E p \in Paths : Write(p)
  <2>1. PICK p \in Paths : Write(p)
    BY <1>3
  <2>2. UNCHANGED <<mode, made, vault, spent>> /\ (file[p] = 0 => ~Vaulted(p))
    BY <2>1 DEF Write, Vaulted
  <2>3. PICK size \in file[p] + 1 .. FullSize : file' = [file EXCEPT ![p] = size]
    BY <2>1 DEF Write
  <2>4. size > file[p] /\ size <= FullSize /\ file[p] \in Nat /\ size \in Nat
    BY <1>1, <2>3, SizeAssumption DEF Size
  <2>5. file'[p] = size /\ \A q \in Paths \ {p} : file'[q] = file[q] /\ file[q] \in Nat
    BY <1>1, <2>3, SizeAssumption DEF Size
  <2>6. \A q \in Paths : Vaulted(q)' <=> Vaulted(q)
    BY <2>2 DEF Vaulted
  <2>7. ~Final(p)
    BY <2>2, <2>4, SizeAssumption DEF Final
  <2>8. \A q \in Paths : Final(q) => Final(q)'
    BY <2>5, <2>6, <2>7 DEF Final
  <2> QED
    BY <2>2, <2>4, <2>5, <2>6, <2>8
<1>4. CASE \E p \in Paths : Age(p)
  BY <1>2, <1>4 DEF Age
<1>5. CASE \E w \in Watchers : Move(w)
  <2>1. PICK w \in Watchers : Move(w)
    BY <1>5
  <2>0. PICK p \in Paths : p = Current(w)
    BY <1>1, <2>1, CurrentIsListed DEF Move
  <2>2. /\ UNCHANGED <<mode, made, spent>>
        /\ vault' = vault \cup {[path |-> p, content |-> Reads(w)]}
        /\ file' = [file EXCEPT ![p] = 0]
    BY <2>0, <2>1 DEF Move
  <2>3. Vaulted(p)' /\ \A q \in Paths : Vaulted(q) => Vaulted(q)'
    <3>1. PICK v : v = [path |-> p, content |-> Reads(w)]
      OBVIOUS
    <3>2. v.path = p /\ vault' = vault \cup {v}
      BY <2>2, <3>1
    <3> QED
      BY <3>2 DEF Vaulted
  <2>4. file'[p] = 0 /\ \A q \in Paths \ {p} : file'[q] = file[q] /\ file[q] \in Nat
    BY <1>1, <2>2, SizeAssumption DEF Size
  <2>5. \A q \in Paths : Final(q) => Final(q)'
    BY <2>3, <2>4 DEF Final
  <2>6. \A q \in Paths : file'[q] >= file[q] \/ (file'[q] = 0 /\ Vaulted(q)')
    BY <2>3, <2>4
  <2>7. \A q \in Paths : file[q] = 0 => file'[q] = 0
    BY <2>4
  <2> QED
    BY <2>2, <2>3, <2>5, <2>6, <2>7
<1>6. CASE \E w \in Watchers : (Watch(w) /\ ~Move(w)) \/ ProbeFails(w) \/ Interrupt(w)
  <2>1. PICK w \in Watchers : (Watch(w) /\ ~Move(w)) \/ ProbeFails(w) \/ Interrupt(w)
    BY <1>6
  <2>2. UNCHANGED <<file, vault, mode, made>>
    BY <2>1 DEF Watch, StartScan, SkipProcessed, Observe, Hash, MarkDuplicate, Validate,
                Insert, Commit, RecordQuarantine, Abort, ProbeFails, Interrupt
  <2>3. spent'["probe"] = 0 => spent["probe"] = 0
    <3>1. CASE spent' = spent
      BY <3>1
    <3>2. CASE ProbeFails(w) \/ Interrupt(w)
      BY <1>1, <3>2 DEF ProbeFails, Interrupt, Mishap
    <3> QED
      BY <2>1, <3>1, <3>2
      DEF Watch, StartScan, SkipProcessed, Observe, Hash, MarkDuplicate, Validate,
          Insert, Commit, RecordQuarantine, Abort
  <2> QED
    BY <1>2, <2>2, <2>3
<1> QED
  BY <1>3, <1>4, <1>5, <1>6 DEF Next

(* A row that nobody writes.                                               *)
LEMMA RowKept ==
  ASSUME TypeInv, mode = "folder", Next, NEW p \in Paths, RowInFolder(p),
         source'[p] = source[p]
  PROVE  RowInFolder(p)'
<1>1. /\ file[p] \in Nat /\ file'[p] \in Nat /\ source[p].seen \in Nat
      /\ made' = made
  BY FilesKept, NextTypeInv, SizeAssumption DEF TypeInv, TypeOK, Size, SourceImport
<1>2. /\ Vaulted(p) => Vaulted(p)'
      /\ Final(p) => Final(p)'
      /\ file'[p] >= file[p] \/ (file'[p] = 0 /\ Vaulted(p)')
  BY FilesKept
<1>3. Whole(p)' = Whole(p)
  BY <1>1 DEF Whole
<1>4. ASSUME source[p].status # "unknown"
      PROVE  /\ file'[p] = 0 => Vaulted(p)'
             /\ file'[p] = 0 => Final(p)'
  BY <1>1, <1>2, <1>4 DEF RowInFolder, Final
<1>5. ASSUME source[p].status = "observed"
      PROVE  /\ source[p].seen <= file'[p] \/ file'[p] = 0
             /\ source[p].aged => Final(p)' \/ source[p].seen < file'[p]
  <2>1. source[p].seen <= file[p] \/ (file[p] = 0 /\ Vaulted(p))
    BY <1>5 DEF RowInFolder
  <2>2. file[p] = 0 /\ Vaulted(p) => file'[p] = 0
    BY FilesKept
  <2>3. source[p].seen <= file'[p] \/ file'[p] = 0
    BY <1>1, <1>2, <2>1, <2>2
  <2>4. ASSUME source[p].aged PROVE Final(p)' \/ source[p].seen < file'[p]
    <3>1. Final(p) \/ source[p].seen < file[p]
      BY <1>5, <2>4 DEF RowInFolder
    <3>2. file'[p] = 0 => Final(p)'
      BY <1>4, <1>5
    <3> QED
      BY <1>1, <1>2, <3>1, <3>2
  <2> QED
    BY <2>3, <2>4
<1>6. Processed(source[p]) => Final(p)' /\ source[p].sha256 = Whole(p)
  BY <1>2 DEF RowInFolder
<1> QED
  BY <1>3, <1>4, <1>5, <1>6 DEF RowInFolder

(* A row that is done with: what a path was taken for stays known.         *)
LEMMA RowTaken ==
  ASSUME TypeInv, FolderInv, mode = "folder", Next, NEW p \in Paths, Final(p),
         Unclaimed(p, Whole(p)), NEW row, source' = [source EXCEPT ![p] = row],
         Processed(row), row.sha256 = Whole(p)
  PROVE  /\ \A q \in Paths : RowInFolder(q)'
         /\ \A q \in Paths : Processed(source[q]) => Processed(source'[q])
         /\ HashesDiffer'
<1>1. source'[p] = row /\ \A q \in Paths \ {p} : source'[q] = source[q]
  BY DEF TypeInv, TypeOK
<1>2. \A q \in Paths \ {p} : RowInFolder(q)'
  BY <1>1, RowKept DEF FolderInv
<1>3. RowInFolder(p)'
  <2>1. Final(p)' /\ Whole(p)' = Whole(p)
    BY FilesKept DEF Whole
  <2>2. file'[p] = 0 => Vaulted(p)'
    BY <2>1, SizeAssumption DEF Final
  <2>3. source'[p].status # "observed"
    BY <1>1 DEF Processed
  <2> QED
    BY <1>1, <2>1, <2>2, <2>3 DEF RowInFolder
<1>4. HashesDiffer'
  BY <1>1 DEF FolderInv, HashesDiffer, Unclaimed
<1> QED
  BY <1>1, <1>2, <1>3, <1>4

(* The other rows are kept too.                                            *)
LEMMA RowsKept ==
  ASSUME TypeInv, FolderInv, mode = "folder", Next, source' = source
  PROVE  /\ \A q \in Paths : RowInFolder(q)'
         /\ \A q \in Paths : Processed(source[q]) => Processed(source'[q])
         /\ HashesDiffer'
<1>1. HashesDiffer'
  BY DEF FolderInv, HashesDiffer
<1> QED
  BY <1>1, RowKept DEF FolderInv

(* A file of a scan stays what it is.                                      *)
LEMMA FileKept ==
  ASSUME TypeInv, mode = "folder", Next, NEW p \in Paths, Final(p)
  PROVE  /\ Final(p)' /\ Whole(p)' = Whole(p)
         /\ file[p] = 0 => file'[p] = 0
<1>1. mode' = mode /\ made' = made /\ Final(p)' /\ (file[p] = 0 /\ Vaulted(p) => file'[p] = 0)
  BY FilesKept
<1> QED
  BY <1>1, SizeAssumption DEF Final, Whole

(* The list of a scan, without what is done.                               *)
LEMMA ListKept ==
  ASSUME TypeInv, mode = "folder", Next, NEW w \in Watchers, NEW S \in SUBSET Paths,
         \A p \in S : file[p] = 0 => Vaulted(p)
  PROVE  \A p \in S : file'[p] = 0 => Vaulted(p)'
<1>1. \A p \in Paths : file[p] \in Nat
  BY SizeAssumption DEF TypeInv, TypeOK, Size
<1> QED
  BY <1>1, FilesKept

(* A scan that does not move.                                              *)
LEMMA ScanKept ==
  ASSUME TypeInv, mode = "folder", Next, NEW w \in Watchers, ScanInFolder(w),
         scan'[w] = scan[w]
  PROVE  ScanInFolder(w)'
<1>1. TypeOK /\ scan[w].todo \in SUBSET Paths /\ Current(w)' = Current(w)
  BY CurrentStays DEF TypeInv, TypeOK, Scan
<1>2. \A p \in scan[w].todo : file'[p] = 0 => Vaulted(p)'
  BY <1>1, ListKept DEF ScanInFolder
<1>3. spent'["probe"] = 0 => spent["probe"] = 0
  BY FilesKept
<1>4. CASE scan[w].at \notin {"idle", "look"}
  <2>1. PICK p \in Paths : p = Current(w)
    BY <1>1, <1>4, CurrentIsListed
  <2>2. Final(p)' /\ Whole(p)' = Whole(p) /\ (file[p] = 0 => file'[p] = 0) /\ made' = made
    BY <1>4, <2>1, FileKept, FilesKept DEF ScanInFolder
  <2>3. Final(Current(w))' /\ Whole(Current(w))' = Whole(Current(w))
    BY <1>1, <2>1, <2>2 DEF Final, Vaulted, Whole
  <2> QED
    BY <1>1, <1>2, <1>3, <1>4, <2>1, <2>2, <2>3 DEF ScanInFolder
<1>5. CASE scan[w].at \in {"idle", "look"}
  BY <1>2, <1>5 DEF ScanInFolder
<1> QED
  BY <1>4, <1>5

(* A scan that turns to its next file.                                     *)
LEMMA ScanProceeds ==
  ASSUME TypeInv, mode = "folder", Next, NEW w \in Watchers, ScanInFolder(w),
         scan'[w].at \in {"idle", "look"}, scan'[w].todo \subseteq scan[w].todo
  PROVE  ScanInFolder(w)'
<1>1. scan[w].todo \in SUBSET Paths
  BY DEF TypeInv, TypeOK, Scan
<1>2. \A p \in scan[w].todo : file'[p] = 0 => Vaulted(p)'
  BY <1>1, ListKept DEF ScanInFolder
<1> QED
  BY <1>2 DEF ScanInFolder

(* A scan that goes on with its file.                                      *)
LEMMA ScanGoes ==
  ASSUME TypeInv, mode = "folder", Next, NEW w \in Watchers, ScanInFolder(w),
         NEW p \in Paths, p = Current(w), Final(p), scan'[w].todo = scan[w].todo,
         scan'[w].at # "mark",
         scan'[w].at \notin {"idle", "look", "hash"} => scan'[w].digest = Whole(p),
         scan'[w].at = "move" /\ spent'["probe"] = 0 =>
           file[p] = 0 \/ made[p].bytes \in Corrupt
  PROVE  ScanInFolder(w)'
<1>1. scan[w].todo \in SUBSET Paths /\ Current(w)' = p
  BY CurrentStays DEF TypeInv, TypeOK, Scan
<1>2. \A q \in scan[w].todo : file'[q] = 0 => Vaulted(q)'
  BY <1>1, ListKept DEF ScanInFolder
<1>3. /\ Final(p)' /\ Whole(p)' = Whole(p) /\ (file[p] = 0 => file'[p] = 0)
      /\ made' = made
  BY FileKept, FilesKept
<1>4. Final(Current(w))' /\ Whole(Current(w))' = Whole(p)
  BY <1>1, <1>3 DEF Final, Vaulted, Whole
<1> QED
  BY <1>1, <1>2, <1>3, <1>4 DEF ScanInFolder

(* What the scans of the other watchers, and the calls, make of a step.    *)
LEMMA FolderStep ==
  ASSUME TypeInv, FolderInv, mode = "folder", Next, NEW w \in Watchers,
         \A v \in Watchers \ {w} : scan'[v] = scan[v],
         ScanInFolder(w)',
         \A q \in Paths : RowInFolder(q)', HashesDiffer',
         \A q \in Paths : Processed(source[q]) => Processed(source'[q]),
         calls' = calls \/ \E p \in Paths : /\ calls' = calls \cup {CallOf(p)}
                                            /\ Processed(source'[p]),
         vault' = vault \/ \E v : /\ vault' = vault \cup {v}
                                  /\ spent["probe"] = 0 => v.content.bytes \in Corrupt
  PROVE  FolderInv'
<1>1. \A v \in Watchers : ScanInFolder(v)'
  BY ScanKept DEF FolderInv
<1>2. made' = made /\ (spent'["probe"] = 0 => spent["probe"] = 0)
  BY FilesKept
<1>3. \A p \in Paths : CallOf(p)' = CallOf(p)
  BY <1>2 DEF CallOf, Whole, ExternalId
<1>4. CallsInFolder'
  <2>1. \A c \in calls : \E p \in Paths : Processed(source'[p]) /\ c = CallOf(p)
    BY DEF FolderInv, CallsInFolder
  <2>2. \A c \in calls' : \E p \in Paths : Processed(source'[p]) /\ c = CallOf(p)
    BY <2>1
  <2> QED
    BY <1>3, <2>2 DEF CallsInFolder, Processed
<1>5. spent'["probe"] = 0 => \A v \in vault' : v.content.bytes \in Corrupt
  BY <1>2 DEF FolderInv
<1> QED
  BY <1>1, <1>4, <1>5 DEF FolderInv

(* The content of a final file that is still there is the whole of it.     *)
LEMMA ReadsWhole ==
  ASSUME TypeInv, mode = "folder", NEW w \in Watchers, NEW p \in Paths, p = Current(w),
         Final(p), ~Gone(w)
  PROVE  file[p] = FullSize /\ FileContent(p) = Whole(p) /\ Reads(w) = Whole(p)
BY DEF Final, Gone, FileContent, Whole, Reads

(* The step of a watcher in a folder.                                      *)
LEMMA WatchFolder ==
  ASSUME TypeInv, FolderInv, mode = "folder", NEW w \in Watchers,
         Watch(w) \/ ProbeFails(w) \/ Interrupt(w)
  PROVE  FolderInv'
<1>1. TypeOK /\ Next /\ ScanInFolder(w) /\ scan[w].todo \subseteq Paths
  BY DEF TypeInv, TypeOK, Scan, Next, FolderInv
<1>2. \A v \in Watchers \ {w} : scan'[v] = scan[v]
  BY WatchTyped
<1>3. ASSUME source' = source, calls' = calls, vault' = vault, ScanInFolder(w)'
      PROVE  FolderInv'
  BY <1>1, <1>2, <1>3, RowsKept, FolderStep
<1>4. ASSUME scan[w].at # "idle", Proceed(w)
      PROVE  ScanInFolder(w)'
  BY <1>1, <1>4, ProceedShape, ScanProceeds
<1>5. ASSUME scan' = [scan EXCEPT ![w] = Idle]
      PROVE  ScanInFolder(w)'
  <2>1. scan'[w].at = "idle" /\ scan'[w].todo = {}
    BY <1>1, <1>5, IdleTyped
  <2> QED
    BY <1>1, <2>1, ScanProceeds
<1>6. ASSUME scan[w].at # "idle"
      PROVE  \E p \in Paths : p = Current(w)
  BY <1>1, <1>6, CurrentIsListed
<1>7. CASE StartScan(w)
  <2>1. /\ scan'[w].at = "look" /\ scan'[w].todo = {p \in Paths : file[p] > 0}
        /\ UNCHANGED <<source, calls, vault, file>>
    BY <1>1, <1>7, StartTyped DEF StartScan
  <2>2. ScanInFolder(w)'
    BY <2>1 DEF ScanInFolder
  <2> QED
    BY <1>3, <2>1, <2>2
<1>8. CASE SkipProcessed(w) \/ MarkDuplicate(w)
  BY <1>1, <1>8 DEF SkipProcessed, MarkDuplicate, ScanInFolder
<1>9. CASE Abort(w) \/ Interrupt(w)
  BY <1>3, <1>5, <1>9 DEF Abort, Interrupt
<1>10. CASE Hash(w)
  <2>1. PICK p \in Paths : p = Current(w) /\ scan[w].at = "hash"
    BY <1>6, <1>10 DEF Hash
  <2>2. Final(p) /\ FileContent(p) = Whole(p) /\ Whole(p) \in Content
    <3>1. Final(p) /\ ~Gone(w)
      BY <1>1, <1>10, <2>1 DEF Hash, ScanInFolder
    <3>2. FileContent(p) = Whole(p) /\ file[p] # 0
      BY <2>1, <3>1, ReadsWhole, SizeAssumption
    <3> QED
      BY <1>1, <3>1, <3>2, ContentTyped
  <2>3. CASE Proceed(w)
    BY <1>3, <1>4, <1>10, <2>3 DEF Hash
  <2>4. CASE ~Proceed(w)
    <3>1. PICK digest \in Content : digest = Whole(p)
      BY <2>2
    <3>2. scan' = [scan EXCEPT ![w].at = "validate", ![w].digest = digest]
      BY <1>10, <2>1, <2>2, <2>4, <3>1 DEF Hash
    <3>3. /\ scan'[w].at = "validate" /\ scan'[w].digest = digest
          /\ scan'[w].todo = scan[w].todo
      BY <1>1, <3>2 DEF TypeOK, Scan
    <3>6. ScanInFolder(w)'
      <4>1. scan'[w].at # "mark" /\ scan'[w].at # "move"
        BY <3>3
      <4> QED
        BY <1>1, <2>1, <2>2, <3>1, <3>3, <4>1, ScanGoes
    <3> QED
      BY <1>3, <1>10, <3>6 DEF Hash
  <2> QED
    BY <2>3, <2>4
<1>11. ASSUME NEW p \in Paths, p = Current(w), Final(p), scan[w].at # "idle",
              scan[w].at \notin {"look", "hash"} => scan[w].digest = Whole(p),
              NEW step \in Step \ {"idle", "mark"}, Go(w, step),
              step \in {"look", "hash"} \/ scan[w].at \notin {"look", "hash"},
              step = "move" /\ spent'["probe"] = 0 =>
                file[p] = 0 \/ made[p].bytes \in Corrupt
       PROVE  ScanInFolder(w)'
  <2>1. scan[w].digest \in Content \cup {Unhashed}
    BY <1>1 DEF TypeOK, Scan
  <2>2. /\ scan'[w].at = step /\ scan'[w].digest = scan[w].digest
        /\ scan'[w].todo = scan[w].todo
    BY <1>1, <1>11, <2>1, GoShape
  <2> QED
    BY <1>1, <1>11, <2>2, ScanGoes
<1>12. {"hash", "insert", "move", "upload", "record"} \subseteq Step \ {"idle", "mark"}
  BY DEF Step
<1>13. CASE Observe(w)
  <2>1. PICK p \in Paths : p = Current(w) /\ scan[w].at = "look"
    BY <1>6, <1>13 DEF Observe
  <2>2. /\ file[p] # 0 /\ SizeOf(w) = file[p]
        /\ source' = [source EXCEPT ![p] = Observed(source[p], file[p])]
        /\ UNCHANGED <<calls, vault, file>>
    BY <1>13, <2>1 DEF Observe, Gone, SizeOf
  <2>3. source'[p] = Observed(source[p], file[p]) /\ \A q \in Paths \ {p} : source'[q] = source[q]
    BY <1>1, <2>2 DEF TypeOK
  <2>4. RowInFolder(p)'
    <3>1. CASE source'[p] = source[p]
      BY <1>1, <3>1, RowKept DEF FolderInv
    <3>2. CASE source'[p] # source[p]
      <4>1. /\ source'[p].status = "observed" /\ source'[p].seen = file[p]
            /\ ~source'[p].aged
        BY <1>1, <2>3, <3>2 DEF Observed, TypeOK, SourceImport
      <4>2. file'[p] = file[p] /\ file[p] \in Nat
        BY <1>1, <2>2, SizeAssumption DEF TypeOK, Size
      <4> QED
        BY <2>2, <4>1, <4>2 DEF RowInFolder, Processed
    <3> QED
      BY <3>1, <3>2
  <2>5. \A q \in Paths : RowInFolder(q)'
    BY <1>1, <2>3, <2>4, RowKept DEF FolderInv
  <2>6. \A q \in Paths : /\ Processed(source'[q]) <=> Processed(source[q])
                         /\ Processed(source[q]) => source'[q] = source[q]
    <3>1. Processed(source[p]) => source'[p] = source[p]
      BY <2>3 DEF Observed
    <3>2. ~Processed(source[p]) => ~Processed(source'[p])
      BY <1>1, <2>3 DEF Observed, Processed, TypeOK, SourceImport
    <3> QED
      BY <2>3, <3>1, <3>2
  <2>7. HashesDiffer'
    BY <2>6 DEF FolderInv, HashesDiffer
  <2>8. ScanInFolder(w)'
    <3>1. CASE Proceed(w)
      BY <1>4, <2>1, <3>1
    <3>2. CASE ~Proceed(w)
      <4>1. Stable(source[p], file[p]) /\ \E step \in {"hash"} : Go(w, step)
        BY <1>13, <2>1, <2>2, <3>2 DEF Observe
      <4>2. Final(p)
        <5>1. RowInFolder(p) /\ source[p].seen \in Nat /\ file[p] \in Nat
          BY <1>1, SizeAssumption DEF FolderInv, TypeOK, SourceImport, Size
        <5> QED
          BY <4>1, <5>1 DEF RowInFolder, Stable
      <4> QED
        BY <1>11, <1>12, <2>1, <4>1, <4>2
    <3> QED
      BY <3>1, <3>2
  <2> QED
    BY <1>1, <1>2, <2>2, <2>5, <2>6, <2>7, <2>8, FolderStep
<1>14. ASSUME scan[w].at \notin {"idle", "look", "hash"}
       PROVE  \E p \in Paths : p = Current(w) /\ Final(p) /\ scan[w].digest = Whole(p)
  BY <1>1, <1>6, <1>14 DEF ScanInFolder
<1>15. CASE Validate(w) \/ ProbeFails(w)
  <2>1. scan[w].at = "validate" /\ UNCHANGED <<source, calls, vault>>
    BY <1>15 DEF Validate, ProbeFails
  <2>2. PICK p \in Paths : p = Current(w) /\ Final(p) /\ scan[w].digest = Whole(p)
    BY <1>14, <2>1
  <2>3. PICK step \in {"insert", "move"} : Go(w, step)
    BY <1>15 DEF Validate, ProbeFails
  <2>4. ASSUME step = "move", spent'["probe"] = 0
        PROVE  file[p] = 0 \/ made[p].bytes \in Corrupt
    <3>1. CASE ProbeFails(w)
      BY <1>1, <2>4, <3>1 DEF ProbeFails, TypeOK, Mishap
    <3>2. CASE Validate(w)
      <4>1. PICK valid \in Verdict(FileContent(p)) : Go(w, IF valid THEN "insert" ELSE "move")
        BY <2>2, <3>2 DEF Validate, Reads
      <4>2. ~valid
        BY <1>1, <2>1, <2>3, <2>4, <4>1 DEF Go, TypeOK, Scan
      <4>3. FileContent(p).size = file[p] /\ FileContent(p).bytes = made[p].bytes
        BY <1>1, ContentTyped
      <4>4. FullSize # 0 /\ ~(FullSize < FullSize)
        BY SizeAssumption
      <4>5. CASE file[p] = FullSize
        <5>1. Verdict(FileContent(p)) = {made[p].bytes \notin Corrupt}
          BY <4>3, <4>4, <4>5 DEF Verdict
        <5>2. valid = (made[p].bytes \notin Corrupt)
          BY <4>1, <5>1
        <5> QED
          BY <4>2, <5>2, Zenon
      <4> QED
        BY <2>2, <4>5 DEF Final
    <3> QED
      BY <1>15, <3>1, <3>2
  <2> QED
    BY <1>3, <1>11, <1>12, <2>1, <2>2, <2>3, <2>4
<1>16. CASE Insert(w)
  <2>1. scan[w].at = "insert" /\ UNCHANGED <<source, calls, vault>>
    BY <1>16 DEF Insert
  <2>2. PICK p \in Paths : p = Current(w) /\ Final(p) /\ scan[w].digest = Whole(p)
    BY <1>14, <2>1
  <2>3. Proceed(w) \/ \E step \in {"upload"} : Go(w, step)
    BY <1>16 DEF Insert
  <2> QED
    BY <1>3, <1>4, <1>11, <1>12, <2>1, <2>2, <2>3
<1>17. CASE Commit(w)
  <2>1. scan[w].at = "upload" /\ ~Gone(w) /\ UNCHANGED <<file, vault>> /\ Proceed(w)
    BY <1>17 DEF Commit
  <2>2. PICK p \in Paths : p = Current(w) /\ Final(p) /\ scan[w].digest = Whole(p)
    BY <1>14, <2>1
  <2>3. Reads(w) = Whole(p) /\ ScanInFolder(w)'
    BY <1>4, <2>1, <2>2, ReadsWhole
  <2>4. CASE Unclaimed(p, Whole(p))
    <3>1. /\ calls' = calls \cup {CallOf(p)}
          /\ source' = [source EXCEPT ![p] = ImportedRow(source[p], Whole(p))]
      BY <1>17, <2>2, <2>3, <2>4 DEF Commit, CallOf
    <3>2. PICK row : row = ImportedRow(source[p], Whole(p))
      OBVIOUS
    <3>3. Processed(row) /\ row.sha256 = Whole(p)
      BY <1>1, <3>2 DEF ImportedRow, Processed, TypeOK, SourceImport
    <3>4. /\ \A q \in Paths : RowInFolder(q)' /\ HashesDiffer'
          /\ \A q \in Paths : Processed(source[q]) => Processed(source'[q])
      BY <1>1, <2>2, <2>4, <3>1, <3>2, <3>3, RowTaken
    <3>5. Processed(source'[p])
      BY <1>1, <3>1, <3>2, <3>3 DEF TypeOK
    <3> QED
      BY <1>1, <1>2, <2>1, <2>3, <3>1, <3>4, <3>5, FolderStep
  <2>5. CASE ~Unclaimed(p, Whole(p))
    BY <1>3, <1>17, <2>1, <2>2, <2>3, <2>5 DEF Commit
  <2> QED
    BY <2>4, <2>5
<1>18. CASE Move(w)
  <2>1. scan[w].at = "move" /\ ~Gone(w) /\ UNCHANGED <<source, calls, spent>>
    BY <1>18 DEF Move
  <2>2. PICK p \in Paths : p = Current(w) /\ Final(p) /\ scan[w].digest = Whole(p)
    BY <1>14, <2>1
  <2>3. Reads(w) = Whole(p) /\ file[p] = FullSize
    BY <2>1, <2>2, ReadsWhole
  <2>4. PICK v : v = [path |-> p, content |-> Whole(p)]
    OBVIOUS
  <2>5. vault' = vault \cup {v} /\ v.content.bytes = made[p].bytes
    BY <1>18, <2>2, <2>3, <2>4 DEF Move, Whole
  <2>6. spent["probe"] = 0 => made[p].bytes \in Corrupt
    BY <1>1, <2>1, <2>2, <2>3, SizeAssumption DEF ScanInFolder
  <2>7. \E step \in {"record"} : Go(w, step)
    BY <1>18 DEF Move
  <2>8. ScanInFolder(w)'
    BY <1>11, <1>12, <2>1, <2>2, <2>7
  <2> QED
    BY <1>1, <1>2, <2>1, <2>5, <2>6, <2>8, RowsKept, FolderStep
<1>19. CASE RecordQuarantine(w)
  <2>1. scan[w].at = "record" /\ UNCHANGED <<file, calls, vault>> /\ Proceed(w)
    BY <1>19 DEF RecordQuarantine
  <2>2. PICK p \in Paths : p = Current(w) /\ Final(p) /\ scan[w].digest = Whole(p)
    BY <1>14, <2>1
  <2>3. /\ Unclaimed(p, Whole(p))
        /\ source' = [source EXCEPT ![p].status = "quarantined", ![p].sha256 = Whole(p)]
    BY <1>19, <2>2 DEF RecordQuarantine
  <2>4. PICK row : row = [source[p] EXCEPT !.status = "quarantined", !.sha256 = Whole(p)]
    OBVIOUS
  <2>5. /\ Processed(row) /\ row.sha256 = Whole(p)
        /\ source' = [source EXCEPT ![p] = row]
    BY <1>1, <2>3, <2>4 DEF Processed, TypeOK, SourceImport
  <2>6. /\ \A q \in Paths : RowInFolder(q)' /\ HashesDiffer'
        /\ \A q \in Paths : Processed(source[q]) => Processed(source'[q])
    BY <1>1, <2>2, <2>3, <2>5, RowTaken
  <2>7. ScanInFolder(w)'
    BY <1>4, <2>1
  <2> QED
    BY <1>1, <1>2, <2>1, <2>6, <2>7, FolderStep
<1> QED
  BY <1>7, <1>8, <1>9, <1>10, <1>13, <1>15, <1>16, <1>17, <1>18, <1>19 DEF Watch

(* At first nothing is known of any path.                                  *)
LEMMA InitFolder == Init => FolderInv
BY DEF Init, FolderInv, RowInFolder, ScanInFolder, CallsInFolder, HashesDiffer, Idle,
       Processed

(* No step changes the import mode.                                        *)
LEMMA ModeKept == TypeInv /\ [Next]_vars => mode' = mode
<1> SUFFICES ASSUME TypeInv, [Next]_vars PROVE mode' = mode
  OBVIOUS
<1>1. CASE \E w \in Watchers : Watch(w) \/ ProbeFails(w) \/ Interrupt(w)
  BY <1>1, WatchTyped
<1> QED
  BY <1>1 DEF Next, Write, Age, vars

(* Every step keeps the invariant.                                         *)
LEMMA NextFolder == TypeInv /\ FolderInv /\ [Next]_vars => FolderInv'
<1> SUFFICES ASSUME TypeInv, FolderInv, [Next]_vars PROVE FolderInv'
  OBVIOUS
<1>1. CASE mode # "folder"
  BY <1>1, ModeKept DEF FolderInv
<1>2. CASE UNCHANGED vars
  <2>1. /\ \A p \in Paths : RowInFolder(p)' <=> RowInFolder(p)
        /\ \A w \in Watchers : ScanInFolder(w)' <=> ScanInFolder(w)
    BY <1>2 DEF vars, RowInFolder, ScanInFolder, Vaulted, Final, Whole, Current, Processed
  <2>2. (CallsInFolder' <=> CallsInFolder) /\ (HashesDiffer' <=> HashesDiffer)
    BY <1>2 DEF vars, CallsInFolder, HashesDiffer, Processed, CallOf, Whole, ExternalId
  <2> QED
    BY <1>2, <2>1, <2>2 DEF vars, FolderInv
<1>3. CASE mode = "folder" /\ \E w \in Watchers : Watch(w) \/ ProbeFails(w) \/ Interrupt(w)
  BY <1>3, WatchFolder
<1>4. CASE mode = "folder" /\ \E p \in Paths : Write(p) \/ Age(p)
  <2>1. PICK p \in Paths : Write(p) \/ Age(p)
    BY <1>4
  <2>2. Next /\ UNCHANGED <<mode, made, calls, vault, scan, spent>>
    BY <2>1 DEF Next, Write, Age
  <2>3. \A w \in Watchers : ScanInFolder(w)'
    BY <1>4, <2>2, ScanKept DEF FolderInv
  <2>4. CASE Write(p)
    <3>1. source' = source
      BY <2>4 DEF Write
    <3>2. \A q \in Paths : RowInFolder(q)'
      BY <1>4, <2>2, <3>1, RowKept DEF FolderInv
    <3>3. CallsInFolder' /\ HashesDiffer'
      BY <1>4, <2>2, <3>1
      DEF FolderInv, CallsInFolder, HashesDiffer, Processed, CallOf, Whole, ExternalId
    <3> QED
      BY <1>4, <2>2, <2>3, <3>2, <3>3 DEF FolderInv
  <2>5. CASE Age(p)
    <3>1. /\ file' = file /\ source \in [Paths -> SourceImport]
          /\ source[p].status = "observed" /\ (file[p] = FullSize \/ source[p].seen # file[p])
          /\ source' = [source EXCEPT ![p].aged = TRUE]
      BY <2>5 DEF Age, TypeInv, TypeOK
    <3>2. /\ source'[p].status = "observed" /\ source'[p].seen = source[p].seen
          /\ source'[p].sha256 = source[p].sha256
          /\ \A q \in Paths \ {p} : source'[q] = source[q]
      BY <3>1 DEF SourceImport
    <3>3. RowInFolder(p)'
      <4>1. /\ RowInFolder(p) /\ file[p] \in Nat /\ source[p].seen \in Nat
        BY <1>4, <3>1, SizeAssumption DEF FolderInv, TypeInv, TypeOK, SourceImport, Size
      <4>2. /\ source[p].seen <= file[p] \/ file[p] = 0
            /\ file[p] = 0 => Vaulted(p)
        BY <3>1, <4>1 DEF RowInFolder
      <4>3. Final(p) \/ source[p].seen < file[p]
        BY <3>1, <4>1, <4>2 DEF Final
      <4>4. (Final(p)' <=> Final(p)) /\ (Vaulted(p)' <=> Vaulted(p))
        BY <2>2, <3>1 DEF Final, Vaulted
      <4>5. ~Processed(source'[p])
        BY <3>2 DEF Processed
      <4>6. /\ file'[p] = 0 => Vaulted(p)'
            /\ source'[p].seen <= file'[p] \/ file'[p] = 0
            /\ Final(p)' \/ source'[p].seen < file'[p]
        BY <3>1, <3>2, <4>2, <4>3, <4>4
      <4> QED
        BY <4>5, <4>6 DEF RowInFolder, Processed
    <3>4. \A q \in Paths : RowInFolder(q)'
      BY <1>4, <2>2, <3>2, <3>3, RowKept DEF FolderInv
    <3>5. \A q \in Paths : /\ Processed(source'[q]) <=> Processed(source[q])
                           /\ source'[q].sha256 = source[q].sha256
      BY <3>1, <3>2 DEF Processed
    <3>6. CallsInFolder' /\ HashesDiffer'
      <4>1. \A q \in Paths : CallOf(q)' = CallOf(q)
        BY <2>2 DEF CallOf, Whole, ExternalId
      <4>2. \A q \in Paths : Processed(source[q])' <=> Processed(source[q])
        BY <3>5 DEF Processed
      <4> QED
        BY <1>4, <2>2, <3>5, <4>1, <4>2 DEF FolderInv, CallsInFolder, HashesDiffer
    <3> QED
      BY <1>4, <2>2, <2>3, <3>4, <3>6 DEF FolderInv
  <2> QED
    BY <2>1, <2>4, <2>5
<1> QED
  BY <1>1, <1>2, <1>3, <1>4 DEF Next

(* A folder is never taken for what it is not: whatever recorders and      *)
(* watchers do between the transactions of a scan, what is imported is a   *)
(* complete recording, stored under the hash that was looked up.           *)
THEOREM WholeRecordings == Spec => []WholeRecording
<1>1. \A p \in Paths : /\ CallOf(p).sourceHash.size = FullSize
                      /\ CallOf(p).object = CallOf(p).sourceHash
  BY DEF CallOf, Whole
<1>2. FolderInv => WholeRecording
  BY <1>1 DEF FolderInv, WholeRecording, CallsInFolder
<1> QED
  BY <1>2, InitTypeInv, InitFolder, NextTypeInv, NextFolder, PTL DEF Spec

(* Only corrupt audio is taken out of a folder, unless ffprobe failed.     *)
THEOREM OnlyCorruptQuarantined == Spec => []OnlyCorruptIsQuarantined
<1>1. FolderInv => OnlyCorruptIsQuarantined
  BY DEF FolderInv, OnlyCorruptIsQuarantined
<1> QED
  BY <1>1, InitTypeInv, InitFolder, NextTypeInv, NextFolder, PTL DEF Spec

-----------------------------------------------------------------------------
(* The quarantine.                                                         *)

(* A row that is not done with has no hash yet.                            *)
RowsHashed == \A p \in Paths : ~Processed(source[p]) => source[p].sha256 = Unhashed

(* A row that says quarantined, and a scan that is about to write one,     *)
(* have their recording in the vault.                                      *)
RowsAreVaulted ==
  \A p \in Paths : source[p].status = "quarantined" =>
    [path |-> p, content |-> source[p].sha256] \in vault

ScansAreVaulted ==
  \A w \in Watchers : scan[w].at = "record" =>
    [path |-> Current(w), content |-> scan[w].digest] \in vault

(* Why a recording may be in the vault of a folder.                        *)
Explained(v) ==
  \/ source[v.path].status = "quarantined"
  \/ \E w \in Watchers : scan[w].at = "record" /\ Current(w) = v.path
  \/ spent["interrupt"] > 0
  \/ \E q \in Paths \ {v.path} : Processed(source[q]) /\ source[q].sha256 = v.content

VaultExplained ==
  mode = "folder" => \A v \in vault :
    v.content = Whole(v.path) /\ file[v.path] = 0 /\ Explained(v)

VaultInv == RowsHashed /\ RowsAreVaulted /\ ScansAreVaulted /\ VaultExplained

(* What a step may make of a row.                                          *)
TakesRow(w, p, status) ==
  /\ p = Current(w) /\ source'[p].status = status /\ source'[p].sha256 = scan[w].digest
  /\ vault' = vault

RowStays(p) ==
  \/ source'[p] = source[p]
  \/ /\ ~Processed(source[p]) /\ ~Processed(source'[p])
     /\ source'[p].sha256 = source[p].sha256

RowChange(p) ==
  \/ RowStays(p)
  \/ \E w \in Watchers : /\ TakesRow(w, p, "imported") /\ ~Gone(w)
                         /\ scan[w].at = "upload"
  \/ \E w \in Watchers : /\ TakesRow(w, p, "imported") /\ scan[w].at = "mark"
  \/ \E w \in Watchers : TakesRow(w, p, "quarantined") /\ scan[w].at = "record"

(* An observation stores no hash.                                          *)
LEMMA ObservedHash ==
  ASSUME NEW row \in SourceImport, NEW size \in Size
  PROVE  \/ Observed(row, size) = row
         \/ /\ ~Processed(row) /\ ~Processed(Observed(row, size))
            /\ Observed(row, size).sha256 = row.sha256
BY DEF Observed, SourceImport, Processed

(* What the step of a watcher may make of a row.                           *)
LEMMA WatchRows ==
  ASSUME TypeInv, NEW w \in Watchers, Watch(w) \/ ProbeFails(w) \/ Interrupt(w),
         NEW p \in Paths
  PROVE  RowChange(p)
<1>1. TypeOK /\ source \in [Paths -> SourceImport]
  BY DEF TypeInv, TypeOK
<1>2. CASE source' = source
  BY <1>2 DEF RowChange, RowStays
<1>3. CASE Observe(w)
  <2>1. scan[w].at # "idle" /\ source' = [source EXCEPT ![Current(w)] = Observed(@, SizeOf(w))]
    BY <1>3 DEF Observe
  <2>2. SizeOf(w) \in Size /\ source[p] \in SourceImport
    <3>1. Current(w) \in Paths /\ scan[w] \in Scan
      BY <1>1, <2>1, CurrentIsListed DEF TypeOK
    <3> QED
      BY <1>1, <3>1 DEF SizeOf, TypeOK, Scan
  <2>3. source'[p] = source[p] \/ source'[p] = Observed(source[p], SizeOf(w))
    BY <1>1, <2>1
  <2> QED
    BY <2>2, <2>3, ObservedHash DEF RowChange, RowStays
<1>4. CASE MarkDuplicate(w)
  <2>1. /\ scan[w].at = "mark" /\ vault' = vault
        /\ source' = [source EXCEPT ![Current(w)].status = "imported",
                                    ![Current(w)].sha256 = scan[w].digest]
    BY <1>4 DEF MarkDuplicate
  <2>2. p # Current(w) => source'[p] = source[p]
    BY <1>1, <2>1
  <2>3. p = Current(w) => TakesRow(w, p, "imported")
    BY <1>1, <2>1 DEF TakesRow, SourceImport
  <2> QED
    BY <2>1, <2>2, <2>3 DEF RowChange, RowStays
<1>5. CASE Commit(w) /\ source' # source
  <2>1. /\ scan[w].at = "upload" /\ vault' = vault /\ ~Gone(w)
        /\ source' = [source EXCEPT ![Current(w)] = ImportedRow(@, scan[w].digest)]
    BY <1>5 DEF Commit
  <2>2. p # Current(w) => source'[p] = source[p]
    BY <1>1, <2>1
  <2>3. p = Current(w) => TakesRow(w, p, "imported")
    BY <1>1, <2>1 DEF TakesRow, SourceImport, ImportedRow
  <2> QED
    BY <2>1, <2>2, <2>3 DEF RowChange, RowStays
<1>6. CASE RecordQuarantine(w)
  <2>1. /\ scan[w].at = "record" /\ vault' = vault
        /\ source' = [source EXCEPT ![Current(w)].status = "quarantined",
                                    ![Current(w)].sha256 = scan[w].digest]
    BY <1>6 DEF RecordQuarantine
  <2>2. p # Current(w) => source'[p] = source[p]
    BY <1>1, <2>1
  <2>3. p = Current(w) => TakesRow(w, p, "quarantined")
    BY <1>1, <2>1 DEF TakesRow, SourceImport
  <2> QED
    BY <2>1, <2>2, <2>3 DEF RowChange, RowStays
<1>7. StartScan(w) \/ SkipProcessed(w) \/ Hash(w) \/ Validate(w) \/ Insert(w) \/ Move(w)
      \/ Abort(w) \/ ProbeFails(w) \/ Interrupt(w) => source' = source
  BY DEF StartScan, SkipProcessed, Hash, Validate, Insert, Move, Abort, ProbeFails, Interrupt
<1> QED
  BY <1>2, <1>3, <1>4, <1>5, <1>6, <1>7 DEF Watch

(* What any step may make of a row.                                        *)
LEMMA StepRows ==
  ASSUME TypeInv, [Next]_vars, NEW p \in Paths
  PROVE  RowChange(p)
<1>1. CASE \E w \in Watchers : Watch(w) \/ ProbeFails(w) \/ Interrupt(w)
  BY <1>1, WatchRows
<1>2. CASE source' = source
  BY <1>2 DEF RowChange, RowStays
<1>3. ASSUME NEW q \in Paths, Age(q)
      PROVE  RowChange(p)
  <2>1. /\ source \in [Paths -> SourceImport] /\ source[q].status = "observed"
        /\ source' = [source EXCEPT ![q].aged = TRUE]
    BY <1>3 DEF Age, TypeInv, TypeOK
  <2> QED
    BY <2>1 DEF RowChange, RowStays, SourceImport, Processed
<1>4. \A q \in Paths : Write(q) => source' = source
  BY DEF Write
<1> QED
  BY <1>1, <1>2, <1>3, <1>4 DEF Next, vars

(* A scan that is about to write the row of a quarantine has just moved    *)
(* the file, or was about to already.                                      *)
LEMMA StepToRecord ==
  ASSUME TypeInv, NEW w \in Watchers, Watch(w) \/ ProbeFails(w) \/ Interrupt(w),
         scan'[w].at = "record"
  PROVE  /\ Move(w) /\ scan[w].at # "idle"
         /\ Current(w)' = Current(w) /\ scan'[w].digest = scan[w].digest
<1>1. TypeOK /\ scan \in [Watchers -> Scan] /\ Idle.at = "idle"
  BY DEF TypeInv, TypeOK, Idle
<1>2. scan[w].at # "idle" => ~Proceed(w)
  BY <1>1, ProceedShape
<1>3. scan' # [scan EXCEPT ![w] = Idle]
  BY <1>1
<1>4. ~\E step \in Step \ {"record"} : Go(w, step)
  BY <1>1 DEF Go, Scan
<1>5. {"hash", "insert", "move", "upload"} \subseteq Step \ {"record"}
  BY DEF Step
<1>6. ~(SkipProcessed(w) \/ MarkDuplicate(w) \/ Commit(w) \/ RecordQuarantine(w))
  BY <1>2 DEF SkipProcessed, MarkDuplicate, Commit, RecordQuarantine
<1>7. ~(Abort(w) \/ Interrupt(w))
  BY <1>3 DEF Abort, Interrupt
<1>8. ~(Observe(w) \/ Validate(w) \/ ProbeFails(w) \/ Insert(w))
  BY <1>2, <1>4, <1>5 DEF Observe, Validate, ProbeFails, Insert
<1>9. ~StartScan(w)
  BY <1>1, StartTyped
<1>10. ~Hash(w)
  <2>1. ASSUME NEW next \in {"validate", "mark"}, NEW digest,
               scan' = [scan EXCEPT ![w].at = next, ![w].digest = digest]
        PROVE  FALSE
    BY <1>1, <2>1 DEF Scan
  <2> QED
    BY <1>2, <2>1 DEF Hash
<1>11. Move(w)
  BY <1>6, <1>7, <1>8, <1>9, <1>10 DEF Watch
<1>12. scan[w].at = "move" /\ scan' = [scan EXCEPT ![w].at = "record"]
  BY <1>11 DEF Move, Go
<1>13. scan'[w].todo = scan[w].todo /\ scan'[w].digest = scan[w].digest
  BY <1>1, <1>12 DEF Scan
<1> QED
  BY <1>11, <1>12, <1>13, CurrentStays

(* A scan leaves that point with the row, with an interruption, or because *)
(* the hash is another path's.                                             *)
LEMMA StepFromRecord ==
  ASSUME TypeInv, NEW w \in Watchers, Watch(w) \/ ProbeFails(w) \/ Interrupt(w),
         scan[w].at = "record"
  PROVE  \/ RecordQuarantine(w)
         \/ Abort(w) /\ source' = source /\ ~Unclaimed(Current(w), scan[w].digest)
         \/ spent'["interrupt"] > 0
<1>1. Interrupt(w) => spent'["interrupt"] > 0
  BY DEF Interrupt, TypeInv, TypeOK, Mishap
<1>2. Abort(w) => source' = source /\ ~Unclaimed(Current(w), scan[w].digest)
  BY DEF Abort
<1>3. ~(StartScan(w) \/ SkipProcessed(w) \/ Observe(w) \/ Hash(w) \/ MarkDuplicate(w))
  BY DEF StartScan, SkipProcessed, Observe, Hash, MarkDuplicate
<1>4. ~(Validate(w) \/ ProbeFails(w) \/ Insert(w) \/ Commit(w) \/ Move(w))
  BY DEF Validate, ProbeFails, Insert, Commit, Move
<1> QED
  BY <1>1, <1>2, <1>3, <1>4 DEF Watch

(* What a step may make of the vault and of the count of interruptions.    *)
LEMMA StepVault ==
  ASSUME TypeInv, [Next]_vars
  PROVE  /\ vault' = vault \/ \E w \in Watchers : Move(w)
         /\ vault \subseteq vault'
         /\ spent["interrupt"] > 0 => spent'["interrupt"] > 0
<1>1. spent \in [Mishap -> Nat] /\ {"interrupt", "probe"} = Mishap
  BY DEF TypeInv, TypeOK, Mishap
<1>2. ASSUME NEW w \in Watchers, ProbeFails(w) \/ Interrupt(w)
      PROVE  vault' = vault /\ (spent["interrupt"] > 0 => spent'["interrupt"] > 0)
  BY <1>1, <1>2 DEF ProbeFails, Interrupt
<1>3. ASSUME NEW w \in Watchers, Watch(w)
      PROVE  (vault' = vault \/ Move(w)) /\ spent' = spent
  BY <1>3 DEF Watch, StartScan, SkipProcessed, Observe, Hash, MarkDuplicate, Validate,
     Insert, Commit, Move, RecordQuarantine, Abort
<1>4. ASSUME NEW p \in Paths, Write(p) \/ Age(p)
      PROVE  vault' = vault /\ spent' = spent
  BY <1>4 DEF Write, Age
<1>5. UNCHANGED vars => vault' = vault /\ spent' = spent
  BY DEF vars
<1>6. (vault' = vault \/ \E w \in Watchers : Move(w))
      /\ (spent["interrupt"] > 0 => spent'["interrupt"] > 0)
  BY <1>2, <1>3, <1>4, <1>5 DEF Next
<1> QED
  BY <1>6 DEF Move

(* What is moved is what the row will name.                                *)
LEMMA MovesDigest ==
  ASSUME TypeInv, FolderInv, NEW w \in Watchers, Move(w)
  PROVE  /\ vault' = vault \cup {[path |-> Current(w), content |-> scan[w].digest]}
         /\ Current(w) \in Paths
         /\ mode = "folder" => /\ scan[w].digest = Whole(Current(w))
                               /\ file'[Current(w)] = 0
<1>1. scan[w].at = "move" /\ ~Gone(w) /\ TypeOK
  BY DEF Move, TypeInv
<1>2. PICK p \in Paths : p = Current(w)
  BY <1>1, CurrentIsListed
<1>3. ASSUME mode = "folder"
      PROVE  Reads(w) = Whole(p) /\ scan[w].digest = Whole(p) /\ file'[p] = 0
  <2>1. Final(p) /\ scan[w].digest = Whole(p)
    BY <1>1, <1>2, <1>3 DEF FolderInv, ScanInFolder
  <2>2. Reads(w) = Whole(p)
    BY <1>1, <1>2, <1>3, <2>1, ReadsWhole
  <2>3. file'[p] = 0
    BY <1>1, <1>2, <1>3 DEF Move, TypeOK
  <2> QED
    BY <2>1, <2>2, <2>3
<1>4. mode # "folder" => Reads(w) = scan[w].digest
  BY DEF Reads
<1>5. vault' = vault \cup {[path |-> p, content |-> Reads(w)]}
  BY <1>2 DEF Move
<1> QED
  BY <1>2, <1>3, <1>4, <1>5

(* A hash is not the hash of a row without one.                            *)
LEMMA UnhashedIsNone == Unhashed \notin Content
BY SizeAssumption DEF Unhashed, Content

(* At first no row and no scan says anything of the vault.                 *)
LEMMA InitVault == Init => VaultInv
BY DEF Init, VaultInv, RowsHashed, RowsAreVaulted, ScansAreVaulted, VaultExplained, Idle

(* The rows without a hash are those not done with.                        *)
LEMMA NextRowsHashed == TypeInv /\ RowsHashed /\ [Next]_vars => RowsHashed'
<1> SUFFICES ASSUME TypeInv, RowsHashed, [Next]_vars, NEW p \in Paths, ~Processed(source'[p])
             PROVE  source'[p].sha256 = Unhashed
  BY DEF RowsHashed, Processed
<1>1. \A w \in Watchers : ~TakesRow(w, p, "imported") /\ ~TakesRow(w, p, "quarantined")
  BY DEF TakesRow, Processed
<1>2. RowStays(p)
  BY <1>1, StepRows DEF RowChange
<1> QED
  BY <1>2 DEF RowStays, RowsHashed

(* Every row that says quarantined has its recording in the vault.         *)
LEMMA NextRowsAreVaulted ==
  TypeInv /\ RowsAreVaulted /\ ScansAreVaulted /\ [Next]_vars => RowsAreVaulted'
<1> SUFFICES ASSUME TypeInv, RowsAreVaulted, ScansAreVaulted, [Next]_vars,
                    NEW p \in Paths, source'[p].status = "quarantined"
             PROVE  [path |-> p, content |-> source'[p].sha256] \in vault'
  BY DEF RowsAreVaulted
<1>1. vault \subseteq vault' /\ RowChange(p)
  BY StepVault, StepRows
<1>2. CASE source'[p] = source[p]
  BY <1>1, <1>2 DEF RowsAreVaulted
<1>3. CASE \E w \in Watchers : TakesRow(w, p, "quarantined") /\ scan[w].at = "record"
  BY <1>3 DEF TakesRow, ScansAreVaulted
<1> QED
  BY <1>1, <1>2, <1>3 DEF RowChange, RowStays, TakesRow, Processed

(* So has every scan that is about to write such a row.                    *)
LEMMA NextScansAreVaulted ==
  TypeInv /\ FolderInv /\ ScansAreVaulted /\ [Next]_vars => ScansAreVaulted'
<1> SUFFICES ASSUME TypeInv, FolderInv, ScansAreVaulted, [Next]_vars,
                    NEW w \in Watchers, scan'[w].at = "record"
             PROVE  [path |-> Current(w)', content |-> scan'[w].digest] \in vault'
  BY DEF ScansAreVaulted
<1>1. CASE Watch(w) \/ ProbeFails(w) \/ Interrupt(w)
  <2>1. Move(w) /\ Current(w)' = Current(w) /\ scan'[w].digest = scan[w].digest
    BY <1>1, StepToRecord
  <2> QED
    BY <2>1, MovesDigest
<1>2. ASSUME scan'[w] = scan[w]
      PROVE  [path |-> Current(w)', content |-> scan'[w].digest] \in vault'
  <2>1. Current(w)' = Current(w)
    BY <1>2, CurrentStays
  <2> QED
    BY <1>2, <2>1, StepVault DEF ScansAreVaulted
<1>3. ASSUME NEW v \in Watchers \ {w}, Watch(v) \/ ProbeFails(v) \/ Interrupt(v)
      PROVE  scan'[w] = scan[w]
  BY <1>3, WatchTyped
<1>4. ASSUME NEW p \in Paths, Write(p) \/ Age(p)
      PROVE  scan'[w] = scan[w]
  BY <1>4 DEF Write, Age
<1>5. UNCHANGED vars => scan'[w] = scan[w]
  BY DEF vars
<1> QED
  BY <1>1, <1>2, <1>3, <1>4, <1>5 DEF Next

(* What explains a recording in the vault goes on explaining it.           *)
LEMMA NextExplained ==
  ASSUME TypeInv, FolderInv, FolderInv', VaultInv, [Next]_vars, mode = "folder",
         mode' = mode, made' = made, NEW v \in vault, v.path \in Paths, Explained(v)
  PROVE  Explained(v)'
<1> DEFINE p == v.path
<1>1. v.content = Whole(p) /\ file[p] = 0 /\ TypeOK
  BY DEF VaultInv, VaultExplained, TypeInv
<1>2. ASSUME NEW q \in Paths, Processed(source[q])
      PROVE  Processed(source'[q]) /\ source'[q].sha256 = source[q].sha256
  <2>1. Processed(source'[q])
    BY <1>2, StepRows DEF RowChange, RowStays, TakesRow, Processed
  <2>2. source[q].sha256 = Whole(q) /\ source'[q].sha256 = Whole(q)'
    BY <1>2, <2>1 DEF FolderInv, RowInFolder, Processed
  <2>3. Whole(q)' = Whole(q)
    BY DEF Whole
  <2> QED
    BY <2>1, <2>2, <2>3
<1>3. CASE source[p].status = "quarantined"
  <2>1. Processed(source[p])
    BY <1>3 DEF Processed
  <2>2. ASSUME NEW w \in Watchers, TakesRow(w, p, "imported")
        PROVE  Gone(w) /\ scan[w].at # "mark"
    BY <1>1, <2>2 DEF TakesRow, Gone, FolderInv, ScanInFolder
  <2>3. source'[p].status = "quarantined"
    BY <1>3, <2>1, <2>2, StepRows DEF RowChange, RowStays, TakesRow
  <2> QED
    BY <2>3 DEF Explained
<1>4. CASE \E w \in Watchers : scan[w].at = "record" /\ Current(w) = p
  <2>1. PICK w \in Watchers : scan[w].at = "record" /\ Current(w) = p
    BY <1>4
  <2>2. scan[w].digest = Whole(p) /\ scan[w].digest \in Content
    BY <1>1, <2>1 DEF FolderInv, ScanInFolder, TypeOK
  <2>3. CASE Watch(w) \/ ProbeFails(w) \/ Interrupt(w)
    <3>1. CASE RecordQuarantine(w)
      <4>1. source' = [source EXCEPT ![p].status = "quarantined",
                                     ![p].sha256 = scan[w].digest]
        BY <2>1, <3>1 DEF RecordQuarantine
      <4>2. source'[p].status = "quarantined"
        BY <1>1, <4>1 DEF TypeOK, SourceImport
      <4> QED
        BY <4>2 DEF Explained
    <3>2. CASE source' = source /\ ~Unclaimed(p, Whole(p))
      <4>1. PICK q \in Paths \ {p} : source[q].sha256 = Whole(p)
        BY <3>2 DEF Unclaimed
      <4>2. Processed(source[q])
        BY <2>2, <4>1, UnhashedIsNone DEF VaultInv, RowsHashed
      <4>3. Processed(source'[q]) /\ source'[q].sha256 = v.content
        BY <1>1, <3>2, <4>1, <4>2
      <4> QED
        BY <4>1, <4>3 DEF Explained, Processed
    <3>3. spent'["interrupt"] > 0 => Explained(v)'
      BY DEF Explained
    <3> QED
      BY <2>1, <2>2, <2>3, <3>1, <3>2, <3>3, StepFromRecord
  <2>4. ASSUME scan'[w] = scan[w]
        PROVE  Explained(v)'
    <3>1. scan'[w].at = "record" /\ Current(w)' = p
      BY <2>1, <2>4, CurrentStays
    <3> QED
      BY <3>1 DEF Explained
  <2>5. ASSUME NEW u \in Watchers \ {w}, Watch(u) \/ ProbeFails(u) \/ Interrupt(u)
        PROVE  scan'[w] = scan[w]
    BY <2>5, WatchTyped
  <2>6. ASSUME NEW q \in Paths, Write(q) \/ Age(q)
        PROVE  scan'[w] = scan[w]
    BY <2>6 DEF Write, Age
  <2>7. UNCHANGED vars => scan'[w] = scan[w]
    BY DEF vars
  <2> QED
    BY <2>3, <2>4, <2>5, <2>6, <2>7 DEF Next
<1>5. CASE spent["interrupt"] > 0
  BY <1>5, StepVault DEF Explained
<1>6. CASE \E q \in Paths \ {p} : Processed(source[q]) /\ source[q].sha256 = v.content
  <2>1. PICK q \in Paths \ {p} : Processed(source[q]) /\ source[q].sha256 = v.content
    BY <1>6
  <2>2. Processed(source'[q]) /\ source'[q].sha256 = v.content
    BY <1>2, <2>1
  <2> QED
    BY <2>1, <2>2 DEF Explained, Processed
<1> QED
  BY <1>3, <1>4, <1>5, <1>6 DEF Explained

(* The vault of a folder holds whole recordings, each of them explained,   *)
(* and nothing is written under their paths again.                         *)
LEMMA NextVaultExplained ==
  TypeInv /\ FolderInv /\ FolderInv' /\ VaultInv /\ [Next]_vars => VaultExplained'
<1> SUFFICES ASSUME TypeInv, FolderInv, FolderInv', VaultInv, [Next]_vars,
                    mode' = "folder", NEW v \in vault'
             PROVE  /\ v.content = Whole(v.path)' /\ file'[v.path] = 0
                    /\ Explained(v)'
  BY DEF VaultExplained
<1>1. mode = "folder" /\ mode' = mode /\ TypeOK
  BY ModeKept DEF TypeInv
<1>2. /\ made' = made
      /\ \A p \in Paths : file[p] = 0 /\ Vaulted(p) => file'[p] = 0
  <2>1. CASE UNCHANGED vars
    BY <2>1 DEF vars
  <2> QED
    BY <1>1, <2>1, FilesKept
<1>3. CASE v \in vault
  <2>1. v.path \in Paths /\ v.content = Whole(v.path) /\ file[v.path] = 0 /\ Explained(v)
    BY <1>1, <1>3 DEF VaultInv, VaultExplained, TypeOK
  <2>2. Whole(v.path)' = Whole(v.path) /\ file'[v.path] = 0
    BY <1>2, <1>3, <2>1 DEF Whole, Vaulted
  <2>3. Explained(v)'
    BY <1>1, <1>2, <1>3, <2>1, NextExplained
  <2> QED
    BY <2>1, <2>2, <2>3
<1>4. CASE v \notin vault
  <2>1. PICK w \in Watchers : Move(w)
    BY <1>4, StepVault
  <2>2. PICK p \in Paths : p = Current(w)
    BY <2>1, MovesDigest
  <2>3. /\ v.path = p /\ v.content = Whole(p) /\ file'[p] = 0
    BY <1>1, <1>4, <2>1, <2>2, MovesDigest
  <2>4. scan'[w].at = "record" /\ Current(w)' = p
    <3>1. scan' = [scan EXCEPT ![w].at = "record"] /\ scan \in [Watchers -> Scan]
      BY <1>1, <2>1 DEF Move, Go, TypeOK
    <3>2. scan'[w].at = "record" /\ scan'[w].todo = scan[w].todo
      BY <3>1 DEF Scan
    <3> QED
      BY <2>2, <3>2, CurrentStays
  <2>5. Explained(v)'
    BY <2>3, <2>4 DEF Explained
  <2>6. Whole(p)' = Whole(p)
    BY <1>2 DEF Whole
  <2> QED
    BY <2>3, <2>5, <2>6
<1> QED
  BY <1>3, <1>4

(* Every quarantine is recorded, and every recording that left a folder    *)
(* for the vault is accounted for: a move and its row are two steps, and   *)
(* only an interruption, or another path with the same hash, comes between *)
(* them for good.                                                          *)
THEOREM QuarantineRecorded == Spec => []QuarantineIsRecorded
<1>1. TypeInv /\ FolderInv /\ FolderInv' /\ VaultInv /\ [Next]_vars => VaultInv'
  BY NextRowsHashed, NextRowsAreVaulted, NextScansAreVaulted, NextVaultExplained
  DEF VaultInv
<1>2. VaultInv => QuarantineIsRecorded
  BY DEF VaultInv, RowsAreVaulted, VaultExplained, Explained, QuarantineIsRecorded
<1> QED
  BY <1>1, <1>2, InitTypeInv, InitFolder, InitVault, NextTypeInv, NextFolder, PTL DEF Spec

-----------------------------------------------------------------------------
(* A server with one watcher.                                              *)

CallsDiffer == \A c, d \in calls : c.sourceHash = d.sourceHash => c = d

CallsHaveRows ==
  \A c \in calls : \E p \in Paths : Processed(source[p]) /\ source[p].sha256 = c.sourceHash

(* Past the stability check the watcher is at a file it is not done with,  *)
(* which no scan but its own can change.                                   *)
ScanOnServer ==
  \A w \in Watchers : scan[w].at \notin {"idle", "look"} => ~Processed(source[Current(w)])

ServerInv ==
  mode = "sftp" /\ Cardinality(Watchers) = 1 =>
    ScanOnServer /\ CallsHaveRows /\ CallsDiffer

(* There is no other watcher.                                              *)
LEMMA OneWatcher ==
  ASSUME Cardinality(Watchers) = 1, NEW w \in Watchers, NEW v \in Watchers
  PROVE  v = w
BY WatchersAssumption, FS_Singleton

(* Rows that are done with stay, so do the calls they stand for.           *)
LEMMA CallsKeepRows ==
  ASSUME CallsHaveRows,
         calls' \subseteq calls \/ \E c : /\ calls' = calls \cup {c}
                                  /\ \E p \in Paths : /\ Processed(source'[p])
                                                      /\ source'[p].sha256 = c.sourceHash,
         \A p \in Paths : Processed(source[p]) =>
           Processed(source'[p]) /\ source'[p].sha256 = source[p].sha256
  PROVE  CallsHaveRows'
<1>1. \A c \in calls : \E p \in Paths :
        Processed(source'[p]) /\ source'[p].sha256 = c.sourceHash
  BY DEF CallsHaveRows
<1>2. \A c \in calls' : \E p \in Paths :
        Processed(source'[p]) /\ source'[p].sha256 = c.sourceHash
  BY <1>1
<1> QED
  BY <1>2 DEF CallsHaveRows, Processed

(* The scan of the only watcher.                                           *)
LEMMA OnlyScan ==
  ASSUME Cardinality(Watchers) = 1, NEW w \in Watchers,
         \/ scan'[w].at \in {"idle", "look"}
         \/ \E p \in Paths : /\ p = Current(w) /\ scan'[w].todo = scan[w].todo
                             /\ ~Processed(source'[p])
  PROVE  ScanOnServer'
<1>1. CASE scan'[w].at \in {"idle", "look"}
  BY <1>1, OneWatcher DEF ScanOnServer
<1>2. CASE \E p \in Paths : /\ p = Current(w) /\ scan'[w].todo = scan[w].todo
                            /\ ~Processed(source'[p])
  <2>1. PICK p \in Paths : /\ p = Current(w) /\ scan'[w].todo = scan[w].todo
                           /\ ~Processed(source'[p])
    BY <1>2
  <2>2. Current(w)' = p
    BY <2>1, CurrentStays
  <2>3. ~Processed(source[Current(w)])'
    BY <2>1, <2>2 DEF Processed
  <2> QED
    BY <2>3, OneWatcher DEF ScanOnServer
<1> QED
  BY <1>1, <1>2

(* The step of the watcher of a server.                                    *)
LEMMA WatchServer ==
  ASSUME TypeInv, ServerInv, mode = "sftp", Cardinality(Watchers) = 1, NEW w \in Watchers,
         Watch(w) \/ ProbeFails(w) \/ Interrupt(w)
  PROVE  ScanOnServer' /\ CallsHaveRows' /\ CallsDiffer'
<1>1. TypeOK /\ ScanOnServer /\ CallsHaveRows /\ CallsDiffer
  BY DEF TypeInv, ServerInv
<1>2. source \in [Paths -> SourceImport] /\ scan[w] \in Scan /\ scan \in [Watchers -> Scan]
  BY <1>1 DEF TypeOK
<1>3. ASSUME calls' = calls,
             \A p \in Paths : Processed(source[p]) =>
               Processed(source'[p]) /\ source'[p].sha256 = source[p].sha256
      PROVE  CallsHaveRows' /\ CallsDiffer'
  BY <1>1, <1>3, CallsKeepRows DEF CallsDiffer
<1>4. ASSUME scan[w].at # "idle"
      PROVE  \E p \in Paths : p = Current(w)
  BY <1>1, <1>4, CurrentIsListed
<1>5. ASSUME scan[w].at # "idle", Proceed(w)
      PROVE  ScanOnServer'
  BY <1>1, <1>5, ProceedShape, OnlyScan
<1>6. ASSUME NEW step \in Step \ {"idle"}, Go(w, step), source' = source,
             scan[w].at \notin {"idle", "look"}
      PROVE  ScanOnServer'
  <2>1. PICK p \in Paths : p = Current(w)
    BY <1>4, <1>6
  <2>2. ~Processed(source'[p])
    BY <1>1, <1>6, <2>1 DEF ScanOnServer
  <2>3. scan'[w].todo = scan[w].todo
    BY <1>2, <1>6 DEF Go, Scan
  <2> QED
    BY <2>1, <2>2, <2>3, OnlyScan
<1>7. {"hash", "insert", "move", "upload", "record"} \subseteq Step \ {"idle"}
  BY DEF Step
<1>8. ASSUME NEW p \in Paths, ~Processed(source[p]), NEW row,
             source' = [source EXCEPT ![p] = row], calls' = calls
      PROVE  CallsHaveRows' /\ CallsDiffer'
  <2>1. \A q \in Paths : Processed(source[q]) => source'[q] = source[q]
    BY <1>2, <1>8
  <2> QED
    BY <1>3, <1>8, <2>1
<1>9. CASE StartScan(w)
  <2>1. scan'[w].at = "look" /\ UNCHANGED <<source, calls>>
    BY <1>1, <1>9, StartTyped DEF StartScan
  <2> QED
    BY <1>3, <2>1, OnlyScan
<1>10. CASE SkipProcessed(w)
  BY <1>3, <1>5, <1>10 DEF SkipProcessed
<1>11. CASE Abort(w) \/ Interrupt(w)
  <2>1. scan' = [scan EXCEPT ![w] = Idle] /\ UNCHANGED <<source, calls>>
    BY <1>11 DEF Abort, Interrupt
  <2>2. scan'[w].at = "idle"
    BY <1>1, <2>1, IdleTyped
  <2> QED
    BY <1>3, <2>1, <2>2, OnlyScan
<1>12. CASE Observe(w)
  <2>1. PICK p \in Paths : p = Current(w)
    BY <1>4, <1>12 DEF Observe
  <2>2. PICK row : row = Observed(source[p], SizeOf(w))
    OBVIOUS
  <2>3. /\ scan[w].at = "look" /\ ~Processed(source[p]) /\ calls' = calls
        /\ source' = [source EXCEPT ![p] = row]
    BY <1>12, <2>1, <2>2 DEF Observe
  <2>4. ~Processed(row)
    BY <2>2, <2>3, <1>2 DEF Observed, Processed, SourceImport
  <2>5. CASE Proceed(w)
    BY <1>5, <1>8, <2>3, <2>5
  <2>6. CASE Go(w, "hash")
    <3>1. scan'[w].todo = scan[w].todo /\ source'[p] = row
      BY <1>2, <2>3, <2>6 DEF Go, Scan
    <3> QED
      BY <1>8, <2>1, <2>3, <2>4, <3>1, OnlyScan
  <2> QED
    BY <1>12, <2>5, <2>6 DEF Observe
<1>13. CASE Hash(w)
  <2>1. scan[w].at = "hash" /\ UNCHANGED <<source, calls>>
    BY <1>13 DEF Hash
  <2>2. PICK p \in Paths : p = Current(w)
    BY <1>4, <2>1
  <2>3. CASE Proceed(w)
    BY <1>3, <1>5, <2>1, <2>3
  <2>4. CASE ~Proceed(w)
    <3>1. scan'[w].todo = scan[w].todo
      BY <1>2, <1>13, <2>4 DEF Hash, Scan
    <3>2. ~Processed(source'[p])
      BY <1>1, <2>1, <2>2 DEF ScanOnServer
    <3> QED
      BY <1>3, <2>1, <2>2, <3>1, <3>2, OnlyScan
  <2> QED
    BY <2>3, <2>4
<1>14. CASE Validate(w) \/ ProbeFails(w)
  <2>1. scan[w].at = "validate" /\ UNCHANGED <<source, calls>>
    BY <1>14 DEF Validate, ProbeFails
  <2>2. PICK step \in {"insert", "move"} : Go(w, step)
    BY <1>14 DEF Validate, ProbeFails
  <2> QED
    BY <1>3, <1>6, <1>7, <2>1, <2>2
<1>15. CASE Insert(w)
  <2>1. scan[w].at = "insert" /\ UNCHANGED <<source, calls>>
    BY <1>15 DEF Insert
  <2>2. Proceed(w) \/ \E step \in {"upload"} : Go(w, step)
    BY <1>15 DEF Insert
  <2> QED
    BY <1>3, <1>5, <1>6, <1>7, <2>1, <2>2
<1>16. CASE Move(w)
  <2>1. scan[w].at = "move" /\ UNCHANGED <<source, calls>>
    BY <1>16 DEF Move
  <2>2. PICK step \in {"record"} : Go(w, step)
    BY <1>16 DEF Move
  <2> QED
    BY <1>3, <1>6, <1>7, <2>1, <2>2
<1>17. CASE MarkDuplicate(w) \/ RecordQuarantine(w)
  <2>1. /\ scan[w].at \notin {"idle", "look"} /\ Proceed(w) /\ calls' = calls
    BY <1>17 DEF MarkDuplicate, RecordQuarantine
  <2>2. PICK p \in Paths : p = Current(w)
    BY <1>4, <2>1
  <2>3. ~Processed(source[p])
    BY <1>1, <2>1, <2>2 DEF ScanOnServer
  <2>4. PICK status \in {"imported", "quarantined"} :
          source' = [source EXCEPT ![p].status = status, ![p].sha256 = scan[w].digest]
    BY <1>17, <2>2 DEF MarkDuplicate, RecordQuarantine
  <2>5. PICK row : row = [source[p] EXCEPT !.status = status, !.sha256 = scan[w].digest]
    OBVIOUS
  <2>6. source' = [source EXCEPT ![p] = row]
    BY <1>2, <2>4, <2>5
  <2> QED
    BY <1>5, <1>8, <2>1, <2>3, <2>6
<1>18. CASE Commit(w)
  <2>1. scan[w].at = "upload" /\ Proceed(w)
    BY <1>18 DEF Commit
  <2>2. PICK p \in Paths : p = Current(w)
    BY <1>4, <2>1
  <2>3. ~Processed(source[p])
    BY <1>1, <2>1, <2>2 DEF ScanOnServer
  <2>4. CASE UNCHANGED <<calls, source>>
    BY <1>3, <1>5, <2>1, <2>4
  <2>5. CASE ~UNCHANGED <<calls, source>>
    <3>1. PICK digest : digest = scan[w].digest
      OBVIOUS
    <3>2. PICK new : new = [externalId |-> ExternalId(p, digest), sourceHash |-> digest,
                            object |-> Reads(w)]
      OBVIOUS
    <3>3. PICK row : row = ImportedRow(source[p], digest)
      OBVIOUS
    <3>4. /\ Unclaimed(p, digest) /\ calls' = calls \cup {new}
          /\ source' = [source EXCEPT ![p] = row]
      BY <1>18, <2>2, <2>5, <3>1, <3>2, <3>3 DEF Commit
    <3>5. /\ Processed(row) /\ row.sha256 = digest /\ new.sourceHash = digest
      BY <1>2, <3>2, <3>3 DEF ImportedRow, Processed, SourceImport
    <3>6. source'[p] = row /\ \A q \in Paths : Processed(source[q]) => source'[q] = source[q]
      BY <1>2, <2>3, <3>4
    <3>7. CallsHaveRows'
      BY <1>1, <3>4, <3>5, <3>6, CallsKeepRows
    <3>8. \A c \in calls : c.sourceHash # digest
      BY <1>1, <2>3, <3>4 DEF CallsHaveRows, Unclaimed
    <3>9. CallsDiffer'
      BY <1>1, <3>4, <3>5, <3>8 DEF CallsDiffer
    <3> QED
      BY <1>5, <2>1, <3>7, <3>9
  <2> QED
    BY <2>4, <2>5
<1> QED
  BY <1>9, <1>10, <1>11, <1>12, <1>13, <1>14, <1>15, <1>16, <1>17, <1>18 DEF Watch

(* Every step keeps the invariant.                                         *)
LEMMA NextServer == TypeInv /\ ServerInv /\ [Next]_vars => ServerInv'
<1> SUFFICES ASSUME TypeInv, ServerInv, [Next]_vars, mode = "sftp",
                    Cardinality(Watchers) = 1
             PROVE  ScanOnServer' /\ CallsHaveRows' /\ CallsDiffer'
  BY ModeKept DEF ServerInv
<1>1. ScanOnServer /\ CallsHaveRows /\ CallsDiffer
  BY DEF ServerInv
<1>2. ASSUME UNCHANGED <<scan, calls>>,
             \A p \in Paths : /\ Processed(source'[p]) <=> Processed(source[p])
                              /\ source'[p].sha256 = source[p].sha256
      PROVE  ScanOnServer' /\ CallsHaveRows' /\ CallsDiffer'
  <2>1. \A w \in Watchers : scan[w].at # "idle" => \E p \in Paths : p = Current(w)
    BY CurrentIsListed DEF TypeInv
  <2>2. \A w \in Watchers : Current(w)' = Current(w)
    BY <1>2 DEF Current
  <2>3. ScanOnServer'
    <3>1. ASSUME NEW w \in Watchers, scan[w].at \notin {"idle", "look"}
          PROVE  ~Processed(source[Current(w)])'
      <4>1. PICK p \in Paths : p = Current(w)
        BY <2>1, <3>1
      <4>2. ~Processed(source'[p])
        BY <1>1, <1>2, <3>1, <4>1 DEF ScanOnServer
      <4>3. Current(w)' = p
        BY <2>2, <4>1
      <4> QED
        BY <4>2, <4>3 DEF Processed
    <3> QED
      BY <1>2, <3>1 DEF ScanOnServer
  <2>4. CallsHaveRows'
    BY <1>1, <1>2, CallsKeepRows
  <2> QED
    BY <1>1, <1>2, <2>3, <2>4 DEF CallsDiffer
<1>3. CASE \E w \in Watchers : Watch(w) \/ ProbeFails(w) \/ Interrupt(w)
  BY <1>3, WatchServer
<1>4. CASE UNCHANGED vars
  BY <1>2, <1>4 DEF vars
<1>5. CASE \E p \in Paths : Write(p)
  BY <1>2, <1>5 DEF Write
<1>6. CASE \E p \in Paths : Age(p)
  <2>1. PICK p \in Paths : Age(p)
    BY <1>6
  <2>2. /\ source'[p].status = source[p].status /\ source'[p].sha256 = source[p].sha256
        /\ \A q \in Paths \ {p} : source'[q] = source[q]
        /\ UNCHANGED <<scan, calls>>
    BY <2>1 DEF Age, TypeInv, TypeOK, SourceImport
  <2> QED
    BY <1>2, <2>2 DEF Processed
<1> QED
  BY <1>3, <1>4, <1>5, <1>6 DEF Next

(* The same bytes become one call: in a folder whichever watchers find     *)
(* them, on a server as long as one watcher scans it.                      *)
THEOREM OneCallEach == Spec => []OneCallPerRecording
<1>1. Init => ServerInv
  BY DEF Init, ServerInv, ScanOnServer, CallsHaveRows, CallsDiffer, Idle
<1>2. TypeInv /\ FolderInv /\ ServerInv => OneCallPerRecording
  <2> SUFFICES ASSUME TypeInv, FolderInv, ServerInv, mode = "folder" \/ Cardinality(Watchers) = 1
               PROVE  CallsDiffer
    BY DEF OneCallPerRecording, CallsDiffer
  <2>1. CASE mode = "folder"
    <3>1. CallsInFolder /\ HashesDiffer /\ \A p \in Paths : RowInFolder(p)
      BY <2>1 DEF FolderInv
    <3>2. \A p \in Paths : CallOf(p).sourceHash = Whole(p)
      BY DEF CallOf
    <3>3. \A p, q \in Paths : /\ Processed(source[p]) /\ Processed(source[q])
                              /\ Whole(p) = Whole(q)
                              => p = q
      BY <3>1 DEF HashesDiffer, RowInFolder
    <3> QED
      BY <3>1, <3>2, <3>3 DEF CallsInFolder, CallsDiffer
  <2>2. CASE mode # "folder"
    BY <2>2, ModesAssumption DEF ServerInv, TypeInv, TypeOK
  <2> QED
    BY <2>1, <2>2
<1> QED
  BY <1>1, <1>2, InitTypeInv, InitFolder, NextTypeInv, NextFolder, NextServer, PTL DEF Spec
=============================================================================
