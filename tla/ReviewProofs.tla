------------------------------ MODULE ReviewProofs ------------------------------
(***************************************************************************)
(* Proofs about the review of analyses, for every number of reviewers,     *)
(* versions and requests.                                                  *)
(***************************************************************************)
EXTENDS Review, Evidence, SequenceTheorems, TLAPS

(* A decision under way was allowed by the case as it was read, and the    *)
(* case was then approved only if somebody had approved the version; a     *)
(* message under way had a published call.                                 *)
RequestFits(q) ==
  /\ q.at = "case" =>
       /\ q.version \in DOMAIN versions /\ q.status \in Allowed(q.decision)
       /\ q.call.published <= Len(versions)
       /\ q.status = "approved" => q.version \in approvals
       /\ ~crossed => q.status = cases[q.version] /\ q.call = pointers
  /\ q.at = "message" => publications # <<>>

CaseFits ==
  /\ \A v \in DOMAIN cases : cases[v] = "approved" => v \in approvals
  /\ pointers.published <= Len(versions)
  /\ pointers.published # 0 => publications # <<>>

(* The numbers of the artifacts of a version, and 0.                       *)
Numbers(rows, v) == {0} \cup {rows[i].number : i \in ArtifactsOf(rows, v)}

(* An export that holds a version has its next number and a document that  *)
(* is not recorded.                                                        *)
ExportFits(q) ==
  q.at = "locked" =>
    q.number = NextNumber(artifacts, q.version) /\ ~IsRecorded(artifacts, q.version, q.document)

ArtifactsFit ==
  /\ \A v \in Nat : \E k \in Nat : Numbers(artifacts, v) = 0 .. k
  /\ \A v \in Nat : \A i, j \in ArtifactsOf(artifacts, v) : i < j =>
       artifacts[i].number < artifacts[j].number /\ artifacts[i].checksum # artifacts[j].checksum
  /\ \A r \in Reviewers : ExportFits(desk[r])
  /\ \A r, s \in Reviewers : desk[r].at = "locked" /\ desk[s].at = "locked" /\ r # s =>
       desk[r].version # desk[s].version

ReviewInv ==
  /\ ReviewTypeOK
  /\ ArtifactsFit
  /\ \A r \in Reviewers : RequestFits(desk[r])
  /\ CaseFits
  /\ OfficialStands
  /\ PublicationWasApproved

(***************************************************************************)
(* Data                                                                    *)
(***************************************************************************)

(* What the type says of one request.                                      *)
LEMMA RequestFields ==
  ASSUME NEW q \in Request
  PROVE  /\ q.at \in {"away", "case", "message", "export", "locked"}
         /\ q.at = "away" => q = Away
         /\ q.at = "case" => /\ q.version \in Nat \ {0} /\ q.decision \in Decision
                             /\ q.status \in ReviewStatus /\ q.call \in Pointers
         /\ q.at \in {"export", "locked"} => q.version \in Nat \ {0} /\ q.document \in Documents
         /\ q.at = "locked" => q.number \in Nat \ {0}
BY DEF Request, Away

(* Only an approved version may be published, and what is published or     *)
(* approved by policy may not be decided on.                               *)
LEMMA Decisions ==
  ASSUME NEW d \in Decision
  PROVE  /\ Target[d] \in VersionStatus \cap ReviewStatus
         /\ d = "publish" => Allowed(d) = {"approved"} /\ Target[d] = "published"
         /\ Target[d] = "approved" <=> d = "approve"
         /\ "published" \notin Allowed(d) /\ "policy_approved" \notin Allowed(d)
BY DEF Decision, Target, VersionStatus, ReviewStatus, Allowed

(* The next number depends on the numbers only.                            *)
LEMMA NextFollowsNumbers ==
  ASSUME NEW rows, NEW v
  PROVE  NextNumber(rows, v) =
           1 + CHOOSE n \in Numbers(rows, v) : \A m \in Numbers(rows, v) : m <= n
BY DEF NextNumber, Numbers

(* A sequence with one place changed.                                      *)
LEMMA ChangedPlace ==
  ASSUME NEW S, NEW seq \in Seq(S), NEW i \in 1 .. Len(seq), NEW e \in S
  PROVE  /\ [seq EXCEPT ![i] = e] \in Seq(S) /\ Len([seq EXCEPT ![i] = e]) = Len(seq)
         /\ \A j \in 1 .. Len(seq) : [seq EXCEPT ![i] = e][j] = IF j = i THEN e ELSE seq[j]
BY ExceptSeq

(* A sequence with one more element.                                       *)
LEMMA OneMore ==
  ASSUME NEW S, NEW seq \in Seq(S), NEW e \in S
  PROVE  /\ Append(seq, e) \in Seq(S) /\ Len(Append(seq, e)) = Len(seq) + 1
         /\ Append(seq, e)[Len(seq) + 1] = e /\ Append(seq, e) # <<>>
         /\ \A j \in 1 .. Len(seq) : Append(seq, e)[j] = seq[j]
         /\ Len(seq) \in Nat
BY AppendProperties

(***************************************************************************)
(* Requests                                                                *)
(***************************************************************************)

(* A step that changes one request, and neither cases nor versions.        *)
LEMMA OneRequestChanges ==
  ASSUME ReviewInv, NEW r \in Reviewers, NEW q \in Request, RequestFits(q), ExportFits(q),
         q.at = "locked" => \A s \in Reviewers : desk[s].at = "locked" => desk[s].version # q.version,
         desk' = [desk EXCEPT ![r] = q], requests' \in Nat, draft' \in {"pending_approval", "approved"},
         draft' = "approved" => draft = "approved" \/ publications # <<>>,
         UNCHANGED <<caseVars, artifacts, crossed>>
  PROVE  ReviewInv'
<1> USE DEF ReviewInv
<1>1. /\ versions' = versions /\ cases' = cases /\ pointers' = pointers
      /\ publications' = publications /\ approvals' = approvals /\ crossed' = crossed
  BY DEF caseVars
<1>2. ReviewTypeOK'
  BY <1>1 DEF ReviewTypeOK
<1>3. \A s \in Reviewers : RequestFits(desk[s])'
  BY <1>1 DEF RequestFits, ReviewTypeOK
<1>4. (CaseFits /\ OfficialStands /\ PublicationWasApproved)'
  BY <1>1 DEF CaseFits, OfficialStands, PublicationWasApproved
<1>5. desk \in [Reviewers -> Request] /\ artifacts' = artifacts
  BY DEF ReviewTypeOK
<1>6. ArtifactsFit'
  <2>1. \A s \in Reviewers : desk'[s] = IF s = r THEN q ELSE desk[s]
    BY <1>5
  <2>2. \A s \in Reviewers : ExportFits(desk[s])'
    <3> SUFFICES ASSUME NEW s \in Reviewers PROVE ExportFits(desk[s])'
      OBVIOUS
    <3>1. ExportFits(desk[s]) /\ (desk'[s] = q \/ desk'[s] = desk[s])
      BY <2>1 DEF ArtifactsFit
    <3>2. ExportFits(desk'[s])
      BY <3>1
    <3> QED
      BY <1>5, <3>2 DEF ExportFits
  <2>3. \A s, t \in Reviewers : desk'[s].at = "locked" /\ desk'[t].at = "locked" /\ s # t =>
          desk'[s].version # desk'[t].version
    <3> SUFFICES ASSUME NEW s \in Reviewers, NEW t \in Reviewers, s # t,
                        desk'[s].at = "locked", desk'[t].at = "locked"
                 PROVE  desk'[s].version # desk'[t].version
      OBVIOUS
    <3>1. CASE s = r \/ t = r
      BY <2>1, <3>1
    <3>2. CASE s # r /\ t # r
      <4>1. desk'[s] = desk[s] /\ desk'[t] = desk[t]
        BY <2>1, <3>2
      <4>2. desk[s].at = "locked" /\ desk[t].at = "locked" => desk[s].version # desk[t].version
        BY Zenon DEF ArtifactsFit
      <4> QED
        BY <4>1, <4>2
    <3> QED
      BY <3>1, <3>2
  <2> QED
    BY <1>5, <2>2, <2>3 DEF ArtifactsFit
<1> QED
  BY <1>2, <1>3, <1>4, <1>6

(* A request that ends or is not about a case fits.                        *)
LEMMA AwayFits ==
  Away \in Request /\ RequestFits(Away) /\ ExportFits(Away) /\ Away.at # "locked"
BY DEF Away, Request, RequestFits, ExportFits

(* The types of the requests and of what they keep.                        *)
LEMMA ReviewTypes ==
  ASSUME ReviewInv
  PROVE  /\ desk \in [Reviewers -> Request] /\ requests \in Nat /\ requests + 1 \in Nat
         /\ artifacts \in Seq(Artifact) /\ draft \in {"pending_approval", "approved"}
         /\ pointers \in Pointers /\ pointers.published \in Nat /\ pointers.latest \in Nat
         /\ versions \in Seq(VersionStatus) /\ cases \in Seq(ReviewStatus)
         /\ Len(cases) = Len(versions) /\ Len(versions) \in Nat
         /\ DOMAIN versions = 1 .. Len(versions) /\ DOMAIN cases = 1 .. Len(versions)
BY DEF ReviewInv, ReviewTypeOK, Pointers

(* A reviewer opens a case in a state that allows the decision.            *)
LEMMA OpenCaseInv ==
  ASSUME ReviewInv, NEW r \in Reviewers, OpenCase(r)
  PROVE  ReviewInv'
<1>1. PICK v \in DOMAIN cases, d \in Decision :
        /\ cases[v] \in Allowed(d)
        /\ Ask(r, [at |-> "case", version |-> v, decision |-> d, status |-> cases[v],
                   call |-> pointers])
  BY DEF OpenCase
<1> DEFINE q == [at |-> "case", version |-> v, decision |-> d, status |-> cases[v],
                 call |-> pointers]
<1>2. v \in 1 .. Len(versions) /\ v \in Nat \ {0} /\ cases[v] \in ReviewStatus
  BY ReviewTypes
<1>3. q \in Request
  BY <1>2, ReviewTypes DEF Request
<1>4. RequestFits(q)
  BY <1>1, <1>2, ReviewTypes DEF RequestFits, ReviewInv, CaseFits
<1>5. desk' = [desk EXCEPT ![r] = q] /\ requests' = requests + 1
  BY <1>1 DEF Ask
<1>6. q.at # "locked" /\ ExportFits(q)
  BY DEF ExportFits
<1> HIDE DEF q
<1> QED
  BY <1>3, <1>4, <1>5, <1>6, ReviewTypes, OneRequestChanges DEF OpenCase

(* Messages: one is opened only when the call has a published version.     *)
LEMMA OpenMessageInv ==
  ASSUME ReviewInv, NEW r \in Reviewers, OpenMessage(r)
  PROVE  ReviewInv'
<1> DEFINE q == [at |-> "message"]
<1>1. q \in Request /\ RequestFits(q) /\ ExportFits(q) /\ q.at # "locked"
  BY DEF Request, RequestFits, ExportFits, OpenMessage, ReviewInv, CaseFits
<1>2. desk' = [desk EXCEPT ![r] = q] /\ requests' = requests + 1
  BY DEF OpenMessage, Ask
<1> HIDE DEF q
<1> QED
  BY <1>1, <1>2, ReviewTypes, OneRequestChanges DEF OpenMessage

(* A message is approved.                                                  *)
LEMMA ApproveMessageInv ==
  ASSUME ReviewInv, NEW r \in Reviewers, ApproveMessage(r)
  PROVE  ReviewInv'
<1>1. publications # <<>>
  BY DEF ApproveMessage, ReviewInv, RequestFits
<1> QED
  BY <1>1, AwayFits, ReviewTypes, OneRequestChanges DEF ApproveMessage

(* A request ends without a commit.                                        *)
LEMMA LeaveInv ==
  ASSUME ReviewInv, NEW r \in Reviewers, Leave(r)
  PROVE  ReviewInv'
BY AwayFits, ReviewTypes, OneRequestChanges DEF Leave

(* Exports change no case and no version.                                  *)
LEMMA ExportInv ==
  ASSUME ReviewInv, NEW r \in Reviewers, Export(r)
  PROVE  ReviewInv'
<1>1. PICK d \in Documents :
        Ask(r, [at |-> "export", version |-> pointers.latest, document |-> d])
  BY DEF Export
<1> DEFINE q == [at |-> "export", version |-> pointers.latest, document |-> d]
<1>2. q \in Request /\ RequestFits(q) /\ ExportFits(q) /\ q.at # "locked"
  BY ReviewTypes DEF Request, RequestFits, ExportFits, Export
<1>3. desk' = [desk EXCEPT ![r] = q] /\ requests' = requests + 1
  BY <1>1 DEF Ask
<1> HIDE DEF q
<1> QED
  BY <1>2, <1>3, ReviewTypes, OneRequestChanges DEF Export

(* The next number follows all numbers of the version.                     *)
LEMMA NextNumberFollows ==
  ASSUME ReviewInv, NEW v \in Nat
  PROVE  \E k \in Nat : Numbers(artifacts, v) = 0 .. k /\ NextNumber(artifacts, v) = k + 1
<1>1. PICK k \in Nat : Numbers(artifacts, v) = 0 .. k
  BY DEF ReviewInv, ArtifactsFit
<1>2. NextNumber(artifacts, v) = 1 + CHOOSE n \in 0 .. k : \A m \in 0 .. k : m <= n
  BY <1>1, NextFollowsNumbers
<1>3. k \in 0 .. k /\ \A m \in 0 .. k : m <= k
  OBVIOUS
<1>4. (CHOOSE n \in 0 .. k : \A m \in 0 .. k : m <= n) = k
  BY <1>3
<1>5. NextNumber(artifacts, v) = k + 1
  BY <1>2, <1>4
<1> QED
  BY <1>1, <1>5

(* The lock of the version, and the number read under it.                  *)
LEMMA LockAndNumberInv ==
  ASSUME ReviewInv, NEW r \in Reviewers, LockAndNumber(r)
  PROVE  ReviewInv'
<1> DEFINE v == desk[r].version
           d == desk[r].document
           locked == [at |-> "locked", version |-> v, document |-> d,
                      number |-> NextNumber(artifacts, v)]
<1>1. desk[r] \in Request /\ desk[r].at = "export"
  BY ReviewTypes DEF LockAndNumber
<1>2. v \in Nat \ {0} /\ d \in Documents
  BY <1>1, RequestFields
<1>3. NextNumber(artifacts, v) \in Nat \ {0}
  <2>1. v \in Nat
    BY <1>2
  <2> HIDE DEF v
  <2>2. PICK k \in Nat : NextNumber(artifacts, v) = k + 1
    BY <2>1, NextNumberFollows
  <2> QED
    BY <2>2
<1>4. locked \in Request /\ RequestFits(locked)
  BY <1>2, <1>3 DEF Request, RequestFits
<1>5. ~IsRecorded(artifacts, v, d) => ExportFits(locked)
  BY DEF ExportFits
<1>6. locked.version = v /\ locked.at = "locked"
  OBVIOUS
<1>7. desk' = [desk EXCEPT ![r] = IF IsRecorded(artifacts, v, d) THEN Away ELSE locked]
  BY DEF LockAndNumber
<1>8. \A s \in Reviewers : desk[s].at = "locked" => desk[s].version # v
  BY DEF LockAndNumber
<1> HIDE DEF locked, v, d
<1>9. CASE IsRecorded(artifacts, v, d)
  BY <1>7, <1>9, AwayFits, ReviewTypes, OneRequestChanges DEF LockAndNumber
<1>10. CASE ~IsRecorded(artifacts, v, d)
  BY <1>4, <1>5, <1>6, <1>7, <1>8, <1>10, ReviewTypes, OneRequestChanges DEF LockAndNumber
<1> QED
  BY <1>9, <1>10

(* The number is still the next when it is written.                        *)
LEMMA RecordArtifactInv ==
  ASSUME ReviewInv, NEW r \in Reviewers, RecordArtifact(r)
  PROVE  ReviewInv'
<1> USE DEF ReviewInv
<1> DEFINE v == desk[r].version
           n == desk[r].number
           d == desk[r].document
           last == Len(artifacts) + 1
           artifact == [version |-> v, number |-> n, checksum |-> d]
<1>1. desk[r] \in Request /\ desk[r].at = "locked" /\ desk \in [Reviewers -> Request]
  BY ReviewTypes DEF RecordArtifact
<1>2. v \in Nat \ {0} /\ n \in Nat \ {0} /\ d \in Documents
  BY <1>1, RequestFields
<1>3. /\ artifact \in Artifact
      /\ artifact.version = v /\ artifact.number = n /\ artifact.checksum = d
  BY <1>2 DEF Artifact
<1>4. artifacts' = Append(artifacts, artifact) /\ desk' = [desk EXCEPT ![r] = Away]
  BY DEF RecordArtifact
<1>5. n = NextNumber(artifacts, v) /\ ~IsRecorded(artifacts, v, d)
  BY <1>1 DEF ArtifactsFit, ExportFits
<1> HIDE DEF artifact
<1>6. /\ artifacts' \in Seq(Artifact) /\ DOMAIN artifacts' = DOMAIN artifacts \cup {last}
      /\ last \in Nat /\ \A i \in DOMAIN artifacts : i \in Nat /\ i < last
      /\ artifacts'[last] = artifact /\ \A i \in DOMAIN artifacts : artifacts'[i] = artifacts[i]
  BY <1>3, <1>4, ReviewTypes, OneMore
<1> HIDE DEF v, n, d, last
<1>7. \A u \in Nat : ArtifactsOf(artifacts', u) = ArtifactsOf(artifacts, u) \cup (IF u = v THEN {last} ELSE {})
  BY <1>3, <1>6 DEF ArtifactsOf
<1>8. PICK k \in Nat : Numbers(artifacts, v) = 0 .. k /\ n = k + 1
  BY <1>2, <1>5, NextNumberFollows
<1>9. \A u \in Nat : Numbers(artifacts', u) = Numbers(artifacts, u) \cup (IF u = v THEN {n} ELSE {})
  BY <1>3, <1>6, <1>7 DEF Numbers, ArtifactsOf
<1>10. \A u \in Nat : \E l \in Nat : Numbers(artifacts', u) = 0 .. l
  <2> TAKE u \in Nat
  <2>1. CASE u = v
    <3>1. 0 .. k \cup {n} = 0 .. n
      BY <1>8
    <3> QED
      BY <1>2, <1>8, <1>9, <2>1, <3>1
  <2>2. CASE u # v
    BY <1>9, <2>2 DEF ArtifactsFit
  <2> QED
    BY <2>1, <2>2
<1>11. \A i \in ArtifactsOf(artifacts, v) : artifacts[i].number < n /\ artifacts[i].checksum # d
  <2> TAKE i \in ArtifactsOf(artifacts, v)
  <2>1. artifacts[i].number \in 0 .. k
    BY <1>8 DEF Numbers
  <2> QED
    BY <1>5, <1>8, <2>1 DEF IsRecorded
<1>12. \A u \in Nat : \A i, j \in ArtifactsOf(artifacts', u) : i < j =>
         /\ artifacts'[i].number < artifacts'[j].number
         /\ artifacts'[i].checksum # artifacts'[j].checksum
  <2> TAKE u \in Nat
  <2> TAKE i, j \in ArtifactsOf(artifacts', u)
  <2> HAVE i < j
  <2>1. i \in ArtifactsOf(artifacts, u) /\ i \in DOMAIN artifacts
    BY <1>6, <1>7 DEF ArtifactsOf
  <2>2. CASE j \in ArtifactsOf(artifacts, u)
    <3>1. j \in DOMAIN artifacts
      BY <2>2 DEF ArtifactsOf
    <3>2. artifacts[i].number < artifacts[j].number /\ artifacts[i].checksum # artifacts[j].checksum
      BY <2>1, <2>2 DEF ArtifactsFit
    <3> QED
      BY <1>6, <2>1, <3>1, <3>2
  <2>3. CASE j \notin ArtifactsOf(artifacts, u)
    BY <1>2, <1>3, <1>6, <1>7, <1>11, <2>1, <2>3
  <2> QED
    BY <2>2, <2>3
<1>13. \A s \in Reviewers : desk'[s] = IF s = r THEN Away ELSE desk[s]
  BY <1>1, <1>4
<1>14. \A s \in Reviewers : ExportFits(desk[s])'
  <2> SUFFICES ASSUME NEW s \in Reviewers, s # r, desk[s].at = "locked"
               PROVE  /\ desk[s].number = NextNumber(artifacts', desk[s].version)
                      /\ ~IsRecorded(artifacts', desk[s].version, desk[s].document)
    BY <1>13, AwayFits DEF ExportFits
  <2> DEFINE u == desk[s].version
  <2>1. u \in Nat /\ u # v
    BY <1>1, RequestFields DEF ArtifactsFit, v
  <2>2. u = desk[s].version
    OBVIOUS
  <2> HIDE DEF u
  <2>3. ArtifactsOf(artifacts', u) = ArtifactsOf(artifacts, u)
    BY <1>7, <2>1
  <2>4. NextNumber(artifacts', u) = NextNumber(artifacts, u)
    <3>1. Numbers(artifacts', u) = Numbers(artifacts, u)
      BY <1>9, <2>1
    <3> QED
      BY <3>1, NextFollowsNumbers
  <2>5. \A i \in ArtifactsOf(artifacts, u) : artifacts'[i] = artifacts[i]
    BY <1>6 DEF ArtifactsOf
  <2>6. \A e : IsRecorded(artifacts', u, e) <=> IsRecorded(artifacts, u, e)
    BY <2>3, <2>5 DEF IsRecorded
  <2> QED
    BY <2>2, <2>4, <2>6 DEF ArtifactsFit, ExportFits
<1>15. \A s, t \in Reviewers : desk'[s].at = "locked" /\ desk'[t].at = "locked" /\ s # t =>
         desk'[s].version # desk'[t].version
  BY <1>13, AwayFits DEF ArtifactsFit
<1>16. ArtifactsFit'
  BY <1>10, <1>12, <1>14, <1>15 DEF ArtifactsFit
<1>17. /\ versions' = versions /\ cases' = cases /\ pointers' = pointers
       /\ publications' = publications /\ approvals' = approvals /\ crossed' = crossed
       /\ draft' = draft /\ requests' = requests
  BY DEF RecordArtifact, caseVars
<1>18. ReviewTypeOK'
  BY <1>1, <1>4, <1>6, <1>17, AwayFits DEF ReviewTypeOK
<1>19. \A s \in Reviewers : RequestFits(desk[s])'
  BY <1>13, <1>17, AwayFits DEF RequestFits, Away
<1>20. (CaseFits /\ OfficialStands /\ PublicationWasApproved)'
  BY <1>17 DEF CaseFits, OfficialStands, PublicationWasApproved
<1> QED
  BY <1>16, <1>18, <1>19, <1>20

(***************************************************************************)
(* Cases and versions                                                      *)
(***************************************************************************)

(* A run adds a version, as a draft or published by policy.                *)
LEMMA AddAnalysisInv ==
  ASSUME ReviewInv, AddAnalysis
  PROVE  ReviewInv'
<1> USE DEF ReviewInv
<1> DEFINE v == Len(versions) + 1
<1>1. v \in Nat \ {0} /\ v # 0 /\ Len(versions) < v
  BY ReviewTypes
<1>2. PICK s \in {"draft", "policy_approved"}, c \in {"queued_for_review", "policy_approved"} :
        /\ versions' = Append(versions, s) /\ cases' = Append(cases, c)
        /\ s = "policy_approved" <=> c = "policy_approved"
        /\ c = "queued_for_review" => /\ pointers' = [pointers EXCEPT !.latest = v]
                                      /\ publications' = publications
        /\ c = "policy_approved" =>
             /\ pointers' = [latest |-> v, reviewed |-> v, published |-> v]
             /\ publications' = Append(publications, Published(v, "policy_approved"))
  BY DEF AddAnalysis
<1> HIDE DEF v
<1>3. s \in VersionStatus /\ c \in ReviewStatus
  BY DEF VersionStatus, ReviewStatus
<1>4. /\ versions' \in Seq(VersionStatus) /\ Len(versions') = v
      /\ versions'[v] = s /\ \A i \in 1 .. Len(versions) : versions'[i] = versions[i]
  BY <1>2, <1>3, ReviewTypes, OneMore DEF v
<1>5. /\ cases' \in Seq(ReviewStatus) /\ Len(cases') = v
      /\ cases'[v] = c /\ \A i \in 1 .. Len(versions) : cases'[i] = cases[i]
  BY <1>2, <1>3, ReviewTypes, OneMore DEF v
<1>6. DOMAIN versions' = 1 .. v /\ DOMAIN cases' = 1 .. v /\ 1 .. v = 1 .. Len(versions) \cup {v}
  BY <1>1, <1>4, <1>5, ReviewTypes DEF v
<1>7. /\ approvals' = approvals /\ desk' = desk /\ requests' = requests
      /\ draft' = draft /\ artifacts' = artifacts
      /\ crossed' = (crossed \/ \E r \in Reviewers : desk[r].at = "case")
  BY DEF AddAnalysis
<1>8. /\ pointers' \in Pointers
      /\ pointers'.published = IF c = "policy_approved" THEN v ELSE pointers.published
  <2>1. CASE c = "policy_approved"
    BY <1>1, <1>2, <2>1 DEF Pointers
  <2>2. CASE c = "queued_for_review"
    BY <1>1, <1>2, <2>2, ReviewTypes DEF Pointers
  <2> QED
    BY <2>1, <2>2
<1> DEFINE P == [version : Nat \ {0}, type : {"human_approved", "policy_approved"}]
           p == Published(v, "policy_approved")
<1>9. p \in P /\ p.type = "policy_approved" /\ p.version = v
  BY <1>1 DEF Published
<1>10. publications \in Seq(P) /\ Len(publications) \in Nat
  BY DEF ReviewTypeOK
<1> HIDE DEF p, P
<1>11. /\ publications' \in Seq(P)
       /\ c = "policy_approved" =>
            /\ publications' # <<>> /\ Len(publications') = Len(publications) + 1
            /\ publications'[Len(publications')] = p
            /\ \A i \in 1 .. Len(publications) : publications'[i] = publications[i]
  <2> DEFINE more == Append(publications, p)
  <2>1. /\ more \in Seq(P) /\ more # <<>> /\ Len(more) = Len(publications) + 1
        /\ more[Len(publications) + 1] = p
        /\ \A i \in 1 .. Len(publications) : more[i] = publications[i]
    BY <1>9, <1>10, OneMore
  <2>2. c = "policy_approved" => publications' = more
    BY <1>2 DEF p
  <2> HIDE DEF more
  <2>3. c # "policy_approved" => publications' = publications
    BY <1>2
  <2> QED
    BY <1>10, <2>1, <2>2, <2>3
<1>12. ReviewTypeOK'
  <2>1. approvals' \subseteq DOMAIN versions'
    BY <1>6, <1>7, ReviewTypes DEF ReviewTypeOK
  <2>2. crossed' \in BOOLEAN
    BY <1>7 DEF ReviewTypeOK
  <2> QED
    BY <1>4, <1>5, <1>7, <1>8, <1>11, <2>1, <2>2 DEF ReviewTypeOK, P
<1>13. \A r \in Reviewers : RequestFits(desk[r])'
  <2> TAKE r \in Reviewers
  <2>1. RequestFits(desk[r]) /\ desk[r] \in Request
    BY ReviewTypes
  <2>2. desk[r].at = "case" => crossed'
    BY <1>7
  <2>3. desk[r].at = "case" => desk[r].call.published \in Nat
    BY <2>1, RequestFields DEF Pointers
  <2>4. publications # <<>> => publications' # <<>>
    BY <1>2, <1>11
  <2>5. RequestFits(desk[r])'
    BY <1>1, <1>4, <1>6, <1>7, <2>1, <2>2, <2>3, <2>4, ReviewTypes DEF RequestFits
  <2> QED
    BY <2>5
<1>14. CaseFits'
  BY <1>1, <1>2, <1>4, <1>5, <1>6, <1>7, <1>8, <1>11, ReviewTypes DEF CaseFits
<1>15. OfficialStands'
  <2> SUFFICES ASSUME pointers'.published # 0, ~crossed'
               PROVE  /\ versions'[pointers'.published] \in {"published", "policy_approved"}
                      /\ cases'[pointers'.published] = versions'[pointers'.published]
                      /\ publications'[Len(publications')].version = pointers'.published
    BY DEF OfficialStands
  <2>1. CASE c = "policy_approved"
    BY <1>2, <1>4, <1>5, <1>8, <1>9, <1>11, <2>1
  <2>2. CASE c = "queued_for_review"
    <3>1. pointers.published \in 1 .. Len(versions)
      BY <1>8, <2>2, ReviewTypes DEF CaseFits
    <3> QED
      BY <1>2, <1>4, <1>5, <1>7, <1>8, <2>2, <3>1 DEF OfficialStands
  <2> QED
    BY <1>2, <2>1, <2>2
<1>16. PublicationWasApproved'
  <2>1. CASE c = "policy_approved"
    <3>1. DOMAIN publications' = 1 .. Len(publications) \cup {Len(publications) + 1}
          /\ DOMAIN publications = 1 .. Len(publications)
      BY <1>10, <1>11, <2>1
    <3> QED
      BY <1>7, <1>9, <1>11, <2>1, <3>1 DEF PublicationWasApproved
  <2>2. CASE c = "queued_for_review"
    BY <1>2, <1>7, <2>2 DEF PublicationWasApproved
  <2> QED
    BY <1>2, <2>1, <2>2
<1>17. ArtifactsFit'
  BY <1>7 DEF ArtifactsFit, ExportFits
<1> QED
  BY <1>12, <1>13, <1>14, <1>15, <1>16, <1>17

(* What a decision finds: the case as the type has it, and, while nothing  *)
(* crossed, as it was read.                                                *)
LEMMA DecisionFinds ==
  ASSUME ReviewInv, NEW r \in Reviewers, Decide(r)
  PROVE  /\ desk[r].at = "case" /\ desk[r].version \in 1 .. Len(versions)
         /\ desk[r].decision \in Decision /\ desk[r].status \in Allowed(desk[r].decision)
         /\ desk[r].call.published \in 0 .. Len(versions)
         /\ Target[desk[r].decision] \in VersionStatus \cap ReviewStatus
         /\ desk[r].decision = "publish" => desk[r].version \in approvals
         /\ ~crossed => desk[r].status = cases[desk[r].version] /\ desk[r].call = pointers
<1>1. desk[r] \in Request /\ desk[r].at = "case" /\ RequestFits(desk[r])
  BY ReviewTypes DEF Decide, ReviewInv
<1>2. /\ desk[r].version \in DOMAIN versions /\ desk[r].decision \in Decision
      /\ desk[r].status \in Allowed(desk[r].decision)
      /\ desk[r].call.published \in Nat /\ desk[r].call.published <= Len(versions)
  BY <1>1, RequestFields DEF RequestFits, Pointers
<1>3. desk[r].decision = "publish" => desk[r].version \in approvals
  BY <1>1, <1>2, Decisions DEF RequestFits
<1> QED
  BY <1>1, <1>2, <1>3, ReviewTypes, Decisions DEF RequestFits

(* The versions and cases after a decision.                                *)
LEMMA DecisionWrites ==
  ASSUME ReviewInv, NEW r \in Reviewers, Decide(r)
  PROVE  /\ versions' \in Seq(VersionStatus) /\ Len(versions') = Len(versions)
         /\ cases' \in Seq(ReviewStatus) /\ Len(cases') = Len(versions)
         /\ \A u \in 1 .. Len(versions) :
              /\ cases'[u] = IF u = desk[r].version THEN Target[desk[r].decision] ELSE cases[u]
              /\ versions'[u] =
                   IF desk[r].decision = "publish" /\ desk[r].call.published # desk[r].version
                        /\ u = desk[r].call.published THEN "superseded"
                   ELSE IF u = desk[r].version THEN Target[desk[r].decision] ELSE versions[u]
<1> DEFINE v == desk[r].version
           p == desk[r].call.published
           t == Target[desk[r].decision]
           marked == [versions EXCEPT ![v] = t]
           supersedes == desk[r].decision = "publish" /\ p # v
<1>1. /\ v \in 1 .. Len(versions) /\ p \in 0 .. Len(versions)
      /\ t \in VersionStatus /\ t \in ReviewStatus
  BY DecisionFinds
<1>2. /\ versions' = Supersede(marked, IF supersedes THEN p ELSE 0)
      /\ cases' = [cases EXCEPT ![v] = t]
  BY DEF Decide, Decided
<1> HIDE DEF v, p, t, supersedes
<1>3. /\ marked \in Seq(VersionStatus) /\ Len(marked) = Len(versions)
      /\ \A u \in 1 .. Len(versions) : marked[u] = IF u = v THEN t ELSE versions[u]
  BY <1>1, ReviewTypes, ChangedPlace
<1>4. /\ cases' \in Seq(ReviewStatus) /\ Len(cases') = Len(versions)
      /\ \A u \in 1 .. Len(versions) : cases'[u] = IF u = v THEN t ELSE cases[u]
  BY <1>1, <1>2, ReviewTypes, ChangedPlace
<1> HIDE DEF marked
<1>5. /\ versions' \in Seq(VersionStatus) /\ Len(versions') = Len(versions)
      /\ \A u \in 1 .. Len(versions) :
           versions'[u] = IF supersedes /\ u = p THEN "superseded"
                          ELSE IF u = v THEN t ELSE versions[u]
  <2>1. CASE supersedes /\ p # 0
    <3>1. versions' = [marked EXCEPT ![p] = "superseded"]
      BY <1>2, <2>1 DEF Supersede
    <3>2. p \in 1 .. Len(marked) /\ "superseded" \in VersionStatus
      BY <1>1, <1>3, <2>1, ReviewTypes DEF VersionStatus
    <3> QED
      BY <1>3, <2>1, <3>1, <3>2, ChangedPlace
  <2>2. CASE ~(supersedes /\ p # 0)
    <3>1. versions' = marked
      BY <1>2, <2>2 DEF Supersede
    <3> QED
      BY <1>3, <2>2, <3>1
  <2> QED
    BY <2>1, <2>2
<1> QED
  BY <1>4, <1>5 DEF v, p, t, supersedes

(* The announcement and the pointers after a decision.                     *)
LEMMA DecisionPublishes ==
  ASSUME ReviewInv, NEW r \in Reviewers, Decide(r)
  PROVE  /\ publications' \in Seq([version : Nat \ {0}, type : {"human_approved", "policy_approved"}])
         /\ desk[r].decision # "publish" => publications' = publications
         /\ desk[r].decision = "publish" =>
              /\ publications' # <<>> /\ Len(publications') = Len(publications) + 1
              /\ publications'[Len(publications')].version = desk[r].version
              /\ \A i \in 1 .. Len(publications) : publications'[i] = publications[i]
         /\ pointers' \in Pointers
         /\ desk[r].decision # "publish" => pointers'.published = pointers.published
         /\ pointers'.published \in {desk[r].version, pointers.published}
         /\ desk[r].decision = "publish" /\ desk[r].call = pointers =>
              pointers'.published = desk[r].version
<1> DEFINE P == [version : Nat \ {0}, type : {"human_approved", "policy_approved"}]
           v == desk[r].version
           more == Published(v, "human_approved")
<1>1. v \in Nat \ {0}
  BY DecisionFinds, ReviewTypes
<1>2. publications \in Seq(P)
  BY DEF ReviewInv, ReviewTypeOK
<1>3. more \in P /\ more.version = v
  BY <1>1 DEF Published
<1>4. publications' = IF desk[r].decision = "publish" THEN Append(publications, more)
                      ELSE publications
  BY DEF Decide
<1> HIDE DEF P, more
<1>5. /\ publications' \in Seq(P)
      /\ desk[r].decision # "publish" => publications' = publications
      /\ desk[r].decision = "publish" =>
           /\ publications' # <<>> /\ Len(publications') = Len(publications) + 1
           /\ publications'[Len(publications')].version = v
           /\ \A i \in 1 .. Len(publications) : publications'[i] = publications[i]
  <2> DEFINE longer == Append(publications, more)
  <2>1. /\ longer \in Seq(P) /\ longer # <<>> /\ Len(longer) = Len(publications) + 1
        /\ longer[Len(publications) + 1] = more
        /\ \A i \in 1 .. Len(publications) : longer[i] = publications[i]
    BY <1>2, <1>3, OneMore
  <2>2. CASE desk[r].decision = "publish"
    <3>1. publications' = longer
      BY <1>4, <2>2
    <3> HIDE DEF longer
    <3> QED
      BY <1>3, <2>1, <2>2, <3>1
  <2>3. CASE desk[r].decision # "publish"
    BY <1>2, <1>4, <2>3
  <2> QED
    BY <2>2, <2>3
<1>6. /\ pointers' \in Pointers
      /\ desk[r].decision # "publish" => pointers'.published = pointers.published
      /\ pointers'.published \in {v, pointers.published}
      /\ desk[r].decision = "publish" /\ desk[r].call = pointers => pointers'.published = v
  <2> DEFINE reviewed == IF desk[r].decision \in {"approve", "publish"}
                         THEN Changed(v, desk[r].call.reviewed, pointers.reviewed)
                         ELSE pointers.reviewed
             published == IF desk[r].decision = "publish"
                          THEN Changed(v, desk[r].call.published, pointers.published)
                          ELSE pointers.published
  <2>1. pointers' = [pointers EXCEPT !.reviewed = reviewed, !.published = published]
    BY ReviewTypes DEF Decide, Pointers
  <2>2. pointers \in Pointers /\ pointers.reviewed \in Nat /\ pointers.published \in Nat
    BY ReviewTypes DEF Pointers
  <2>3. /\ published \in {v, pointers.published} /\ reviewed \in {v, pointers.reviewed}
        /\ desk[r].decision # "publish" => published = pointers.published
        /\ desk[r].decision = "publish" /\ desk[r].call = pointers => published = v
    BY DEF Changed
  <2> HIDE DEF reviewed, published, v
  <2> QED
    BY <1>1, <2>1, <2>2, <2>3 DEF Pointers
<1> QED
  BY <1>5, <1>6 DEF P

(* A decision commits.                                                     *)
LEMMA DecideInv ==
  ASSUME ReviewInv, NEW r \in Reviewers, Decide(r)
  PROVE  ReviewInv'
<1> USE DEF ReviewInv
<1> DEFINE v == desk[r].version
           d == desk[r].decision
<1>1. /\ v \in 1 .. Len(versions) /\ d \in Decision /\ desk[r].status \in Allowed(d)
      /\ d = "publish" => v \in approvals
      /\ ~crossed => desk[r].status = cases[v] /\ desk[r].call = pointers
  BY DecisionFinds
<1>2. /\ approvals' = approvals \cup {u \in {v} : d = "approve"}
      /\ desk' = [desk EXCEPT ![r] = Away] /\ crossed' = Crosses(r)
      /\ draft' = draft /\ artifacts' = artifacts /\ requests' = requests
  BY DEF Decide
<1>3. /\ DOMAIN versions' = 1 .. Len(versions) /\ DOMAIN cases' = 1 .. Len(versions)
      /\ Len(versions) \in Nat /\ Len(versions') = Len(versions)
  BY DecisionWrites, ReviewTypes
<1>4. \A s \in Reviewers : desk'[s] = IF s = r THEN Away ELSE desk[s]
  BY <1>2, ReviewTypes
<1>5. publications # <<>> => publications' # <<>>
  BY DecisionPublishes
<1>6. ReviewTypeOK'
  <2>1. approvals' \subseteq DOMAIN versions'
    BY <1>1, <1>2, <1>3, ReviewTypes DEF ReviewTypeOK
  <2>2. crossed' \in BOOLEAN
    BY <1>2 DEF Crosses, ReviewTypeOK
  <2>3. desk' \in [Reviewers -> Request] /\ approvals' \subseteq DOMAIN versions'
    BY <1>2, <2>1, ReviewTypes, AwayFits
  <2> QED
    BY <1>2, <2>2, <2>3, DecisionWrites, DecisionPublishes DEF ReviewTypeOK
<1>7. \A s \in Reviewers : RequestFits(desk[s])'
  <2> TAKE s \in Reviewers
  <2>1. CASE s = r
    BY <1>4, <2>1, AwayFits DEF RequestFits, Away
  <2>2. CASE s # r
    <3>1. desk'[s] = desk[s] /\ RequestFits(desk[s])
      BY <1>4, <2>2
    <3>2. desk[s].at = "case" => crossed'
      BY <1>2, <2>2 DEF Crosses
    <3>3. approvals \subseteq approvals'
      BY <1>2
    <3> QED
      BY <1>3, <1>5, <3>1, <3>2, <3>3, ReviewTypes DEF RequestFits
  <2> QED
    BY <2>1, <2>2
<1>8. CaseFits'
  <2>1. ASSUME NEW u \in DOMAIN cases', cases'[u] = "approved"
        PROVE  u \in approvals'
    <3>1. u \in 1 .. Len(versions) /\ u \in DOMAIN cases
      BY <1>3, <2>1, ReviewTypes
    <3>2. CASE u = v
      <4>1. d = "approve"
        BY <1>1, <2>1, <3>1, <3>2, DecisionWrites, Decisions
      <4> QED
        BY <1>2, <3>2, <4>1
    <3>3. CASE u # v
      <4>1. cases[u] = "approved"
        BY <2>1, <3>1, <3>3, DecisionWrites
      <4> QED
        BY <1>2, <3>1, <4>1 DEF CaseFits
    <3> QED
      BY <3>2, <3>3
  <2>2. pointers'.published <= Len(versions')
    BY <1>1, <1>3, DecisionPublishes DEF CaseFits
  <2>3. pointers'.published # 0 => publications' # <<>>
    <3>1. CASE d = "publish"
      BY <3>1, DecisionPublishes
    <3>2. CASE d # "publish"
      BY <1>5, <3>2, DecisionPublishes DEF CaseFits
    <3> QED
      BY <3>1, <3>2
  <2> QED
    BY <2>1, <2>2, <2>3 DEF CaseFits
<1>9. OfficialStands'
  <2> SUFFICES ASSUME pointers'.published # 0, ~crossed'
               PROVE  /\ versions'[pointers'.published] \in {"published", "policy_approved"}
                      /\ cases'[pointers'.published] = versions'[pointers'.published]
                      /\ publications'[Len(publications')].version = pointers'.published
    BY DEF OfficialStands
  <2>1. ~crossed /\ desk[r].status = cases[v] /\ desk[r].call = pointers
    BY <1>1, <1>2 DEF Crosses
  <2>2. CASE d = "publish"
    <3>1. pointers'.published = v /\ publications'[Len(publications')].version = v
      BY <2>1, <2>2, DecisionPublishes
    <3>2. Target[d] = "published"
      BY <1>1, <2>2, Decisions
    <3> QED
      BY <1>1, <3>1, <3>2, DecisionWrites
  <2>3. CASE d # "publish"
    <3>1. pointers'.published = pointers.published /\ publications' = publications
      BY <2>3, DecisionPublishes
    <3>2. pointers.published \in 1 .. Len(versions)
      BY <3>1, ReviewTypes DEF CaseFits
    <3>3. /\ versions[pointers.published] \in {"published", "policy_approved"}
          /\ cases[pointers.published] = versions[pointers.published]
          /\ publications[Len(publications)].version = pointers.published
      BY <2>1, <3>1 DEF OfficialStands
    <3>4. v # pointers.published
      BY <1>1, <2>1, <3>3, Decisions
    <3>5. /\ versions'[pointers.published] = versions[pointers.published]
          /\ cases'[pointers.published] = cases[pointers.published]
      BY <2>3, <3>2, <3>4, DecisionWrites
    <3> QED
      BY <3>1, <3>3, <3>5
  <2> QED
    BY <2>2, <2>3
<1>10. PublicationWasApproved'
  <2>1. draft' = "approved" => publications' # <<>>
    BY <1>2, <1>5 DEF PublicationWasApproved
  <2>2. approvals \subseteq approvals'
    BY <1>2
  <2>3. CASE d = "publish"
    <3>1. publications \in Seq([version : Nat \ {0}, type : {"human_approved", "policy_approved"}])
      BY DEF ReviewTypeOK
    <3>2. /\ DOMAIN publications' = 1 .. Len(publications) \cup {Len(publications) + 1}
          /\ DOMAIN publications = 1 .. Len(publications)
          /\ Len(publications') = Len(publications) + 1
      <4> DEFINE P == [version : Nat \ {0}, type : {"human_approved", "policy_approved"}]
      <4>1. /\ publications \in Seq(P) /\ publications' \in Seq(P)
            /\ Len(publications') = Len(publications) + 1
        BY <2>3, <3>1, DecisionPublishes
      <4> HIDE DEF P
      <4> QED
        BY <4>1
    <3>3. ASSUME NEW i \in DOMAIN publications', publications'[i].type = "human_approved"
          PROVE  publications'[i].version \in approvals'
      <4>1. CASE i \in DOMAIN publications
        BY <2>2, <2>3, <3>2, <3>3, <4>1, DecisionPublishes DEF PublicationWasApproved
      <4>2. CASE i = Len(publications')
        BY <1>1, <2>2, <2>3, <4>2, DecisionPublishes
      <4> QED
        BY <3>2, <4>1, <4>2
    <3> QED
      BY <2>1, <3>3 DEF PublicationWasApproved
  <2>4. CASE d # "publish"
    BY <2>1, <2>2, <2>4, DecisionPublishes DEF PublicationWasApproved
  <2> QED
    BY <2>3, <2>4
<1>11. ArtifactsFit'
  <2>1. \A s \in Reviewers : ExportFits(desk[s])'
    BY <1>2, <1>4, AwayFits DEF ArtifactsFit, ExportFits
  <2>2. \A s, t \in Reviewers : desk'[s].at = "locked" /\ desk'[t].at = "locked" /\ s # t =>
          desk'[s].version # desk'[t].version
    BY <1>4, AwayFits DEF ArtifactsFit
  <2> QED
    BY <1>2, <2>1, <2>2 DEF ArtifactsFit
<1> QED
  BY <1>6, <1>7, <1>8, <1>9, <1>10, <1>11

(***************************************************************************)
(* Theorems                                                                *)
(***************************************************************************)

(* Before any analysis the invariant holds.                                *)
LEMMA ReviewInitInv == ReviewInit => ReviewInv
<1> SUFFICES ASSUME ReviewInit PROVE ReviewInv
  OBVIOUS
<1>1. \A r \in Reviewers : desk[r] = Away
  BY DEF ReviewInit
<1>2. ReviewTypeOK
  <2>1. \A S : <<>> \in Seq(S)
    OBVIOUS
  <2>2. Len(cases) = Len(versions) /\ approvals \subseteq DOMAIN versions
    BY DEF ReviewInit
  <2>3. pointers \in Pointers
    BY DEF ReviewInit, Pointers
  <2>4. desk \in [Reviewers -> Request]
    BY AwayFits DEF ReviewInit
  <2>5. /\ versions \in Seq(VersionStatus) /\ cases \in Seq(ReviewStatus)
        /\ publications \in Seq([version : Nat \ {0}, type : {"human_approved", "policy_approved"}])
        /\ artifacts \in Seq(Artifact)
    BY <2>1 DEF ReviewInit
  <2>6. /\ draft \in {"pending_approval", "approved"} /\ requests \in Nat /\ crossed \in BOOLEAN
    BY DEF ReviewInit
  <2> QED
    BY <2>2, <2>3, <2>4, <2>5, <2>6 DEF ReviewTypeOK
<1>3. \A r \in Reviewers : RequestFits(desk[r]) /\ ExportFits(desk[r]) /\ desk[r].at # "locked"
  BY <1>1, AwayFits
<1>4. \A v : ArtifactsOf(artifacts, v) = {}
  BY DEF ReviewInit, ArtifactsOf
<1>5. \A v : Numbers(artifacts, v) = 0 .. 0
  BY <1>4 DEF Numbers
<1>6. ArtifactsFit
  BY <1>3, <1>4, <1>5 DEF ArtifactsFit
<1>7. CaseFits /\ OfficialStands /\ PublicationWasApproved
  BY DEF ReviewInit, CaseFits, OfficialStands, PublicationWasApproved
<1> QED
  BY <1>2, <1>3, <1>6, <1>7 DEF ReviewInv

(* Every step keeps the invariant.                                         *)
LEMMA ReviewStepInv == ReviewInv /\ [ReviewNext]_reviewVars => ReviewInv'
<1> SUFFICES ASSUME ReviewInv, [ReviewNext]_reviewVars PROVE ReviewInv'
  OBVIOUS
<1>1. CASE AddAnalysis
  BY <1>1, AddAnalysisInv
<1>2. ASSUME NEW r \in Reviewers,
             \/ OpenCase(r) \/ Decide(r) \/ OpenMessage(r) \/ ApproveMessage(r) \/ Leave(r)
             \/ Export(r) \/ LockAndNumber(r) \/ RecordArtifact(r)
      PROVE  ReviewInv'
  BY <1>2, OpenCaseInv, DecideInv, OpenMessageInv, ApproveMessageInv, LeaveInv, ExportInv,
     LockAndNumberInv, RecordArtifactInv
<1>3. CASE UNCHANGED reviewVars
  <2>1. (ReviewTypeOK /\ CaseFits /\ OfficialStands /\ PublicationWasApproved)'
    BY <1>3 DEF ReviewInv, reviewVars, caseVars, ReviewTypeOK, CaseFits, OfficialStands,
                PublicationWasApproved
  <2>2. \A r \in Reviewers : RequestFits(desk[r])'
    BY <1>3 DEF ReviewInv, reviewVars, caseVars, RequestFits
  <2>3. ArtifactsFit'
    BY <1>3 DEF ReviewInv, reviewVars, caseVars, ArtifactsFit, ExportFits
  <2> QED
    BY <2>1, <2>2, <2>3 DEF ReviewInv
<1> QED
  BY <1>1, <1>2, <1>3 DEF ReviewNext

(* The invariant holds in every behaviour.                                 *)
LEMMA ReviewInvHolds == ReviewSpec => []ReviewInv
BY ReviewInitInv, ReviewStepInv, PTL DEF ReviewSpec

(* The official version of a call is in force unless decisions crossed     *)
(* (transition_review).                                                    *)
THEOREM OfficialStandsHolds == ReviewSpec => []OfficialStands
<1>1. ReviewInv => OfficialStands
  BY DEF ReviewInv
<1> QED
  BY <1>1, ReviewInvHolds, PTL

(* What is published in the name of a person was approved by one, and      *)
(* messages wait for a publication, also when decisions cross.             *)
THEOREM PublicationWasApprovedHolds == ReviewSpec => []PublicationWasApproved
<1>1. ReviewInv => PublicationWasApproved
  BY DEF ReviewInv
<1> QED
  BY <1>1, ReviewInvHolds, PTL

(* Artifacts are different documents numbered without a gap, and a number  *)
(* is still the next when it is written (_record_artifact).                *)
THEOREM ArtifactsAreNumberedHolds == ReviewSpec => []ArtifactsAreNumbered
<1>1. ReviewInv => ArtifactsAreNumbered
  <2> SUFFICES ASSUME ReviewInv PROVE ArtifactsAreNumbered
    OBVIOUS
  <2>1. DOMAIN versions \subseteq Nat
    BY ReviewTypes
  <2>2. ASSUME NEW v \in Nat, NEW i \in ArtifactsOf(artifacts, v),
               NEW n \in 1 .. artifacts[i].number
        PROVE  \E j \in ArtifactsOf(artifacts, v) : artifacts[j].number = n
    <3>1. PICK k \in Nat : Numbers(artifacts, v) = 0 .. k
      BY DEF ReviewInv, ArtifactsFit
    <3>2. artifacts[i].number \in 0 .. k
      BY <3>1 DEF Numbers
    <3>3. n \in Numbers(artifacts, v) /\ n # 0
      BY <3>1, <3>2
    <3> QED
      BY <3>3 DEF Numbers
  <2>3. \A r \in Reviewers : desk[r].at = "locked" =>
          desk[r].number = NextNumber(artifacts, desk[r].version)
    BY DEF ReviewInv, ArtifactsFit, ExportFits
  <2>4. \A v \in Nat : \A i, j \in ArtifactsOf(artifacts, v) : i < j =>
          artifacts[i].number < artifacts[j].number /\ artifacts[i].checksum # artifacts[j].checksum
    BY DEF ReviewInv, ArtifactsFit
  <2> QED
    BY <2>1, <2>2, <2>3, <2>4 DEF ArtifactsAreNumbered
<1> QED
  BY <1>1, ReviewInvHolds, PTL

-----------------------------------------------------------------------------
(* The evidence that decides what must be reviewed, for every number of    *)
(* segments, claims, facts and citations.  The score is the sum it is,     *)
(* whatever a sum over a set comes to.                                     *)

(* What is looked at for review is what the checks left, and what the      *)
(* policy approves has lost nothing and was not critical.                  *)
EvidenceInv ==
  /\ proposal \in Analysis
  /\ Near(proposal.score, Total(proposal.stated \cap Claims, proposal.points))
  /\ official \in {"proposed", "checked", "draft", "policy_approved"}
  /\ official # "proposed" => analysis = Sanitized(proposal)
  /\ official = "policy_approved" => ~Lowered(proposal) /\ ~Critical(proposal)

(* What the checks make of an answer.                                      *)
LEMMA SanitizedFields ==
  ASSUME NEW a \in Analysis
  PROVE  /\ Sanitized(a).stated = a.stated \ Unfounded(a)
         /\ Sanitized(a).outcome = IF "outcome" \in Unfounded(a) THEN "unknown" ELSE a.outcome
         /\ Sanitized(a).cites =
              [s \in Subject |-> IF s \in Spoken(a) THEN Filtered(a.cites[s]) ELSE a.cites[s]]
         /\ Sanitized(a).points = a.points
         /\ Sanitized(a).score = Total((a.stated \ Unfounded(a)) \cap Claims, a.points)
         /\ Sanitized(a).confidence = IF Lowered(a) /\ a.confidence > 49 THEN 49 ELSE a.confidence
BY DEF Sanitized, Analysis

(* The lowered confidence is one of the reasons for review.                *)
LEMMA LoweredIsReviewed ==
  ASSUME NEW a \in Analysis, Lowered(a), analysis = Sanitized(a),
         NEW humanPublished, NEW sampled
  PROVE  ReviewReasons(humanPublished, sampled) # {}
<1>1. a.confidence \in 0 .. 100
  BY DEF Analysis
<1>2. analysis.confidence = IF a.confidence > 49 THEN 49 ELSE a.confidence
  BY SanitizedFields
<1>3. analysis.confidence < 75
  BY <1>1, <1>2
<1>4. "low_confidence" \in ReviewReasons(humanPublished, sampled)
  BY <1>3 DEF ReviewReasons
<1> QED
  BY <1>4

(* Checks that pass change nothing but the score, which they add up again. *)
LEMMA PassedIsKept ==
  ASSUME NEW a \in Analysis, ~Lowered(a)
  PROVE  Sanitized(a) = [a EXCEPT !.score = Total(a.stated \cap Claims, a.points)]
<1>1. a.cites \in [Subject -> SUBSET Citations]
  BY DEF Analysis
<1>2. /\ Unfounded(a) = {} /\ Filtered(a.moments) = a.moments
      /\ \A s \in Spoken(a) : Filtered(a.cites[s]) = a.cites[s]
  BY DEF Lowered, SomeFailed
<1>3. [s \in Subject |-> IF s \in Spoken(a) THEN Filtered(a.cites[s]) ELSE a.cites[s]] = a.cites
  BY <1>1, <1>2
<1>4. a.stated \ Unfounded(a) = a.stated
  BY <1>2
<1>5. PICK total : total = Total(a.stated \cap Claims, a.points)
  OBVIOUS
<1>6. Sanitized(a) =
        [a EXCEPT !.stated = a.stated, !.outcome = a.outcome, !.cites = a.cites,
                  !.moments = a.moments, !.score = total, !.confidence = a.confidence]
  BY <1>2, <1>3, <1>4, <1>5 DEF Sanitized
<1>7. Sanitized(a) = [a EXCEPT !.score = total]
  BY <1>6 DEF Analysis
<1> QED
  BY <1>5, <1>7

(* What was critical before the checks is reviewed: it still is, or it was *)
(* lost to them.                                                           *)
LEMMA CriticalIsReviewed ==
  ASSUME NEW a \in Analysis, Critical(a), analysis = Sanitized(a),
         NEW humanPublished, NEW sampled
  PROVE  ReviewReasons(humanPublished, sampled) # {}
<1>1. CASE Lowered(a)
  BY <1>1, LoweredIsReviewed
<1>2. CASE ~Lowered(a)
  <2>1. PICK total : analysis = [a EXCEPT !.score = total]
    BY <1>2, PassedIsKept
  <2>2. analysis.outcome = a.outcome /\ analysis.risk = a.risk /\ analysis.stated = a.stated
    BY <2>1 DEF Analysis
  <2>3. \/ "critical_outcome" \in ReviewReasons(humanPublished, sampled)
        \/ "critical_facts" \in ReviewReasons(humanPublished, sampled)
    BY <2>2 DEF Critical, ReviewReasons
  <2> QED
    BY <2>3
<1> QED
  BY <1>1, <1>2

(* A step of the validation, and of the judgement.                         *)
LEMMA EvidenceInductive ==
  /\ EvidenceInit => EvidenceInv
  /\ EvidenceInv /\ [EvidenceNext]_evidenceVars => EvidenceInv'
<1>1. ASSUME EvidenceInit PROVE EvidenceInv
  <2>1. PICK stated \in SUBSET (Subject \ {"outcome"}), outcome \in Outcome,
             cited \in [Subject -> SUBSET Citations] :
          /\ \A s \in Subject \ stated : cited[s] = {} \/ (s = "outcome" /\ outcome # "unknown")
          /\ \E score \in {n \in 0 .. 200 : Near(n, Total(stated \cap Claims, TenEach))},
                moments \in SUBSET Citations, confidence, roles \in {60, 90}, risk \in BOOLEAN :
              proposal = [stated |-> stated, outcome |-> outcome, cites |-> cited,
                          moments |-> moments, points |-> TenEach, score |-> score,
                          confidence |-> confidence, rolesConfidence |-> roles, risk |-> risk]
    BY <1>1, Zenon DEF EvidenceInit
  <2>2. PICK score \in {n \in 0 .. 200 : Near(n, Total(stated \cap Claims, TenEach))},
             moments \in SUBSET Citations, confidence, roles \in {60, 90}, risk \in BOOLEAN :
          proposal = [stated |-> stated, outcome |-> outcome, cites |-> cited,
                      moments |-> moments, points |-> TenEach, score |-> score,
                      confidence |-> confidence, rolesConfidence |-> roles, risk |-> risk]
    BY <2>1, Zenon
  <2>3. /\ TenEach \in [Claims -> Nat] /\ score \in Nat
        /\ confidence \in 0 .. 100 /\ roles \in 0 .. 100
    BY DEF TenEach
  <2>4. proposal \in Analysis
    BY <2>2, <2>3 DEF Analysis
  <2>5. proposal.score = score /\ proposal.stated = stated /\ proposal.points = TenEach
    BY <2>2
  <2>6. Near(score, Total(stated \cap Claims, TenEach))
    BY <2>2
  <2>7. Near(proposal.score, Total(proposal.stated \cap Claims, proposal.points))
    BY <2>5, <2>6
  <2> QED
    BY <1>1, <2>4, <2>7 DEF EvidenceInit, EvidenceInv
<1>2. ASSUME EvidenceInv, [EvidenceNext]_evidenceVars PROVE EvidenceInv'
  <2>0. proposal' = proposal
    BY <1>2 DEF EvidenceNext, Validate, Judge, evidenceVars
  <2>2. /\ proposal \in Analysis
        /\ Near(proposal.score, Total(proposal.stated \cap Claims, proposal.points))
    BY <1>2 DEF EvidenceInv
  <2>3. /\ official' \in {"proposed", "checked", "draft", "policy_approved"}
        /\ official' # "proposed" => analysis' = Sanitized(proposal)
    BY <1>2 DEF EvidenceInv, EvidenceNext, Validate, Judge, evidenceVars
  <2>4. official' = "policy_approved" => ~Lowered(proposal) /\ ~Critical(proposal)
    <3>1. CASE Judge
      <4>1. analysis = Sanitized(proposal)
        BY <1>2, <3>1 DEF Judge, EvidenceInv
      <4>2. official' = "policy_approved" =>
              \E humanPublished \in {49, 50}, sampled \in BOOLEAN :
                ReviewReasons(humanPublished, sampled) = {}
        BY <3>1 DEF Judge
      <4> QED
        BY <2>2, <4>1, <4>2, LoweredIsReviewed, CriticalIsReviewed
    <3> QED
      BY <1>2, <3>1 DEF EvidenceInv, EvidenceNext, Validate, evidenceVars
  <2> QED
    BY <2>0, <2>2, <2>3, <2>4 DEF EvidenceInv
<1> QED
  BY <1>1, <1>2

(* What is left of an analysis is founded, and scored for what is left     *)
(* (validate_analysis_evidence).                                           *)
THEOREM NothingUnsupportedSurvivesHolds == EvidenceSpec => []NothingUnsupportedSurvives
<1>1. EvidenceInv => NothingUnsupportedSurvives
  <2> SUFFICES ASSUME EvidenceInv, official # "proposed"
               PROVE  /\ \A s \in Spoken(analysis) :
                           /\ analysis.cites[s] # {}
                           /\ \A c \in analysis.cites[s] :
                                /\ c.segment >= 0 /\ c.segment < HeardSegments
                                /\ c.quote \in {"contained", "similar"} /\ c.time # "far"
                      /\ analysis.score = Total(analysis.stated \cap Claims, analysis.points)
    BY DEF NothingUnsupportedSurvives
  <2>2. proposal \in Analysis /\ analysis = Sanitized(proposal)
    BY DEF EvidenceInv
  <2>3. proposal.stated \subseteq Subject
    BY <2>2 DEF Analysis
  <2>4. analysis.score = Total(analysis.stated \cap Claims, analysis.points)
    BY <2>2, SanitizedFields
  <2>5. ASSUME NEW s \in Spoken(analysis)
        PROVE  /\ s \in Subject /\ s \in Spoken(proposal) /\ s \notin Unfounded(proposal)
    <3>1. CASE s \in analysis.stated
      BY <2>2, <2>3, <3>1, SanitizedFields DEF Spoken
    <3>2. CASE s \notin analysis.stated
      <4>1. s = "outcome" /\ analysis.outcome # "unknown"
        BY <2>5, <3>2 DEF Spoken
      <4>2. "outcome" \notin Unfounded(proposal) /\ proposal.outcome # "unknown"
        BY <2>2, <4>1, SanitizedFields
      <4> QED
        BY <4>1, <4>2 DEF Spoken, Subject
    <3> QED
      BY <3>1, <3>2
  <2>6. ASSUME NEW s \in Spoken(analysis)
        PROVE  /\ analysis.cites[s] # {}
               /\ \A c \in analysis.cites[s] : Supported(c)
    <3>1. analysis.cites[s] = Filtered(proposal.cites[s])
      BY <2>2, <2>5, <2>6, SanitizedFields
    <3>2. Filtered(proposal.cites[s]) # {}
      BY <2>5, <2>6 DEF Unfounded
    <3> QED
      BY <3>1, <3>2 DEF Filtered
  <2>7. \A c : Supported(c) => /\ c.segment >= 0 /\ c.segment < HeardSegments
                               /\ c.quote \in {"contained", "similar"} /\ c.time # "far"
    BY SegmentCountAssumption DEF Supported
  <2> QED
    BY <2>4, <2>6, <2>7
<1> QED
  BY <1>1, EvidenceInductive, PTL DEF EvidenceSpec

(* What the policy approves is the answer of the provider with its score   *)
(* added up again, within the tolerance of the schema, and the answer was  *)
(* not critical even before the checks (_review_reasons).                  *)
THEOREM RemovedMeansReviewedHolds == EvidenceSpec => []RemovedMeansReviewed
<1>1. EvidenceInv => RemovedMeansReviewed
  <2> SUFFICES ASSUME EvidenceInv, official = "policy_approved"
               PROVE  /\ [analysis EXCEPT !.score = proposal.score] = proposal
                      /\ Near(proposal.score, analysis.score)
                      /\ ~Critical(proposal)
    BY DEF RemovedMeansReviewed
  <2>1. PICK total : total = Total(proposal.stated \cap Claims, proposal.points)
    OBVIOUS
  <2>2. /\ proposal \in Analysis /\ Near(proposal.score, total) /\ ~Critical(proposal)
        /\ analysis = [proposal EXCEPT !.score = total]
    BY <2>1, PassedIsKept DEF EvidenceInv
  <2>3. analysis.score = total /\ [analysis EXCEPT !.score = proposal.score] = proposal
    BY <2>2 DEF Analysis
  <2> QED
    BY <2>2, <2>3
<1> QED
  BY <1>1, EvidenceInductive, PTL DEF EvidenceSpec
=============================================================================
