--------------------------------- MODULE Review ---------------------------------
(***************************************************************************)
(* The analysis versions of one call and what people decide about them:    *)
(* review cases, the pointers of the call to its latest, reviewed and      *)
(* published version, the drafts that may be sent once a version is        *)
(* published, and the exported artifacts (backend/app/services/            *)
(* versioning.py, backend/app/main.py).                                    *)
(*                                                                         *)
(* A reviewer's request loads the case and the call, without a lock, and   *)
(* then decides; its commit writes the columns it changed from what it     *)
(* loaded.  The versions are read by the last statements before that       *)
(* commit: reading and writing them is one step here.  Runs of the worker  *)
(* hold the call's row while they add a version (module Transcript).       *)
(***************************************************************************)
EXTENDS Naturals, Sequences, FiniteSets

CONSTANTS
  Reviewers,        \* people with the role to review
  MaxAnalyses,      \* how many analyses are made of the call
  Documents,        \* the contents an export may have
  MaxRequests       \* how many requests people make

ASSUME AnalysesAssumption == MaxAnalyses \in Nat /\ MaxRequests \in Nat

Decision == {"assign", "approve", "reject", "request_changes", "publish"}
ReviewStatus == {"queued_for_review", "in_review", "changes_requested", "approved",
                 "rejected", "published", "policy_approved"}

Target == [assign |-> "in_review", approve |-> "approved", reject |-> "rejected",
           request_changes |-> "changes_requested", publish |-> "published"]

Allowed(decision) ==
  CASE decision = "assign" -> {"queued_for_review", "changes_requested"}
    [] decision \in {"approve", "reject"} ->
         {"queued_for_review", "in_review", "changes_requested"}
    [] decision = "request_changes" -> {"queued_for_review", "in_review", "approved"}
    [] decision = "publish" -> {"approved"}

VARIABLES
  versions,      \* the status of each analysis version
  cases,         \* the status of the review case of each version
  pointers,      \* the call's latest, reviewed and published version, 0 for none
  publications,  \* the publication events: version and type, in order
  approvals,     \* the versions that have a review event "approve"
  draft,         \* the status of a message draft of the call
  artifacts,     \* the artifact versions, in order
  desk,          \* the request each reviewer is making
  requests,      \* how many requests were made
  crossed        \* whether the case or the call of a request under way was
                 \* written by another

caseVars == <<versions, cases, pointers, publications, approvals>>
reviewVars == <<caseVars, draft, artifacts, desk, requests, crossed>>

VersionStatus == (ReviewStatus \ {"queued_for_review"}) \cup {"draft", "superseded"}
Pointers == [latest : Nat, reviewed : Nat, published : Nat]
Artifact == [version : Nat \ {0}, number : Nat \ {0}, checksum : Documents]
Away == [at |-> "away"]
Request == [at : {"away"}]
  \cup [at : {"case"}, version : Nat \ {0}, decision : Decision,
        status : ReviewStatus, call : Pointers]
  \cup [at : {"message"}]
  \cup [at : {"export"}, version : Nat \ {0}, document : Documents]
  \cup [at : {"locked"}, version : Nat \ {0}, document : Documents, number : Nat \ {0}]

ReviewTypeOK ==
  /\ versions \in Seq(VersionStatus) /\ cases \in Seq(ReviewStatus)
  /\ Len(cases) = Len(versions)
  /\ pointers \in Pointers
  /\ publications \in Seq([version : Nat \ {0}, type : {"human_approved", "policy_approved"}])
  /\ approvals \subseteq DOMAIN versions
  /\ draft \in {"pending_approval", "approved"}
  /\ artifacts \in Seq(Artifact)
  /\ desk \in [Reviewers -> Request]
  /\ requests \in Nat /\ crossed \in BOOLEAN

ReviewInit ==
  /\ versions = <<>> /\ cases = <<>> /\ publications = <<>> /\ approvals = {}
  /\ pointers = [latest |-> 0, reviewed |-> 0, published |-> 0]
  /\ draft = "pending_approval" /\ artifacts = <<>>
  /\ desk = [r \in Reviewers |-> Away]
  /\ requests = 0 /\ crossed = FALSE

Published(v, type) == [version |-> v, type |-> type]

(* A case is open in another request than r's.                             *)
Crosses(r) == crossed \/ \E s \in Reviewers \ {r} : desk[s].at = "case"

(***************************************************************************)
(* The worker                                                              *)
(***************************************************************************)

(* create_analysis_version: with a reason for review the version is a      *)
(* draft; with none the policy publishes it.  _review_reasons finds a      *)
(* reason in every call of the pilot, and in what the analysis says.       *)
AddAnalysis ==
  LET v == Len(versions) + 1 IN
  /\ v <= MaxAnalyses
  /\ \/ /\ versions' = Append(versions, "draft")
        /\ cases' = Append(cases, "queued_for_review")
        /\ pointers' = [pointers EXCEPT !.latest = v]
        /\ UNCHANGED publications
     \/ /\ versions' = Append(versions, "policy_approved")
        /\ cases' = Append(cases, "policy_approved")
        /\ pointers' = [latest |-> v, reviewed |-> v, published |-> v]
        /\ publications' = Append(publications, Published(v, "policy_approved"))
  /\ crossed' = (crossed \/ \E r \in Reviewers : desk[r].at = "case")
  /\ UNCHANGED <<approvals, draft, artifacts, desk, requests>>

(***************************************************************************)
(* Reviewers                                                               *)
(***************************************************************************)

Ask(r, request) ==
  /\ desk[r] = Away /\ requests < MaxRequests
  /\ requests' = requests + 1
  /\ desk' = [desk EXCEPT ![r] = request]

(* Mutant: transition_review checks no status.                             *)
OpenCaseUnchecked(r) ==
  /\ \E v \in DOMAIN cases, d \in Decision :
       Ask(r, [at |-> "case", version |-> v, decision |-> d, status |-> cases[v],
               call |-> pointers])
  /\ UNCHANGED <<caseVars, draft, artifacts, crossed>>

(* _perform_review_action loads the case and the call; a decision that the *)
(* status does not allow answers 409.                                      *)
OpenCase(r) ==
  /\ \E v \in DOMAIN cases, d \in Decision :
       /\ cases[v] \in Allowed(d)
       /\ Ask(r, [at |-> "case", version |-> v, decision |-> d, status |-> cases[v],
                  call |-> pointers])
  /\ UNCHANGED <<caseVars, draft, artifacts, crossed>>

(* A column of the call is written when it differs from the value loaded.  *)
Changed(value, loaded, now) == IF value # loaded THEN value ELSE now

Supersede(statuses, v) ==
  IF v # 0 THEN [statuses EXCEPT ![v] = "superseded"] ELSE statuses

(* Mutant: the version published before is the current one's predecessor.  *)
SupersedesLatest(q) ==
  Supersede([versions EXCEPT ![q.version] = Target[q.decision]],
            IF q.decision = "publish" THEN q.call.latest ELSE 0)

(* The versions after a decision: the one decided on takes the status, and *)
(* a publication supersedes the one published before.                      *)
Decided(q) ==
  Supersede([versions EXCEPT ![q.version] = Target[q.decision]],
            IF q.decision = "publish" /\ q.call.published # q.version
              THEN q.call.published ELSE 0)

(* transition_review and its commit.                                       *)
Decide(r) ==
  LET q == desk[r] v == q.version IN
  /\ q.at = "case"
  /\ versions' = Decided(q)
  /\ cases' = [cases EXCEPT ![v] = Target[q.decision]]
  /\ pointers' = [pointers EXCEPT
       !.reviewed = IF q.decision \in {"approve", "publish"}
                      THEN Changed(v, q.call.reviewed, @) ELSE @,
       !.published = IF q.decision = "publish" THEN Changed(v, q.call.published, @) ELSE @]
  /\ publications' = IF q.decision = "publish"
       THEN Append(publications, Published(v, "human_approved")) ELSE publications
  /\ approvals' = approvals \cup {u \in {v} : q.decision = "approve"}
  /\ desk' = [desk EXCEPT ![r] = Away]
  /\ crossed' = Crosses(r)
  /\ UNCHANGED <<draft, artifacts, requests>>

(* approve_message loads a pending draft and a call with a published       *)
(* version.                                                                *)
OpenMessage(r) ==
  /\ draft = "pending_approval" /\ pointers.published # 0
  /\ Ask(r, [at |-> "message"])
  /\ UNCHANGED <<caseVars, draft, artifacts, crossed>>

ApproveMessage(r) ==
  /\ desk[r].at = "message"
  /\ draft' = "approved"
  /\ desk' = [desk EXCEPT ![r] = Away]
  /\ UNCHANGED <<caseVars, artifacts, requests, crossed>>

(* A request ends without a commit: the client or the database goes away.  *)
Leave(r) ==
  /\ desk[r] # Away
  /\ desk' = [desk EXCEPT ![r] = Away]
  /\ UNCHANGED <<caseVars, draft, artifacts, requests, crossed>>

(***************************************************************************)
(* Exports of the latest version, in one format                            *)
(***************************************************************************)

(* _export_source and the rendering: what an export says depends on the    *)
(* segments and on the state of the version.                               *)
Export(r) ==
  /\ pointers.latest # 0
  /\ \E d \in Documents :
       Ask(r, [at |-> "export", version |-> pointers.latest, document |-> d])
  /\ UNCHANGED <<caseVars, draft, artifacts, crossed>>

ArtifactsOf(rows, v) == {i \in DOMAIN rows : rows[i].version = v}
IsRecorded(rows, v, d) == \E i \in ArtifactsOf(rows, v) : rows[i].checksum = d

(* max(version_number), or 0, and 1.                                       *)
NextNumber(rows, v) ==
  LET numbers == {0} \cup {rows[i].number : i \in ArtifactsOf(rows, v)} IN
  1 + CHOOSE n \in numbers : \A m \in numbers : m <= n

(* Mutant: _record_artifact does not lock the version.                     *)
NumberUnlocked(r) ==
  LET q == desk[r] IN
  /\ q.at = "export"
  /\ desk' = [desk EXCEPT ![r] = IF IsRecorded(artifacts, q.version, q.document) THEN Away
       ELSE [at |-> "locked", version |-> q.version, document |-> q.document,
             number |-> NextNumber(artifacts, q.version)]]
  /\ UNCHANGED <<caseVars, draft, artifacts, requests, crossed>>

(* _record_artifact: SELECT ... FOR UPDATE waits for the export that holds *)
(* the version; a document already recorded ends here, another one reads   *)
(* its number.                                                             *)
LockAndNumber(r) ==
  LET q == desk[r] IN
  /\ q.at = "export"
  /\ \A s \in Reviewers : desk[s].at = "locked" => desk[s].version # q.version
  /\ desk' = [desk EXCEPT ![r] = IF IsRecorded(artifacts, q.version, q.document) THEN Away
       ELSE [at |-> "locked", version |-> q.version, document |-> q.document,
             number |-> NextNumber(artifacts, q.version)]]
  /\ UNCHANGED <<caseVars, draft, artifacts, requests, crossed>>

(* The insert, under uq_artifact_version.                                  *)
RecordArtifact(r) ==
  LET q == desk[r] IN
  /\ q.at = "locked"
  /\ \A i \in ArtifactsOf(artifacts, q.version) : artifacts[i].number # q.number
  /\ artifacts' = Append(artifacts, [version |-> q.version, number |-> q.number,
                                     checksum |-> q.document])
  /\ desk' = [desk EXCEPT ![r] = Away]
  /\ UNCHANGED <<caseVars, draft, requests, crossed>>

ReviewNext ==
  \/ AddAnalysis
  \/ \E r \in Reviewers :
       \/ OpenCase(r) \/ Decide(r) \/ OpenMessage(r) \/ ApproveMessage(r) \/ Leave(r)
       \/ Export(r) \/ LockAndNumber(r) \/ RecordArtifact(r)

ReviewSpec == ReviewInit /\ [][ReviewNext]_reviewVars

(***************************************************************************)
(* Properties                                                              *)
(***************************************************************************)

(* The version a call shows as its official result is in force: published  *)
(* or approved by policy, its case says the same, and it was announced     *)
(* last; unless two decisions, or a decision and a run, crossed            *)
(* (transition_review).                                                    *)
OfficialStands ==
  pointers.published # 0 /\ ~crossed =>
    /\ versions[pointers.published] \in {"published", "policy_approved"}
    /\ cases[pointers.published] = versions[pointers.published]
    /\ publications[Len(publications)].version = pointers.published

(* Nothing is published in the name of a person that was not approved      *)
(* before, and no draft is approved before something was published, also   *)
(* when requests cross (transition_review, approve_message).               *)
PublicationWasApproved ==
  /\ \A i \in DOMAIN publications :
       publications[i].type = "human_approved" => publications[i].version \in approvals
  /\ draft = "approved" => publications # <<>>

(* The artifacts of a version are different documents numbered 1, 2, ...,  *)
(* and a number read is still the next when it is written: an export never *)
(* fails for another one (_record_artifact).                               *)
ArtifactsAreNumbered ==
  /\ \A v \in DOMAIN versions : \A i, j \in ArtifactsOf(artifacts, v) : i < j =>
       /\ artifacts[i].number < artifacts[j].number
       /\ artifacts[i].checksum # artifacts[j].checksum
  /\ \A v \in DOMAIN versions : \A i \in ArtifactsOf(artifacts, v) :
       \A n \in 1 .. artifacts[i].number : \E j \in ArtifactsOf(artifacts, v) : artifacts[j].number = n
  /\ \A r \in Reviewers : desk[r].at = "locked" => desk[r].number = NextNumber(artifacts, desk[r].version)
=============================================================================
