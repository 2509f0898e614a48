-------------------------------- MODULE Evidence --------------------------------
(***************************************************************************)
(* What becomes of an analysis between the provider and its version: each  *)
(* statement must cite the transcript (validate_analysis_evidence in       *)
(* backend/app/services/evidence.py), and what was removed, or is          *)
(* critical, decides whether a person must see it before it becomes        *)
(* official (_review_reasons in services/versioning.py).                   *)
(*                                                                         *)
(* A citation is its segment, how its quote compares with the segment's    *)
(* text and its time with the segment's.  Confidences are in percent,      *)
(* points and scores in halves.                                            *)
(***************************************************************************)
EXTENDS Integers, FiniteSets, FiniteSetsExt

CONSTANTS
  HeardSegments,  \* how many segments the transcript has
  Claims,         \* score items, strengths, improvements, objections, ...
  Facts,          \* the fields of the customer
  CriticalFacts,  \* amounts, requested discount and the time of a follow-up
  Citations       \* the citations an analysis may hold

Citation == [segment : Int, quote : {"contained", "similar", "other", "empty"},
             time : {"none", "near", "far"}]

ASSUME SegmentCountAssumption == HeardSegments \in Nat
ASSUME FactsAssumption == CriticalFacts \subseteq Facts
ASSUME CitationsAssumption == Citations \subseteq Citation

Outcome == {"won", "lost", "follow_up", "unknown"}
Subject == Claims \cup Facts \cup {"outcome", "next_action"}

(* stated are the claims and facts made, and whether there is a next step; *)
(* cites has field_evidence and the evidence of each claim.                *)
Analysis == [stated : SUBSET (Subject \ {"outcome"}), outcome : Outcome,
             cites : [Subject -> SUBSET Citations], moments : SUBSET Citations,
             points : [Claims -> Nat], score : Nat, confidence : 0 .. 100,
             rolesConfidence : 0 .. 100, risk : BOOLEAN]

VARIABLES
  proposal,    \* what the provider answered
  analysis,    \* what is left of it
  unsupported, \* whether a check failed
  official     \* "proposed", "checked", then "draft" or "policy_approved"

evidenceVars == <<proposal, analysis, unsupported, official>>

EvidenceTypeOK ==
  /\ proposal \in Analysis /\ analysis \in Analysis
  /\ unsupported \in BOOLEAN
  /\ official \in {"proposed", "checked", "draft", "policy_approved"}

Total(claims, points) == MapThenSumSet(LAMBDA c : points[c], claims)

(* validate_weighted_score: the score of an answer may differ from the     *)
(* total of its items by 0.5.                                              *)
Tolerance == 1
Near(score, total) == total - Tolerance <= score /\ score <= total + Tolerance

TenEach == [c \in Claims |-> 20]

(* Every field of the schema the checks read.  What is not said is not     *)
(* cited, and every item has 10 points.                                    *)
EvidenceInit ==
  /\ \E stated \in SUBSET (Subject \ {"outcome"}), outcome \in Outcome,
        cited \in [Subject -> SUBSET Citations] :
       /\ \A s \in Subject \ stated : cited[s] = {} \/ (s = "outcome" /\ outcome # "unknown")
       /\ \E score \in {n \in 0 .. 200 : Near(n, Total(stated \cap Claims, TenEach))},
             moments \in SUBSET Citations, confidence, roles \in {60, 90}, risk \in BOOLEAN :
           proposal = [stated |-> stated, outcome |-> outcome, cites |-> cited,
                       moments |-> moments, points |-> TenEach, score |-> score,
                       confidence |-> confidence, rolesConfidence |-> roles, risk |-> risk]
  /\ analysis = proposal /\ unsupported = FALSE
  /\ official = "proposed"

(***************************************************************************)
(* validate_analysis_evidence                                              *)
(***************************************************************************)

(* check_evidence: the segment exists, the quote is in it or similar       *)
(* enough, and its time lies within a second of the segment.               *)
Supported(c) ==
  /\ c.segment \in 0 .. HeardSegments - 1
  /\ c.quote \in {"contained", "similar"}
  /\ c.time # "far"

(* Mutant: one good citation keeps the bad ones beside it.                 *)
KeptWhole(cited) == IF \E c \in cited : Supported(c) THEN cited ELSE {}

Filtered(cited) == {c \in cited : Supported(c)}

(* What the analysis says: its citations are checked.                      *)
Spoken(a) == a.stated \cup (IF a.outcome # "unknown" THEN {"outcome"} ELSE {})
Unfounded(a) == {s \in Spoken(a) : Filtered(a.cites[s]) = {}}

SomeFailed(a) ==
  \/ \E s \in Spoken(a) : Filtered(a.cites[s]) # a.cites[s]
  \/ Filtered(a.moments) # a.moments

(* Mutant: only checks that failed lower the confidence.                   *)
LoweredByChecks(a) == SomeFailed(a)

(* A limitation that starts with unsupported_: something was removed for   *)
(* want of a citation, or a citation was.                                  *)
Lowered(a) == Unfounded(a) # {} \/ SomeFailed(a)

Sanitized(a) ==
  LET stated == a.stated \ Unfounded(a) IN
  [a EXCEPT
     !.stated = stated,
     !.outcome = IF "outcome" \in Unfounded(a) THEN "unknown" ELSE @,
     !.cites = [s \in Subject |-> IF s \in Spoken(a) THEN Filtered(@[s]) ELSE @[s]],
     !.moments = Filtered(@),
     !.score = Total(stated \cap Claims, a.points),
     !.confidence = IF Lowered(a) /\ @ > 49 THEN 49 ELSE @]

Validate ==
  /\ official = "proposed"
  /\ analysis' = Sanitized(proposal)
  /\ unsupported' = SomeFailed(proposal)
  /\ official' = "checked"
  /\ UNCHANGED proposal

(***************************************************************************)
(* _review_reasons                                                         *)
(***************************************************************************)

(* humanPublished counts the calls of the tenant that people published;    *)
(* one call in ten is sampled, by its id.                                  *)
ReviewReasons(humanPublished, sampled) ==
  {r \in {"pilot_first_50", "low_confidence", "unsupported_evidence", "ambiguous_speaker_roles",
          "critical_outcome", "critical_facts", "quality_sample"} :
     \/ r = "pilot_first_50" /\ humanPublished < 50
     \/ r = "low_confidence" /\ analysis.confidence < 75
     \/ r = "unsupported_evidence" /\ unsupported
     \/ r = "ambiguous_speaker_roles" /\ analysis.rolesConfidence < 70
     \/ r = "critical_outcome" /\ analysis.outcome \in {"won", "lost"}
     \/ r = "critical_facts" /\ (analysis.risk \/ analysis.stated \cap CriticalFacts # {})
     \/ r = "quality_sample" /\ humanPublished >= 50 /\ sampled}

(* create_analysis_version: with no reason for review the policy approves. *)
Judge ==
  /\ official = "checked"
  /\ \E humanPublished \in {49, 50}, sampled \in BOOLEAN :
       official' = IF ReviewReasons(humanPublished, sampled) = {} THEN "policy_approved" ELSE "draft"
  /\ UNCHANGED <<proposal, analysis, unsupported>>

EvidenceNext == Validate \/ Judge

EvidenceSpec == EvidenceInit /\ [][EvidenceNext]_evidenceVars

(***************************************************************************)
(* Properties                                                              *)
(***************************************************************************)

(* Of a checked analysis every statement the checks read is founded, and   *)
(* only on citations of existing segments that say so, and the score is    *)
(* that of the items left: "unsupported facts become null, never           *)
(* authoritative" (validate_analysis_evidence).                            *)
NothingUnsupportedSurvives ==
  official # "proposed" =>
    /\ \A s \in Spoken(analysis) :
         /\ analysis.cites[s] # {}
         /\ \A c \in analysis.cites[s] :
              /\ c.segment >= 0 /\ c.segment < HeardSegments
              /\ c.quote \in {"contained", "similar"} /\ c.time # "far"
    /\ analysis.score = Total(analysis.stated \cap Claims, analysis.points)

(* What a person must see, whatever the checks make of it.                 *)
Critical(a) ==
  a.outcome \in {"won", "lost"} \/ a.risk \/ a.stated \cap CriticalFacts # {}

(* An analysis that lost anything on the way, or whose answer was critical *)
(* before it lost it, becomes official only through a person: a price      *)
(* without a citation is gone when the critical facts are looked at, and   *)
(* only the lowered confidence tells (_review_reasons).  What the policy   *)
(* approves differs from the answer in its score at most, and in that by   *)
(* no more than the schema tolerates.                                      *)
RemovedMeansReviewed ==
  official = "policy_approved" =>
    /\ [analysis EXCEPT !.score = proposal.score] = proposal
    /\ Near(proposal.score, analysis.score)
    /\ ~Critical(proposal)
=============================================================================
