--------------------------- MODULE PipelineStates ---------------------------
(***************************************************************************)
(* The vocabulary of the call-processing pipeline and the table of legal   *)
(* status changes (backend/app/services/pipeline.py).                      *)
(***************************************************************************)

(* enum PipelineState, which CallStatus of the calls table repeats.        *)
PipelineState ==
  { "discovered", "waiting_for_file", "uploaded", "queued", "preprocessing",
    "diarizing", "transcribing", "assigning_roles", "analyzing",
    "validating", "creating_followups", "review_needed", "completed",
    "retry_scheduled", "failed", "quarantined" }

(* The table _FORWARD: the statuses a call in status s may change to.      *)
Forward(s) ==
  CASE s = "discovered" -> {"waiting_for_file", "queued", "quarantined"}
    [] s = "waiting_for_file" -> {"queued", "quarantined", "failed"}
    [] s = "uploaded" -> {"queued", "quarantined"}
    [] s = "queued" -> {"preprocessing", "analyzing", "failed"}
    [] s = "preprocessing" ->
         {"diarizing", "transcribing", "retry_scheduled", "failed", "quarantined"}
    [] s = "diarizing" -> {"transcribing", "retry_scheduled", "failed"}
    [] s = "transcribing" -> {"assigning_roles", "retry_scheduled", "failed"}
    [] s = "assigning_roles" -> {"analyzing", "retry_scheduled", "failed"}
    [] s = "analyzing" -> {"validating", "retry_scheduled", "failed"}
    [] s = "validating" -> {"creating_followups", "review_needed", "failed"}
    [] s = "creating_followups" -> {"completed", "review_needed", "failed"}
    [] s = "retry_scheduled" ->
         {"queued", "preprocessing", "transcribing", "analyzing", "failed"}
    [] s = "review_needed" -> {"queued", "analyzing", "completed"}
    [] s = "completed" -> {"queued", "analyzing"}
    [] s = "failed" -> {"queued", "analyzing", "quarantined"}
    [] s = "quarantined" -> {"queued"}

(* Mutant: any status will do.                                             *)
EnsureKnownState(current, target) == {current, target} \subseteq PipelineState

(* ensure_transition raises InvalidTransition unless the change is listed. *)
EnsureTransition(current, target) == target \in Forward(current)
=============================================================================
