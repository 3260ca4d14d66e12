-------------------------------- MODULE MCAdapter --------------------------------
(* The fourteen cases of the corpus against every product of the model.     *)
(* Two failing commands are enough for one to hide what another one did.    *)
EXTENDS Adapter

GroundTruth(outcome, reason, code, holytail) ==
    [outcome |-> outcome, reason |-> reason, exit_code |-> code,
     holytail |-> holytail]

Lost == GroundTruth("REFUSED", "SEMANTIC_INVARIANT_LOST", 2, "LOSS")
Kept == GroundTruth("READY", "ACCEPTED", 0, "PRESERVED")
Valid == GroundTruth("READY", "ACCEPTED", 0, "NOT_APPLICABLE")
Refusal(reason) == GroundTruth("REFUSED", reason, 2, "NOT_APPLICABLE")

(* cases/<id>.json *)
MCTruth ==
    [c \in CaseId |->
       CASE c = "false-completion-001"   -> Refusal("CHECK_FAILED")
         [] c = "stale-check-001"        -> Refusal("CHECK_SUBJECT_STALE")
         [] c = "stale-review-001"       -> Refusal("REVIEW_SUBJECT_STALE")
         [] c = "partial-completion-001" -> Refusal("PARTIAL_COMPLETION")
         [] c = "reported-observed-001"  ->
              GroundTruth("BLOCKED", "OBSERVATION_MISSING", 3, "NOT_APPLICABLE")
         [] c \in {"semantic-loss-001", "env-precedence-001"} -> Lost
         [] c \in {"semantic-loss-control-001", "env-precedence-control-001",
                   "partial-completion-control-001"} -> Kept
         [] OTHER -> Valid]
=============================================================================
