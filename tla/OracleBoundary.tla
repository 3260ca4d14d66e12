---------------------------- MODULE OracleBoundary ----------------------------
(****************************************************************************)
(* One oracle judging one piece of evidence, behind the evidence contract   *)
(* (runners/run_scenarios.py, run_scenario, lines 198-232, around the pure  *)
(* operators of Oracles).  The evidence starts as what the fixture modules  *)
(* record (scenarios/s*/fixtures/evidence.py) and is then falsified, field  *)
(* by field, in up to MaxEdits places: the mutation matrix of               *)
(* tests/test_scenarios.py, for every combination of so many mutations.     *)
(****************************************************************************)
EXTENDS Oracles

CONSTANTS
    Values,         \* oracle -> field -> the values a mutation may give it
    NestedValues,   \* block of the reviewer evidence -> key -> values
    MaxEdits        \* how many mutations one piece of evidence may carry

ASSUME MaxEditsAssumption == MaxEdits \in Nat

VARIABLES
    oracle_id,   \* the scenario's declared oracle
    evidence,    \* what the evidence module returned
    disk,        \* the covered files: their digest, "missing" or "unreadable"
    edits,       \* mutations so far
    result       \* NoValue, or the recorded [verdict, judged]

vars == <<oracle_id, evidence, disk, edits, result>>

-----------------------------------------------------------------------------
(* The evidence of a correct implementation, one module per scenario *)

Contract1 == [key \in ContractKeys |-> "v1"]
Runtime(name) == [name |-> name]
ReviewerBlock(contract, runtime) == ("runtime" :> Runtime(runtime)) @@ contract

ApprovalEvidence ==
    [covered_root |-> "fixtures", covered_names |-> <<"source.txt">>,
     recorded_approval_digest |-> "current"]

CommandEvidence ==
    [frozen_command |-> "frozen", frozen_command_digest |-> sha256("frozen"),
     executed_command |-> "frozen", executed_exit_code |-> "0"]

ReviewerEvidence ==
    [no_fallback |->
        [executed |-> "True", blocked |-> "True", reviewer_verdict_recorded |-> "False"],
     with_fallback |->
        [primary_contract |-> ReviewerBlock(Contract1, "primary"),
         substitution |-> ReviewerBlock(Contract1, "alternate"),
         primary_runtime |-> Runtime("primary"),
         alternate_runtime |-> Runtime("alternate"),
         fallback_executed |-> "True", reviewer_verdict_recorded |-> "True",
         executed_runtime |-> Runtime("alternate"),
         executed_contract_sha256 |-> contract_sha256(Contract1)],
     negative_verdict |-> [verdict_a |-> "rework", unavailable_accepted |-> "False"]]

(* s4 runs two scripts.  A checker that exits with 99 could not establish   *)
(* the invariant; any other status but 0 says that it does not hold.        *)
PreservationHeld(status) ==
    IF status = 99 THEN NoValue ELSE IF status = 0 THEN "True" ELSE "False"
PreservationEvidence(functional, invariant) ==
    [functional_exit_code |-> IF functional = 0 THEN "0" ELSE "1",
     preservation_held |-> PreservationHeld(invariant),
     product_reported_state |-> NoValue, invariant_stderr |-> "text"]

ResumeEvidence ==
    [before_digest |-> "earlier", after_digest |-> "current",
     reused_evidence |->
        <<[kind |-> "check", status |-> "passed", bound_digest |-> "earlier"]>>,
     freshly_reacquired |->
        <<[kind |-> "check", executed |-> "True", bound_digest |-> "current"]>>]

CurrencyEvidence ==
    [accepted_digest |-> "earlier", current_digest |-> "current",
     still_claims_current |-> "False", exit_claimed |-> "True",
     fresh_evidence |-> <<[kind |-> "check", bound_digest |-> "current"]>>]

FixtureEvidence == [
    covered_digest_binding |-> {ApprovalEvidence},
    frozen_command_identity |-> {CommandEvidence},
    reviewer_substitution_contract |-> {ReviewerEvidence},
    functional_pass_preservation_fail |->
        {PreservationEvidence(f, i) : f \in {0, 1}, i \in {0, 1, 99}},
    resume_valid_evidence_only |-> {ResumeEvidence},
    accepted_result_currency |-> {CurrencyEvidence}]

Init ==
    /\ oracle_id \in DOMAIN FixtureEvidence
    /\ evidence \in FixtureEvidence[oracle_id]
    /\ disk = "current"
    /\ edits = 0
    /\ result = NoValue

-----------------------------------------------------------------------------
(* Mutations *)

With(dict, key, value) == (key :> value) @@ dict
Without(dict, key) == [k \in DOMAIN dict \ {key} |-> dict[k]]

Mutate(mutated) ==
    /\ result = NoValue
    /\ edits < MaxEdits
    /\ IsDict(evidence)
    /\ evidence' = mutated
    /\ edits' = edits + 1
    /\ UNCHANGED <<oracle_id, disk, result>>

(* A field is given another value, or is left out. *)
Replace(field) ==
    \E v \in Values[oracle_id][field] : Mutate(With(evidence, field, v))
Leave(field) ==
    /\ IsDict(evidence) /\ field \in DOMAIN evidence
    /\ Mutate(Without(evidence, field))

(* The same, one level down. *)
ReplaceIn(block, key) ==
    /\ IsDict(evidence) /\ IsDict(Get(evidence, block))
    /\ \E v \in NestedValues[block][key] :
          Mutate(With(evidence, block, With(evidence[block], key, v)))
LeaveIn(block, key) ==
    /\ IsDict(evidence) /\ IsDict(Get(evidence, block)) /\ key \in DOMAIN evidence[block]
    /\ Mutate(With(evidence, block, Without(evidence[block], key)))

(* The evidence module returns something that is not a dict. *)
NotADict == Mutate(Malformed)

(* The covered files change after the evidence was built: the oracle reads  *)
(* them again.                                                              *)
ChangeDisk ==
    /\ result = NoValue
    /\ edits < MaxEdits
    /\ oracle_id = "covered_digest_binding"
    /\ disk' \in {"current", "earlier", "missing", "unreadable"} \ {disk}
    /\ edits' = edits + 1
    /\ UNCHANGED <<oracle_id, evidence, result>>

-----------------------------------------------------------------------------
(* Judging *)

Abstain == [verdict |-> "indeterminate", judged |-> FALSE]

(* A slip: an oracle that raises leaves its exception in the result. *)
RecordRaise(verdict) == [verdict |-> verdict, judged |-> TRUE]

(* An oracle that raises has not judged. *)
Recorded(verdict) ==
    IF verdict = "raises" THEN Abstain ELSE [verdict |-> verdict, judged |-> TRUE]

Outcome ==
    IF IsDict(evidence) /\ validate_evidence(oracle_id, evidence)
    THEN Recorded(OracleVerdict(oracle_id, evidence, disk))
    ELSE Abstain

Judge ==
    /\ result = NoValue
    /\ result' = Outcome
    /\ UNCHANGED <<oracle_id, evidence, disk, edits>>

Next ==
    \/ \E field \in DOMAIN Values[oracle_id] : Replace(field) \/ Leave(field)
    \/ /\ oracle_id = "reviewer_substitution_contract"
       /\ \E block \in DOMAIN NestedValues :
            \E key \in DOMAIN NestedValues[block] :
                ReplaceIn(block, key) \/ LeaveIn(block, key)
    \/ NotADict
    \/ ChangeDisk
    \/ Judge

Spec == Init /\ [][Next]_vars

-----------------------------------------------------------------------------
(* Properties *)

(* The recorded verdict is one of the three a scenario result may carry     *)
(* (scenario-result.schema.json), and an abstention is indeterminate.       *)
TypeOK ==
    /\ oracle_id \in DOMAIN EVIDENCE_CONTRACTS
    /\ disk \in {"current", "earlier", "missing", "unreadable"}
    /\ edits \in 0..MaxEdits
    /\ result \in {NoValue, Abstain}
          \cup [verdict : {"accept", "reject", "indeterminate"}, judged : {TRUE}]

Accepted == result # NoValue /\ result.verdict = "accept"
Rejected == result # NoValue /\ result.verdict = "reject"

(* What the code of each oracle establishes when it accepts.  For S4 and S5 *)
(* this is less than their docstrings say.  S4: "Accept only when the       *)
(* invariant holds" (oracles.py:309), but a measurement that is no Boolean  *)
(* passes for one that holds.  S5: an item "is reusable only when it both   *)
(* binds to the current subject and records a passing status" (345-346),    *)
(* but an item of another digest passes when its kind was run again; see    *)
(* ReuseAcrossAChangeIsRejected.                                            *)
ApprovalIsCurrent ==
    Get(evidence, "recorded_approval_digest") = disk

FrozenCommandPassed ==
    LET executed == Get(evidence, "executed_command")
    IN /\ executed = Get(evidence, "frozen_command")
       /\ Get(evidence, "frozen_command_digest") = sha256(executed)
       /\ Get(evidence, "executed_exit_code") = "0"

AlternateRanTheSameContract ==
    LET with         == Get(evidence, "with_fallback")
        primary      == Get(with, "primary_contract")
        substitution == Get(with, "substitution")
        Ran(runtime) == _normalize_runtime(runtime)
                            = _normalize_runtime(Get(with, "executed_runtime"))
    IN /\ Get(with, "fallback_executed") = "True"
       /\ Get(with, "reviewer_verdict_recorded") = "True"
       /\ Get(with, "executed_runtime") # NoValue
       /\ Ran(Get(with, "alternate_runtime"))
       /\ ~Ran(Get(with, "primary_runtime"))
       /\ \A key \in ContractKeys :
            /\ key \in DOMAIN primary \cap DOMAIN substitution
            /\ primary[key] = substitution[key]
       /\ Get(with, "executed_contract_sha256") = contract_sha256(substitution)
       /\ Ran(Get(substitution, "runtime"))

ReviewIsNotEscaped ==
    LET no_fallback == Get(evidence, "no_fallback")
        negative    == Get(evidence, "negative_verdict")
    IN /\ Truthy(Get(no_fallback, "executed")) /\ Truthy(Get(no_fallback, "blocked"))
       /\ ~Truthy(Get(no_fallback, "reviewer_verdict_recorded"))
       /\ Get(negative, "verdict_a") \in {"rework", "blocked"}
       /\ ~Truthy(Get(negative, "unavailable_accepted"))

PassedAndNotKnownBroken ==
    /\ Get(evidence, "functional_exit_code") = "0"
    /\ Get(evidence, "preservation_held") \notin {NoValue, "False"}

EvidenceIsReacquiredOrCurrent ==
    LET after       == Get(evidence, "after_digest")
        reacquired  == Range(Get(evidence, "freshly_reacquired"))
        Rerun(kind) == \E item \in reacquired : Get(item, "kind") = kind
    IN /\ \A item \in reacquired :
            Get(item, "executed") = "True" /\ Get(item, "bound_digest") = after
       /\ \A item \in Range(Get(evidence, "reused_evidence")) :
            /\ Get(item, "status") = "passed"
            /\ Get(item, "bound_digest") = after \/ Rerun(Get(item, "kind"))

ExitIsBackedByCurrentEvidence ==
    LET current == Get(evidence, "current_digest")
    IN \/ Get(evidence, "accepted_digest") = current
       \/ /\ ~Truthy(Get(evidence, "still_claims_current"))
          /\ Truthy(Get(evidence, "exit_claimed")) =>
               \E item \in Range(Get(evidence, "fresh_evidence")) :
                   Get(item, "bound_digest") = current

ClaimHolds ==
    /\ oracle_id = "covered_digest_binding" => ApprovalIsCurrent
    /\ oracle_id = "frozen_command_identity" => FrozenCommandPassed
    /\ oracle_id = "reviewer_substitution_contract" =>
          ReviewIsNotEscaped /\ AlternateRanTheSameContract
    /\ oracle_id = "functional_pass_preservation_fail" => PassedAndNotKnownBroken
    /\ oracle_id = "resume_valid_evidence_only" => EvidenceIsReacquiredOrCurrent
    /\ oracle_id = "accepted_result_currency" => ExitIsBackedByCurrentEvidence

(* Evidence that was falsified in up to MaxEdits places is accepted only if *)
(* everything above still holds of it: no order of the oracles' early       *)
(* returns, no missing key, no list that hides an element and no block that *)
(* is judged after another one lets a record through (oracles.py:54-470).   *)
(* The claims are those of the code, which is what S4 and S5 fall short of. *)
AcceptMeansTheClaimHolds == Accepted => ClaimHolds

(* A scenario is never failed over evidence that supports it: whatever else *)
(* was falsified, a reject is of evidence whose claim does not hold.  The   *)
(* order of the early returns, an element that is no dict or a key that is  *)
(* not compared never make up a defect (oracles.py:54-470).  A flag that is *)
(* None does not hold, as in the code.                                      *)
RejectMeansTheClaimFails == Rejected => ~ClaimHolds

(* oracles.py:352-354: "Anything reused across a changed digest, reused     *)
(* with a non-passing status, or claimed as re-acquired without evidence of *)
(* execution is a reject", and s5-fresh-session-resume/scenario.json:11     *)
(* "any reuse across a changed digest is a reject".  Stated of evidence the *)
(* contract lets through and whose two digests are known.                   *)
ReuseAcrossAChangeIsRejected ==
    /\ oracle_id = "resume_valid_evidence_only" /\ result # NoValue
    /\ IsDict(evidence) /\ validate_evidence(oracle_id, evidence)
    /\ NoValue \notin {Get(evidence, "before_digest"), evidence.after_digest}
    /\ IsList(evidence.reused_evidence) /\ IsList(evidence.freshly_reacquired)
    /\ \E item \in Range(evidence.reused_evidence) :
          Get(item, "bound_digest") # evidence.after_digest
    => result.verdict = "reject"

(* Evidence that leaves out a required field, or a declared key of one of   *)
(* its blocks, is never accepted or rejected, whatever else it says         *)
(* (oracles.py:628-646).                                                    *)
OmittedKeysAbstain ==
    result # NoValue /\ result.verdict # "indeterminate" =>
        /\ EVIDENCE_CONTRACTS[oracle_id].material
              \ EVIDENCE_CONTRACTS[oracle_id].allow_missing \subseteq DOMAIN evidence
        /\ oracle_id = "reviewer_substitution_contract" =>
              \A block \in DOMAIN NestedFields :
                  NestedFields[block] \subseteq DOMAIN evidence[block]
================================================================================
