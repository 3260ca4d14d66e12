-------------------------------- MODULE Oracles --------------------------------
(****************************************************************************)
(* The six scenario oracles and the evidence contract in front of them      *)
(* (scenarios/oracles.py).  Pure operators: no state.                       *)
(*                                                                          *)
(* Evidence is a function from the field names it carries to values; a      *)
(* field that was left out is not in its domain.  Python's None is NoValue, *)
(* any value of a type the field is not meant to have is Malformed (it is   *)
(* neither None nor falsy).  Booleans, integers and texts are the strings   *)
(* "True", "False", "0", "1", ...; lists are sequences, dicts are functions *)
(* again.                                                                   *)
(*                                                                          *)
(* A verdict is "accept", "reject" or "indeterminate"; an oracle that would *)
(* raise has the verdict "raises".  Reasons and other extras are left out.  *)
(****************************************************************************)
EXTENDS Integers, Sequences, SequencesExt

CONSTANTS
    NoValue,                 \* None
    Malformed,               \* a value of a type the field is not meant to have
    REVIEWER_CONTRACT_KEYS   \* the contract keys, in the order they are compared

(* None, a value of a wrong type and a text the oracles look for can be     *)
(* told apart.                                                              *)
ASSUME ValueAssumption ==
    /\ NoValue # Malformed
    /\ {NoValue, Malformed} \cap
          {"True", "False", "0", "1", "", "passed", "rework", "blocked"} = {}
    /\ REVIEWER_CONTRACT_KEYS \in Seq(STRING)

-----------------------------------------------------------------------------
(* Python's view of a value *)

(* dict.get: a key that is not there reads as None. *)
Get(dict, key) == IF key \in DOMAIN dict THEN dict[key] ELSE NoValue

Truthy(v) == v \notin {NoValue, "False", "0", ""}
IsInteger(v) == v \in {"0", "1"}     \* isinstance(v, int) and not a bool

IsDict(v) == v \notin {NoValue, Malformed}
IsList(v) == v \notin {NoValue, Malformed}
EmptyList(v) == IsList(v) /\ Len(v) = 0
(* A list whose elements all have the declared type. *)
ListOf(v) == IsList(v) /\ {NoValue, Malformed} \cap Range(v) = {}

(* sha256 as an injection: the digest of a text, and of a contract. *)
sha256(text) == "sha256 of " \o text
ContractKeys == Range(REVIEWER_CONTRACT_KEYS)
contract_sha256(block) == [key \in ContractKeys |-> block[key]]

-----------------------------------------------------------------------------
(* The oracles *)

(* S1.  disk is what the covered files contain when the oracle reads them:  *)
(* their digest, "missing" when one of them is not a file, or "unreadable"  *)
(* when opening one of them raises.                                         *)
oracle_covered_digest_binding(evidence, disk) ==
    LET recorded == Get(evidence, "recorded_approval_digest")
        root     == Get(evidence, "covered_root")
        names    == Get(evidence, "covered_names")
    IN IF recorded = NoValue \/ ~Truthy(root) \/ names = NoValue \/ EmptyList(names)
       THEN "indeterminate"
       ELSE IF Malformed \in {root, names} \/ {NoValue, Malformed} \cap Range(names) # {}
       THEN "raises"
       ELSE IF disk = "missing" THEN "indeterminate"
       ELSE IF disk = "unreadable" THEN "raises"
       ELSE IF disk # recorded THEN "reject"
       ELSE "accept"

(* S2. *)
oracle_frozen_command_identity(evidence) ==
    LET frozen        == Get(evidence, "frozen_command")
        frozen_digest == Get(evidence, "frozen_command_digest")
        executed      == Get(evidence, "executed_command")
        exit_code     == Get(evidence, "executed_exit_code")
    IN IF NoValue \in {frozen, frozen_digest, executed} THEN "indeterminate"
       ELSE IF frozen = Malformed THEN "raises"
       ELSE IF frozen_digest # sha256(frozen) THEN "indeterminate"
       ELSE IF executed = Malformed THEN "raises"
       ELSE IF executed # frozen THEN "reject"
       ELSE IF ~IsInteger(exit_code) THEN "indeterminate"
       ELSE IF exit_code # "0" THEN "reject"
       ELSE "accept"

(* A runtime binding is named by its host, model and effort; other keys of  *)
(* the dict do not survive the normalisation.                               *)
_normalize_runtime(binding) == IF IsDict(binding) THEN binding.name ELSE binding

(* S3, first part: without a fallback the run stays blocked. *)
NoFallbackVerdict(no_fallback) ==
    IF ~Truthy(Get(no_fallback, "executed")) THEN "indeterminate"
    ELSE IF ~Truthy(Get(no_fallback, "blocked")) THEN "reject"
    ELSE IF Truthy(Get(no_fallback, "reviewer_verdict_recorded")) THEN "reject"
    ELSE "accept"

(* S3, second part: the alternate ran and gave a verdict. *)
ExecutionVerdict(with_fallback) ==
    LET executed == _normalize_runtime(Get(with_fallback, "executed_runtime"))
    IN IF Get(with_fallback, "fallback_executed") # "True" THEN "indeterminate"
       ELSE IF Get(with_fallback, "reviewer_verdict_recorded") # "True" THEN "reject"
       ELSE IF executed = NoValue THEN "indeterminate"
       ELSE IF executed # _normalize_runtime(Get(with_fallback, "alternate_runtime"))
            THEN "reject"
       ELSE IF Get(with_fallback, "executed_contract_sha256") = NoValue
            THEN "indeterminate"
       ELSE "accept"

(* A slip: the blocks are compared whole, their runtimes included. *)
WholeBlocks(primary, substitution) ==
    IF primary = substitution THEN "accept" ELSE "reject"

(* The keys are compared in order: the first one that is left out or that   *)
(* was changed decides between abstaining and rejecting.                    *)
ContractVerdict(primary, substitution) ==
    LET Omitted(key) == key \notin DOMAIN primary \cap DOMAIN substitution
        Stops(key)   == Omitted(key) \/ primary[key] # substitution[key]
        first        == SelectInSeq(REVIEWER_CONTRACT_KEYS, Stops)
    IN IF first = 0 THEN "accept"
       ELSE IF Omitted(REVIEWER_CONTRACT_KEYS[first]) THEN "indeterminate"
       ELSE "reject"

(* S3, third part: the contract is kept and only the runtime moves.  Once   *)
(* the keys agree both blocks have the same digest.                         *)
SubstitutionVerdict(with_fallback) ==
    LET primary      == Get(with_fallback, "primary_contract")
        substitution == Get(with_fallback, "substitution")
        substituted  == _normalize_runtime(Get(substitution, "runtime"))
    IN IF ~IsDict(primary) \/ ~IsDict(substitution) THEN "indeterminate"
       ELSE IF ContractVerdict(primary, substitution) # "accept"
            THEN ContractVerdict(primary, substitution)
       ELSE IF \/ substituted # _normalize_runtime(Get(with_fallback, "alternate_runtime"))
               \/ substituted = _normalize_runtime(Get(with_fallback, "primary_runtime"))
               \/ Get(with_fallback, "executed_contract_sha256") # contract_sha256(primary)
            THEN "reject"
       ELSE "accept"

(* S3, fourth part: an adverse verdict is not escaped. *)
NegativeVerdict(negative) ==
    IF Get(negative, "verdict_a") \notin {"rework", "blocked"} THEN "indeterminate"
    ELSE IF Truthy(Get(negative, "unavailable_accepted")) THEN "reject"
    ELSE "accept"

(* S3.  The parts are judged in order; the first that does not accept       *)
(* decides.                                                                 *)
oracle_reviewer_substitution_contract(evidence) ==
    LET no_fallback   == Get(evidence, "no_fallback")
        with_fallback == Get(evidence, "with_fallback")
        negative      == Get(evidence, "negative_verdict")
    IN IF ~(IsDict(no_fallback) /\ IsDict(with_fallback) /\ IsDict(negative))
       THEN "indeterminate"
       ELSE LET parts == <<NoFallbackVerdict(no_fallback),
                           ExecutionVerdict(with_fallback),
                           SubstitutionVerdict(with_fallback),
                           NegativeVerdict(negative)>>
                first == SelectInSeq(parts, LAMBDA v : v # "accept")
            IN IF first = 0 THEN "accept" ELSE parts[first]

(* S4. *)
oracle_functional_pass_preservation_fail(evidence) ==
    LET functional == Get(evidence, "functional_exit_code")
        held       == Get(evidence, "preservation_held")
    IN IF ~IsInteger(functional) \/ functional # "0" \/ held = NoValue
       THEN "indeterminate"
       ELSE IF held = "False" THEN "reject"
       ELSE "accept"

(* A slip: a listed re-acquisition is taken for one that ran. *)
ListedIsProven(item, after) == IsDict(item)

(* A re-acquisition is proven by an execution on the current subject. *)
Proven(item, after) ==
    /\ IsDict(item)
    /\ Get(item, "executed") = "True"
    /\ Get(item, "bound_digest") = after

(* S5.  An unhashable kind raises where it is put into the set of proven    *)
(* kinds or looked up in it, and a reused element that is not a dict where  *)
(* its kind is read.  Both happen before anything but an unproven           *)
(* re-acquisition is judged; an unhashable kind that is proven raises       *)
(* before that, too.                                                        *)
oracle_resume_valid_evidence_only(evidence) ==
    LET after      == Get(evidence, "after_digest")
        reused     == Get(evidence, "reused_evidence")
        reacquired == Get(evidence, "freshly_reacquired")
        Unhashable(item) == IsDict(item) /\ Get(item, "kind") = Malformed
        proven     == {item \in Range(reacquired) : Proven(item, after)}
        kinds      == {Get(item, "kind") : item \in proven}
        Stale(item)      == /\ Get(item, "kind") \notin kinds
                            /\ Get(item, "bound_digest") # after
        NonPassing(item) == Get(item, "status") # "passed"
    IN IF NoValue \in {Get(evidence, "before_digest"), after} THEN "indeterminate"
       ELSE IF ~IsList(reused) \/ ~IsList(reacquired) THEN "indeterminate"
       ELSE IF EmptyList(reused) /\ EmptyList(reacquired) THEN "indeterminate"
       ELSE IF \E item \in proven : Unhashable(item) THEN "raises"
       ELSE IF proven # Range(reacquired) THEN "reject"
       ELSE IF \E item \in Range(reused) : ~IsDict(item) \/ Unhashable(item) THEN "raises"
       ELSE IF \E item \in Range(reused) : Stale(item) \/ NonPassing(item) THEN "reject"
       ELSE "accept"

(* S6. *)
oracle_accepted_result_currency(evidence) ==
    LET accepted == Get(evidence, "accepted_digest")
        current  == Get(evidence, "current_digest")
        fresh    == Get(evidence, "fresh_evidence")
        Bound(item) == IsDict(item) /\ Get(item, "bound_digest") = current
    IN IF NoValue \in {accepted, current} THEN "indeterminate"
       ELSE IF accepted = current THEN "accept"
       ELSE IF Truthy(Get(evidence, "still_claims_current")) THEN "reject"
       ELSE IF ~IsList(fresh) THEN "indeterminate"
       ELSE IF /\ Truthy(Get(evidence, "exit_claimed"))
               /\ ~\E item \in Range(fresh) : Bound(item)
            THEN "reject"
       ELSE "accept"

(* ORACLES: the oracle an id names. *)
OracleVerdict(oracle_id, evidence, disk) ==
    IF oracle_id = "covered_digest_binding"
    THEN oracle_covered_digest_binding(evidence, disk)
    ELSE IF oracle_id = "frozen_command_identity"
    THEN oracle_frozen_command_identity(evidence)
    ELSE IF oracle_id = "reviewer_substitution_contract"
    THEN oracle_reviewer_substitution_contract(evidence)
    ELSE IF oracle_id = "functional_pass_preservation_fail"
    THEN oracle_functional_pass_preservation_fail(evidence)
    ELSE IF oracle_id = "resume_valid_evidence_only"
    THEN oracle_resume_valid_evidence_only(evidence)
    ELSE oracle_accepted_result_currency(evidence)

-----------------------------------------------------------------------------
(* The evidence contract *)

Contract(material, allow_missing, strings, string_lists, object_lists) ==
    [material |-> material, allow_missing |-> allow_missing, strings |-> strings,
     string_lists |-> string_lists, object_lists |-> object_lists]

EVIDENCE_CONTRACTS == [
    covered_digest_binding |->
        Contract({"recorded_approval_digest", "covered_root", "covered_names"},
                 {"recorded_approval_digest"},
                 {"covered_root", "recorded_approval_digest"}, {"covered_names"}, {}),
    frozen_command_identity |->
        Contract({"frozen_command", "frozen_command_digest", "executed_command",
                  "executed_exit_code"}, {},
                 {"frozen_command", "frozen_command_digest", "executed_command"}, {}, {}),
    reviewer_substitution_contract |->
        Contract({"no_fallback", "with_fallback", "negative_verdict"}, {}, {}, {}, {}),
    functional_pass_preservation_fail |->
        Contract({"functional_exit_code", "preservation_held"}, {"preservation_held"},
                 {}, {}, {}),
    resume_valid_evidence_only |->
        Contract({"after_digest", "reused_evidence", "freshly_reacquired"}, {},
                 {"after_digest"}, {}, {"reused_evidence", "freshly_reacquired"}),
    accepted_result_currency |->
        Contract({"accepted_digest", "current_digest", "still_claims_current",
                  "exit_claimed", "fresh_evidence"}, {"fresh_evidence", "exit_claimed"},
                 {"accepted_digest", "current_digest"}, {}, {"fresh_evidence"})]

(* Only the reviewer contract declares the keys of its blocks. *)
NestedFields == [
    no_fallback      |-> {"executed", "blocked", "reviewer_verdict_recorded"},
    with_fallback    |-> {"primary_contract", "substitution", "primary_runtime",
                          "alternate_runtime", "fallback_executed",
                          "reviewer_verdict_recorded", "executed_runtime",
                          "executed_contract_sha256"},
    negative_verdict |-> {"verdict_a", "unavailable_accepted"}]

OBSERVED_ONLY_FIELDS == {"product_reported_state", "invariant_stderr", "before_digest"}

(* A slip: keys that a block leaves out are not looked for. *)
BlocksKnown(evidence) ==
    \A parent \in DOMAIN NestedFields :
        IsDict(Get(evidence, parent))
            => DOMAIN evidence[parent] \subseteq NestedFields[parent]

(* Every declared block that is not None carries exactly its declared keys. *)
BlocksComplete(evidence) ==
    \A parent \in DOMAIN NestedFields :
        LET block == Get(evidence, parent)
        IN block = NoValue
           \/ (IsDict(block) /\ DOMAIN block = NestedFields[parent])

(* The two compared blocks carry no key that the oracle never compares. *)
BlocksCompared(with_fallback) ==
    \A name \in {"primary_contract", "substitution"} :
        IsDict(with_fallback) /\ IsDict(Get(with_fallback, name))
            => DOMAIN with_fallback[name] \subseteq ContractKeys \cup {"runtime"}

(* TRUE when validate_evidence returns, FALSE when it raises.  evidence is  *)
(* a dict.                                                                  *)
validate_evidence(oracle_id, evidence) ==
    LET contract == EVIDENCE_CONTRACTS[oracle_id]
    IN /\ DOMAIN evidence \subseteq contract.material \cup OBSERVED_ONLY_FIELDS
       /\ contract.material \ contract.allow_missing \subseteq DOMAIN evidence
       /\ oracle_id = "reviewer_substitution_contract" =>
              /\ BlocksComplete(evidence)
              /\ BlocksCompared(Get(evidence, "with_fallback"))
       /\ \A field \in contract.object_lists \cup contract.string_lists :
              Get(evidence, field) = NoValue \/ ListOf(evidence[field])
       /\ \A field \in contract.strings : Get(evidence, field) # Malformed
================================================================================
