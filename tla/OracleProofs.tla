----------------------------- MODULE OracleProofs -----------------------------
(****************************************************************************)
(* The oracles and the evidence contract for every evidence: whatever the   *)
(* fields hold, and however many of them were falsified, an accepted claim  *)
(* holds of the evidence and a rejected one does not, the contract keeps    *)
(* malformed shapes from the oracles, and left out fields are never judged. *)
(****************************************************************************)
EXTENDS OracleBoundary, WellFoundedInduction, TLAPS

OracleIds == {"covered_digest_binding", "frozen_command_identity",
              "reviewer_substitution_contract", "functional_pass_preservation_fail",
              "resume_valid_evidence_only", "accepted_result_currency"}

(* The evidence passed the contract, and an oracle may judge it. *)
Admitted == oracle_id \in OracleIds /\ IsDict(evidence) /\ validate_evidence(oracle_id, evidence)

Judgement == OracleVerdict(oracle_id, evidence, disk)

-----------------------------------------------------------------------------
(* Helpers *)

LEMMA ContractsDomain == DOMAIN EVIDENCE_CONTRACTS = OracleIds
BY DEF EVIDENCE_CONTRACTS, OracleIds

(* A field that reads as something is there. *)
LEMMA GetPresent ==
  ASSUME NEW dict, NEW key, Get(dict, key) # NoValue
  PROVE  key \in DOMAIN dict /\ Get(dict, key) = dict[key]
BY DEF Get

(* The first of the places that satisfy a test is one of them. *)
LEMMA MinIsOne ==
  ASSUME NEW T \in SUBSET Nat, T # {}
  PROVE  Min(T) \in T
<1> DEFINE Below == {pair \in Nat \X Nat : pair[1] < pair[2]}
<1>1. IsWellFoundedOn(Below, Nat)
  BY NatLessThanWellFounded DEF OpToRel
<1>2. PICK x \in T : \A y \in T : <<y, x>> \notin Below
  <2> HIDE DEF Below
  <2> QED
    BY <1>1, WFMin
<1>3. \A y \in T : x <= y
  <2> SUFFICES ASSUME NEW y \in T PROVE x <= y
    OBVIOUS
  <2>1. x \in Nat /\ y \in Nat /\ ~(y < x)
    BY <1>2
  <2> QED
    BY <2>1
<1> QED
  BY <1>3 DEF Min

(* A list that passed the contract holds what it should. *)
LEMMA ListsAreTyped ==
  ASSUME Admitted,
         NEW field \in EVIDENCE_CONTRACTS[oracle_id].object_lists
                       \cup EVIDENCE_CONTRACTS[oracle_id].string_lists,
         Get(evidence, field) # NoValue
  PROVE  ListOf(Get(evidence, field))
BY GetPresent DEF Admitted, validate_evidence

LEMMA TextsAreTyped ==
  ASSUME Admitted, NEW field \in EVIDENCE_CONTRACTS[oracle_id].strings
  PROVE  Get(evidence, field) # Malformed
BY DEF Admitted, validate_evidence

-----------------------------------------------------------------------------
(* An accepted claim holds *)

(* S1: the approval is of the covered files as they are now.                *)
LEMMA ApprovalClaim ==
  ASSUME oracle_id = "covered_digest_binding", Judgement = "accept"
  PROVE  ApprovalIsCurrent
BY DEF Judgement, OracleVerdict, oracle_covered_digest_binding, ApprovalIsCurrent

(* S2: the frozen command ran and passed. *)
LEMMA CommandClaim ==
  ASSUME oracle_id = "frozen_command_identity", Judgement = "accept"
  PROVE  FrozenCommandPassed
<1>1. oracle_frozen_command_identity(evidence) = "accept"
  BY DEF Judgement, OracleVerdict
<1> HIDE DEF sha256
<1> QED
  BY <1>1 DEF oracle_frozen_command_identity, FrozenCommandPassed

(* S4: the functional check passed and the invariant was not found broken. *)
LEMMA FunctionalClaim ==
  ASSUME oracle_id = "functional_pass_preservation_fail", Judgement = "accept"
  PROVE  PassedAndNotKnownBroken
BY DEF Judgement, OracleVerdict, oracle_functional_pass_preservation_fail,
       PassedAndNotKnownBroken

(* S5: what is reused passed and is current, or its kind was run again. *)
LEMMA ResumeClaim ==
  ASSUME oracle_id = "resume_valid_evidence_only", Judgement = "accept"
  PROVE  EvidenceIsReacquiredOrCurrent
<1> DEFINE after      == Get(evidence, "after_digest")
           reused     == Get(evidence, "reused_evidence")
           reacquired == Get(evidence, "freshly_reacquired")
           proven     == {item \in Range(reacquired) : Proven(item, after)}
           kinds      == {Get(item, "kind") : item \in proven}
<1>1. oracle_resume_valid_evidence_only(evidence) = "accept"
  BY DEF Judgement, OracleVerdict
<1>2. /\ proven = Range(reacquired)
      /\ \A item \in Range(reused) :
           /\ Get(item, "kind") \in kinds \/ Get(item, "bound_digest") = after
           /\ Get(item, "status") = "passed"
  BY <1>1 DEF oracle_resume_valid_evidence_only
<1>3. ASSUME NEW item \in Range(reacquired)
      PROVE  Get(item, "executed") = "True" /\ Get(item, "bound_digest") = after
  BY <1>2 DEF Proven
<1>4. ASSUME NEW item \in Range(reused), Get(item, "kind") \in kinds
      PROVE  \E again \in Range(reacquired) : Get(again, "kind") = Get(item, "kind")
  BY <1>4
<1> HIDE DEF reused, reacquired, kinds
<1> QED
  BY <1>2, <1>3, <1>4 DEF EvidenceIsReacquiredOrCurrent, reused, reacquired

(* S6: nothing stale is presented as current, and an exit that is claimed   *)
(* for the changed tree has evidence of its own.                            *)
LEMMA CurrencyClaim ==
  ASSUME oracle_id = "accepted_result_currency", Judgement = "accept"
  PROVE  ExitIsBackedByCurrentEvidence
<1>1. oracle_accepted_result_currency(evidence) = "accept"
  BY DEF Judgement, OracleVerdict
<1> QED
  BY <1>1 DEF oracle_accepted_result_currency, ExitIsBackedByCurrentEvidence

(* S3: the keys are compared to the last one. *)
LEMMA ContractKept ==
  ASSUME NEW primary, NEW substitution,
         ContractVerdict(primary, substitution) = "accept",
         NEW key \in ContractKeys
  PROVE  /\ key \in DOMAIN primary /\ key \in DOMAIN substitution
         /\ primary[key] = substitution[key]
<1> DEFINE Omitted(k) == k \notin DOMAIN primary \cap DOMAIN substitution
           Stops(k)   == Omitted(k) \/ primary[k] # substitution[k]
           stopping   == {i \in 1..Len(REVIEWER_CONTRACT_KEYS) :
                             Stops(REVIEWER_CONTRACT_KEYS[i])}
           first      == IF stopping # {} THEN Min(stopping) ELSE 0
<1>1. ContractVerdict(primary, substitution)
        = IF first = 0 THEN "accept"
          ELSE IF Omitted(REVIEWER_CONTRACT_KEYS[first]) THEN "indeterminate"
          ELSE "reject"
  BY DEF ContractVerdict, SelectInSeq
<1>2. stopping = {}
  <2>1. SUFFICES ASSUME stopping # {} PROVE FALSE
    OBVIOUS
  <2>2. stopping \in SUBSET Nat /\ 0 \notin stopping
    OBVIOUS
  <2>3. first \in stopping
    <3> HIDE DEF stopping
    <3> QED
      BY <2>1, <2>2, MinIsOne
  <2>4. first # 0
    BY <2>2, <2>3
  <2> HIDE DEF first, Omitted
  <2> QED
    BY <1>1, <2>4
<1>3. PICK i \in 1..Len(REVIEWER_CONTRACT_KEYS) : key = REVIEWER_CONTRACT_KEYS[i]
  BY ValueAssumption DEF ContractKeys, Range
<1> QED
  BY <1>2, <1>3

(* What the parts of S3 say when all accept. *)
LEMMA ReviewerParts ==
  ASSUME oracle_id = "reviewer_substitution_contract", Judgement = "accept"
  PROVE  /\ IsDict(Get(evidence, "no_fallback"))
         /\ IsDict(Get(evidence, "with_fallback"))
         /\ IsDict(Get(evidence, "negative_verdict"))
         /\ NoFallbackVerdict(Get(evidence, "no_fallback")) = "accept"
         /\ ExecutionVerdict(Get(evidence, "with_fallback")) = "accept"
         /\ SubstitutionVerdict(Get(evidence, "with_fallback")) = "accept"
         /\ NegativeVerdict(Get(evidence, "negative_verdict")) = "accept"
<1> DEFINE parts == <<NoFallbackVerdict(Get(evidence, "no_fallback")),
                      ExecutionVerdict(Get(evidence, "with_fallback")),
                      SubstitutionVerdict(Get(evidence, "with_fallback")),
                      NegativeVerdict(Get(evidence, "negative_verdict"))>>
           refusing == {i \in 1..Len(parts) : parts[i] # "accept"}
           first    == IF refusing # {} THEN Min(refusing) ELSE 0
           dicts    == /\ IsDict(Get(evidence, "no_fallback"))
                       /\ IsDict(Get(evidence, "with_fallback"))
                       /\ IsDict(Get(evidence, "negative_verdict"))
<1>1. oracle_reviewer_substitution_contract(evidence) = "accept"
  BY DEF Judgement, OracleVerdict
<1>2. oracle_reviewer_substitution_contract(evidence)
        = IF ~dicts THEN "indeterminate"
          ELSE IF first = 0 THEN "accept" ELSE parts[first]
  BY DEF oracle_reviewer_substitution_contract, SelectInSeq
<1>3. dicts /\ (IF first = 0 THEN "accept" ELSE parts[first]) = "accept"
  <2> HIDE DEF dicts, first, parts
  <2> QED
    BY <1>1, <1>2
<1>4. refusing = {}
  <2> SUFFICES ASSUME refusing # {} PROVE FALSE
    OBVIOUS
  <2>1. refusing \in SUBSET Nat /\ 0 \notin refusing
    OBVIOUS
  <2>2. first \in refusing
    <3> HIDE DEF refusing
    <3> QED
      BY <2>1, MinIsOne
  <2>3. first # 0 /\ parts[first] # "accept"
    <3> HIDE DEF parts, first
    <3> QED
      BY <2>1, <2>2
  <2> HIDE DEF parts, first
  <2> QED
    BY <1>3, <2>3
<1>5. \A i \in 1..4 : parts[i] = "accept"
  BY <1>4
<1> QED
  BY <1>3, <1>5

(* S3: without a fallback the run stayed blocked, and a rejection was not   *)
(* escaped.                                                                 *)
LEMMA ReviewClaim ==
  ASSUME oracle_id = "reviewer_substitution_contract", Judgement = "accept"
  PROVE  ReviewIsNotEscaped
BY ReviewerParts DEF NoFallbackVerdict, NegativeVerdict, ReviewIsNotEscaped

(* S3: the alternate ran, and ran the contract of the primary. *)
LEMMA SubstitutionClaim ==
  ASSUME oracle_id = "reviewer_substitution_contract", Judgement = "accept"
  PROVE  AlternateRanTheSameContract
<1> DEFINE with == Get(evidence, "with_fallback")
           primary      == Get(with, "primary_contract")
           substitution == Get(with, "substitution")
           executed     == _normalize_runtime(Get(with, "executed_runtime"))
<1>1. /\ Get(with, "fallback_executed") = "True"
      /\ Get(with, "reviewer_verdict_recorded") = "True"
      /\ executed # NoValue
      /\ executed = _normalize_runtime(Get(with, "alternate_runtime"))
  BY ReviewerParts DEF ExecutionVerdict
<1>2. /\ ContractVerdict(primary, substitution) = "accept"
      /\ _normalize_runtime(Get(substitution, "runtime"))
           = _normalize_runtime(Get(with, "alternate_runtime"))
      /\ _normalize_runtime(Get(substitution, "runtime"))
           # _normalize_runtime(Get(with, "primary_runtime"))
      /\ Get(with, "executed_contract_sha256") = contract_sha256(primary)
  BY ReviewerParts DEF SubstitutionVerdict
<1> HIDE DEF with, primary, substitution
<1>3. \A key \in ContractKeys :
         /\ key \in DOMAIN primary \cap DOMAIN substitution
         /\ primary[key] = substitution[key]
  BY <1>2, ContractKept
<1>4. contract_sha256(primary) = contract_sha256(substitution)
  BY <1>3 DEF contract_sha256
<1>5. Get(with, "executed_runtime") # NoValue
  BY <1>1 DEF _normalize_runtime, IsDict
<1> QED
  BY <1>1, <1>2, <1>3, <1>4, <1>5
     DEF AlternateRanTheSameContract, with, primary, substitution

-----------------------------------------------------------------------------
(* A rejected claim fails *)

(* S3: a comparison of the keys that rejects has met keys that differ.      *)
LEMMA ContractBroken ==
  ASSUME NEW primary, NEW substitution,
         ContractVerdict(primary, substitution) = "reject"
  PROVE  \E key \in ContractKeys : primary[key] # substitution[key]
<1> DEFINE Omitted(k) == k \notin DOMAIN primary \cap DOMAIN substitution
           Stops(k)   == Omitted(k) \/ primary[k] # substitution[k]
           stopping   == {i \in 1..Len(REVIEWER_CONTRACT_KEYS) :
                             Stops(REVIEWER_CONTRACT_KEYS[i])}
           first      == IF stopping # {} THEN Min(stopping) ELSE 0
<1>1. ContractVerdict(primary, substitution)
        = IF first = 0 THEN "accept"
          ELSE IF Omitted(REVIEWER_CONTRACT_KEYS[first]) THEN "indeterminate"
          ELSE "reject"
  BY DEF ContractVerdict, SelectInSeq
<1>2. first # 0 /\ ~Omitted(REVIEWER_CONTRACT_KEYS[first])
  <2> HIDE DEF first, Omitted
  <2> QED
    BY <1>1
<1>3. first \in stopping
  <2>1. stopping \in SUBSET Nat
    OBVIOUS
  <2> HIDE DEF stopping
  <2> QED
    BY <1>2, <2>1, MinIsOne
<1>4. /\ first \in 1..Len(REVIEWER_CONTRACT_KEYS)
      /\ primary[REVIEWER_CONTRACT_KEYS[first]]
           # substitution[REVIEWER_CONTRACT_KEYS[first]]
  <2> HIDE DEF first
  <2> QED
    BY <1>2, <1>3
<1>5. REVIEWER_CONTRACT_KEYS[first] \in ContractKeys
  <2> HIDE DEF first
  <2> QED
    BY <1>4, ValueAssumption DEF ContractKeys, Range
<1> QED
  BY <1>4, <1>5

(* S3: one of the parts rejects when the whole does. *)
LEMMA ReviewerPartRejects ==
  ASSUME oracle_id = "reviewer_substitution_contract", Judgement = "reject"
  PROVE  \/ NoFallbackVerdict(Get(evidence, "no_fallback")) = "reject"
         \/ ExecutionVerdict(Get(evidence, "with_fallback")) = "reject"
         \/ SubstitutionVerdict(Get(evidence, "with_fallback")) = "reject"
         \/ NegativeVerdict(Get(evidence, "negative_verdict")) = "reject"
<1> DEFINE parts == <<NoFallbackVerdict(Get(evidence, "no_fallback")),
                      ExecutionVerdict(Get(evidence, "with_fallback")),
                      SubstitutionVerdict(Get(evidence, "with_fallback")),
                      NegativeVerdict(Get(evidence, "negative_verdict"))>>
           refusing == {i \in 1..Len(parts) : parts[i] # "accept"}
           first    == IF refusing # {} THEN Min(refusing) ELSE 0
           dicts    == /\ IsDict(Get(evidence, "no_fallback"))
                       /\ IsDict(Get(evidence, "with_fallback"))
                       /\ IsDict(Get(evidence, "negative_verdict"))
<1>1. Judgement = IF ~dicts THEN "indeterminate"
                  ELSE IF first = 0 THEN "accept" ELSE parts[first]
  BY DEF Judgement, OracleVerdict, oracle_reviewer_substitution_contract, SelectInSeq
<1>2. first # 0 /\ parts[first] = "reject"
  <2> HIDE DEF dicts, first, parts
  <2> QED
    BY <1>1
<1>3. first \in 1..4
  <2>1. refusing \in SUBSET Nat /\ refusing \subseteq 1..4
    OBVIOUS
  <2> HIDE DEF refusing
  <2> QED
    BY <1>2, <2>1, MinIsOne
<1>4. \E i \in 1..4 : parts[i] = "reject"
  <2> HIDE DEF first, parts
  <2> QED
    BY <1>2, <1>3
<1> QED
  BY <1>4

(* S3: each part rejects over what the claim excludes. *)
LEMMA ReviewFails ==
  ASSUME oracle_id = "reviewer_substitution_contract", Judgement = "reject"
  PROVE  ~(ReviewIsNotEscaped /\ AlternateRanTheSameContract)
<1> DEFINE with == Get(evidence, "with_fallback")
           primary      == Get(with, "primary_contract")
           substitution == Get(with, "substitution")
           substituted  == _normalize_runtime(Get(substitution, "runtime"))
<1>1. CASE NoFallbackVerdict(Get(evidence, "no_fallback")) = "reject"
  BY <1>1 DEF NoFallbackVerdict, ReviewIsNotEscaped
<1>2. CASE NegativeVerdict(Get(evidence, "negative_verdict")) = "reject"
  BY <1>2 DEF NegativeVerdict, ReviewIsNotEscaped
<1>3. CASE ExecutionVerdict(with) = "reject"
  <2> HIDE DEF with
  <2>1. \/ Get(with, "reviewer_verdict_recorded") # "True"
        \/ _normalize_runtime(Get(with, "executed_runtime"))
              # _normalize_runtime(Get(with, "alternate_runtime"))
    BY <1>3 DEF ExecutionVerdict
  <2> QED
    BY <2>1 DEF AlternateRanTheSameContract, with
<1>4. CASE SubstitutionVerdict(with) = "reject"
  <2> SUFFICES ASSUME AlternateRanTheSameContract PROVE FALSE
    OBVIOUS
  <2>1. /\ \A key \in ContractKeys : primary[key] = substitution[key]
        /\ Get(with, "executed_contract_sha256") = contract_sha256(substitution)
        /\ substituted = _normalize_runtime(Get(with, "alternate_runtime"))
        /\ substituted # _normalize_runtime(Get(with, "primary_runtime"))
    BY DEF AlternateRanTheSameContract
  <2>2. \/ ContractVerdict(primary, substitution) = "reject"
        \/ substituted # _normalize_runtime(Get(with, "alternate_runtime"))
        \/ substituted = _normalize_runtime(Get(with, "primary_runtime"))
        \/ Get(with, "executed_contract_sha256") # contract_sha256(primary)
    BY <1>4 DEF SubstitutionVerdict
  <2> HIDE DEF with, primary, substitution
  <2>3. ContractVerdict(primary, substitution) # "reject"
    BY <2>1, ContractBroken
  <2>4. contract_sha256(primary) = contract_sha256(substitution)
    BY <2>1 DEF contract_sha256
  <2> QED
    BY <2>1, <2>2, <2>3, <2>4
<1> QED
  BY <1>1, <1>2, <1>3, <1>4, ReviewerPartRejects

(* S5: a list the contract admits has dicts for elements, so what is not    *)
(* proven was not run or is of another subject.                             *)
LEMMA ResumeFails ==
  ASSUME Admitted, oracle_id = "resume_valid_evidence_only", Judgement = "reject"
  PROVE  ~EvidenceIsReacquiredOrCurrent
<1> DEFINE after      == Get(evidence, "after_digest")
           reused     == Get(evidence, "reused_evidence")
           reacquired == Get(evidence, "freshly_reacquired")
           proven     == {item \in Range(reacquired) : Proven(item, after)}
           kinds      == {Get(item, "kind") : item \in proven}
           Stale(item) == /\ Get(item, "kind") \notin kinds
                          /\ Get(item, "bound_digest") # after
<1>1. oracle_resume_valid_evidence_only(evidence) = "reject"
  BY DEF Judgement, OracleVerdict
<1>2. /\ IsList(reacquired)
      /\ \/ proven # Range(reacquired)
         \/ \E item \in Range(reused) :
               Stale(item) \/ Get(item, "status") # "passed"
  BY <1>1 DEF oracle_resume_valid_evidence_only
<1>3. \A item \in Range(reacquired) : IsDict(item)
  <2>1. ListOf(reacquired)
    BY <1>2, ListsAreTyped DEF EVIDENCE_CONTRACTS, Contract, IsList
  <2> QED
    BY <2>1 DEF ListOf, IsDict
<1> SUFFICES ASSUME EvidenceIsReacquiredOrCurrent PROVE FALSE
  OBVIOUS
<1>4. /\ \A item \in Range(reacquired) :
            Get(item, "executed") = "True" /\ Get(item, "bound_digest") = after
      /\ \A item \in Range(reused) :
            /\ Get(item, "status") = "passed"
            /\ \/ Get(item, "bound_digest") = after
               \/ \E again \in Range(reacquired) : Get(again, "kind") = Get(item, "kind")
  BY DEF EvidenceIsReacquiredOrCurrent
<1> HIDE DEF after, reused, reacquired
<1>5. proven = Range(reacquired)
  BY <1>3, <1>4 DEF Proven
<1>6. PICK item \in Range(reused) : Stale(item)
  BY <1>2, <1>4, <1>5
<1>7. PICK again \in Range(reacquired) : Get(again, "kind") = Get(item, "kind")
  BY <1>4, <1>6
<1>8. Get(item, "kind") \in kinds
  BY <1>5, <1>7
<1> QED
  BY <1>6, <1>8

(* S6: an exit that is rejected has no evidence of the current subject. *)
LEMMA CurrencyFails ==
  ASSUME Admitted, oracle_id = "accepted_result_currency", Judgement = "reject"
  PROVE  ~ExitIsBackedByCurrentEvidence
<1> DEFINE current == Get(evidence, "current_digest")
           fresh   == Get(evidence, "fresh_evidence")
<1>1. oracle_accepted_result_currency(evidence) = "reject"
  BY DEF Judgement, OracleVerdict
<1>2. /\ Get(evidence, "accepted_digest") # current
      /\ \/ Truthy(Get(evidence, "still_claims_current"))
         \/ /\ IsList(fresh)
            /\ Truthy(Get(evidence, "exit_claimed"))
            /\ ~\E item \in Range(fresh) :
                   IsDict(item) /\ Get(item, "bound_digest") = current
  BY <1>1 DEF oracle_accepted_result_currency
<1>3. CASE Truthy(Get(evidence, "still_claims_current"))
  BY <1>2, <1>3 DEF ExitIsBackedByCurrentEvidence
<1>4. CASE ~Truthy(Get(evidence, "still_claims_current"))
  <2>1. ListOf(fresh)
    BY <1>2, <1>4, ListsAreTyped DEF EVIDENCE_CONTRACTS, Contract, IsList
  <2>2. \A item \in Range(fresh) : IsDict(item)
    BY <2>1 DEF ListOf, IsDict
  <2> HIDE DEF fresh
  <2> QED
    BY <1>2, <1>4, <2>2 DEF ExitIsBackedByCurrentEvidence, fresh
<1> QED
  BY <1>3, <1>4

(* Every reject is of a claim that fails. *)
LEMMA RejectedFails ==
  ASSUME Admitted, Judgement = "reject"
  PROVE  ~ClaimHolds
<1>1. CASE oracle_id = "covered_digest_binding"
  BY <1>1 DEF Judgement, OracleVerdict, oracle_covered_digest_binding,
              ApprovalIsCurrent, ClaimHolds
<1>2. CASE oracle_id = "frozen_command_identity"
  <2>1. oracle_frozen_command_identity(evidence) = "reject"
    BY <1>2 DEF Judgement, OracleVerdict
  <2>2. ~FrozenCommandPassed
    BY <2>1 DEF oracle_frozen_command_identity, FrozenCommandPassed
  <2> QED
    BY <1>2, <2>2 DEF ClaimHolds
<1>3. CASE oracle_id = "reviewer_substitution_contract"
  BY <1>3, ReviewFails DEF ClaimHolds
<1>4. CASE oracle_id = "functional_pass_preservation_fail"
  BY <1>4 DEF Judgement, OracleVerdict, oracle_functional_pass_preservation_fail,
              PassedAndNotKnownBroken, ClaimHolds
<1>5. CASE oracle_id = "resume_valid_evidence_only"
  BY <1>5, ResumeFails DEF ClaimHolds
<1>6. CASE oracle_id = "accepted_result_currency"
  BY <1>6, CurrencyFails DEF ClaimHolds
<1> QED
  BY <1>1, <1>2, <1>3, <1>4, <1>5, <1>6 DEF Admitted, OracleIds

-----------------------------------------------------------------------------
(* The boundary *)

(* S3 never raises. *)
LEMMA ReviewerVerdict ==
  ASSUME oracle_id = "reviewer_substitution_contract"
  PROVE  Judgement \in {"accept", "reject", "indeterminate"}
<1> DEFINE no_fallback == Get(evidence, "no_fallback")
           with        == Get(evidence, "with_fallback")
           negative    == Get(evidence, "negative_verdict")
           parts == <<NoFallbackVerdict(no_fallback), ExecutionVerdict(with),
                      SubstitutionVerdict(with), NegativeVerdict(negative)>>
           refusing == {i \in 1..Len(parts) : parts[i] # "accept"}
           first    == IF refusing # {} THEN Min(refusing) ELSE 0
           dicts    == IsDict(no_fallback) /\ IsDict(with) /\ IsDict(negative)
           Verdicts == {"accept", "reject", "indeterminate"}
<1>1. \A i \in 1..4 : parts[i] \in Verdicts
  <2>1. NoFallbackVerdict(no_fallback) \in Verdicts
    BY DEF NoFallbackVerdict
  <2>2. ExecutionVerdict(with) \in Verdicts
    BY DEF ExecutionVerdict
  <2>3. SubstitutionVerdict(with) \in Verdicts
    BY DEF SubstitutionVerdict, ContractVerdict
  <2>4. NegativeVerdict(negative) \in Verdicts
    BY DEF NegativeVerdict
  <2> QED
    BY <2>1, <2>2, <2>3, <2>4
<1>2. first = 0 \/ first \in 1..4
  <2>1. refusing \in SUBSET Nat /\ refusing \subseteq 1..4
    OBVIOUS
  <2> HIDE DEF refusing
  <2> QED
    BY <2>1, MinIsOne
<1>3. Judgement = IF ~dicts THEN "indeterminate"
                  ELSE IF first = 0 THEN "accept" ELSE parts[first]
  BY DEF Judgement, OracleVerdict, oracle_reviewer_substitution_contract, SelectInSeq
<1> HIDE DEF parts, first, dicts
<1> QED
  BY <1>1, <1>2, <1>3

(* Every oracle gives one of the three verdicts, or raises. *)
LEMMA VerdictIsKnown ==
  ASSUME oracle_id \in OracleIds
  PROVE  Judgement \in {"accept", "reject", "indeterminate", "raises"}
<1>1. CASE oracle_id = "covered_digest_binding"
  BY <1>1 DEF Judgement, OracleVerdict, oracle_covered_digest_binding
<1>2. CASE oracle_id = "frozen_command_identity"
  BY <1>2 DEF Judgement, OracleVerdict, oracle_frozen_command_identity
<1>3. CASE oracle_id = "reviewer_substitution_contract"
  BY <1>3, ReviewerVerdict
<1>4. CASE oracle_id = "functional_pass_preservation_fail"
  BY <1>4 DEF Judgement, OracleVerdict, oracle_functional_pass_preservation_fail
<1>5. CASE oracle_id = "resume_valid_evidence_only"
  BY <1>5 DEF Judgement, OracleVerdict, oracle_resume_valid_evidence_only
<1>6. CASE oracle_id = "accepted_result_currency"
  BY <1>6 DEF Judgement, OracleVerdict, oracle_accepted_result_currency
<1> QED
  BY <1>1, <1>2, <1>3, <1>4, <1>5, <1>6 DEF OracleIds

(* An oracle raises over what the contract cannot see, and nothing else. *)
LEMMA AdmittedRaises ==
  ASSUME Admitted, Judgement = "raises"
  PROVE  \/ oracle_id = "covered_digest_binding" /\ disk = "unreadable"
         \/ /\ oracle_id = "resume_valid_evidence_only"
            /\ \E item \in Range(evidence.reused_evidence)
                            \cup Range(evidence.freshly_reacquired) :
                  IsDict(item) /\ Get(item, "kind") = Malformed
<1>1. CASE oracle_id = "covered_digest_binding"
  <2>1. oracle_covered_digest_binding(evidence, disk) = "raises"
    BY <1>1 DEF Judgement, OracleVerdict
  <2>2. Get(evidence, "covered_names") # NoValue
    BY <2>1 DEF oracle_covered_digest_binding
  <2>3. /\ Get(evidence, "covered_root") # Malformed
        /\ ListOf(Get(evidence, "covered_names"))
    BY <1>1, <2>2, ListsAreTyped, TextsAreTyped DEF EVIDENCE_CONTRACTS, Contract
  <2> QED
    BY <1>1, <2>1, <2>3 DEF oracle_covered_digest_binding, ListOf, IsList
<1>2. CASE oracle_id = "frozen_command_identity"
  <2>1. oracle_frozen_command_identity(evidence) = "raises"
    BY <1>2 DEF Judgement, OracleVerdict
  <2>2. /\ Get(evidence, "frozen_command") # Malformed
        /\ Get(evidence, "executed_command") # Malformed
    BY <1>2, TextsAreTyped DEF EVIDENCE_CONTRACTS, Contract
  <2> QED
    BY <2>1, <2>2 DEF oracle_frozen_command_identity
<1>3. CASE oracle_id = "resume_valid_evidence_only"
  <2> DEFINE after      == Get(evidence, "after_digest")
             reused     == Get(evidence, "reused_evidence")
             reacquired == Get(evidence, "freshly_reacquired")
             Unhashable(item) == IsDict(item) /\ Get(item, "kind") = Malformed
  <2>1. oracle_resume_valid_evidence_only(evidence) = "raises"
    BY <1>3 DEF Judgement, OracleVerdict
  <2>2. /\ IsList(reused) /\ IsList(reacquired)
        /\ \/ \E item \in Range(reacquired) : Unhashable(item)
           \/ \E item \in Range(reused) : ~IsDict(item) \/ Unhashable(item)
    BY <2>1 DEF oracle_resume_valid_evidence_only
  <2>3. /\ reused # NoValue /\ reused = evidence.reused_evidence
        /\ reacquired = evidence.freshly_reacquired
    BY <2>2, GetPresent DEF IsList
  <2>4. \A item \in Range(reused) : IsDict(item)
    <3>1. ListOf(reused)
      BY <1>3, <2>3, ListsAreTyped DEF EVIDENCE_CONTRACTS, Contract
    <3> QED
      BY <3>1 DEF ListOf, IsDict
  <2> HIDE DEF reused, reacquired
  <2> QED
    BY <1>3, <2>2, <2>3, <2>4
<1>4. CASE oracle_id = "reviewer_substitution_contract"
  BY <1>4, ReviewerVerdict
<1>5. CASE oracle_id = "functional_pass_preservation_fail"
  BY <1>5 DEF Judgement, OracleVerdict, oracle_functional_pass_preservation_fail
<1>6. CASE oracle_id = "accepted_result_currency"
  BY <1>6 DEF Judgement, OracleVerdict, oracle_accepted_result_currency
<1> QED
  BY <1>1, <1>2, <1>3, <1>4, <1>5, <1>6 DEF Admitted, OracleIds

(* Every block of admitted reviewer evidence that is a dict is complete.    *)
LEMMA BlockKeys ==
  ASSUME Admitted, oracle_id = "reviewer_substitution_contract",
         NEW block \in DOMAIN NestedFields, Get(evidence, block) # NoValue
  PROVE  DOMAIN evidence[block] = NestedFields[block]
<1>1. BlocksComplete(evidence)
  BY DEF Admitted, validate_evidence
<1>2. Get(evidence, block) = evidence[block]
  BY GetPresent
<1> QED
  BY <1>1, <1>2 DEF BlocksComplete

(* Fields and keys that are left out are not judged. *)
LEMMA JudgedIsWhole ==
  ASSUME Admitted, Judgement \notin {"indeterminate", "raises"}
  PROVE  /\ EVIDENCE_CONTRACTS[oracle_id].material
              \ EVIDENCE_CONTRACTS[oracle_id].allow_missing \subseteq DOMAIN evidence
         /\ oracle_id = "reviewer_substitution_contract" =>
              \A block \in DOMAIN NestedFields :
                  NestedFields[block] \subseteq DOMAIN evidence[block]
<1>1. EVIDENCE_CONTRACTS[oracle_id].material
        \ EVIDENCE_CONTRACTS[oracle_id].allow_missing \subseteq DOMAIN evidence
  BY DEF Admitted, validate_evidence
<1>2. ASSUME oracle_id = "reviewer_substitution_contract"
      PROVE  \A block \in DOMAIN NestedFields :
                NestedFields[block] \subseteq DOMAIN evidence[block]
  <2>1. oracle_reviewer_substitution_contract(evidence) # "indeterminate"
    BY <1>2 DEF Judgement, OracleVerdict
  <2>2. /\ IsDict(Get(evidence, "no_fallback"))
        /\ IsDict(Get(evidence, "with_fallback"))
        /\ IsDict(Get(evidence, "negative_verdict"))
    BY <2>1 DEF oracle_reviewer_substitution_contract
  <2>3. DOMAIN NestedFields = {"no_fallback", "with_fallback", "negative_verdict"}
    BY DEF NestedFields
  <2>4. \A block \in DOMAIN NestedFields : Get(evidence, block) # NoValue
    BY <2>2, <2>3 DEF IsDict
  <2> QED
    BY <1>2, <2>4, BlockKeys
<1> QED
  BY <1>1, <1>2

-----------------------------------------------------------------------------
(* The invariant: once there is a result, it is the outcome of the evidence *)
(* as it is now.                                                            *)
ResultInv ==
    /\ oracle_id \in OracleIds
    /\ disk \in {"current", "earlier", "missing", "unreadable"}
    /\ edits \in 0..MaxEdits
    /\ result \in {NoValue, Outcome}

LEMMA MutateStep ==
  ASSUME ResultInv, NEW mutated, Mutate(mutated)
  PROVE  ResultInv'
BY MaxEditsAssumption DEF ResultInv, Mutate

(* A result is never of other evidence than the one that is judged          *)
(* (run_scenarios.py:198-232).                                              *)
THEOREM ResultInvariant == Spec => []ResultInv
<1>1. Init => ResultInv
  <2>1. DOMAIN FixtureEvidence = OracleIds
    BY DEF FixtureEvidence, OracleIds
  <2> QED
    BY <2>1, MaxEditsAssumption DEF Init, ResultInv
<1>2. ResultInv /\ [Next]_vars => ResultInv'
  <2> SUFFICES ASSUME ResultInv, [Next]_vars PROVE ResultInv'
    OBVIOUS
  <2>1. ASSUME NEW field, Replace(field) PROVE ResultInv'
    BY <2>1, MutateStep DEF Replace
  <2>2. ASSUME NEW field, Leave(field) PROVE ResultInv'
    BY <2>2, MutateStep DEF Leave
  <2>3. ASSUME NEW block, NEW key, ReplaceIn(block, key) PROVE ResultInv'
    BY <2>3, MutateStep DEF ReplaceIn
  <2>4. ASSUME NEW block, NEW key, LeaveIn(block, key) PROVE ResultInv'
    BY <2>4, MutateStep DEF LeaveIn
  <2>5. CASE NotADict
    BY <2>5, MutateStep DEF NotADict
  <2>6. CASE ChangeDisk
    BY <2>6, MaxEditsAssumption DEF ResultInv, ChangeDisk
  <2>7. CASE Judge
    <3>1. Outcome' = Outcome
      BY <2>7 DEF Judge, Outcome
    <3> QED
      BY <2>7, <3>1 DEF ResultInv, Judge
  <2>8. CASE UNCHANGED vars
    BY <2>8 DEF vars, ResultInv, Outcome
  <2> QED
    BY <2>1, <2>2, <2>3, <2>4, <2>5, <2>6, <2>7, <2>8 DEF Next
<1> QED
  BY <1>1, <1>2, PTL DEF Spec

(* A result that is not an abstention is the judgement of admitted evidence. *)
LEMMA ResultIsJudgement ==
  ASSUME ResultInv, result # NoValue
  PROVE  \/ result = Abstain
         \/ Admitted /\ Judgement # "raises" /\ result = [verdict |-> Judgement, judged |-> TRUE]
<1>1. result = Outcome
  BY DEF ResultInv
<1> QED
  BY <1>1 DEF Outcome, Recorded, Admitted, Judgement, ResultInv

(* The recorded verdict is one a scenario result may carry, for every       *)
(* evidence.                                                                *)
THEOREM BoundaryTypes == Spec => []TypeOK
<1>1. ResultInv => TypeOK
  <2> SUFFICES ASSUME ResultInv PROVE TypeOK
    OBVIOUS
  <2>1. result \in {NoValue, Abstain}
          \cup [verdict : {"accept", "reject", "indeterminate"}, judged : {TRUE}]
    <3>1. CASE result \in {NoValue, Abstain}
      BY <3>1
    <3>2. CASE result \notin {NoValue, Abstain}
      <4>1. Judgement # "raises" /\ result = [verdict |-> Judgement, judged |-> TRUE]
        BY <3>2, ResultIsJudgement
      <4>2. Judgement \in {"accept", "reject", "indeterminate"}
        BY <4>1, VerdictIsKnown DEF ResultInv
      <4> QED
        BY <4>1, <4>2
    <3> QED
      BY <3>1, <3>2
  <2> QED
    BY <2>1, ContractsDomain DEF ResultInv, TypeOK
<1> QED
  BY <1>1, ResultInvariant, PTL

(* What is accepted holds, whatever was falsified (oracles.py:54-470).      *)
THEOREM AcceptedClaimsHold == Spec => []AcceptMeansTheClaimHolds
<1>1. ResultInv => AcceptMeansTheClaimHolds
  <2> SUFFICES ASSUME ResultInv, Accepted PROVE AcceptMeansTheClaimHolds
    BY DEF AcceptMeansTheClaimHolds
  <2>1. Admitted /\ Judgement = "accept"
    BY ResultIsJudgement DEF Accepted, Abstain
  <2> QED
    BY <2>1, ApprovalClaim, CommandClaim, SubstitutionClaim, ReviewClaim,
       FunctionalClaim, ResumeClaim, CurrencyClaim
       DEF AcceptMeansTheClaimHolds, ClaimHolds
<1> QED
  BY <1>1, ResultInvariant, PTL

(* What is rejected has a defect of its own, whatever else was falsified    *)
(* (oracles.py:54-470).                                                     *)
THEOREM RejectedClaimsFail == Spec => []RejectMeansTheClaimFails
<1>1. ResultInv => RejectMeansTheClaimFails
  <2> SUFFICES ASSUME ResultInv, Rejected PROVE ~ClaimHolds
    BY DEF RejectMeansTheClaimFails
  <2>1. Admitted /\ Judgement = "reject"
    BY ResultIsJudgement DEF Rejected, Abstain
  <2> QED
    BY <2>1, RejectedFails
<1> QED
  BY <1>1, ResultInvariant, PTL

(* The contract (oracles.py:640-641, 673-712) keeps every malformed shape   *)
(* from the oracles but two: a covered file that cannot be read, and a kind *)
(* that cannot be hashed, which S5 puts into a set before anyone looked at  *)
(* its type (oracles.py:373, 386).                                          *)
THEOREM RaisesOnlyOver ==
    Spec => [](Admitted /\ Judgement = "raises" =>
                 \/ oracle_id = "covered_digest_binding" /\ disk = "unreadable"
                 \/ /\ oracle_id = "resume_valid_evidence_only"
                    /\ \E item \in Range(evidence.reused_evidence)
                                  \cup Range(evidence.freshly_reacquired) :
                          IsDict(item) /\ Get(item, "kind") = Malformed)
<1>1. Admitted /\ Judgement = "raises" =>
        \/ oracle_id = "covered_digest_binding" /\ disk = "unreadable"
        \/ /\ oracle_id = "resume_valid_evidence_only"
           /\ \E item \in Range(evidence.reused_evidence)
                         \cup Range(evidence.freshly_reacquired) :
                 IsDict(item) /\ Get(item, "kind") = Malformed
  BY AdmittedRaises
<1> QED
  BY <1>1, PTL

(* What is left out is never judged (oracles.py:628-646).                   *)
THEOREM OmissionsAbstain == Spec => []OmittedKeysAbstain
<1>1. ResultInv => OmittedKeysAbstain
  <2> SUFFICES ASSUME ResultInv, result # NoValue, result.verdict # "indeterminate"
               PROVE  OmittedKeysAbstain
    BY DEF OmittedKeysAbstain
  <2>1. Admitted /\ Judgement \notin {"indeterminate", "raises"}
    BY ResultIsJudgement DEF Abstain
  <2> QED
    BY <2>1, JudgedIsWhole DEF OmittedKeysAbstain
<1> QED
  BY <1>1, ResultInvariant, PTL
================================================================================
