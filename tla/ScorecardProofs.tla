----------------------------- MODULE ScorecardProofs ----------------------------
(****************************************************************************)
(* The score of a run, for every corpus, every set of outputs and every     *)
(* number of cases.  The inductive invariant says that the list of results  *)
(* holds what run_case made of some truth and some output; the rest is      *)
(* arithmetic on the panels.                                                *)
(****************************************************************************)
EXTENDS Scorecard, FiniteSetTheorems, TLAPS

Recorded == {CaseResult(truth, child, candidate) : truth \in Truth, child \in Child}

(* Every entry of the list is a case result of this run. *)
ResultsInv ==
    /\ candidate \in BOOLEAN
    /\ results \in Seq(Recorded)
    /\ Len(results) <= MaxCases

LEMMA ResultsInvariant == Spec => []ResultsInv
<1>1. Init => ResultsInv
  BY ScorecardAssumption DEF Init, ResultsInv
<1>2. ResultsInv /\ [Next]_vars => ResultsInv'
  <2> SUFFICES ASSUME ResultsInv, [Next]_vars PROVE ResultsInv'
    OBVIOUS
  <2>1. CASE UNCHANGED vars
    BY <2>1 DEF ResultsInv, Recorded, vars
  <2>2. CASE RunCase
    <3>1. PICK truth \in Truth, child \in Child :
             results' = Append(results, CaseResult(truth, child, candidate))
      BY <2>2 DEF RunCase
    <3>2. candidate' = candidate /\ Recorded' = Recorded
      BY <2>2 DEF RunCase, Recorded
    <3>3. CaseResult(truth, child, candidate) \in Recorded
      BY DEF Recorded
    <3>4. results' \in Seq(Recorded) /\ Len(results') = Len(results) + 1
      BY <3>1, <3>3 DEF ResultsInv
    <3> QED
      BY <2>2, <3>2, <3>4, ScorecardAssumption DEF RunCase, ResultsInv
  <2> QED
    BY <2>1, <2>2 DEF Next
<1> QED
  BY <1>1, <1>2, PTL DEF Spec

(* What an entry of the list is. *)
LEMMA Entry ==
  ASSUME ResultsInv, NEW i \in DOMAIN results
  PROVE  \E truth \in Truth, child \in Child :
            results[i] = CaseResult(truth, child, candidate)
<1>1. results[i] \in Recorded
  BY DEF ResultsInv
<1> QED
  BY <1>1 DEF Recorded

(* Type correctness. *)
THEOREM ScorecardTypes == Spec => []TypeOK
<1>1. ResultsInv => TypeOK
  <2> SUFFICES ASSUME ResultsInv PROVE TypeOK
    OBVIOUS
  <2>1. ASSUME NEW i \in DOMAIN results
        PROVE  /\ results[i].expected \in Truth /\ results[i].raw \in Child
               /\ results[i].classification.outcome_match \in BOOLEAN
               /\ results[i].classification.reason_match \in BOOLEAN
               /\ results[i].classification.exit_code_match \in BOOLEAN
               /\ results[i].classification.holytail_match \in BOOLEAN \cup {NoValue}
               /\ results[i].measurement \in {"LOSS", "PRESERVED", NoValue}
               /\ {"support", "status"} \subseteq DOMAIN results[i].coverage
    <3>1. PICK truth \in Truth, child \in Child :
             results[i] = CaseResult(truth, child, candidate)
      BY Entry
    <3>2. CaseCoverage(child.stdout, candidate) \in
             {SUPPORTED_COVERAGE, UNSUPPORTED_COVERAGE}
          \/ /\ IsObject(child.stdout) /\ child.stdout.coverage # NoValue
             /\ CaseCoverage(child.stdout, candidate) = child.stdout.coverage
      BY DEF CaseCoverage
    <3>3. {"support", "status"} \subseteq DOMAIN CaseCoverage(child.stdout, candidate)
      BY <3>2, ScorecardAssumption DEF SUPPORTED_COVERAGE, UNSUPPORTED_COVERAGE
    <3>4. observed_measurements(child.stdout) \in {"LOSS", "PRESERVED", NoValue}
      BY DEF observed_measurements
    <3>5. HolytailMatch(truth, observed_measurements(child.stdout))
             \in BOOLEAN \cup {NoValue}
      BY DEF HolytailMatch
    <3>6. /\ results[i].expected = truth /\ results[i].raw = child
          /\ results[i].measurement = observed_measurements(child.stdout)
          /\ results[i].coverage = CaseCoverage(child.stdout, candidate)
          /\ results[i].classification.holytail_match
                = HolytailMatch(truth, observed_measurements(child.stdout))
          /\ results[i].classification.outcome_match
                = (observed_fields(child.stdout).outcome = truth.outcome)
          /\ results[i].classification.reason_match
                = (observed_fields(child.stdout).reason = truth.reason)
          /\ results[i].classification.exit_code_match
                = (child.exit_code = truth.exit_code)
      BY <3>1 DEF CaseResult
    <3>7. ASSUME NEW x, NEW a, NEW b, x = (a = b) PROVE x \in BOOLEAN
      BY <3>7
    <3> QED
      BY <3>3, <3>4, <3>5, <3>6, <3>7
  <2> QED
    BY <2>1 DEF ResultsInv, TypeOK
<1> QED
  BY <1>1, ResultsInvariant, PTL

(* A candidate's coverage is one of the two published ones, and the         *)
(* supported one only through a whole envelope.                             *)
LEMMA CandidateCoverage ==
  ASSUME ResultsInv, candidate, NEW i \in DOMAIN results
  PROVE  \/ /\ results[i].coverage = SUPPORTED_COVERAGE
            /\ CandidateEnvelope(results[i].raw.stdout)
         \/ results[i].coverage = UNSUPPORTED_COVERAGE
<1>1. PICK truth \in Truth, child \in Child :
         results[i] = CaseResult(truth, child, candidate)
  BY Entry
<1> QED
  BY <1>1 DEF CaseResult, CaseCoverage

(* The coverage lists of a candidate split the cases, and the supported     *)
(* list is what the panels were computed over.                              *)
THEOREM ListsPartition == Spec => []CoverageListsPartition
<1>1. ResultsInv => CoverageListsPartition
  <2> SUFFICES ASSUME ResultsInv, candidate PROVE CoverageListsPartition
    BY DEF CoverageListsPartition
  <2>1. ASSUME NEW i \in DOMAIN results
        PROVE  \/ i \in Scored(results) /\ i \in SupportedList(results)
                  /\ i \notin UnsupportedList(results)
               \/ i \notin Scored(results) /\ i \notin SupportedList(results)
                  /\ i \in UnsupportedList(results)
    BY CandidateCoverage
    DEF Scored, SupportedList, UnsupportedList,
        SUPPORTED_COVERAGE, UNSUPPORTED_COVERAGE
  <2> QED
    BY <2>1 DEF CoverageListsPartition, Scored, SupportedList, UnsupportedList
<1> QED
  BY <1>1, ResultsInvariant, PTL

(* Only a whole candidate envelope is scored.                               *)
THEOREM EnvelopesOnly == Spec => []OnlyEnvelopesAreScored
<1>1. ResultsInv => OnlyEnvelopesAreScored
  <2> SUFFICES ASSUME ResultsInv, candidate, NEW i \in DOMAIN results
               PROVE  IF i \in Scored(results)
                      THEN /\ CandidateEnvelope(results[i].raw.stdout)
                           /\ i \notin UnsupportedList(results)
                      ELSE i \in UnsupportedList(results)
    BY DEF OnlyEnvelopesAreScored
  <2> QED
    BY CandidateCoverage
    DEF Scored, UnsupportedList, SUPPORTED_COVERAGE, UNSUPPORTED_COVERAGE
<1> QED
  BY <1>1, ResultsInvariant, PTL

(* Without a product observation both Holytail panels are not computable.   *)
THEOREM LabelsNeverMeasure == Spec => []LabelsAreNotMeasurements
<1>1. ResultsInv => LabelsAreNotMeasurements
  <2> SUFFICES ASSUME ResultsInv,
                      \A i \in Scored(results) :
                         LET stdout == results[i].raw.stdout
                         IN ~(/\ IsObject(stdout)
                              /\ stdout.holytail # NoValue
                              /\ stdout.holytail.source = "product_observation")
               PROVE  /\ metrics(results).holytail_preservation_recall.status
                            = "not_computable"
                      /\ metrics(results).holytail_false_alarms.status
                            = "not_computable"
    BY DEF LabelsAreNotMeasurements
  <2>1. ASSUME NEW i \in Scored(results) PROVE ~Measured(results[i])
    <3>1. PICK truth \in Truth, child \in Child :
             results[i] = CaseResult(truth, child, candidate)
      BY Entry DEF Scored
    <3>2. results[i].raw = child
          /\ results[i].measurement = observed_measurements(child.stdout)
      BY <3>1 DEF CaseResult
    <3> QED
      BY <3>2 DEF Measured, observed_measurements
  <2> DEFINE lost == {i \in Scored(results) :
                         Measured(results[i]) /\ results[i].expected.holytail = "LOSS"}
             kept == {i \in Scored(results) :
                         Measured(results[i])
                         /\ results[i].expected.holytail = "PRESERVED"}
  <2>2. lost = {} /\ kept = {}
    BY <2>1
  <2>3. Cardinality(lost) = 0 /\ Cardinality(kept) = 0
    BY <2>2, FS_EmptySet
  <2>4. metrics(results).holytail_preservation_recall.status
           = IF Cardinality(lost) = 0 THEN "not_computable" ELSE "computed"
    BY DEF metrics, Panel, score_ratio
  <2>5. metrics(results).holytail_false_alarms.status
           = IF Cardinality(kept) = 0 THEN "not_computable" ELSE "computed"
    BY DEF metrics, Panel, score_ratio
  <2> QED
    BY <2>3, <2>4, <2>5
<1> QED
  BY <1>1, ResultsInvariant, PTL

-----------------------------------------------------------------------------
(* The panels count parts of one finite set of scored cases *)

LEMMA ScoredIsFinite ==
  ASSUME ResultsInv
  PROVE  IsFiniteSet(Scored(results))
<1>1. DOMAIN results = 1 .. Len(results) /\ Len(results) \in Nat
  BY DEF ResultsInv
<1>2. IsFiniteSet(1 .. Len(results))
  BY <1>1, FS_Interval
<1> QED
  BY <1>1, <1>2, FS_Subset DEF Scored

(* Two disjoint parts of a finite set, and what they leave.                 *)
LEMMA Parts ==
  ASSUME NEW S, IsFiniteSet(S), NEW A \in SUBSET S, NEW B \in SUBSET S,
         A \cap B = {}
  PROVE  /\ Cardinality(A) \in Nat /\ Cardinality(B) \in Nat
         /\ Cardinality(S) \in Nat
         /\ Cardinality(A) + Cardinality(B) <= Cardinality(S)
         /\ A \cup B = S => Cardinality(A) + Cardinality(B) = Cardinality(S)
<1>1. IsFiniteSet(A) /\ IsFiniteSet(B)
  BY FS_Subset
<1>2. Cardinality(A) \in Nat /\ Cardinality(B) \in Nat /\ Cardinality(S) \in Nat
  BY <1>1, FS_CardinalityType
<1>3. Cardinality(A \cup B) = Cardinality(A) + Cardinality(B)
  <2>1. Cardinality(A \cap B) = 0
    BY FS_EmptySet
  <2>2. Cardinality(A \cup B)
           = Cardinality(A) + Cardinality(B) - Cardinality(A \cap B)
    BY <1>1, FS_Union
  <2> QED
    BY <1>2, <2>1, <2>2
<1>4. Cardinality(A \cup B) <= Cardinality(S)
  BY FS_Subset
<1> QED
  BY <1>2, <1>3, <1>4

(* The two halves of every run, and the counts of scoring.md.               *)
THEOREM PanelsConserve == Spec => []PanelsConserveCases
<1>1. ResultsInv => PanelsConserveCases
  <2> SUFFICES ASSUME ResultsInv PROVE PanelsConserveCases
    OBVIOUS
  <2> DEFINE S == Scored(results)
             F == {i \in S : IsFalse(results[i])}
             V == {i \in S : IsValid(results[i])}
             refused  == {i \in F : Refused(results[i])}
             accepted == {i \in F : Ready(results[i])}
             ready    == {i \in V : Ready(results[i])}
             stopped  == {i \in V : results[i].observed.outcome
                                       \in {"REFUSED", "BLOCKED"}}
             all      == {i \in S : TRUE}
  <2>1. IsFiniteSet(S)
    BY ScoredIsFinite
  <2>2. IsFiniteSet(F) /\ IsFiniteSet(V)
    BY <2>1, FS_Subset
  <2>3. Cardinality(F) + Cardinality(V) = Cardinality(S)
    <3>1. F \in SUBSET S /\ V \in SUBSET S /\ F \cap V = {} /\ F \cup V = S
      BY DEF IsFalse, IsValid
    <3> QED
      BY <2>1, <3>1, Parts
  <2>4. Cardinality(refused) + Cardinality(accepted) <= Cardinality(F)
    <3>1. refused \in SUBSET F /\ accepted \in SUBSET F /\ refused \cap accepted = {}
      BY DEF Refused, Ready
    <3> QED
      BY <2>2, <3>1, Parts
  <2>5. Cardinality(ready) + Cardinality(stopped) <= Cardinality(V)
    <3>1. ready \in SUBSET V /\ stopped \in SUBSET V /\ ready \cap stopped = {}
      BY DEF Ready
    <3> QED
      BY <2>2, <3>1, Parts
  <2>6. accepted = FalseAcceptances(results)
    BY DEF FalseAcceptances
  <2>7. FalseAcceptances(results) \subseteq Mismatches(results)
    <3> SUFFICES ASSUME NEW i \in FalseAcceptances(results)
                 PROVE  i \in Mismatches(results)
      OBVIOUS
    <3>1. i \in S /\ IsFalse(results[i]) /\ Ready(results[i])
      BY DEF FalseAcceptances
    <3>2. PICK truth \in Truth, child \in Child :
             results[i] = CaseResult(truth, child, candidate)
      BY <3>1, Entry DEF Scored
    <3>3. /\ results[i].expected = truth
          /\ results[i].classification.outcome_match
                = (results[i].observed.outcome = truth.outcome)
      BY <3>2 DEF CaseResult
    <3> QED
      BY <3>1, <3>3 DEF IsFalse, Ready, Mismatch, Mismatches
  <2>8. S = all
    OBVIOUS
  <2>9. /\ metrics(results).false_acceptance.denominator = Cardinality(F)
        /\ metrics(results).false_acceptance.numerator = Cardinality(accepted)
        /\ metrics(results).false_exit_rejection.denominator = Cardinality(F)
        /\ metrics(results).false_exit_rejection.numerator = Cardinality(refused)
    BY DEF metrics, Panel, score_ratio
  <2>10. /\ metrics(results).valid_exit_acceptance.denominator = Cardinality(V)
         /\ metrics(results).valid_exit_acceptance.numerator = Cardinality(ready)
         /\ metrics(results).false_refusal.numerator = Cardinality(stopped)
    BY DEF metrics, Panel, score_ratio
  <2>11. metrics(results).outcome_classification.denominator = Cardinality(all)
    BY DEF metrics, Panel, score_ratio
  <2> HIDE DEF S, F, V, refused, accepted, ready, stopped, all
  <2> QED
    BY <2>3, <2>4, <2>5, <2>6, <2>7, <2>8, <2>9, <2>10, <2>11
    DEF PanelsConserveCases
<1> QED
  BY <1>1, ResultsInvariant, PTL

(* When no scored case mismatches, what its result says.                    *)
LEMMA MatchedCase ==
  ASSUME ResultsInv, SuiteExitsZero(results), NEW i \in Scored(results)
  PROVE  /\ results[i].observed.outcome = results[i].expected.outcome
         /\ results[i].classification.outcome_match
         /\ results[i].classification.reason_match
         /\ (/\ results[i].measurement # NoValue
             /\ results[i].expected.holytail # "NOT_APPLICABLE")
            => results[i].measurement = results[i].expected.holytail
<1>1. ~Mismatch(results[i])
  BY DEF SuiteExitsZero, aggregate_results, Mismatches
<1>2. PICK truth \in Truth, child \in Child :
         results[i] = CaseResult(truth, child, candidate)
  BY Entry DEF Scored
<1>3. /\ results[i].expected = truth
      /\ results[i].measurement = observed_measurements(child.stdout)
      /\ results[i].classification.outcome_match
            = (results[i].observed.outcome = truth.outcome)
      /\ results[i].classification.holytail_match
            = HolytailMatch(truth, observed_measurements(child.stdout))
  BY <1>2 DEF CaseResult
<1> QED
  BY <1>1, <1>3 DEF Mismatch, HolytailMatch

(* An exit status of 0 leaves no panel that says otherwise.                 *)
THEOREM CleanExit == Spec => []CleanExitMeansCleanPanels
<1>1. ResultsInv => CleanExitMeansCleanPanels
  <2> SUFFICES ASSUME ResultsInv, SuiteExitsZero(results)
               PROVE  CleanExitMeansCleanPanels
    BY DEF CleanExitMeansCleanPanels
  <2> DEFINE S == Scored(results)
             V == {i \in S : IsValid(results[i])}
             all == {i \in S : TRUE}
             reasoned == {i \in S : results[i].expected.reason # NoValue}
             lost == {i \in S : Measured(results[i])
                                /\ results[i].expected.holytail = "LOSS"}
             kept == {i \in S : Measured(results[i])
                                /\ results[i].expected.holytail = "PRESERVED"}
             F == {i \in S : IsFalse(results[i])}
  <2>1. {i \in F : Ready(results[i])} = {}
    BY MatchedCase DEF IsFalse, Ready
  <2>2. {i \in V : results[i].observed.outcome \in {"REFUSED", "BLOCKED"}} = {}
    BY MatchedCase DEF IsValid
  <2>3. {i \in kept : SaysLoss(results[i])} = {}
    BY MatchedCase DEF Measured, SaysLoss
  <2>4. {i \in V : Ready(results[i])} = V
    BY MatchedCase DEF IsValid, Ready
  <2>5. {i \in all : results[i].classification.outcome_match} = all
    BY MatchedCase
  <2>6. {i \in reasoned : results[i].classification.reason_match} = reasoned
    BY MatchedCase
  <2>7. {i \in lost : SaysLoss(results[i])} = lost
    BY MatchedCase DEF Measured, SaysLoss
  <2>8. Cardinality({}) = 0
    BY FS_EmptySet
  <2>9. Empty(metrics(results).false_acceptance)
    BY <2>1, <2>8 DEF metrics, Panel, score_ratio, Empty
  <2>10. Empty(metrics(results).false_refusal)
    BY <2>2, <2>8 DEF metrics, Panel, score_ratio, Empty
  <2>11. Empty(metrics(results).holytail_false_alarms)
    BY <2>3, <2>8 DEF metrics, Panel, score_ratio, Empty
  <2>12. Full(metrics(results).valid_exit_acceptance)
    BY <2>4 DEF metrics, Panel, score_ratio, Full
  <2>13. Full(metrics(results).outcome_classification)
    BY <2>5 DEF metrics, Panel, score_ratio, Full
  <2>14. Full(metrics(results).reason_classification)
    BY <2>6 DEF metrics, Panel, score_ratio, Full
  <2>15. Full(metrics(results).holytail_preservation_recall)
    BY <2>7 DEF metrics, Panel, score_ratio, Full
  <2> QED
    BY <2>9, <2>10, <2>11, <2>12, <2>13, <2>14, <2>15
    DEF CleanExitMeansCleanPanels
<1> QED
  BY <1>1, ResultsInvariant, PTL
=============================================================================
