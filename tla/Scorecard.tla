------------------------------- MODULE Scorecard -------------------------------
(****************************************************************************)
(* The scoring of a whole run: every case of the corpus meets every kind of *)
(* output a child can leave, and the list of results is scored as           *)
(* run_suite.main and aggregate_results score it.  Files, identities and    *)
(* processes are in SuiteRun; this module is about the numbers.             *)
(****************************************************************************)
EXTENDS CaseScoring

CONSTANTS Truth,      \* ground truths a case may carry
          Child,      \* outputs a child may leave
          MaxCases    \* bound on the number of cases of a run

(* A coverage that a child reports as an object has both keys here, each    *)
(* NoValue when the child left it out.                                      *)
ASSUME ScorecardAssumption ==
    /\ MaxCases \in Nat
    /\ \A child \in Child :
          IsObject(child.stdout) /\ child.stdout.coverage # NoValue =>
            {"support", "status"} \subseteq DOMAIN child.stdout.coverage

VARIABLES candidate,  \* --adapter (TRUE) or --fixture (FALSE)
          results     \* the results list of run_suite.main

vars == <<candidate, results>>

Init == /\ candidate \in BOOLEAN
        /\ results = << >>

(* One turn of the loop over the cases. *)
RunCase ==
    /\ Len(results) < MaxCases
    /\ \E truth \in Truth, child \in Child :
          results' = Append(results, CaseResult(truth, child, candidate))
    /\ UNCHANGED candidate

Next == RunCase

Spec == Init /\ [][Next]_vars

-----------------------------------------------------------------------------
(* A classification is two- or three-valued where the code says so, and a   *)
(* measurement is one of the two published values or unavailable.           *)
TypeOK ==
    /\ candidate \in BOOLEAN
    /\ Len(results) <= MaxCases
    /\ \A i \in DOMAIN results :
          LET item == results[i]
          IN /\ item.expected \in Truth /\ item.raw \in Child
             /\ item.classification.outcome_match \in BOOLEAN
             /\ item.classification.reason_match \in BOOLEAN
             /\ item.classification.exit_code_match \in BOOLEAN
             /\ item.classification.holytail_match \in BOOLEAN \cup {NoValue}
             /\ item.measurement \in {"LOSS", "PRESERVED", NoValue}
             /\ {"support", "status"} \subseteq DOMAIN item.coverage

Full(panel)  == panel.numerator = panel.denominator
Empty(panel) == panel.numerator = 0

(* run_suite.py:108 derives the exit status from the mismatch list alone.   *)
(* When it is 0 no panel may tell another story: no false acceptance, no    *)
(* false refusal, no false alarm, and every recall and accuracy complete.   *)
CleanExitMeansCleanPanels ==
    LET m == metrics(results)
    IN SuiteExitsZero(results) =>
         /\ Empty(m.false_acceptance)
         /\ Empty(m.false_refusal)
         /\ Empty(m.holytail_false_alarms)
         /\ Full(m.valid_exit_acceptance)
         /\ Full(m.outcome_classification)
         /\ Full(m.reason_classification)
         /\ Full(m.holytail_preservation_recall)

(* scoring.md: false exits and valid controls split the scored cases, an    *)
(* outcome is counted at most once in its half, and a false acceptance is   *)
(* always among the mismatches that set the exit status.                    *)
PanelsConserveCases ==
    LET m == metrics(results)
        falseExits == m.false_acceptance.denominator
        controls   == m.valid_exit_acceptance.denominator
    IN /\ falseExits + controls = m.outcome_classification.denominator
       /\ m.false_exit_rejection.denominator = falseExits
       /\ m.false_exit_rejection.numerator + m.false_acceptance.numerator
            <= falseExits
       /\ m.valid_exit_acceptance.numerator + m.false_refusal.numerator
            <= controls
       /\ FalseAcceptances(results) \subseteq Mismatches(results)
       /\ m.false_acceptance.numerator = Cardinality(FalseAcceptances(results))

(* A product candidate contributes to a panel only through a well-formed    *)
(* candidate envelope that claims supported coverage: a missing, malformed  *)
(* or partial envelope enters neither a numerator nor a denominator, not    *)
(* even as a refusal, and is on the summary's unsupported list.             *)
OnlyEnvelopesAreScored ==
    candidate =>
      \A i \in DOMAIN results :
          LET stdout == results[i].raw.stdout
          IN IF i \in Scored(results)
             THEN CandidateEnvelope(stdout) /\ i \notin UnsupportedList(results)
             ELSE i \in UnsupportedList(results)

(* The coverage lists of a candidate summary split the cases, and the list  *)
(* of supported cases is the set the panels were computed over, although    *)
(* run_suite.py:99-100 and eval_common.py:171-174 decide it by different    *)
(* comparisons.  (A fixture may report a coverage in neither list.)         *)
CoverageListsPartition ==
    candidate =>
      /\ SupportedList(results) = Scored(results)
      /\ SupportedList(results) \cap UnsupportedList(results) = {}
      /\ SupportedList(results) \cup UnsupportedList(results) = DOMAIN results

(* scoring.md: an adapter's own label is not measurement provenance.  When  *)
(* no scored case carries a product observation, both Holytail panels are   *)
(* not computable, whatever labels the children printed.                    *)
LabelsAreNotMeasurements ==
    LET observed(i) ==
            LET stdout == results[i].raw.stdout
            IN /\ IsObject(stdout)
               /\ stdout.holytail # NoValue
               /\ stdout.holytail.source = "product_observation"
    IN (\A i \in Scored(results) : ~observed(i)) =>
         /\ metrics(results).holytail_preservation_recall.status
              = "not_computable"
         /\ metrics(results).holytail_false_alarms.status = "not_computable"

(* methodology/scoring.md:5-7: a timed-out result "is an observed failure   *)
(* for execution health and does not silently become READY".                *)
TimedOutIsNeverReady ==
    \A i \in DOMAIN results :
        results[i].observed.timed_out => ~Ready(results[i])
=============================================================================
