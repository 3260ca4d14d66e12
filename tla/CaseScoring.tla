------------------------------ MODULE CaseScoring ------------------------------
(****************************************************************************)
(* How one child process becomes a case result (runners/run_case.py) and    *)
(* how case results become the published scores (tools/eval_common.py,      *)
(* runners/run_suite.py).  Pure operators: no state.                        *)
(*                                                                          *)
(* What a child leaves behind is a record                                   *)
(*   [stdout, exit_code, timed_out]                                         *)
(* whose stdout is [form |-> "empty" | "malformed" | "scalar" | "raises"],  *)
(* or an object                                                             *)
(*   [form |-> "object", top, result, envelope, coverage, holytail]         *)
(* where top and result are [outcome, reason] (the keys read at the top     *)
(* level and inside payload["result"]; result = NoValue when that key is    *)
(* not a dict), envelope says that the remaining candidate-envelope keys    *)
(* are well formed, and coverage and holytail are NoValue when they are not *)
(* dicts.  A JSON value of the wrong type is NoValue, as Python's None.     *)
(****************************************************************************)
EXTENDS Integers, Sequences, FiniteSets

CONSTANT NoValue   \* Python's None

SUPPORTED_COVERAGE ==
    [support |-> "supported", status |-> "exercised", extra |-> FALSE]
UNSUPPORTED_COVERAGE ==
    [support |-> "unsupported", status |-> "unexercised", extra |-> FALSE]

-----------------------------------------------------------------------------
(* run_case.py: reading the child's output *)

IsObject(stdout) == stdout.form = "object"

(* JSON that the interpreter of the evaluator gives up on: nested too deep  *)
(* to parse, or a measured value that Python cannot hash.  There is no case *)
(* result for it.                                                           *)
Raises(child) == child.stdout.form = "raises"

(* The outcome and reason of the payload, read inside "result" when that is *)
(* a dict.                                                                  *)
observed_fields(stdout) ==
    IF ~IsObject(stdout) THEN [outcome |-> NoValue, reason |-> NoValue]
    ELSE IF stdout.result # NoValue THEN stdout.result
    ELSE stdout.top

(* A slip in provenance: any reported value counts as measured. *)
AnyReportedValue(stdout) ==
    IF IsObject(stdout) /\ stdout.holytail # NoValue
    THEN stdout.holytail.value ELSE NoValue

(* The measured Holytail value, NoValue when it is unavailable.  Only a     *)
(* value whose provenance is a product observation is a measurement.        *)
observed_measurements(stdout) ==
    IF /\ IsObject(stdout)
       /\ stdout.holytail # NoValue
       /\ stdout.holytail.status = "measured"
       /\ stdout.holytail.source = "product_observation"
       /\ stdout.holytail.value \in {"LOSS", "PRESERVED"}
    THEN stdout.holytail.value
    ELSE NoValue

(* The candidate protocol: every key of the envelope is present and typed. *)
CandidateEnvelope(stdout) ==
    /\ IsObject(stdout)
    /\ stdout.result # NoValue
    /\ stdout.coverage # NoValue
    /\ stdout.envelope

(* A slip in the coverage rule: the adapter's word is taken as it is. *)
TrustedCoverage(stdout, candidate) ==
    IF IsObject(stdout) /\ stdout.coverage # NoValue
    THEN stdout.coverage
    ELSE SUPPORTED_COVERAGE

(* A candidate without a whole envelope, or with a coverage that is neither *)
(* of the two published ones, is unsupported.  A fixture keeps the dict it  *)
(* reports, and is supported when it reports none.                          *)
CaseCoverage(stdout, candidate) ==
    IF candidate
    THEN IF CandidateEnvelope(stdout) /\ stdout.coverage = SUPPORTED_COVERAGE
         THEN SUPPORTED_COVERAGE
         ELSE UNSUPPORTED_COVERAGE
    ELSE IF IsObject(stdout) /\ stdout.coverage # NoValue
         THEN stdout.coverage
         ELSE SUPPORTED_COVERAGE

(* NoValue when the case has no Holytail ground truth or nothing was        *)
(* measured: such a case can neither match nor mismatch.                    *)
HolytailMatch(truth, value) ==
    IF truth.holytail = "NOT_APPLICABLE" \/ value = NoValue
    THEN NoValue
    ELSE value = truth.holytail

(* The result written to cases/<id>.json.  Digests, paths, durations and    *)
(* the command line are left out: child stands for the raw bytes.           *)
CaseResult(truth, child, candidate) ==
    LET observed == observed_fields(child.stdout)
        value    == observed_measurements(child.stdout)
    IN [expected |-> truth,
        observed |-> [outcome   |-> observed.outcome,
                      reason    |-> observed.reason,
                      exit_code |-> child.exit_code,
                      timed_out |-> child.timed_out],
        classification |->
            [outcome_match   |-> observed.outcome = truth.outcome,
             reason_match    |-> observed.reason = truth.reason,
             exit_code_match |-> child.exit_code = truth.exit_code,
             holytail_match  |-> HolytailMatch(truth, value)],
        measurement |-> value,
        coverage |-> CaseCoverage(child.stdout, candidate),
        raw |-> child]

-----------------------------------------------------------------------------
(* eval_common.py: the scores, over a sequence of case results *)

score_ratio(numerator, denominator) ==
    [numerator |-> numerator, denominator |-> denominator,
     status |-> IF denominator = 0 THEN "not_computable" ELSE "computed"]

(* The cases with exactly the supported, exercised coverage. *)
Scored(results) ==
    {i \in DOMAIN results : results[i].coverage = SUPPORTED_COVERAGE}

(* Of the scored cases that satisfy predicate, how many are successes. *)
Panel(results, predicate(_), success(_)) ==
    LET selected == {i \in Scored(results) : predicate(results[i])}
    IN score_ratio(Cardinality({i \in selected : success(results[i])}),
                   Cardinality(selected))

IsFalse(item)  == item.expected.outcome # "READY"
IsValid(item)  == item.expected.outcome = "READY"

(* A slip in the panel: every case that was not blocked counts as refused. *)
RefusedOrReady(item) == item.observed.outcome \in {"REFUSED", "READY"}

Refused(item)  == item.observed.outcome = "REFUSED"
Ready(item)    == item.observed.outcome = "READY"
Measured(item) == item.measurement # NoValue
SaysLoss(item) == item.measurement = "LOSS"

metrics(results) ==
    LET always(item)  == TRUE
        stopped(item) == item.observed.outcome \in {"REFUSED", "BLOCKED"}
        reasoned(item) == item.expected.reason # NoValue
        outcomeOk(item) == item.classification.outcome_match
        reasonOk(item)  == item.classification.reason_match
        loss(item)      == Measured(item) /\ item.expected.holytail = "LOSS"
        preserved(item) == Measured(item) /\ item.expected.holytail = "PRESERVED"
    IN [false_exit_rejection  |-> Panel(results, IsFalse, Refused),
        false_acceptance      |-> Panel(results, IsFalse, Ready),
        valid_exit_acceptance |-> Panel(results, IsValid, Ready),
        false_refusal         |-> Panel(results, IsValid, stopped),
        outcome_classification |-> Panel(results, always, outcomeOk),
        reason_classification  |-> Panel(results, reasoned, reasonOk),
        holytail_preservation_recall |-> Panel(results, loss, SaysLoss),
        holytail_false_alarms        |-> Panel(results, preserved, SaysLoss)]

(* A slip in the exit status: the Holytail verdict is not consulted. *)
MismatchWithoutHolytail(item) ==
    \/ ~item.classification.outcome_match
    \/ ~item.classification.reason_match
    \/ ~item.classification.exit_code_match

(* An unmeasured Holytail verdict (NoValue) is not a mismatch. *)
Mismatch(item) ==
    \/ ~item.classification.outcome_match
    \/ ~item.classification.reason_match
    \/ ~item.classification.exit_code_match
    \/ item.classification.holytail_match = FALSE

FalseAcceptances(results) ==
    {i \in Scored(results) : IsFalse(results[i]) /\ Ready(results[i])}

Mismatches(results) == {i \in Scored(results) : Mismatch(results[i])}

aggregate_results(results) ==
    [metrics |-> metrics(results),
     false_acceptance_case_ids |-> FalseAcceptances(results),
     mismatch_case_ids |-> Mismatches(results)]

(* run_suite.py: the two coverage lists of summary.json.  They read the two *)
(* keys one by one where Scored compares the whole dict.                    *)
SupportedList(results) ==
    {i \in DOMAIN results : /\ results[i].coverage.support = "supported"
                            /\ results[i].coverage.status = "exercised"}
UnsupportedList(results) ==
    {i \in DOMAIN results : \/ results[i].coverage.support = "unsupported"
                            \/ results[i].coverage.status = "unexercised"}

(* The content of summary.json. *)
Summary(results, candidate) ==
    [case_count |-> Len(results),
     candidate_dependent |-> candidate,
     supported_exercised_case_ids |-> SupportedList(results),
     unsupported_unexercised_case_ids |-> UnsupportedList(results),
     aggregated |-> aggregate_results(results)]

(* run_suite.py exits 0 exactly when no scored case mismatches. *)
SuiteExitsZero(results) == aggregate_results(results).mismatch_case_ids = {}
=============================================================================
