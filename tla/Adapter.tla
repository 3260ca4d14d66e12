-------------------------------- MODULE Adapter --------------------------------
(****************************************************************************)
(* adapters/exitbind-v0.17.0.py: how the adapter drives the product through *)
(* its command line for one case, and what it prints about it.  The child   *)
(* it leaves is scored as run_case.py scores it (CaseScoring).              *)
(*                                                                          *)
(* The product is external: a lifecycle of roles (scope, worker, review,    *)
(* final), the evidence for the current attempt, and a set of defects.  A   *)
(* command may also fail in ways that say nothing about the lifecycle.      *)
(****************************************************************************)
EXTENDS CaseScoring

CONSTANTS Truth,      \* [CaseId -> ground truth]
          MaxFaults   \* bound on the commands of a case that fail

ASSUME AdapterAssumption == MaxFaults \in Nat

VARIABLES id,         \* the case
          defects,    \* what the product lets through
          staleReply, \* how the product refuses an approval of earlier work
          product,    \* the product's state in the case's workspace
          step,       \* position in the script of the case
          events,     \* per worker submission, the attempt its event id names
          reply,      \* the last command's [code, text]
          faults,     \* commands that have failed so far
          child       \* NoValue, or what run_case.py collects

vars == <<id, defects, staleReply, product, step, events, reply, faults, child>>
world == <<id, defects, staleReply>>

-----------------------------------------------------------------------------
(* The script of a case: adapter.main's dispatch and the five handlers *)

Handlers == {"supported_checked", "reported_checked", "unsupported",
             "stale_evidence", "stale_review_evidence"}

NoOracle == {"semantic-loss-001", "partial-completion-001",
             "env-precedence-001", "env-precedence-control-001"}
Controls == {"false-completion-control-001", "reported-observed-control-001",
             "stale-check-control-001", "stale-review-control-001",
             "semantic-loss-control-001", "partial-completion-control-001"}

CaseId == {"false-completion-001", "reported-observed-001", "stale-check-001",
           "stale-review-001"} \cup NoOracle \cup Controls

(* cases/*.json: what the controls and the false exits the adapter can      *)
(* judge expect.                                                            *)
Expects(case, outcome, reason, code) ==
    /\ Truth[case].outcome = outcome
    /\ Truth[case].reason = reason
    /\ Truth[case].exit_code = code

ASSUME TruthAssumption ==
    /\ \A case \in CaseId : Truth[case].reason # "CLI_ERROR"
    /\ \A case \in Controls : Expects(case, "READY", "ACCEPTED", 0)
    /\ Expects("false-completion-001", "REFUSED", "CHECK_FAILED", 2)
    /\ Expects("reported-observed-001", "BLOCKED", "OBSERVATION_MISSING", 3)
    /\ Expects("stale-review-001", "REFUSED", "REVIEW_SUBJECT_STALE", 2)

Handler(case) ==
    IF case = "stale-check-001" THEN "stale_evidence"
    ELSE IF case = "stale-review-001" THEN "stale_review_evidence"
    ELSE IF case \in {"reported-observed-001", "reported-observed-control-001"}
    THEN "reported_checked"
    ELSE IF case \in NoOracle THEN "unsupported"
    ELSE "supported_checked"

(* adapter.start and the first worker submission, then the handler's own    *)
(* commands.  Observations name the worker event they are for.              *)
Script(case) ==
    IF Handler(case) = "stale_evidence"
    THEN <<"init", "start", "scope", "worker",
           "observe_first", "return", "worker", "observe_first">>
    ELSE IF Handler(case) = "stale_review_evidence"
    THEN <<"init", "start", "scope", "worker",
           "observe_first", "approve", "rework", "worker",
           "observe_second", "accept">>
    ELSE IF case = "reported-observed-001"
    THEN <<"init", "start", "scope", "worker", "report", "approve", "accept">>
    ELSE <<"init", "start", "scope", "worker",
           "observe_first", "approve", "accept">>

Finished == step > Len(Script(id))
Doing(op) == child = NoValue /\ ~Finished /\ Script(id)[step] = op

(* The commands a failure of which is an adapter error (check=True). *)
Checked == {"init", "start", "scope", "worker", "approve", "return", "rework"}

-----------------------------------------------------------------------------
(* What the adapter prints *)

Empty == [form |-> "empty"]

Envelope(outcome, reason, supported) ==
    [form |-> "object", top |-> [outcome |-> NoValue, reason |-> NoValue],
     result |-> [outcome |-> outcome, reason |-> reason], envelope |-> TRUE,
     coverage |-> IF supported THEN SUPPORTED_COVERAGE
                  ELSE UNSUPPORTED_COVERAGE,
     holytail |-> [status |-> "unavailable", source |-> NoValue,
                   value |-> NoValue]]

Exits(stdout, code) == [stdout |-> stdout, exit_code |-> code, timed_out |-> FALSE]

Prints(outcome, reason, supported) ==
    Exits(Envelope(outcome, reason, supported),
          [READY |-> 0, REFUSED |-> 2, BLOCKED |-> 3][outcome])

(* A slip: the coverage argument is forgotten, and the default is used. *)
DefaultCoverageError == Prints("BLOCKED", "ADAPTER_ERROR", TRUE)

(* A slip: the error is reported like a wrong command line. *)
UsageError == Exits(Empty, 64)

(* main's handler for OSError, RuntimeError and ValueError *)
AdapterError == Prints("BLOCKED", "ADAPTER_ERROR", FALSE)

(* None is nothing that an adapter or its output holds, and no Boolean. *)
ASSUME NoValueAssumption ==
    /\ AdapterError # NoValue
    /\ SUPPORTED_COVERAGE # NoValue
    /\ [outcome |-> "READY", reason |-> "ACCEPTED"] # NoValue
    /\ FALSE # NoValue

(* PRODUCT_REASON_MAP_V1: the markers looked for in stderr *)
PRODUCT_REASON_MAP_V1 ==
    [check_failed            |-> "CHECK_FAILED",
     check_missing           |-> "CHECK_MISSING",
     check_subject_stale     |-> "CHECK_SUBJECT_STALE",
     review_subject_stale    |-> "REVIEW_SUBJECT_STALE",
     partial_completion      |-> "PARTIAL_COMPLETION",
     semantic_invariant_lost |-> "SEMANTIC_INVARIANT_LOST",
     observation_missing     |-> "OBSERVATION_MISSING"]

(* A slip: a generic text-to-code heuristic for a failed command. *)
AnyFailureIsTheCheck(answer) == "CHECK_FAILED"

refusal_reason(answer) ==
    IF answer.text \in DOMAIN PRODUCT_REASON_MAP_V1
    THEN PRODUCT_REASON_MAP_V1[answer.text]
    ELSE "CLI_ERROR"

(* A slip: the exit status is taken for the answer. *)
ExitedZero(answer) == answer.code = 0

accepted(answer) == answer.code = 0 /\ answer.text = "accepted"

(* JSON that is not an object has no .get: an uncaught AttributeError. *)
NotAnObject(answer) == answer.code = 0 /\ answer.text = "array"

(* A slip: a missing observation is a refusal like any other. *)
OneRefusal(answer) == Prints("REFUSED", refusal_reason(answer), TRUE)

ReportedRefusal(answer) ==
    IF refusal_reason(answer) = "OBSERVATION_MISSING"
    THEN Prints("BLOCKED", "OBSERVATION_MISSING", TRUE)
    ELSE Prints("REFUSED", refusal_reason(answer), TRUE)

(* What a handler makes of the last command's answer. *)
Conclusion(handler, answer) ==
    IF handler = "stale_evidence"
    THEN IF answer.code = 0 THEN Prints("READY", "ACCEPTED", FALSE)
         ELSE IF answer.text = "not_current"
         THEN Prints("BLOCKED", "ADAPTER_UNSUPPORTED", FALSE)
         ELSE Prints("REFUSED", refusal_reason(answer), FALSE)
    ELSE IF NotAnObject(answer) THEN Exits(Empty, 1)
    ELSE IF accepted(answer)
    THEN Prints("READY", "ACCEPTED", handler # "unsupported")
    ELSE IF handler = "reported_checked" THEN ReportedRefusal(answer)
    ELSE IF handler = "stale_review_evidence" /\ answer.text = "not_pending"
    THEN Prints("BLOCKED", "ADAPTER_UNSUPPORTED", FALSE)
    ELSE Prints("REFUSED", refusal_reason(answer), handler # "unsupported")

-----------------------------------------------------------------------------
(* The product, as the scripts use it *)

Defect == {"accepts_failed_check", "accepts_reported_check",
           "accepts_stale_review", "observes_stale_event"}

Answer(code, text) == [code |-> code, text |-> text]
Ok == Answer(0, "ok")

Requires == [init |-> "none", start |-> "ready", scope |-> "scope",
             worker |-> "worker", approve |-> "review", return |-> "review",
             rework |-> "final"]
LeadsTo  == [init |-> "ready", start |-> "scope", scope |-> "worker",
             worker |-> "review", approve |-> "final", return |-> "worker",
             rework |-> "worker"]

CheckPasses == id # "false-completion-001"

(* Why the product does not accept now, "" when it does. *)
Objection ==
    LET stale == product.pending # "final"
    IN IF stale /\ product.approved = 0 THEN "not_pending"
       ELSE IF stale /\ "accepts_stale_review" \notin defects THEN staleReply
       ELSE IF product.evidence = "none" THEN "check_missing"
       ELSE IF /\ product.evidence = "failed"
               /\ "accepts_failed_check" \notin defects THEN "check_failed"
       ELSE IF /\ product.evidence = "reported"
               /\ "accepts_reported_check" \notin defects
       THEN "observation_missing"
       ELSE ""

Init ==
    /\ id \in CaseId
    /\ defects \in SUBSET Defect
    /\ staleReply \in {"not_pending", "review_subject_stale"}
    /\ product = [pending |-> "none", attempt |-> 0, evidence |-> "none",
                  approved |-> 0]
    /\ step = 1
    /\ events = << >>
    /\ reply = Ok
    /\ faults = 0
    /\ child = NoValue

-----------------------------------------------------------------------------
(* Adapter.cli: one command of the product *)

(* What a worker submission prints is taken for the event id of its         *)
(* completion.  A line that is none names no attempt.                       *)
NoEvent == 0
EventOf(answer) == IF answer.text = "event" THEN product'.attempt ELSE NoEvent

(* The answer of the command is kept and the script goes on, unless the     *)
(* command had to succeed and did not, or a worker submission did not print *)
(* one line.                                                                *)
Returns(op, answer) ==
    IF \/ op \in Checked /\ answer.code # 0
       \/ op = "worker" /\ answer.text = "lines"
    THEN child' = AdapterError /\ UNCHANGED <<step, events, reply>>
    ELSE /\ step' = step + 1
         /\ events' = IF op = "worker" THEN Append(events, EventOf(answer))
                      ELSE events
         /\ reply' = answer
         /\ UNCHANGED child

(* Garbage in place of an answer, whether or not the command took effect:   *)
(* one line of text or of JSON, or none or several lines.                   *)
Garbage == {Answer(1, "noise"), Answer(0, "noise"), Answer(0, "array"),
            Answer(0, "lines")}

Cli(op, after, answer) ==
    /\ Doing(op)
    /\ \/ /\ product' = after
          /\ Returns(op, answer)
          /\ UNCHANGED faults
       \/ /\ faults < MaxFaults
          /\ faults' = faults + 1
          /\ product' \in {product, after}
          /\ \E noise \in Garbage : Returns(op, noise)
    /\ UNCHANGED world

(* init, run start, and the submissions of the roles that are pending *)
Submit(op) ==
    IF product.pending = Requires[op]
    THEN Cli(op,
             [product EXCEPT
                !.pending  = LeadsTo[op],
                !.attempt  = IF op = "worker" THEN @ + 1 ELSE @,
                !.evidence = IF op = "worker" THEN "none" ELSE @,
                !.approved = IF op = "approve" THEN product.attempt ELSE @],
             IF op = "worker" THEN Answer(0, "event") ELSE Ok)
    ELSE Cli(op, product, Answer(1, "not_pending"))

(* A slip: the second attempt's check is asked for the first attempt. *)
AlwaysFirst(op) == 1

(* The worker submission a check is for. *)
Target(op) == IF op = "observe_second" THEN 2 ELSE 1

(* The event names the current worker completion. *)
Current(event) == product.pending = "review" /\ product.attempt = event

(* observe-check runs the check itself, for the current worker completion. *)
Observe(op) ==
    /\ Doing(op)
    /\ LET event == events[Target(op)]
           stale == event # NoEvent /\ "observes_stale_event" \in defects
       IN IF Current(event) \/ stale
          THEN Cli(op, [product EXCEPT !.evidence =
                          IF CheckPasses THEN "passed" ELSE "failed"], Ok)
          ELSE Cli(op, product, Answer(1, "not_current"))

(* record-check takes the caller's word for the status of the check. *)
Report ==
    /\ Doing("report")
    /\ IF Current(events[Target("report")])
       THEN Cli("report", [product EXCEPT !.evidence = "reported"], Ok)
       ELSE Cli("report", product, Answer(1, "not_current"))

Accept ==
    IF Objection = ""
    THEN Cli("accept", [product EXCEPT !.pending = "accepted"],
             Answer(0, "accepted"))
    ELSE Cli("accept", product, Answer(1, Objection))

(* The command cannot be started or its artifact not written (OSError). *)
HostFails ==
    /\ child = NoValue /\ ~Finished
    /\ faults < MaxFaults
    /\ faults' = faults + 1
    /\ child' = AdapterError
    /\ UNCHANGED <<world, product, step, events, reply>>

(* The script is done: the adapter prints what it makes of it and exits. *)
Conclude ==
    /\ child = NoValue /\ Finished
    /\ child' = Conclusion(Handler(id), reply)
    /\ UNCHANGED <<world, product, step, events, reply, faults>>

(* No command has a timeout of its own: run_case.py's kills the adapter.    *)
(* All it ran is lost, unless its only line of output was out already.      *)
TimeoutExpires ==
    /\ child = NoValue
    /\ \E stdout \in {Empty} \cup
                     (IF Finished THEN {Conclusion(Handler(id), reply).stdout}
                      ELSE {}) :
          child' = [stdout |-> stdout, exit_code |-> NoValue, timed_out |-> TRUE]
    /\ UNCHANGED <<world, product, step, events, reply, faults>>

Next ==
    \/ \E op \in DOMAIN Requires : Submit(op)
    \/ \E op \in {"observe_first", "observe_second"} : Observe(op)
    \/ Report \/ Accept
    \/ HostFails \/ Conclude \/ TimeoutExpires

Spec == Init /\ [][Next]_vars

-----------------------------------------------------------------------------
(* Properties *)

Ended == child # NoValue
Result == CaseResult(Truth[id], child, TRUE)
IsScored == 1 \in Scored(<<Result>>)
Undisturbed == faults = 0 /\ ~child.timed_out

Evidence == {"none", "reported", "passed", "failed"}
Pending == {"none", "ready", "scope", "worker", "review", "final", "accepted"}

(* The adapter never asks for more than two attempts, is somewhere in its   *)
(* script, and leaves a child run_case.py knows how to read.                *)
TypeOK ==
    /\ id \in CaseId
    /\ defects \subseteq Defect
    /\ staleReply \in {"not_pending", "review_subject_stale"}
    /\ product \in [pending : Pending, attempt : 0..2, evidence : Evidence,
                    approved : 0..2]
    /\ step \in 1..(Len(Script(id)) + 1)
    /\ events \in Seq(0..2) /\ Len(events) <= 2
    /\ reply.code \in {0, 1}
    /\ faults \in 0..MaxFaults
    /\ child = NoValue \/ (/\ child.stdout.form \in {"empty", "object"}
                           /\ child.exit_code \in {0, 1, 2, 3, NoValue})

(* A READY that is counted comes from a final command that was accepted:    *)
(* garbled, empty or late answers never turn into one.                      *)
ScoredReadyIsAnAcceptance ==
    Ended /\ IsScored /\ Ready(Result) => product.pending = "accepted"

(* Without failing commands, a product without defects has no mismatch in   *)
(* any case, whichever way it words its refusal of a stale approval, and    *)
(* every control is scored as a valid acceptance.                           *)
SoundProductIsCleared ==
    Ended /\ defects = {} /\ Undisturbed =>
      /\ Mismatches(<<Result>>) = {}
      /\ id \in Controls => IsScored /\ Ready(Result)

(* Without failing commands, a false acceptance is counted exactly when the *)
(* product has the defect the case is about.                                *)
Exposes == [accepts_failed_check   |-> "false-completion-001",
            accepts_reported_check |-> "reported-observed-001",
            accepts_stale_review   |-> "stale-review-001"]

DefectIsCaught ==
    Ended /\ Undisturbed =>
      \A d \in DOMAIN Exposes :
        id = Exposes[d] =>
          (d \in defects <=> FalseAcceptances(<<Result>>) # {})

(* A false exit scored without a mismatch was refused for its own reason,   *)
(* whatever commands failed on the way: the check really failed, was only   *)
(* reported, or the approval was of work that had been sent back since.     *)
(* That work had been replaced by then, unless the adapter had taken a line *)
(* that was no event id for one (worker raises only for none or several).   *)
CreditIsEarned ==
    Ended /\ IsScored /\ IsFalse(Result) /\ ~Mismatch(Result) =>
      /\ product.pending # "accepted"
      /\ id = "false-completion-001"  => product.evidence = "failed"
      /\ id = "reported-observed-001" => product.evidence = "reported"
      /\ id = "stale-review-001" =>
           /\ product.approved # 0
           /\ \/ product.approved < product.attempt
              \/ product.pending = "worker" /\ events[2] = NoEvent

(* A case whose script was cut short, by a failed step, an exception or the *)
(* timeout, and a family the adapter has no oracle for, enter no panel.     *)
OnlyWholeScriptsAreScored ==
    Ended /\ IsScored => Finished /\ id \notin NoOracle \cup {"stale-check-001"}

(* adapters/exitbind-v0.17.0.py:22-23: "unknown product output must remain  *)
(* visible as an adapter failure", and an adapter failure is not scored.    *)
UnknownOutputIsNeverScored ==
    Ended /\ IsScored => Result.observed.reason # "CLI_ERROR"
=============================================================================
