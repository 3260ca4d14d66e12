------------------------------- MODULE MCSuiteRun -------------------------------
(* Small instances of SuiteRun.  Two cases are enough for "an earlier case" *)
(* and "the last case"; two runs for a restart or an overlap; two versions  *)
(* for a file replaced during a run.                                        *)
EXTENDS SuiteRunInvariants

MCGroundTruth ==
    [c \in 1..NCases |->
       IF c = 1
       THEN [outcome |-> "REFUSED", reason |-> "LOST", exit_code |-> 2,
             holytail |-> "NOT_APPLICABLE"]
       ELSE [outcome |-> "READY", reason |-> "ACCEPTED", exit_code |-> 0,
             holytail |-> "NOT_APPLICABLE"]]

Accepted ==
    [form |-> "object", top |-> [outcome |-> NoValue, reason |-> NoValue],
     result |-> [outcome |-> "READY", reason |-> "ACCEPTED"],
     envelope |-> TRUE, coverage |-> SUPPORTED_COVERAGE, holytail |-> NoValue]

(* A child that exits, one that cannot be started, and one that prints a    *)
(* document the run cannot interpret and then hangs until it is killed:     *)
(* each way a run has of going on, or of ending, after a child.             *)
Exited    == [stdout |-> Accepted, exit_code |-> 0, timed_out |-> FALSE]
Unstarted == [stdout |-> [form |-> "empty"], exit_code |-> NoValue,
              timed_out |-> FALSE]
Hangs     == [stdout |-> [form |-> "raises"], exit_code |-> NoValue,
              timed_out |-> TRUE]

MCChild == {Exited, Unstarted, Hangs}
=============================================================================
