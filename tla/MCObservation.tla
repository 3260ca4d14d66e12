------------------------------ MODULE MCObservation ------------------------------
(* Two observations over one scenario directory: one that leaves something  *)
(* in the space and one that finds it there.                                *)
EXTENDS Observation

OneId == [d \in 1..NDirs |-> "one"]

Scenario(form, evidence) ==
    [form |-> form, id |-> "one", expected |-> "accept", evidence |-> evidence]

(* A scenario that passes, ends the run, or has no definition to load. *)
MCContent ==
    [d \in 1..NDirs |-> {Scenario("whole", "accept"), Scenario("whole", "exits"),
                         Scenario("corrupt", "accept")}]

MCArgs == {[variant |-> "fixture", commit |-> TRUE, only |-> NoValue]}
================================================================================
