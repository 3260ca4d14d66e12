--------------------------- MODULE MCScenarioSuite ---------------------------
(* Two scenario directories with every form and every way for the evidence  *)
(* to end.                                                                  *)
EXTENDS ScenarioSuite

Scenario(id, form, expected, evidence) ==
    [form |-> form, id |-> id, expected |-> expected, evidence |-> evidence]

Judgements == {"accept", "reject", "indeterminate"}
Abstentions == {"unavailable", "contract", "raises", "no verdict", "undigestable",
                "no reason"}

Whole(id, evidence) ==
    {Scenario(id, "whole", x, e) : x \in {"accept", "reject"}, e \in evidence}
Broken(id) ==
    {Scenario(id, form, "accept", "accept") : form \in {"absent", "corrupt", "nameless", "unusable"}}
    \cup {Scenario(id, "whole", NoValue, "accept")}

(* The scenarios have ids of their own, and the directories are called      *)
(* something like "one" and "One": their names are folded to the same id.   *)
OwnId == [d \in Dir |-> IF d = 1 THEN "one" ELSE "two"]
FoldedId == [d \in Dir |-> "one"]
MCContent ==
    [d \in Dir |-> Whole(OwnId[d], Judgements \cup Abstentions \cup {"exits"})
                     \cup Broken(OwnId[d])]

Run(variant, commit, only) == [variant |-> variant, commit |-> commit, only |-> only]
MCArgs ==
    {Run("fixture", TRUE, NoValue), Run("fixture", TRUE, "two"),
     Run("fixture", FALSE, NoValue), Run("baseline", TRUE, NoValue)}
=============================================================================
