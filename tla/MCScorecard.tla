------------------------------ MODULE MCScorecard ------------------------------
(* Small instance of Scorecard: the four kinds of ground truth the corpus   *)
(* holds, and slices through the outputs a child can leave.                 *)
EXTENDS Scorecard

MCTruth ==
    {[outcome |-> "READY",   reason |-> "ACCEPTED", exit_code |-> 0,
      holytail |-> "NOT_APPLICABLE"],
     [outcome |-> "READY",   reason |-> "ACCEPTED", exit_code |-> 0,
      holytail |-> "PRESERVED"],
     [outcome |-> "REFUSED", reason |-> "LOST",     exit_code |-> 2,
      holytail |-> "LOSS"],
     [outcome |-> "BLOCKED", reason |-> "MISSING",  exit_code |-> 3,
      holytail |-> "NOT_APPLICABLE"]}

Fields(o, r) == [outcome |-> o, reason |-> r]

Partial  == [support |-> "supported", status |-> NoValue, extra |-> FALSE]
Extended == [support |-> "supported", status |-> "exercised", extra |-> TRUE]

Holytail(source, value) ==
    [status |-> "measured", source |-> source, value |-> value]

Object(result, envelope, coverage, holytail) ==
    [form |-> "object", top |-> Fields("READY", "ACCEPTED"), result |-> result,
     envelope |-> envelope, coverage |-> coverage, holytail |-> holytail]

(* Every coverage and envelope, around one accepted result. *)
CoverageSlice ==
    {Object(r, e, c, NoValue) :
        r \in {NoValue, Fields("READY", "ACCEPTED")}, e \in BOOLEAN,
        c \in {NoValue, SUPPORTED_COVERAGE, UNSUPPORTED_COVERAGE,
               Partial, Extended}}

(* Every verdict and measurement, in a whole supported envelope. *)
VerdictSlice ==
    {Object(r, TRUE, SUPPORTED_COVERAGE, h) :
        r \in {Fields("READY", "ACCEPTED"), Fields("REFUSED", "LOST"),
               Fields("BLOCKED", "MISSING"), Fields(NoValue, "LOST")},
        h \in {NoValue, Holytail("product_observation", "LOSS"),
               Holytail("product_observation", "PRESERVED"),
               Holytail("product_observation", "UNKNOWN"),
               Holytail("adapter_label", "LOSS")}}

Unparsed == {[form |-> "empty"], [form |-> "malformed"], [form |-> "scalar"]}

MCChild ==
    {[stdout |-> s, exit_code |-> 0, timed_out |-> FALSE] :
        s \in CoverageSlice \cup VerdictSlice \cup Unparsed}
    \cup {[stdout |-> s, exit_code |-> 2, timed_out |-> FALSE] : s \in VerdictSlice}
    \cup {[stdout |-> s, exit_code |-> NoValue, timed_out |-> TRUE] :
            s \in Unparsed \cup {Object(Fields("READY", "ACCEPTED"), TRUE,
                                        SUPPORTED_COVERAGE, NoValue)}}
=============================================================================
