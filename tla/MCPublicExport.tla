---------------------------- MODULE MCPublicExport -----------------------------
(* Small instance of PublicExport: two cases.  Either one suite whose       *)
(* children leave every kind of output, or two suites with a smaller choice *)
(* that write to the directory at the same time.                            *)
EXTENDS PublicExport

Fields(o, r) == [outcome |-> o, reason |-> r]
Accept  == Fields("READY", "ACCEPTED")
Refusal == Fields("REFUSED", "LOST")

Valid1 == [outcome |-> "READY", reason |-> "ACCEPTED", exit_code |-> 0,
           holytail |-> "PRESERVED"]
False1 == [outcome |-> "REFUSED", reason |-> "LOST", exit_code |-> 2,
           holytail |-> "NOT_APPLICABLE"]

Measured1(value) ==
    [status |-> "measured", source |-> "product_observation", value |-> value]
Label == [status |-> "measured", source |-> "adapter_label", value |-> "LOSS"]
Unavailable == [status |-> "unavailable", source |-> NoValue, value |-> NoValue]
Extended == [support |-> "supported", status |-> "exercised", extra |-> TRUE]

Object(top, res, coverage, holytail, flags) ==
    [form |-> "object", top |-> top, result |-> res, envelope |-> TRUE,
     coverage |-> coverage, holytail |-> holytail, flags |-> flags]
Answer(res, coverage, holytail, flags) ==
    Object(Fields(NoValue, NoValue), res, coverage, holytail, flags)
Text(form, flags) == [form |-> form, flags |-> flags]

(* Candidate outputs: the verdicts, the coverages, the measurements and one *)
(* output for each defect.                                                  *)
CandidateOutputs ==
    {Answer(r, SUPPORTED_COVERAGE, h, {}) :
        r \in {Accept, Refusal},
        h \in {NoValue, Measured1("LOSS"), Measured1("PRESERVED"), Label, Unavailable}}
    \cup {Answer(Accept, c, NoValue, {}) :
            c \in {NoValue, UNSUPPORTED_COVERAGE, Extended}}
    \cup {Answer(r, SUPPORTED_COVERAGE, NoValue, {}) :
            r \in {NoValue, Fields("UNKNOWN", "LOST"), Fields(NoValue, NoValue)}}
    \cup {Answer(Accept, SUPPORTED_COVERAGE, NoValue, {flag}) :
            flag \in {"not_utf8", "bad_nested", "fixture", "no_version",
                      "odd_value", "odd_measurements"}}
    \cup {Text("empty", {}), Text("malformed", {}), Text("malformed", {"not_utf8"}),
          Text("scalar", {})}

FixtureOutputs ==
    {Object(r, NoValue, NoValue, NoValue, {"fixture"}) : r \in {Accept, Refusal}}
    \cup {Object(Accept, NoValue, NoValue, NoValue, {}),
          Object(Accept, NoValue, NoValue, NoValue, {"fixture", "unknown_keys"}),
          Object(Accept, NoValue, UNSUPPORTED_COVERAGE, NoValue, {"fixture"}),
          Object(Accept, Accept, NoValue, NoValue, {"fixture"}),
          Object(Accept, NoValue, NoValue, Label, {"fixture"}),
          Text("empty", {}), Text("malformed", {})}

Child(stdout, exit) == [stdout |-> stdout, exit_code |-> exit, timed_out |-> exit = NoValue]

Suite(id, candidate, binary, truth, child) ==
    [present |-> TRUE, run_id |-> id, candidate |-> candidate, binary |-> binary,
     truth |-> truth, child |-> child]
Absent == [present |-> FALSE, run_id |-> "none", candidate |-> FALSE]

Truths == <<Valid1, False1>>

Alones ==
    {Suite("a", TRUE, b, Truths, <<Child(s, e), Child(t, 2)>>) :
        b \in {"product", "fixture"}, s \in CandidateOutputs, e \in {0, NoValue},
        t \in {Answer(Refusal, SUPPORTED_COVERAGE, Unavailable, {}),
               Answer(Fields("BLOCKED", "OTHER"), UNSUPPORTED_COVERAGE, Unavailable, {}),
               Text("malformed", {})}}
    \cup {Suite("a", FALSE, "fixture", Truths, <<Child(s, e), Child(t, 2)>>) :
            s \in FixtureOutputs, e \in {0, NoValue},
            t \in {Object(Refusal, NoValue, NoValue, NoValue, {"fixture"}),
                   Text("malformed", {})}}

(* One of two suites that run at once. *)
Together(id) ==
    {Suite(id, TRUE, "product", Truths, <<Child(s, 0), Child(t, 2)>>) :
        s \in {Answer(Accept, SUPPORTED_COVERAGE, Measured1("PRESERVED"), {}),
               Text("malformed", {})},
        t \in {Answer(Refusal, SUPPORTED_COVERAGE, NoValue, {}),
               Answer(Fields("REFUSED", "OTHER"), SUPPORTED_COVERAGE, NoValue, {}),
               Answer(Accept, SUPPORTED_COVERAGE, NoValue, {})}}

(* A fixture run next to a candidate one. *)
Fixtures(id) ==
    {Suite(id, FALSE, "fixture", Truths,
           <<Child(s, 0), Child(Object(Refusal, NoValue, NoValue, NoValue, {"fixture"}), 2)>>) :
        s \in {Object(Accept, NoValue, NoValue, NoValue, {"fixture"}),
               Answer(Accept, SUPPORTED_COVERAGE, NoValue, {})}}

MCPlans ==
    {[s \in Suites |-> IF s = "first" THEN a ELSE Absent] : a \in Alones}
    \cup {[s \in Suites |-> IF s = "first" THEN a ELSE b] :
            a \in Together("a"),
            b \in Together("a") \cup Together("b") \cup Fixtures("b")}
MCSuites == {"first", "second"}
=============================================================================
