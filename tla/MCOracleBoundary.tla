--------------------------- MODULE MCOracleBoundary ---------------------------
(* The values a mutation may give each field: another well-formed value,    *)
(* None, a value of the wrong type and, where Python's truth value is read, *)
(* falsy and truthy values that are not booleans.  Two contract keys stand  *)
(* for the nine.                                                            *)
EXTENDS OracleBoundary

MCKeys == <<"agent", "goal">>

None == {NoValue, Malformed}
Flag == None \cup {"True", "False", "0", "1"}
Digest == None \cup {"current", "earlier"}

Record(kind, status, bound) == [kind |-> kind, status |-> status, bound_digest |-> bound]
Rerun(kind, executed, bound) == [kind |-> kind, executed |-> executed, bound_digest |-> bound]

ReusedItems ==
    {NoValue, Record("check", "passed", "current"), Record("check", "failed", "current"),
     Record("check", "passed", "earlier"), Record("approval", "passed", "earlier"),
     Record("approval", NoValue, "current"), Record(Malformed, "passed", "current"),
     [kind |-> "check", status |-> "passed"], Malformed}
RerunItems ==
    {NoValue, Rerun("check", "True", "current"), Rerun("check", "True", "earlier"),
     Rerun("approval", "1", "current"), Rerun("approval", "True", "current"),
     Rerun(Malformed, "True", "current"),
     [kind |-> "check", bound_digest |-> "current"], Malformed}
FreshItems ==
    {[kind |-> "check", bound_digest |-> "current"],
     [kind |-> "check", bound_digest |-> "earlier"], [kind |-> "check"], NoValue, Malformed}

Lists(items) == None \cup {<<>>} \cup {<<i>> : i \in items} \cup {<<i, j>> : i, j \in items}

Block(agent, goal, runtime) ==
    [agent |-> agent, goal |-> goal, runtime |-> Runtime(runtime)]
Blocks ==
    None \cup
    {Block("v1", "v2", "alternate"), Block("v2", "v1", "alternate"),
     Block("v1", "v1", "primary"), Block("v1", "v1", "third"),
     [agent |-> "v1", goal |-> "v1"],
     [agent |-> "v1", goal |-> "v1", runtime |-> Malformed],
     [agent |-> "v1", runtime |-> Runtime("alternate")],
     [agent |-> "v2", runtime |-> Runtime("alternate")],
     Block("v1", "v1", "alternate") @@ [uncompared |-> "v1"]}
Runtimes == None \cup {Runtime("primary"), Runtime("alternate"), Runtime("third")}

MCValues == [
    covered_digest_binding |->
        [covered_root |-> None \cup {""},
         covered_names |-> None \cup {<<>>, <<Malformed>>, <<NoValue>>, <<"source.txt", "other.txt">>},
         recorded_approval_digest |-> Digest, undeclared |-> {"text"}],
    frozen_command_identity |->
        [frozen_command |-> None \cup {"other"},
         frozen_command_digest |-> None \cup {sha256("other")},
         executed_command |-> None \cup {"other"},
         executed_exit_code |-> Flag, undeclared |-> {"text"}],
    reviewer_substitution_contract |->
        [no_fallback |-> None, with_fallback |-> None, negative_verdict |-> None,
         undeclared |-> {"text"}],
    functional_pass_preservation_fail |->
        [functional_exit_code |-> Flag, preservation_held |-> Flag,
         product_reported_state |-> {"READY"}, undeclared |-> {"text"}],
    resume_valid_evidence_only |->
        [before_digest |-> Digest, after_digest |-> Digest,
         reused_evidence |-> Lists(ReusedItems),
         freshly_reacquired |-> Lists(RerunItems), undeclared |-> {"text"}],
    accepted_result_currency |->
        [accepted_digest |-> Digest, current_digest |-> Digest,
         still_claims_current |-> Flag, exit_claimed |-> Flag,
         fresh_evidence |-> Lists(FreshItems), undeclared |-> {"text"}]]

MCNestedValues == [
    no_fallback |->
        [executed |-> Flag, blocked |-> Flag, reviewer_verdict_recorded |-> Flag,
         undeclared |-> {"text"}],
    with_fallback |->
        [primary_contract |-> Blocks, substitution |-> Blocks,
         primary_runtime |-> Runtimes, alternate_runtime |-> Runtimes,
         fallback_executed |-> Flag, reviewer_verdict_recorded |-> Flag,
         executed_runtime |-> Runtimes,
         executed_contract_sha256 |->
            None \cup {[agent |-> "v1", goal |-> "v2"], [agent |-> "v2", goal |-> "v1"]},
         undeclared |-> {"text"}],
    negative_verdict |->
        [verdict_a |-> None \cup {"approve", "blocked"}, unavailable_accepted |-> Flag,
         undeclared |-> {"text"}]]
================================================================================
