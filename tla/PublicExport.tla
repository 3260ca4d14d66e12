------------------------------ MODULE PublicExport -----------------------------
(****************************************************************************)
(* tools/export_public.py: the files of a finished run are read one after   *)
(* the other, bound to each other by digest and recomputation, and written  *)
(* as one public artifact, or refused.  Nothing locks the run directory, so *)
(* a second suite that is still running in it (its check that the directory *)
(* was empty came before the first one wrote, see SuiteRun) may rewrite any *)
(* file between two reads.                                                  *)
(*                                                                          *)
(* A digest is modelled by the content it is a digest of.  A case has one   *)
(* raw stream here: stderr passes through the same function as stdout and a *)
(* defect of it is a flag of the child.  To the records of CaseScoring the  *)
(* stdout of a child adds flags, a set of                                   *)
(*   "not_utf8", "bad_nested" (nested product bytes that are not what they  *)
(*   claim), "fixture" (the key fixture is present, and true), "no_version" *)
(*   (an empty adapter_version), "unknown_keys", "odd_value" (a value of a  *)
(*   wrong type, recorded as None), "odd_measurements" (ill-shaped).        *)
(****************************************************************************)
EXTENDS CaseScoring

CONSTANTS Suites,       \* the suites that may write to the run directory
          Cases,        \* the number of cases of the corpus
          Plans,        \* what the suites may be, functions on Suites
          Missing, Torn \* no file yet; a file opened for writing

ASSUME CasesAssumption == Cases \in Nat \ {0}

(* A file without an output is not taken for one with an output. *)
ASSUME FilesAssumption == Missing \notin Suites /\ Torn \notin Suites
                          /\ Missing # Torn

(* A plan gives each suite [present, run_id, candidate, binary, truth,      *)
(* child]: whether it is started at all, its arguments, whether its binary  *)
(* is called like a fixture, and what each case expects and leaves.         *)

VARIABLES suites,    \* the plan that is played
          step,      \* per suite: how many openings and writes it has done
          files,     \* per file: the suite it holds the output of
          pc,        \* the exporter's position
          seen,      \* per read: the content the exporter has read
          published  \* the public artifact, NoValue before it is written

vars == <<suites, step, files, pc, seen, published>>

-----------------------------------------------------------------------------
(* run_suite.py: the files of a run, in the order they are written *)

Case        == 1 .. Cases
environment == <<"environment", 0>>
summary     == <<"summary", 0>>
raw(c)      == <<"raw", c>>
result(c)   == <<"result", c>>
File == {environment, summary} \cup {raw(c) : c \in Case} \cup {result(c) : c \in Case}

Writes == << environment >>
          \o [k \in 1 .. 2 * Cases |->
                 IF k % 2 = 1 THEN raw((k + 1) \div 2) ELSE result(k \div 2)]
          \o << summary >>

Results(suite) ==
    [c \in Case |-> CaseResult(suite.truth[c], suite.child[c], suite.candidate)]

(* What a suite writes to a file.  The parse error is recorded for output   *)
(* that is not blank and is no JSON in UTF-8.                               *)
Content(suite, f) ==
    IF f = environment THEN [adapter |-> suite.candidate, binary |-> suite.binary]
    ELSE IF f = summary
    THEN [run_id |-> suite.run_id,
          scores |-> Summary(Results(suite), suite.candidate)]
    ELSE IF f[1] = "raw" THEN suite.child[f[2]].stdout
    ELSE [run_id |-> suite.run_id,
          json_parse_error |-> suite.child[f[2]].stdout.form = "malformed",
          case |-> Results(suite)[f[2]]]

Holds(f) == files[f] \in Suites
Read(f)  == Content(suites[files[f]], f)

-----------------------------------------------------------------------------
(* export_public.py: what is asked of one stream and of the whole artifact *)

(* The stream of a case, at the moment it is read. *)
PublicStream(stdout, stored_hash, candidate) ==
    /\ stdout = stored_hash
    /\ "not_utf8" \notin stdout.flags
    /\ "bad_nested" \notin stdout.flags
    /\ candidate => "fixture" \notin stdout.flags

_coverage(coverage) == coverage \in {SUPPORTED_COVERAGE, UNSUPPORTED_COVERAGE}

_observed(observed) == observed.outcome \in {"READY", "REFUSED", "BLOCKED", NoValue}

(* A slip in the derivation: an unmeasured verdict counts as a mismatch. *)
UnmeasuredIsWrong(case) ==
    [outcome_match   |-> case.observed.outcome = case.expected.outcome,
     reason_match    |-> case.observed.reason = case.expected.reason,
     exit_code_match |-> case.observed.exit_code = case.expected.exit_code,
     holytail_match  |->
        IF case.expected.holytail = "NOT_APPLICABLE" THEN NoValue
        ELSE case.measurement = case.expected.holytail]

_derived_classification(case) ==
    [outcome_match   |-> case.observed.outcome = case.expected.outcome,
     reason_match    |-> case.observed.reason = case.expected.reason,
     exit_code_match |-> case.observed.exit_code = case.expected.exit_code,
     holytail_match  |->
        IF case.expected.holytail = "NOT_APPLICABLE" THEN NoValue
        ELSE IF case.measurement # NoValue
        THEN case.measurement = case.expected.holytail
        ELSE NoValue]

(* A measurement that is printed must be a published one, and the recorded. *)
_measurements(stdout, case) ==
    /\ "odd_measurements" \notin stdout.flags
    /\ stdout.holytail # NoValue =>
          \/ stdout.holytail.status = "unavailable"
          \/ /\ stdout.holytail.status = "measured"
             /\ stdout.holytail.source = "product_observation"
             /\ stdout.holytail.value = case.measurement

Verdict(fields, observed) ==
    /\ fields.outcome = observed.outcome
    /\ fields.reason = observed.reason

CandidateShape(stdout, case) ==
    /\ CandidateEnvelope(stdout)
    /\ stdout.flags \cap {"fixture", "no_version", "odd_value"} = {}
    /\ Verdict(stdout.result, case.observed)
    /\ _measurements(stdout, case)
    /\ stdout.coverage = case.coverage

FixtureShape(stdout, case) ==
    /\ stdout.flags = {"fixture"}
    /\ stdout.result = NoValue
    /\ stdout.coverage = NoValue
    /\ stdout.holytail = NoValue
    /\ Verdict(stdout.top, case.observed)

_validate_public_protocol_shape(stdout, record, candidate) ==
    IF stdout.form \in {"empty", "malformed"}
    THEN /\ record.json_parse_error
         /\ Verdict([outcome |-> NoValue, reason |-> NoValue], record.case.observed)
    ELSE /\ ~record.json_parse_error
         /\ IsObject(stdout)
         /\ IF candidate THEN CandidateShape(stdout, record.case)
            ELSE FixtureShape(stdout, record.case)

_summary_coverage(scores, cases) ==
    LET supported   == scores.supported_exercised_case_ids
        unsupported == scores.unsupported_unexercised_case_ids
    IN /\ supported \cup unsupported = Case
       /\ supported \cap unsupported = {}
       /\ \A c \in Case :
             c \in IF cases[c].coverage.support = "supported"
                   THEN supported ELSE unsupported

ReadCases(public) == [c \in Case |-> public.records[c].case]

(* A slip in the identity binding: only the first case is compared. *)
FirstIdentityIsBound(public) == public.records[1].run_id = public.summary.run_id

IdentityIsBound(public) ==
    \A c \in Case : public.records[c].run_id = public.summary.run_id

(* A slip in the file binding: the stream was compared when it was read. *)
NoFileIsBound(public) == DOMAIN public.files = Case

FilesAreBound(public) ==
    \A c \in Case : public.files[c] = public.records[c].case.raw.stdout

(* A slip in the recomputation: only the mismatches are compared. *)
MismatchesAreDerived(public) ==
    public.summary.scores.aggregated.mismatch_case_ids
        = Mismatches(ReadCases(public))

ScoresAreDerived(public) ==
    public.summary.scores.aggregated = aggregate_results(ReadCases(public))

(* validate_public_export, over what was read. *)
Valid(public) ==
    LET cases  == ReadCases(public)
        scores == public.summary.scores
    IN /\ public.environment.adapter = scores.candidate_dependent
       /\ scores.case_count = Cases
       /\ IdentityIsBound(public)
       /\ \A c \in Case :
             /\ _observed(cases[c].observed)
             /\ cases[c].classification = _derived_classification(cases[c])
             /\ _coverage(cases[c].coverage)
       /\ FilesAreBound(public)
       /\ _summary_coverage(scores, cases)
       /\ ScoresAreDerived(public)
       /\ \A c \in Case :
             _validate_public_protocol_shape(public.streams[c], public.records[c],
                                             scores.candidate_dependent)

-----------------------------------------------------------------------------
NothingRead == [records |-> << >>, summary |-> NoValue, environment |-> NoValue,
                streams |-> << >>, files |-> << >>]

Init == /\ suites \in Plans
        /\ step = [s \in Suites |-> 0]
        /\ files = [f \in File |-> Missing]
        /\ pc = "idle"
        /\ seen = NothingRead
        /\ published = NoValue

(* A suite opens its next file, which empties it, and writes it. *)
OpenOrWrite(s) ==
    /\ suites[s].present
    /\ step[s] < 2 * Len(Writes)
    /\ step' = [step EXCEPT ![s] = @ + 1]
    /\ files' = [files EXCEPT ![Writes[1 + step[s] \div 2]] =
                    IF step[s] % 2 = 0 THEN Torn ELSE s]
    /\ UNCHANGED <<suites, pc, seen, published>>

(* The exporter stops with an error before it has written anything. *)
Refuse == /\ pc' = "refused"
          /\ UNCHANGED <<seen, published>>

Environment == UNCHANGED <<suites, step, files>>

Begin ==
    /\ pc = "idle"
    /\ IF files[environment] # Missing /\ files[summary] # Missing
       THEN pc' = "results" /\ UNCHANGED <<seen, published>>
       ELSE Refuse
    /\ Environment

ReadResult ==
    LET c == Len(seen.records) + 1
    IN /\ pc = "results"
       /\ IF Holds(result(c))
          THEN /\ seen' = [seen EXCEPT !.records = Append(@, Read(result(c)))]
               /\ pc' = IF c = Cases THEN "summary" ELSE pc
               /\ UNCHANGED published
          ELSE Refuse
       /\ Environment

ReadSummary ==
    /\ pc = "summary"
    /\ IF Holds(summary)
       THEN /\ seen' = [seen EXCEPT !.summary = Read(summary)]
            /\ pc' = "environment"
            /\ UNCHANGED published
       ELSE Refuse
    /\ Environment

candidate_dependent == seen.summary.scores.candidate_dependent

(* A candidate whose binary is called like a fixture is refused at once. *)
ReadEnvironment ==
    /\ pc = "environment"
    /\ IF /\ Holds(environment)
          /\ ~(candidate_dependent /\ Read(environment).binary = "fixture")
       THEN /\ seen' = [seen EXCEPT !.environment = Read(environment)]
            /\ pc' = "streams"
            /\ UNCHANGED published
       ELSE Refuse
    /\ Environment

(* The bytes that are compared with the record are the bytes that are       *)
(* published: the stream is read once.                                      *)
ReadStream ==
    LET c == Len(seen.streams) + 1
    IN /\ pc = "streams"
       /\ IF /\ Holds(raw(c))
             /\ PublicStream(Read(raw(c)), seen.records[c].case.raw.stdout,
                             candidate_dependent)
          THEN /\ seen' = [seen EXCEPT !.streams = Append(@, Read(raw(c)))]
               /\ pc' = IF c = Cases THEN "source_files" ELSE pc
               /\ UNCHANGED published
          ELSE Refuse
       /\ Environment

(* The digest of every raw file, read again.  A file that is being written  *)
(* has a digest too.                                                        *)
DigestFile ==
    LET c == Len(seen.files) + 1
    IN /\ pc = "source_files"
       /\ seen' = [seen EXCEPT !.files =
                      Append(@, IF Holds(raw(c)) THEN Read(raw(c))
                                ELSE [form |-> "torn", flags |-> {}])]
       /\ pc' = IF c = Cases THEN "validate" ELSE pc
       /\ UNCHANGED published
       /\ Environment

(* A slip in the order: the artifact is written before it is validated. *)
WriteThenValidate ==
    /\ pc = "validate"
    /\ published' = seen
    /\ pc' = IF Valid(seen) THEN "written" ELSE "refused"
    /\ UNCHANGED seen
    /\ Environment

Validate ==
    /\ pc = "validate"
    /\ IF Valid(seen)
       THEN published' = seen /\ pc' = "written" /\ UNCHANGED seen
       ELSE Refuse
    /\ Environment

Export == \/ Begin \/ ReadResult \/ ReadSummary \/ ReadEnvironment
          \/ ReadStream \/ DigestFile \/ Validate

Next == Export \/ \E s \in Suites : OpenOrWrite(s)

Spec == Init /\ [][Next]_vars

-----------------------------------------------------------------------------
(* The exporter's reads happen in the order of the code, and no artifact    *)
(* exists unless the exporter ended well.                                   *)
TypeOK ==
    /\ \A s \in Suites : step[s] \in 0 .. 2 * Len(Writes)
    /\ files \in [File -> Suites \cup {Missing, Torn}]
    /\ pc \in {"idle", "results", "summary", "environment", "streams",
               "source_files", "validate", "written", "refused"}
    /\ Len(seen.records) <= Cases /\ Len(seen.streams) <= Cases
    /\ Len(seen.files) <= Cases
    /\ published # NoValue => pc = "written"
    /\ seen.files # << >> =>
          Len(seen.records) = Cases /\ Len(seen.streams) = Cases

(* Suites with one run id are all candidate runs or all fixture runs. *)
OneKindPerId ==
    \A s, t \in Suites :
        suites[s].run_id = suites[t].run_id =>
            suites[s].candidate = suites[t].candidate

(* export_public.py:1111-1172: whoever has the artifact can recompute it.   *)
(* Each case's published result is what run_case makes of the published     *)
(* stream (with its recorded exit status), and the summary is what          *)
(* run_suite makes of the published results, whatever another suite, of     *)
(* another id or of the same, rewrote between two reads.                    *)
PublishedResultsAreDerived ==
    (published # NoValue /\ OneKindPerId) =>
      LET scores == published.summary.scores
          cases  == ReadCases(published)
          child(c) == [stdout    |-> published.streams[c],
                       exit_code |-> cases[c].raw.exit_code,
                       timed_out |-> cases[c].raw.timed_out]
      IN /\ scores = Summary(cases, scores.candidate_dependent)
         /\ \A c \in Case :
               cases[c] = [CaseResult(cases[c].expected, child(c),
                                      scores.candidate_dependent)
                           EXCEPT !.raw = cases[c].raw]

(* acceptance-integrity.md:54-59: a published stream, the digest in its     *)
(* case's result and the digest in the list of local raw files are of the   *)
(* same bytes, although the file was read at two different moments.         *)
PublishedStreamsAreBound ==
    published # NoValue =>
      \A c \in Case :
        published.streams[c] = published.records[c].case.raw.stdout
        /\ published.files[c] = published.streams[c]

(* What suite s has to publish, its environment apart. *)
OwnArtifact(s) ==
    [records |-> [c \in Case |-> Content(suites[s], result(c))],
     summary |-> Content(suites[s], summary),
     streams |-> [c \in Case |-> Content(suites[s], raw(c))],
     files   |-> [c \in Case |-> Content(suites[s], raw(c))]]

(* A public artifact is bound to one source run: when the suites that wrote *)
(* to the directory have different run ids, the results, the summary, the   *)
(* streams and the digests are all of one of them.                          *)
OneRunIsPublished ==
    (/\ published # NoValue
     /\ \A s, t \in Suites : s # t => suites[s].run_id # suites[t].run_id) =>
      \E s \in Suites :
        [records |-> published.records, summary |-> published.summary,
         streams |-> published.streams, files |-> published.files]
        = OwnArtifact(s)

(* A child that printed what the candidate or the fixture protocol asks     *)
(* for, or text that is no JSON at all.  Of a candidate's Holytail          *)
(* measurement it is asked that it is left out, reported as unavailable, as *)
(* the adapter of the repository always does (exitbind-v0.17.0.py:280-285), *)
(* or a product observation.                                                *)
KeepsTheProtocol(stdout, candidate) ==
    \/ stdout.form = "malformed" /\ stdout.flags = {}
    \/ /\ candidate /\ CandidateEnvelope(stdout) /\ stdout.flags = {}
       /\ stdout.result.outcome \in {"READY", "REFUSED", "BLOCKED"}
       /\ stdout.coverage \in {SUPPORTED_COVERAGE, UNSUPPORTED_COVERAGE}
       /\ \/ stdout.holytail = NoValue
          \/ stdout.holytail.status = "unavailable"
          \/ observed_measurements(stdout) # NoValue
    \/ /\ ~candidate /\ IsObject(stdout) /\ stdout.flags = {"fixture"}
       /\ stdout.result = NoValue /\ stdout.coverage = NoValue
       /\ stdout.holytail = NoValue
       /\ stdout.top.outcome \in {"READY", "REFUSED", "BLOCKED"}

(* The only suite of this directory, and it has finished. *)
Alone(s) == /\ suites[s].present
            /\ step[s] = 2 * Len(Writes)
            /\ \A t \in Suites \ {s} : ~suites[t].present

(* The exporter re-implements the classification, the coverage lists and    *)
(* the scores of the suite.  The two agree: a finished run that nothing     *)
(* disturbs and whose children kept the protocol is never refused, whatever *)
(* the cases came to: mismatched, ended with another status, were cut off   *)
(* by the timeout after their output, or printed garbage.  A child that     *)
(* printed nothing, such as one that hung from the start, is not covered:   *)
(* the exporter refuses its run (export_public.py:966).                     *)
GoodRunsAreExported ==
    [][\A s \in Suites :
         (/\ Alone(s)
          /\ ~(suites[s].candidate /\ suites[s].binary = "fixture")
          /\ \A c \in Case :
                KeepsTheProtocol(suites[s].child[c].stdout, suites[s].candidate))
         => (pc' = "refused" => pc = "refused")]_vars
=============================================================================
