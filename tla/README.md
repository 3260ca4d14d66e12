# Models of the Exitbind evaluator

TLA+ models of the evaluator in this repository (`exitbind-evals`), the TLC
configurations that check them on small instances, and TLAPS proofs of the
results that matter most. Paths below are relative to the repository root.

Run `tlc -config X.cfg M` to check a model, `tlapm M.tla` to check proofs.

## 1. What the system is

The evaluator measures a product (the Exitbind binary) and publishes what it
measured as files that a third party can verify. Its correctness is a question
of evidence: a published number must come from the bytes it claims to come from,
a verdict must not be reached on evidence that does not establish it, and a run
that failed half way must not look like one that succeeded.

| component | source | state it keeps | operations | module |
|---|---|---|---|---|
| Suite runner | `runners/run_suite.py` | output directory, captured identity (binary, manifest, implementation digests), list of results | refuse a used directory, capture, loop over the cases, summary, exit status | `SuiteRun` |
| Case runner | `runners/run_case.py` | raw streams, case result | verify identity, resolve the command, start a child under a timeout, interpret its output | `SuiteRun`, `CaseScoring` |
| Scoring | `tools/eval_common.py` | none (pure) | observed fields, measurements, ratios, panels, mismatches | `CaseScoring`, `Scorecard` |
| Candidate adapter | `adapters/exitbind-v0.17.0.py` | a workspace and the product's run in it | five handlers over init, start, scope, worker, review, return, rework, observe, report, accept; one envelope | `Adapter` |
| Public exporter | `tools/export_public.py` | what it has read so far | verify raw streams, recompute, validate, write one artifact | `PublicExport` (partly) |
| Scenario runner | `runners/run_scenarios.py` | results in memory, then files, summary, exit status | list, filter, read, judge, write | `ScenarioSuite` |
| Oracles and contract | `scenarios/oracles.py` | none (one reads covered files) | six verdict functions, `validate_evidence` | `Oracles`, `OracleBoundary` |
| Scenario fixtures | `scenarios/s*/fixtures/evidence.py` | temporary files | build the evidence of a correct implementation | `OracleBoundary` |
| Observation runner | `runners/run_observation.py` | one observation; the governed and ungoverned directory are shared | clear, run the benchmark, read its ledgers, run the scenario suite, read its summary, write | `Observation` |
| Schema validator | `tools/export_public.py:643-793` | none | a JSON Schema subset, recursive | none |
| Corpus validator and tools, fixture product, script | `tools/`, `scripts/` | none | validation of static files, thin command lines | none |

How they interact. `run_suite` calls `run_case.run` once per case in its own
process; the only concurrency inside a run is the child, which is either the
binary itself (fixture) or the adapter, which starts the binary again and again.
What two runs share is the file system: the output directory, and the identity
files, which belong to somebody else and may be replaced at any moment. The
exporter reads a run directory that nothing locks.
`run_scenarios` executes the scenarios' evidence modules in its own process and
shares the scenario directories with their editors. `run_observation` starts
the product's benchmark and `run_scenarios` as children and reads what they leave
in two directories that all observations share.

What is hard here: checks and uses at different times (emptiness check and
first write; digest and execution; stream and digest list of the exporter),
crashes in the middle of a write (`write_json` truncates and then writes) or of
an `rmtree`, files of an earlier run taken for one's own, one failing part that
must not hide or take down the others, child processes that print anything and
then time out, commands that fail after they took effect, Python's loose values
(`False == 0`, `None` in place of a flag), and decisions taken twice by different
code (coverage lists and panels, suite and exporter). `PROJECT.json` lists each
at its line.

What makes each component correct:

- *Suite and case runner*: one directory is one run's; a summary stands only next
  to everything it was computed from; what ran is what was recorded; every
  started run ends.
- *Scoring*: panels, lists of ids and the exit status tell one story; only whole
  envelopes and product observations count.
- *Adapter*: what is scored is the product's own decision at the end of a whole
  script; a refusal counts as detection only if it was for the case's reason; a
  sound product has no mismatch, and each defect shows in exactly its case.
- *Exporter*: what is published is of one run, bound to its bytes, and can be
  recomputed; a good run is not refused.
- *Oracles and contract*: a verdict `accept` means that the scenario's claim holds of
  the evidence, a verdict `reject` that it does not; what is missing or malformed
  abstains.
- *Scenario runner*: exit status 0 means that every listed scenario was judged as
  expected; every scenario is reported; a conclusive outcome is bound.
- *Observations*: what is recorded as measured was measured by this observation.

## 2. Modules

```
CaseScoring --+-- Scorecard ------------------------- MCScorecard
              |       +-- ScorecardProofs
              +-- Adapter --------------------------- MCAdapter
              |       +-- AdapterProofs
              +-- PublicExport ---------------------- MCPublicExport
              |       +-- PublicExportProofs
              +-- EvidenceDirectory (abstract)
              |       ^ INSTANCE (refinement)
              +-- SuiteRun -- SuiteRunInvariants ---- MCSuiteRun
                                  +-- SuiteRunProofs
                                         +-- SuiteDirectoryProofs
Oracles ---------- OracleBoundary ------------------- MCOracleBoundary
                       +-- OracleProofs
ScenarioSuite --+------------------------------------ MCScenarioSuite
                +-- ScenarioSuiteProofs
                +-- Observation (INSTANCE) ---------- MCObservation
                        +-- ObservationProofs
```

`CaseScoring` holds pure operators only: `CaseResult` is the second half of
`run_case.run` (from the child's output to the case result), `Summary` and
`SuiteExitsZero` the end of `run_suite.main`, and everything in between
`eval_common.py`. A child's output is abstracted to what these functions read of
it: the form of the text (empty, not JSON, a scalar, an object, one whose
interpretation raises), the outcome and reason at the two places they may stand,
whether the candidate envelope is whole, the coverage and the Holytail
measurement. The control (which fallback applies when) is complete.

`Scorecard` lets a run collect arbitrary results and asks whether the published
numbers are consistent.

`SuiteRun` is the process level. One process per `Runner`, with a program counter
whose labels are the points at which another process, an editor or a crash can
make a difference; one action per file read or written. `disk` is the version of
the three identity files, changed by `Edit`, which puts earlier versions back
only when `Reverting`. `ident` is what the run
captured, `ran` the versions that were executed for each case (a history
variable), `snapshot` the disk at the moment the binary was hashed (another).
The four output variables are what is in the directory; a file is absent, torn
or whole. `Step(r)` is the evaluator's own code; `ChildExits` and
`AdapterCallsBinary` are the child; `Crash` and `CrashWriting` the operating
system. `InterpretFails` is the exception an unreadable output raises after its raw
bytes are written.

`EvidenceDirectory` is what the directory promises its reader: an owner, results
added in order and never rewritten, one summary. `SuiteRun` implements it under
the mapping at `Evidence` when runs are not started in parallel.

`Adapter` is one case seen from the adapter. `Script` is the sequence of commands of
the case's handler, `Conclusion` what the handler makes of the last answer, and
`Cli` one command: it takes effect and answers, or fails (bounded by `MaxFaults`)
with or without having taken effect, and answers garbage. A failure of one of the
`Checked` commands is an adapter error, one of the others is not noticed
(`check=False`). A worker submission has to print one line, which is taken for the
id of its event whatever it says; `events` keeps, per submission, the attempt that
the line names, and the checks that follow are for these events. The product is external: the roles that are pending, the
evidence for the current attempt, the attempt that was approved, and a set of
defects, each a way to accept what it should refuse. `child` is what `run_case.py`
collects, `TimeoutExpires` its timeout, and the properties speak of
`CaseResult(child)`, so that adapter and scoring are checked together.

`PublicExport` is `export_run` with one action per file it reads. The files are
those of suites that follow `Writes` (the order of `run_suite`), open each file
before they fill it, and may all write to the directory at once. The exporter
holds what it has read in `seen`, and `Valid` is `validate_public_export` over it,
with the recomputed classification, coverage lists, scores and protocol shapes.
`KeepsTheProtocol` is the output of a good child, an unavailable Holytail
measurement included, which is what the adapter of this repository always prints.
A digest is modelled by the content it is the digest of.

`Oracles` translates the six oracles and `validate_evidence`. Evidence is a
function from field names to values; a field left out is not in its domain, so
the difference between a missing key and `None` is kept, as is that between
`False`, `0`, `None` and a value of a wrong type. `OracleBoundary` starts from the
fixtures' own evidence, falsifies it in up to `MaxEdits` places (the mutation
matrix of `tests/test_scenarios.py`, in combination rather than one at a time),
changes the covered files under the oracle, and records the verdict as
`run_scenario` does.

`ScenarioSuite` is `run_scenarios.main`: selection with `--only`, the preamble of
`run_scenario`, a `scenario.json` without an id (which ends a run with `--only` and
is a result otherwise), every way a judgement ends, results kept in memory and written at
the end, the summary, the exit status, interrupts, and scenario directories that
change between any two steps. Directories are numbered in the order in which they
are listed, so lists of them are sets taken from the first element on. An
unreadable directory is filed under `PlaceholderId`, in which two may agree. A result
carries, beside the code's fields, the directory it is about and the content that
was really judged (`judged`), which the code does not record. `List` reads all
directories at once, and `Read` loads `scenario.json` and digests the directory in
one action (they follow each other at `run_scenarios.py:141-142`; a change between
the two is a subset of what a change between `Read` and `Judge` shows).

`Observation` composes `ScenarioSuite`, whole, with the observers that start its runs
(observer `r` starts run `r`) and with their benchmarks, external processes that
write their three files in any order, leave some out, and go on when the observer
dies. A file in the governed directory is the observer whose benchmark wrote it. A
file torn in the middle of a record cannot be read; one cut between two lines is
read like any other, and is a benchmark that ended after fewer writes.

## 3. Runs

| run | instance | states | question |
|---|---|---|---|
| `Scorecard` | 2 cases, 4 kinds of ground truth, 52 outputs | 140,000 | do panels, id lists and exit status agree? |
| `SuiteSerial` | 2 runs one after the other, 2 cases, 3 ways a child goes, 2 versions, files replaced at any moment | 489,000 | is a published directory coherent, which executed bytes are the recorded ones, does the directory implement `EvidenceDirectory`, and does every started run end? |
| `Adapter` | 14 cases, every set of 4 defects, 2 failing commands | 233,000 | does what is scored say what the product did? |
| `PublicExport` | 2 cases; 1 suite with 26 candidate or 9 fixture outputs, or 2 suites at once, of one kind or not | 1,035,000 | is what is published of one run, bound and recomputable, and are good runs exported? |
| `Oracles` | each oracle, up to 3 mutations | 416,000 | does `accept` mean the claim, `reject` its negation? |
| `ScenarioSuite` | 2 directories that fold to one id, 4 command lines, 1 change | 1,115,000 | what do the exit status, the files and the summary say of each other? |
| `Observation` | 2 observations one after the other, 1 scenario, 1 change | 2,860,000 | whose files does an observation quote? |

Five more runs (`ScorecardTimeout`, `SuiteOverwrite`, `OraclesReuse`,
`AdapterUnknown`, `ObservationStale`) show a property the sources state and the code does not have
(section 5).

Why the bounds are enough. *Two cases* make an earlier and a last case. *Two runs*
make a restart after every kind of failure; a third would find the directory as
the second did. *Two versions* of a file let it be the recorded one or not; more
only add ways of being different. In `Scorecard` panels are sums over single cases,
so a pair shows every interaction of a case with another; the children's outputs
are slices (every coverage and envelope around one result, every verdict and
measurement in a whole envelope), because coverage and verdict are read by
different functions. In `Adapter` the corpus is complete; two failing commands let
one hide what another one did. In `PublicExport` the case where the exporter and the
suite decide differently needs one suite and the full set of outputs, and the
case where files are mixed needs two suites but only outputs that differ in one
respect, so the two are separate sets of plans; a fixture run next to a candidate
run has an id of its own (section 5 says what happens otherwise). In `Oracles`
three edits suffice to turn the fixture evidence into any record in which one check
hides another: the longest chain a false acceptance or rejection could use is a replaced list, a replaced digest and a replaced flag.
Two contract keys stand for the nine (the code loops over them). In
`ScenarioSuite` two directories are one scenario and "the others"; one change may
fall between any two steps; both fold to the id of the first one, so that the
second, unreadable, displaces the first. Its `Content` leaves out the status
`exits_zero` (section 5). In `Observation` the
first observation leaves something behind and the second finds it.

Deadlock is not checked: all these programs stop.

Fairness. Only `SuiteSerial`, for `EveryRunEnds`, and the violation run
`SuiteOverwrite`, whose formula is a behaviour, use `FairSpec`: weak fairness of `Step(r)`, the statements of a started
evaluator process, because the operating system schedules it. The timeout is
one of these statements (`subprocess.run(..., timeout=...)`), so `TimeoutExpires` is fair; the
child's own exit, the adapter's calls of the binary, edits, crashes and the
start of a run are not. A child that `Hangs` never ends by itself. No liveness is stated of the scenario runner, the
observers and the adapter: they call evidence modules, children and the product
without a timeout of their own.

## 4. Proofs

All theorems hold for any number of runs, cases, outputs, versions, scenarios,
faults and observers; the assumptions are the `ASSUME`s of the modules, which TLC
evaluates in the runs, and what a theorem names itself.

- `SuiteRunProofs`: `TypeCorrect`, then `IdentityInvariant`, `EarlierCasesBound` and
  `IdentityWasASnapshot`. The property "an earlier case executed the recorded bytes"
  is not inductive: the checks compare the disk *now*, so one needs that versions
  only grow. `IdentityInv` adds `VersionsInOrder` (captured <= executed <= on disk) and
  `SnapshotInOrder` (captured <= the disk when the binary was hashed), from which a
  successful comparison squeezes everything in between to one value;
  `ComparedFilesRanAsRecorded` and `ComparedFilesWereInSnapshot` state the result file
  by file, since the three checks are separate steps, and `NothingRanAhead` that
  nothing is executed before its checks. All of it assumes `~Reverting`: with files
  put back the property is false.
- `SuiteDirectoryProofs`: `DirectoryInvariant`, `PublicationIsCoherent` and
  `ImplementsDirectory`. `DirectoryInv`
  says that at most one run is live (`Serial`), that a run past the emptiness check
  finds the directory empty until it has written `environment.json`, and that from
  then on every file in it is its own and in step with its results (`RunOwns`). The
  summary is computed from memory, so coherence needs that memory and files agree
  at every step. `ImplementsDirectory` says that every step of `SuiteRun` is a step of
  `EvidenceDirectory` or leaves what its reader sees unchanged, under `Serial`. Since
  the reader's list of results ends at the first file that is not whole, one needs
  besides `DirectoryInv` that no file beyond a live run's results is whole
  (`NothingAhead`); `ViewFromInside` then says what the reader sees while a run is in
  its loop.
- `ScorecardProofs`: the six properties of `Scorecard`. Every entry of the list is a
  `CaseResult`; `PanelsConserve` and `CleanExit` split the finite set of scored cases
  into disjoint parts and count them.
- `AdapterProofs`: `AdapterTypes`, `WholeScripts`, `ReadyIsAccepted`, `CreditEarned`, for
  any number of failing commands; `SoundProduct` and `DefectsAreCaught` for none.
  `AdapterInv` follows the script: how many worker submissions a position has taken
  for attempts (the product may have fewer, when a garbled answer hid that one had
  no effect), that work under review after an approval is a later attempt
  (`Lineage`), what the answer kept there says of the product, and that the child is the verdict of a
  finished script, an adapter error, or nothing. That bounds what a scored result
  can say; that a sound product *is* scored, and a defect *is* seen, needs the
  product's state exactly. `TrackInv` gives it, for a script that nothing disturbs:
  the role that is pending at each position (`Stage`), the evidence found for the
  attempt (`Found`), and the answer at the end, which depends on the case and the
  defects alone (`Obstacle`). Which answers match depends on the ground truths, of
  which `TruthAssumption` says as much as is used: the outcome, reason and exit code
  of the controls and of three false exits, and that no case expects `CLI_ERROR`.
- `PublicExportProofs`: `ExportTypes`, `StreamsAreBound`, `OneRun`, `DerivedResults` and
  `GoodRuns`. `ExportInv` says that everything read was written whole by some suite
  and that a stream was what its record says when it was read. Only the comparison
  of the run ids makes the records and the summary one suite's; the streams and
  digests follow, because they are compared with the records. `DerivedResults` does
  without different ids: it needs only that suites of one id are of one kind,
  because the summary is compared with what the published results add up to.
  `GoodRuns` is the opposite direction, that the exporter asks for nothing a good run
  lacks; a run with a silent child is none (section 5). For a directory of one suite, `SoloInv` says how far each file is (`Writes`
  names every file once, `EveryFileOnce`), that what was read is that suite's, and
  that the summary, written last, is not read before the suite is done; then each
  read finds its file, `GoodCase` and `GoodSummary` show that the exporter derives the
  classification, the coverage lists and the scores as the suite did, and
  `GoodRunIsValid` puts them together.
- `ScenarioSuiteProofs`: `ScenarioTypeCorrect`, `ConclusiveBound`, `DisplacementSeen`,
  `SummaryOfFiles` and `ExitZero`, the last as long as no evidence module ends the process with status 0 (`NeverExitsZero`;
  without it the theorem is false, see below). Its invariant `ProgressInv` says that
  a result with outcome `pass` has already earned all that the theorem claims when
  it is appended: status 0 is computed at the end from the outcomes alone, when
  the directories may have changed and nothing is read again, so the claim cannot
  be recovered there. `ConclusiveBound` says that verdict and outcome are those of the
  evidence that ran against the expectation that was digested; the digest may be of
  other bytes than those that ran (section 5). `DisplacementSeen` and `SummaryOfFiles`
  hold for a directory that one run uses (`UsedOnce`), whichever ids collide: a
  result that displaced another one shows in the summary, which counts more
  scenarios than it names. `ReportInv` says that what was written is still there and
  that a summary is the last thing a run writes.
- `OracleProofs`: `AcceptedClaimsHold`, `RejectedClaimsFail`, `RaisesOnlyOver`,
  `OmissionsAbstain` and `BoundaryTypes`, for every evidence that `Values` and `NestedValues` can make and
  any number of mutations; one lemma per oracle and claim says what its chain of early
  returns leaves when it accepts, whatever record it is given, and one what it has
  found when it rejects; for S5 and S6 the latter needs that the contract admits
  no list whose elements are not dicts. The invariant `ResultInv` only says that a result
  is the outcome of the evidence as it now is, the rest being facts about the
  operators. The claims are what the code looks for, which for S4 and S5 is less than
  their docstrings promise (section 5); `RaisesOnlyOver` names the two ways in which
  evidence the contract lets through still makes an oracle raise. `ValueAssumption` separates `None` and the value of a wrong type from the
  texts that the oracles compare with.
- `ObservationProofs`: `SuiteOfAnObservation` says that every step of an observation
  is, as far as the scenario runner's variables go, a step of `ScenarioSuite` or
  none. All theorems of `ScenarioSuiteProofs` then hold of the runs that observers
  start, and the other proofs use them. `ObservationTypeCorrect` holds of
  overlapping observers too. `GovernedOwn` and `CleanSuiteOwn` are about observers
  that follow each other (`Serial`). `GovernedInv` says that one observation at a
  time is alive, its benchmark included, and that nothing in the directory its
  benchmark writes to is older than the benchmark. `CleanInv` does the same for
  the scenario run and follows the clean summary from the directory to memory and
  to the observation; it needs that only a run which came to its end has status 0,
  hence `NeverExitsZero`.

Only model-checked: liveness (`EveryRunEnds`), which is out of this prover's reach.
The properties of the five violation runs are false, and so have no theorem; what
is proved about the same questions carries the hypothesis that makes it true
(`Serial`, `NeverExitsZero`, `~Reverting`).

## 5. What the checks show

Holding: all properties of the seven runs above. Not holding:

- `ScorecardTimeout`: a child that prints a complete envelope and then hangs is
  recorded READY although `methodology/scoring.md:5-7` says that a timed-out result
  does not become READY.
- `SuiteOverwrite`: two runs with the same `--out` both pass the emptiness check and
  overwrite each other (`methodology/acceptance-integrity.md:48-49`).
- `OraclesReuse`: S5 accepts evidence bound to an earlier digest when its kind was
  run again (`oracles.py:383-387`), where its docstring (`oracles.py:352-354`) and
  `s5-fresh-session-resume/scenario.json:11` say that any reuse across a changed
  digest is a reject; the scenario's own fixture is that case and is expected to be
  accepted.
- `AdapterUnknown`: an answer without a known marker becomes the reason `CLI_ERROR`,
  printed as REFUSED with supported coverage and scored, where the comment at
  `adapters/exitbind-v0.17.0.py:21-23` wants it visible as an adapter failure. It
  never counts as a match (`CreditIsEarned`), but it does count as a refusal.
- `ObservationStale`: a scenario suite that wrote nothing is recorded with the
  summary an earlier observation left (`EVAL_PROTOCOL.md:170-172`). With status 0 this
  cannot happen (`CleanSuiteIsOwn`), unless an evidence module ends the process with
  status 0.

Seen while modelling, and not given a run of their own:

*Suite.* The binary is hashed once; a fixture run never looks again and a candidate
run does not look after the last case (`README.md:80-81` says that the executed binary
is bound). One output nested too deep to parse, or with a measured value that
cannot be hashed, ends the suite (`run_case.py:132`, `eval_common.py:128`).

*Exporter.* The suite records no parse error for an empty stdout (`run_case.py:130`),
and `export_public.py:966` asks for one: one silent case makes a whole run
unpublishable, which `acceptance-integrity.md:53-64` does not list among the errors.
`GoodRunsAreExported` therefore speaks of children that printed something.
Other outputs that are scored and can never be exported: a scalar, a coverage
or outcome outside of the published ones, a label in place of a measurement, a
fixture output without its marker. `environment.json` carries no run id, so between
two runs of one kind the environment may be the other's, and two runs with one id
may be mixed as far as their results, streams and scores agree. A candidate and a
fixture run with one id may even be mixed into an artifact whose results are not
what its streams give, because the validator does not score the streams again:
`PublishedResultsAreDerived` therefore asks for `OneKindPerId`. The artifact is
written like everything else and may tear.

*Observations.* Overlapping ones mix their ledgers, and two in the same second share
a record. A `result.json` without `protectedFailedCheck` is recorded as a measured
False, two empty ledgers count as chained, and a signal that is absent becomes
`None` among the differences. Children have no timeout. An interrupted second
suite leaves the first one's summary beside its own results.

*Scenario runner.* An evidence module that calls `sys.exit(0)` ends the suite with
status 0 and nothing written (`run_scenarios.py:214-218`). With `--only`, a corrupt
*other* scenario ends the run (`run_scenarios.py:321`). Results are keyed by
`scenario_id` alone: an unreadable directory gets its folded name as id, which may be
the id of a readable scenario (`run_scenarios.py:123-125` says so), and an id
`summary` would name the summary's file. A displaced result is gone; that it shows
is `DisplacementShows`.
`scenario_digest` reads the files at `run_scenarios.py:142` and the evidence module is
read again at line 69: a change in between is judged under the old digest. An
empty scenarios directory exits 0.

*Adapter.* `worker` says "did not return one event hash" (line 183) of none or several
lines only. A second worker submission of `stale-review-001` that exits 0, prints one
line of anything and takes no effect is taken for an attempt; the final refusal is
then a match although the approved work was sent back but never replaced.
`CreditIsEarned` names that case.

*Oracles.* S4 accepts any `preservation_held` but `None` and `False` (`oracles.py:330`),
where its docstring (309) says that it accepts only when the invariant holds; the
contract declares no type for it. S3 judges `blocked: None` as false and rejects,
where `oracles.py:9` promises `indeterminate`. S5 puts
the kind of an item into a set, or looks it up there, before anything has checked its
type (`oracles.py:373`, 386), where `EVAL_PROTOCOL.md:94-97` asks for the type first: a
kind that is a list raises, and the record is reported as one that could not be
judged (`RaisesOnlyOver`). S6 accepts when `exit_claimed` is left out
(`oracles.py:588`).

## 6. Not modelled

- Digests are injections (a version number, the content itself); file formats,
  platform facts, paths, durations and reasons are left out.
- Of the exporter: the redaction of text and paths, path and symlink checks, the
  closed lists of fields, and the completion of summaries written before coverage
  existed.
- The schema validator: a stateless recursion over two trees whose schemas are
  fixed files; its keywords are one line each.
- Processes below the child: the timeout kills the child only, a grandchild may
  go on writing to its workspace.
- Evidence modules that never return. They run without a timeout in the
  evaluator's own process; nothing there could be proved to end.
- `tools/validate.py`, `fetch_corpus.py`, `collect_environment.py`, `fixture-exitbind.py`,
  `scripts/reproduce.sh`: sequential input and output without state of its own.
- The git state recorded in a scenario result, and the signals of an observation
  beyond whose files they were read from.

## 7. Plan

In order of weight:

1. An abstract specification of the exporter (one atomic read of one run's files)
   that `PublicExport` implements when run ids differ.
2. `SchemaValidator`: a recursive definition, checked by TLC against a reference over
   bounded schemas; it stays out of modules with theorems.
