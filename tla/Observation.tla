------------------------------- MODULE Observation -------------------------------
(****************************************************************************)
(* runners/run_observation.py: observers that drive the product's benchmark *)
(* (the governed condition) and the scenario runner (the ungoverned one) as *)
(* child processes, and record what they find in the directories the two    *)
(* leave in a space that all observations share.                            *)
(*                                                                          *)
(* Observer r starts the run r of ScenarioSuite, whose whole state is part  *)
(* of this module's.  The benchmark is external: it may write its three     *)
(* files in any order, leave some out and end at any time.  An observer may *)
(* die at any step; the child it started goes on.                           *)
(****************************************************************************)
EXTENDS Integers, FiniteSets

CONSTANTS NoValue, Torn, Runner, NDirs, Id, Content, PlaceholderId, Args,
          MaxEdits,   \* all of them as in ScenarioSuite
          Serial      \* TRUE: an observation starts when all others are over

VARIABLES content, edits, pc, args, todo, bound, results, written, files, exit
          \* as in ScenarioSuite
VARIABLES
    opc,           \* observer -> where it is
    bench,         \* observer -> its benchmark: "none", "running", "ended"
    benchmark,     \* <space>/governed/benchmark
    record,        \* observer -> the observation in memory
    observations   \* observer -> <space>/runs/<stamp>/observation.json

suiteVars == <<content, edits, pc, args, todo, bound, results, written, files,
               exit>>
ownVars == <<opc, bench, benchmark, record, observations>>
vars == <<suiteVars, ownVars>>

Suite == INSTANCE ScenarioSuite

(* What a summary may be, and the constants taken together with it. *)
SummaryFile ==
    [by : Runner, count : 0..NDirs,
     outcomes : UNION {[ids -> {"pass", "fail", "inconclusive"}] : ids \in SUBSET Id}]

ASSUME ObservationAssumption ==
    /\ NDirs \in Nat /\ MaxEdits \in Nat
    /\ PlaceholderId \in [1..NDirs -> Id]
    /\ Content \in [1..NDirs -> SUBSET Suite!Definition]
    /\ NoValue \notin Suite!Definition \cup Args \cup Runner \cup {0}
    /\ Torn \notin Runner
    /\ NoValue \notin SummaryFile /\ Torn \notin SummaryFile
    /\ NoValue \notin Suite!ResultFile /\ Torn \notin Suite!ResultFile
    /\ "summary" \notin Id

NoFile == NoValue
Whole(file) == file \notin {NoFile, Torn}

(* What the observer reads of the benchmark, in this order. *)
Part == {"final", "blocked", "result"}
(* A slip in the order: the result is left out. *)
LedgersOnly == [final |-> "blocked", blocked |-> "suite", result |-> "suite"]

After == [final |-> "blocked", blocked |-> "result", result |-> "suite"]

NothingRead == [p \in Part |-> NoValue]

Over == {"idle", "refused", "died", "done"}

Init ==
    /\ Suite!Init
    /\ opc = [o \in Runner |-> "idle"]
    /\ bench = [o \in Runner |-> "none"]
    /\ benchmark = NoFile
    /\ record = [o \in Runner |-> [governed |-> "unavailable",
                                   sources |-> NothingRead,
                                   suiteExit |-> NoValue,
                                   outcomes |-> NoValue]]
    /\ observations = [o \in Runner |-> NoFile]

Goto(o, label) == opc' = [opc EXCEPT ![o] = label]

-----------------------------------------------------------------------------
(* observe: the governed condition *)

Quiet == \A q \in Runner :
    opc[q] \in Over /\ bench[q] # "running" /\ pc[q] \in {"idle", "ended"}

(* Without a commit there is no observation, and without a binary no        *)
(* governed condition.                                                      *)
Begin(o) ==
    /\ opc[o] = "idle"
    /\ Serial => Quiet
    /\ \E label \in {"refused", "suite", "clear"} : Goto(o, label)
    /\ UNCHANGED <<suiteVars, bench, benchmark, record, observations>>

(* A slip: what is there already is left there. *)
NeverRemoved == FALSE

MustRemove == benchmark # NoFile

(* out.exists() *)
Clear(o) ==
    /\ opc[o] = "clear"
    /\ Goto(o, IF MustRemove THEN "remove" ELSE "benchmark")
    /\ UNCHANGED <<suiteVars, bench, benchmark, record, observations>>

(* rmtree raises when somebody else has removed the directory. *)
Remove(o) ==
    /\ opc[o] = "remove"
    /\ benchmark' = NoFile
    /\ Goto(o, IF benchmark = NoFile THEN "died" ELSE "benchmark")
    /\ UNCHANGED <<suiteVars, bench, record, observations>>

StartBenchmark(o) ==
    /\ opc[o] = "benchmark"
    /\ bench' = [bench EXCEPT ![o] = "running"]
    /\ Goto(o, "benchmarking")
    /\ UNCHANGED <<suiteVars, benchmark, record, observations>>

Governed(o, kind) == record' = [record EXCEPT ![o].governed = kind]

(* The child is over: without a directory, or without both ledgers, the     *)
(* chain is recorded as unavailable.                                        *)
Inspect(o) ==
    /\ opc[o] = "benchmarking"
    /\ bench[o] = "ended"
    /\ IF benchmark = NoFile
       THEN Governed(o, "no output") /\ Goto(o, "suite")
       ELSE IF NoFile \in {benchmark["final"], benchmark["blocked"]}
       THEN Governed(o, "incomplete") /\ Goto(o, "suite")
       ELSE Governed(o, "measured") /\ Goto(o, "final")
    /\ UNCHANGED <<suiteVars, bench, benchmark, observations>>

(* A file that is missing by now, or not JSON, ends the observer. *)
ReadPart(o, p) ==
    /\ opc[o] = p
    /\ IF benchmark # NoFile /\ Whole(benchmark[p])
       THEN /\ record' = [record EXCEPT ![o].sources[p] = benchmark[p]]
            /\ Goto(o, After[p])
       ELSE Goto(o, "died") /\ UNCHANGED record
    /\ UNCHANGED <<suiteVars, bench, benchmark, observations>>

-----------------------------------------------------------------------------
(* observe: the ungoverned condition, and the observation itself *)

StartSuite(o) ==
    /\ opc[o] = "suite"
    /\ Suite!Start(o)
    /\ Goto(o, "suite_running")
    /\ UNCHANGED <<bench, benchmark, record, observations>>

(* Whatever the status of the suite was, the summary that is found is read. *)
Collect(o) ==
    LET summary == files["summary"]
    IN /\ opc[o] = "suite_running"
       /\ pc[o] = "ended"
       /\ IF summary = Torn
          THEN Goto(o, "died") /\ UNCHANGED record
          ELSE /\ record' = [record EXCEPT ![o].suiteExit = exit[o],
                                           ![o].outcomes = summary]
               /\ Goto(o, "write")
       /\ UNCHANGED <<suiteVars, bench, benchmark, observations>>

Write(o) ==
    /\ opc[o] = "write"
    /\ observations' = [observations EXCEPT ![o] = record[o]]
    /\ Goto(o, "done")
    /\ UNCHANGED <<suiteVars, bench, benchmark, record>>

-----------------------------------------------------------------------------
(* The children *)

BenchmarkMakesDirectory(o) ==
    /\ bench[o] = "running" /\ benchmark = NoFile
    /\ benchmark' = [p \in Part |-> NoFile]
    /\ UNCHANGED <<suiteVars, opc, bench, record, observations>>

BenchmarkWrites(o, p) ==
    /\ bench[o] = "running" /\ benchmark # NoFile
    /\ benchmark' = [benchmark EXCEPT ![p] = o]
    /\ UNCHANGED <<suiteVars, opc, bench, record, observations>>

BenchmarkEnds(o) ==
    /\ bench[o] = "running"
    /\ bench' = [bench EXCEPT ![o] = "ended"]
    /\ UNCHANGED <<suiteVars, opc, benchmark, record, observations>>

(* The benchmark is killed while it writes, and what it leaves is no JSON.  *)
(* A ledger that is cut between two lines reads as one its writer ended     *)
(* there, which is what BenchmarkWrites and BenchmarkEnds leave.            *)
BenchmarkTears(o, p) ==
    /\ bench[o] = "running" /\ benchmark # NoFile
    /\ benchmark' = [benchmark EXCEPT ![p] = Torn]
    /\ bench' = [bench EXCEPT ![o] = "ended"]
    /\ UNCHANGED <<suiteVars, opc, record, observations>>

(* The steps of a scenario run that has been started. *)
SuiteSteps ==
    /\ \/ \E r \in Runner :
            \/ Suite!List(r)
            \/ \E d \in 1..NDirs : \/ Suite!Read(r, d) \/ Suite!Judge(r, d)
                                   \/ Suite!WriteResult(r, d)
            \/ Suite!WriteSummary(r)
            \/ Suite!Interrupt(r) \/ Suite!InterruptWriting(r)
       \/ \E d \in 1..NDirs : Suite!EditScenario(d)
    /\ UNCHANGED ownVars

(* The observer dies; a child goes on.  In the middle of rmtree some of the *)
(* files are gone, and observation.json may be left truncated.              *)
Crash(o) ==
    /\ opc[o] \notin Over
    /\ Goto(o, "died")
    /\ UNCHANGED <<suiteVars, bench, record>>
    /\ \/ UNCHANGED <<benchmark, observations>>
       \/ /\ opc[o] = "remove" /\ benchmark # NoFile
          /\ \E gone \in SUBSET Part :
                benchmark' = [p \in Part |-> IF p \in gone THEN NoFile
                                             ELSE benchmark[p]]
          /\ UNCHANGED observations
       \/ /\ opc[o] = "write"
          /\ observations' = [observations EXCEPT ![o] = Torn]
          /\ UNCHANGED benchmark

Next ==
    \/ \E o \in Runner :
        \/ Begin(o) \/ Clear(o) \/ Remove(o) \/ StartBenchmark(o) \/ Inspect(o)
        \/ \E p \in Part : ReadPart(o, p)
        \/ StartSuite(o) \/ Collect(o) \/ Write(o) \/ Crash(o)
        \/ BenchmarkMakesDirectory(o) \/ BenchmarkEnds(o)
        \/ \E p \in Part : BenchmarkWrites(o, p) \/ BenchmarkTears(o, p)
    \/ SuiteSteps

Spec == Init /\ [][Next]_vars

-----------------------------------------------------------------------------
(* Properties *)

(* An observer is where its record says it is; what it measured it has      *)
(* read, and the scenario run is only ever started by its observer.         *)
TypeOK ==
    /\ opc \in [Runner -> Over \cup Part \cup
                  {"clear", "remove", "benchmark", "benchmarking", "suite",
                   "suite_running", "write"}]
    /\ bench \in [Runner -> {"none", "running", "ended"}]
    /\ benchmark = NoFile \/ benchmark \in [Part -> Runner \cup {NoFile, Torn}]
    /\ \A o \in Runner :
        /\ record[o].governed \in
             {"unavailable", "no output", "incomplete", "measured"}
        /\ record[o].sources \in [Part -> Runner \cup {NoValue}]
        /\ Whole(observations[o]) => opc[o] = "done" /\ observations[o] = record[o]
        /\ opc[o] \in {"suite", "suite_running", "write", "done"}
           /\ record[o].governed = "measured"
             => NoValue \notin {record[o].sources[p] : p \in Part}
        /\ pc[o] # "idle" => opc[o] \in {"suite_running", "write", "done", "died"}

(* The ledgers and the result of a governed condition that is recorded as   *)
(* measured are those of the observer's own benchmark, whatever an earlier  *)
(* observation left, lost or had half removed (run_observation.py:131-155). *)
GovernedIsOwn ==
    Serial =>
      \A o \in Runner :
        Whole(observations[o]) /\ observations[o].governed = "measured" =>
          \A p \in Part : observations[o].sources[p] = o

(* When a suite is recorded to have exited with 0, the outcomes recorded    *)
(* beside the status are its own and all passed: the summary was not an     *)
(* earlier run's, although it is read after the exit from a directory that  *)
(* is never cleared (run_observation.py:99-124).                            *)
CleanSuiteIsOwn ==
    Serial =>
      \A o \in Runner :
        Whole(observations[o]) /\ observations[o].suiteExit = 0 =>
          LET summary == observations[o].outcomes
          IN /\ Whole(summary) /\ summary.by = o
             /\ summary.count = Cardinality(todo[o])
             /\ \A id \in DOMAIN summary.outcomes :
                  summary.outcomes[id] = "pass"

(* EVAL_PROTOCOL.md:170-172: "Any signal that cannot be established is      *)
(* recorded as unavailable": outcomes are recorded as measured only when    *)
(* the observed suite has established them.                                 *)
MeasuredOutcomesAreOwn ==
    \A o \in Runner :
        Whole(observations[o]) /\ Whole(observations[o].outcomes) =>
            observations[o].outcomes.by = o
================================================================================
