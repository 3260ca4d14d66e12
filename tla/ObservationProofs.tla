---------------------------- MODULE ObservationProofs ----------------------------
(****************************************************************************)
(* Observations for any number of observers and any scenarios: their        *)
(* scenario runs are runs of ScenarioSuite, so that its theorems hold of    *)
(* them; every observer is where its record says it is; and of observers    *)
(* that follow each other, each quotes the benchmark, and with status 0 the *)
(* summary, that it started itself.                                         *)
(****************************************************************************)
EXTENDS Observation, FiniteSetTheorems, WellFoundedInduction, TLAPS

(* ScenarioSuite with what is proved of it. *)
Theorems == INSTANCE ScenarioSuiteProofs

-----------------------------------------------------------------------------
(* The scenario run of an observation is a run of ScenarioSuite *)

(* Each instance of ScenarioSuite counts with a Cardinality of its own. *)
LEMMA SameCount ==
  \A S : Suite!Cardinality(S) = Cardinality(S) /\ Theorems!Cardinality(S) = Cardinality(S)
BY DEF Suite!Cardinality, Theorems!Cardinality, Cardinality, Suite!IsFiniteSet,
       Theorems!IsFiniteSet, IsFiniteSet

LEMMA SuiteAssumption == Theorems!ScenarioAssumption
BY ObservationAssumption DEF Suite!Definition, Theorems!Definition, Suite!Evidence,
   Theorems!Evidence, Suite!Verdicts, Theorems!Verdicts, Suite!Abstained,
   Theorems!Abstained, Suite!ExitStatus, Theorems!ExitStatus, Theorems!Dir

LEMMA FilesAssumption == Theorems!FileAssumption
<1>1. Theorems!ResultFile = Suite!ResultFile
  BY DEF Suite!ResultFile, Theorems!ResultFile, Suite!Result, Theorems!Result,
     Suite!Dir, Theorems!Dir, Suite!Definition, Theorems!Definition, Suite!Evidence,
     Theorems!Evidence, Suite!Verdicts, Theorems!Verdicts, Suite!Abstained,
     Theorems!Abstained, Suite!ExitStatus, Theorems!ExitStatus
<1> QED
  BY <1>1, ObservationAssumption DEF Theorems!FileAssumption

LEMMA SummarySame == \A r : Theorems!Summary(r) = Suite!Summary(r)
<1> SUFFICES ASSUME NEW r PROVE Theorems!Summary(r) = Suite!Summary(r)
  OBVIOUS
<1> DEFINE fields(summary) == [by |-> r, count |-> Cardinality(DOMAIN results[r]),
                               outcomes |-> summary.outcomes]
<1>1. Theorems!Summary(r).outcomes = Suite!Summary(r).outcomes
  BY DEF Suite!Summary, Theorems!Summary, Suite!IsLast, Theorems!IsLast
<1>2. Theorems!Summary(r) = fields(Theorems!Summary(r))
  BY SameCount DEF Theorems!Summary, Theorems!ScenarioCount
<1>3. Suite!Summary(r) = fields(Suite!Summary(r))
  BY SameCount DEF Suite!Summary, Suite!ScenarioCount
<1> QED
  BY <1>1, <1>2, <1>3

LEMMA SummaryStepSame ==
  ASSUME NEW r \in Runner, Suite!WriteSummary(r)
  PROVE  Theorems!WriteSummary(r)
<1> HIDE DEF Suite!Summary
<1>1. /\ Suite!AllRun(r) /\ Suite!AllWritten(r)
      /\ files' = [files EXCEPT !["summary"] = Suite!Summary(r)]
      /\ Suite!Ends(r, IF Suite!AllPassed(r) THEN 0 ELSE 1)
      /\ UNCHANGED <<content, edits, args, todo, bound, results, written>>
  BY DEF Suite!WriteSummary
<1>2. files' = [files EXCEPT !["summary"] = Theorems!Summary(r)]
  BY <1>1, SummarySame
<1> QED
  BY <1>1, <1>2 DEF Theorems!WriteSummary, Suite!AllRun, Theorems!AllRun,
     Suite!Remaining, Theorems!Remaining, Suite!AllWritten, Theorems!AllWritten,
     Suite!Unwritten, Theorems!Unwritten, Suite!Ends, Theorems!Ends, Suite!Goto,
     Theorems!Goto, Suite!AllPassed, Theorems!AllPassed

(* Every step of the scenario run is one of ScenarioSuite, and the observer *)
(* changes nothing of it.                                                   *)
LEMMA SuiteStep ==
  ASSUME NEW r \in Runner,
         \/ Suite!Start(r) \/ Suite!List(r) \/ Suite!WriteSummary(r)
         \/ Suite!Interrupt(r) \/ Suite!InterruptWriting(r)
  PROVE  Theorems!Next
<1> USE DEF Suite!Goto, Theorems!Goto, Suite!Ends, Theorems!Ends
<1>1. ASSUME Suite!Start(r) PROVE Theorems!Start(r)
  BY <1>1 DEF Suite!Start, Theorems!Start
<1>2. ASSUME Suite!List(r) PROVE Theorems!List(r)
  BY <1>2 DEF Suite!List, Theorems!List, Suite!Dir, Theorems!Dir
<1>3. ASSUME Suite!Interrupt(r) PROVE Theorems!Interrupt(r)
  BY <1>3 DEF Suite!Interrupt, Theorems!Interrupt
<1>4. ASSUME Suite!InterruptWriting(r) PROVE Theorems!InterruptWriting(r)
  BY <1>4 DEF Suite!InterruptWriting, Theorems!InterruptWriting, Suite!AllRun,
     Theorems!AllRun, Suite!Remaining, Theorems!Remaining, Suite!AllWritten,
     Theorems!AllWritten, Suite!Unwritten, Theorems!Unwritten, Suite!IsFirst,
     Theorems!IsFirst
<1> QED
  BY <1>1, <1>2, <1>3, <1>4, SummaryStepSame DEF Theorems!Next

LEMMA SuiteLoopStep ==
  ASSUME NEW r \in Runner, NEW d \in 1..NDirs,
         Suite!Read(r, d) \/ Suite!Judge(r, d) \/ Suite!WriteResult(r, d)
  PROVE  Theorems!Next
<1> USE DEF Suite!Goto, Theorems!Goto, Suite!IsFirst, Theorems!IsFirst,
            Suite!Remaining, Theorems!Remaining, Suite!AddResult, Theorems!AddResult,
            Suite!Placeholder, Theorems!Placeholder, Suite!Unjudged, Theorems!Unjudged
<1>1. ASSUME Suite!Read(r, d) PROVE Theorems!Read(r, d)
  BY <1>1 DEF Suite!Read, Theorems!Read
<1>2. ASSUME Suite!Judge(r, d) PROVE Theorems!Judge(r, d)
  BY <1>2 DEF Suite!Judge, Theorems!Judge, Suite!Ends, Theorems!Ends,
     Suite!ExitStatus, Theorems!ExitStatus, Suite!JudgedResult,
     Theorems!JudgedResult, Suite!Abstained, Theorems!Abstained, Suite!Verdicts,
     Theorems!Verdicts, Suite!OutcomeOf, Theorems!OutcomeOf
<1>3. ASSUME Suite!WriteResult(r, d) PROVE Theorems!WriteResult(r, d)
  BY <1>3 DEF Suite!WriteResult, Theorems!WriteResult, Suite!AllRun,
     Theorems!AllRun, Suite!Unwritten, Theorems!Unwritten
<1> QED
  BY <1>1, <1>2, <1>3 DEF Theorems!Next, Theorems!Dir

(* Whatever observers do, die at and leave behind, the scenario runs they   *)
(* start (run_observation.py:99-124) behave as ScenarioSuite says: each of  *)
(* its theorems holds of them.                                              *)
THEOREM SuiteOfAnObservation == Spec => Theorems!Spec
<1>1. Init => Theorems!Init
  BY DEF Init, Suite!Init, Theorems!Init, Suite!Dir, Theorems!Dir, Suite!File,
         Theorems!File, Suite!NoFile, Theorems!NoFile
<1>2. [Next]_vars => [Theorems!Next]_(Theorems!vars)
  <2> SUFFICES ASSUME [Next]_vars PROVE Theorems!Next \/ UNCHANGED suiteVars
    BY DEF suiteVars, Theorems!vars
  <2>1. ASSUME NEW o \in Runner,
               \/ Begin(o) \/ Clear(o) \/ Remove(o) \/ StartBenchmark(o) \/ Inspect(o)
               \/ \E p \in Part : ReadPart(o, p)
               \/ Collect(o) \/ Write(o) \/ Crash(o)
               \/ BenchmarkMakesDirectory(o) \/ BenchmarkEnds(o)
               \/ \E p \in Part : BenchmarkWrites(o, p) \/ BenchmarkTears(o, p)
        PROVE  UNCHANGED suiteVars
    BY <2>1 DEF Begin, Clear, Remove, StartBenchmark, Inspect, ReadPart, Collect, Write,
                Crash, BenchmarkMakesDirectory, BenchmarkEnds, BenchmarkWrites,
                BenchmarkTears
  <2>2. ASSUME NEW o \in Runner, StartSuite(o) PROVE Theorems!Next
    BY <2>2, SuiteStep DEF StartSuite
  <2>3. ASSUME NEW d \in 1..NDirs, Suite!EditScenario(d) PROVE Theorems!Next
    BY <2>3 DEF Suite!EditScenario, Theorems!EditScenario, Theorems!Next, Theorems!Dir
  <2>4. ASSUME SuiteSteps PROVE Theorems!Next
    BY <2>3, <2>4, SuiteStep, SuiteLoopStep DEF SuiteSteps
  <2>5. CASE UNCHANGED vars
    BY <2>5 DEF vars
  <2> QED
    BY <2>1, <2>2, <2>4, <2>5 DEF Next
<1> QED
  BY <1>1, <1>2, PTL DEF Spec, Theorems!Spec

(* What the invariants of ScenarioSuite say of a run, as far as it is       *)
(* needed here.                                                             *)
SuiteFacts ==
    /\ pc \in [Runner -> {"idle", "list", "filter", "read", "judge", "ended"}]
    /\ DOMAIN exit = Runner
    /\ todo \in [Runner -> SUBSET (1..NDirs)]
    /\ \A d \in 1..NDirs : content[d].evidence # "exits_zero"
    /\ \A r \in Runner :
        /\ DOMAIN results[r] \subseteq todo[r]
        /\ \A d \in DOMAIN results[r] :
            /\ results[r][d].id \in Id
            /\ results[r][d].outcome \in {"pass", "fail", "inconclusive"}
        /\ pc[r] # "ended" => exit[r] # 0

LEMMA SuiteFactsHold == Suite!NeverExitsZero => (Spec => []SuiteFacts)
<1> SUFFICES ASSUME Suite!NeverExitsZero PROVE Spec => []SuiteFacts
  OBVIOUS
<1>1. Theorems!NeverExitsZero
  BY DEF Suite!NeverExitsZero, Theorems!NeverExitsZero, Suite!Dir, Theorems!Dir
<1>2. Theorems!Spec => []Theorems!TypeOK
  BY SuiteAssumption, FilesAssumption, Theorems!ScenarioTypeCorrect
<1>3. Theorems!Spec => []Theorems!ProgressInv
  BY <1>1, SuiteAssumption, FilesAssumption, Theorems!ProgressInvariant
<1>4. Theorems!TypeOK /\ Theorems!ProgressInv => SuiteFacts
  <2> SUFFICES ASSUME Theorems!TypeOK, Theorems!ProgressInv PROVE SuiteFacts
    OBVIOUS
  <2>1. \A d \in 1..NDirs : content[d].evidence # "exits_zero"
    BY <1>1 DEF Theorems!ProgressInv, Theorems!NeverExitsZero, Theorems!Dir
  <2>2. /\ pc \in [Runner -> {"idle", "list", "filter", "read", "judge", "ended"}]
        /\ DOMAIN exit = Runner
        /\ todo \in [Runner -> SUBSET (1..NDirs)]
    BY DEF Theorems!TypeOK, Theorems!Dir
  <2>3. ASSUME NEW r \in Runner
        PROVE  /\ DOMAIN results[r] \subseteq todo[r]
               /\ \A d \in DOMAIN results[r] :
                    /\ results[r][d].id \in Id
                    /\ results[r][d].outcome \in {"pass", "fail", "inconclusive"}
    BY DEF Theorems!TypeOK, Theorems!Result
  <2>4. ASSUME NEW r \in Runner, pc[r] # "ended" PROVE exit[r] # 0
    BY <2>4, ObservationAssumption DEF Theorems!ProgressInv
  <2> QED
    BY <2>1, <2>2, <2>3, <2>4 DEF SuiteFacts
<1> QED
  BY <1>2, <1>3, <1>4, SuiteOfAnObservation, PTL

-----------------------------------------------------------------------------
(* The shape of an observer's state *)

Recorded == {"suite", "suite_running", "write"}

Field == {"governed", "sources", "suiteExit", "outcomes"}

Shapes ==
    /\ DOMAIN opc = Runner /\ DOMAIN bench = Runner
    /\ DOMAIN record = Runner /\ DOMAIN observations = Runner
    /\ \A o \in Runner : /\ DOMAIN record[o] = Field
                         /\ DOMAIN record[o].sources = Part
    /\ benchmark = NoFile \/ DOMAIN benchmark = Part

-----------------------------------------------------------------------------
(* Type correctness *)

Label == Over \cup Part \cup {"clear", "remove", "benchmark", "benchmarking", "suite",
                                "suite_running", "write"}
Directory == {NoFile} \cup [Part -> Runner \cup {NoFile, Torn}]

Placed ==
    /\ opc \in [Runner -> Label] /\ bench \in [Runner -> {"none", "running", "ended"}]
    /\ benchmark \in Directory

(* What TypeOK says of one observer, and what it has read so far. *)
Typed(o) ==
    /\ record[o].governed \in {"unavailable", "no output", "incomplete", "measured"}
    /\ record[o].sources \in [Part -> Runner \cup {NoValue}]
    /\ Whole(observations[o]) => opc[o] = "done" /\ observations[o] = record[o]
    /\ opc[o] \in Recorded \cup {"done"} /\ record[o].governed = "measured"
         => \A p \in Part : record[o].sources[p] # NoValue
    /\ pc[o] # "idle" => opc[o] \in {"suite_running", "write", "done", "died"}
    /\ opc[o] = "idle" => record[o].governed = "unavailable"
    /\ opc[o] \in {"blocked", "result"} => record[o].sources["final"] # NoValue
    /\ opc[o] = "result" => record[o].sources["blocked"] # NoValue

TypeInv == Shapes /\ Placed /\ \A o \in Runner : Typed(o)

LEMMA TypeInit == Init => TypeInv
<1> SUFFICES ASSUME Init PROVE TypeInv
  OBVIOUS
<1>1. Shapes /\ Placed
  BY DEF Init, Shapes, Field, NothingRead, NoFile, Directory, Placed, Label, Over
<1>2. ASSUME NEW o \in Runner PROVE Typed(o)
  <2>1. /\ record[o].governed = "unavailable" /\ record[o].sources = NothingRead
        /\ opc[o] = "idle" /\ bench[o] = "none" /\ pc[o] = "idle"
        /\ observations[o] = NoFile
    BY <1>2 DEF Init, Suite!Init
  <2> QED
    BY <2>1 DEF Typed, NothingRead, Whole, Label, Over, Part, Recorded
<1> QED
  BY <1>1, <1>2 DEF TypeInv

LEMMA TypeInvType == TypeInv => TypeOK
<1> SUFFICES ASSUME TypeInv PROVE TypeOK
  OBVIOUS
<1>1. ASSUME NEW o \in Runner
      PROVE  opc[o] \in Recorded \cup {"done"} /\ record[o].governed = "measured"
               => NoValue \notin {record[o].sources[p] : p \in Part}
  BY DEF TypeInv, Typed
<1> QED
  BY <1>1 DEF TypeInv, Placed, Typed, TypeOK, Label, Directory, Recorded

(* A step of one observer, or of its benchmark. *)
LEMMA TypeStep ==
  ASSUME TypeInv, NEW o \in Runner, UNCHANGED pc,
         \A q \in Runner \ {o} : /\ opc'[q] = opc[q] /\ bench'[q] = bench[q]
                                 /\ record'[q] = record[q]
                                 /\ observations'[q] = observations[q],
         Shapes', Placed', Typed(o)'
  PROVE  TypeInv'
<1>1. ASSUME NEW q \in Runner \ {o} PROVE Typed(q)'
  <2>1. Typed(q)
    BY DEF TypeInv
  <2> QED
    BY <2>1 DEF Typed
<1> QED
  BY <1>1 DEF TypeInv

(* A step of an observer that only moves on. *)
LEMMA TypeMoveStep ==
  ASSUME TypeInv, NEW o \in Runner, UNCHANGED <<suiteVars, record, observations>>,
         bench' = bench \/ bench' = [bench EXCEPT ![o] = "running"],
         benchmark' \in Directory,
         NEW label \in Label \ (Part \cup {"idle", "suite_running", "write", "done"}),
         Goto(o, label), opc[o] \notin Over \/ opc[o] = "idle",
         opc[o] \in {"suite_running", "write"} => label = "died",
         label = "suite" => record[o].governed # "measured"
  PROVE  TypeInv'
<1>1. /\ opc'[o] = label
      /\ \A q \in Runner \ {o} : opc'[q] = opc[q] /\ bench'[q] = bench[q]
      /\ bench'[o] \in {"none", "running", "ended"}
      /\ DOMAIN opc' = Runner /\ DOMAIN bench' = Runner
  BY DEF Goto, TypeInv, Shapes, Placed
<1>2. Shapes' /\ Placed'
  BY <1>1 DEF Goto, TypeInv, Shapes, Placed, Directory
<1>3. Typed(o)'
  BY <1>1 DEF TypeInv, Typed, suiteVars, Over, Part, Recorded, Label
<1> QED
  BY <1>1, <1>2, <1>3, TypeStep DEF suiteVars

LEMMA TypeInspectStep ==
  ASSUME TypeInv, NEW o \in Runner, Inspect(o)
  PROVE  TypeInv'
<1>1. PICK kind \in {"no output", "incomplete", "measured"},
           label \in {"suite", "final"} :
         /\ record' = [record EXCEPT ![o].governed = kind]
         /\ opc' = [opc EXCEPT ![o] = label]
         /\ label = "suite" => kind # "measured"
  BY DEF Inspect, Governed, Goto
<1>2. opc[o] = "benchmarking" /\ UNCHANGED <<suiteVars, bench, benchmark, observations>>
  BY DEF Inspect
<1>3. /\ opc'[o] = label /\ record'[o].governed = kind
      /\ record'[o].sources = record[o].sources /\ DOMAIN record'[o] = Field
      /\ \A q \in Runner \ {o} : opc'[q] = opc[q] /\ record'[q] = record[q]
  BY <1>1 DEF TypeInv, Shapes, Field
<1>4. Shapes' /\ Placed'
  <2>1. Shapes'
    BY <1>1, <1>2, <1>3 DEF TypeInv, Shapes
  <2>2. label \in Label
    BY <1>1 DEF Label, Part
  <2> QED
    BY <1>1, <1>2, <2>1, <2>2 DEF TypeInv, Placed
<1>5. Typed(o)'
  BY <1>1, <1>2, <1>3 DEF TypeInv, Typed, suiteVars, Recorded
<1> QED
  BY <1>2, <1>3, <1>4, <1>5, TypeStep DEF suiteVars

LEMMA TypeReadStep ==
  ASSUME TypeInv, NEW o \in Runner, NEW p \in Part, ReadPart(o, p)
  PROVE  TypeInv'
<1>1. opc[o] = p /\ UNCHANGED <<suiteVars, bench, benchmark, observations>>
  BY DEF ReadPart
<1>2. CASE Goto(o, "died") /\ UNCHANGED record
  BY <1>1, <1>2, TypeMoveStep DEF TypeInv, Placed, Label, Over, Part
<1>3. CASE /\ benchmark # NoFile /\ Whole(benchmark[p])
           /\ record' = [record EXCEPT ![o].sources[p] = benchmark[p]]
           /\ opc' = [opc EXCEPT ![o] = After[p]]
  <2>1. benchmark[p] \in Runner /\ benchmark[p] # NoValue
    BY <1>3 DEF TypeInv, Placed, Directory, Whole, NoFile
  <2>2. /\ opc'[o] = After[p] /\ record'[o].governed = record[o].governed
        /\ record'[o].sources = [record[o].sources EXCEPT ![p] = benchmark[p]]
        /\ DOMAIN record'[o] = Field
        /\ \A q \in Runner \ {o} : opc'[q] = opc[q] /\ record'[q] = record[q]
    BY <1>3 DEF TypeInv, Shapes, Field
  <2>3. \/ p = "final" /\ After[p] = "blocked"
        \/ p = "blocked" /\ After[p] = "result"
        \/ p = "result" /\ After[p] = "suite"
    BY DEF Part, After
  <2>4. Shapes' /\ Placed'
    BY <1>1, <1>3, <2>2, <2>3 DEF TypeInv, Shapes, Placed, Label, Part
  <2>5. Typed(o)'
    <3>1. /\ record'[o].sources \in [Part -> Runner \cup {NoValue}]
          /\ record'[o].sources[p] # NoValue
          /\ \A r \in Part \ {p} : record'[o].sources[r] = record[o].sources[r]
      <4>1. record[o].sources \in [Part -> Runner \cup {NoValue}]
        BY DEF TypeInv, Typed
      <4>2. record'[o].sources = [record[o].sources EXCEPT ![p] = benchmark[p]]
        BY <2>2
      <4> QED
        BY <2>1, <4>1, <4>2
    <3>2. /\ opc[o] = p /\ pc'[o] = pc[o] /\ observations'[o] = observations[o]
          /\ record'[o].governed = record[o].governed
      BY <1>1, <2>2 DEF suiteVars
    <3>3. /\ pc[o] = "idle" /\ ~Whole(observations[o])
          /\ record[o].governed \in {"unavailable", "no output", "incomplete", "measured"}
          /\ p \in {"blocked", "result"} => record[o].sources["final"] # NoValue
          /\ p = "result" => record[o].sources["blocked"] # NoValue
      BY <3>2, <2>3 DEF TypeInv, Typed
    <3> QED
      BY <2>2, <2>3, <3>1, <3>2, <3>3 DEF Typed, Recorded, Part
  <2> QED
    BY <1>1, <2>2, <2>4, <2>5, TypeStep DEF suiteVars
<1> QED
  BY <1>2, <1>3 DEF ReadPart, Goto

LEMMA TypeCollectStep ==
  ASSUME TypeInv, NEW o \in Runner, Collect(o)
  PROVE  TypeInv'
<1> DEFINE found == files["summary"]
<1>1. opc[o] = "suite_running" /\ UNCHANGED <<suiteVars, bench, benchmark, observations>>
  BY DEF Collect
<1>2. CASE Goto(o, "died") /\ UNCHANGED record
  BY <1>1, <1>2, TypeMoveStep DEF TypeInv, Placed, Label, Over, Part
<1>3. CASE /\ record' = [record EXCEPT ![o].suiteExit = exit[o],
                                       ![o].outcomes = found]
           /\ opc' = [opc EXCEPT ![o] = "write"]
  <2> HIDE DEF found
  <2>1. /\ opc'[o] = "write" /\ record'[o].governed = record[o].governed
        /\ record'[o].sources = record[o].sources /\ DOMAIN record'[o] = Field
        /\ \A q \in Runner \ {o} : opc'[q] = opc[q] /\ record'[q] = record[q]
    BY <1>3 DEF TypeInv, Shapes, Field
  <2>2. Shapes' /\ Placed'
    BY <1>1, <1>3, <2>1 DEF TypeInv, Shapes, Placed, Label
  <2>3. Typed(o)'
    BY <1>1, <2>1 DEF TypeInv, Typed, suiteVars, Recorded
  <2> QED
    BY <1>1, <2>1, <2>2, <2>3, TypeStep DEF suiteVars
<1> QED
  BY <1>2, <1>3 DEF Collect, Goto

LEMMA TypeWriteStep ==
  ASSUME TypeInv, NEW o \in Runner, Write(o)
  PROVE  TypeInv'
<1>1. /\ opc[o] = "write" /\ opc' = [opc EXCEPT ![o] = "done"]
      /\ observations' = [observations EXCEPT ![o] = record[o]]
      /\ UNCHANGED <<suiteVars, bench, benchmark, record>>
  BY DEF Write, Goto
<1>2. /\ opc'[o] = "done" /\ observations'[o] = record[o]
      /\ \A q \in Runner \ {o} : /\ opc'[q] = opc[q]
                                 /\ observations'[q] = observations[q]
  BY <1>1 DEF TypeInv, Shapes
<1>3. Shapes' /\ Placed'
  BY <1>1 DEF TypeInv, Shapes, Placed, Label, Over
<1>4. Typed(o)'
  BY <1>1, <1>2 DEF TypeInv, Typed, suiteVars, Recorded
<1> QED
  BY <1>1, <1>2, <1>3, <1>4, TypeStep DEF suiteVars

LEMMA TypeCrashStep ==
  ASSUME TypeInv, NEW o \in Runner, Crash(o)
  PROVE  TypeInv'
<1>1. /\ opc[o] \notin Over /\ opc' = [opc EXCEPT ![o] = "died"]
      /\ UNCHANGED <<suiteVars, bench, record>>
      /\ \/ UNCHANGED observations
         \/ observations' = [observations EXCEPT ![o] = Torn]
  BY DEF Crash, Goto
<1>2. benchmark' \in Directory
  <2>1. CASE UNCHANGED benchmark
    BY <2>1 DEF TypeInv, Placed
  <2>2. ASSUME benchmark # NoFile, NEW gone \in SUBSET Part,
               benchmark' = [p \in Part |-> IF p \in gone THEN NoFile ELSE benchmark[p]]
        PROVE  benchmark' \in Directory
    BY <2>2 DEF TypeInv, Placed, Directory
  <2> QED
    BY <2>1, <2>2 DEF Crash
<1>3. /\ opc'[o] = "died"
      /\ observations'[o] = observations[o] \/ observations'[o] = Torn
      /\ \A q \in Runner \ {o} : /\ opc'[q] = opc[q]
                                 /\ observations'[q] = observations[q]
  BY <1>1 DEF TypeInv, Shapes
<1>4. Shapes' /\ Placed'
  BY <1>1, <1>2, <1>3 DEF TypeInv, Shapes, Placed, Label, Over, Directory
<1>5. Typed(o)'
  BY <1>1, <1>3 DEF TypeInv, Typed, suiteVars, Recorded, Whole, Part, Over
<1> QED
  BY <1>1, <1>3, <1>4, <1>5, TypeStep DEF suiteVars

LEMMA TypeBenchmarkStep ==
  ASSUME TypeInv, NEW o \in Runner, UNCHANGED <<suiteVars, opc, record, observations>>,
         \/ BenchmarkMakesDirectory(o) \/ BenchmarkEnds(o)
         \/ \E p \in Part : BenchmarkWrites(o, p) \/ BenchmarkTears(o, p)
  PROVE  TypeInv'
<1>1. bench' = bench \/ bench' = [bench EXCEPT ![o] = "ended"]
  BY DEF BenchmarkMakesDirectory, BenchmarkEnds, BenchmarkWrites, BenchmarkTears
<1>2. \/ UNCHANGED benchmark
      \/ benchmark' = [p \in Part |-> NoFile]
      \/ /\ benchmark # NoFile
         /\ \E p \in Part, file \in {o, Torn} :
              benchmark' = [benchmark EXCEPT ![p] = file]
  BY DEF BenchmarkMakesDirectory, BenchmarkEnds, BenchmarkWrites, BenchmarkTears
<1>3. benchmark' \in Directory
  BY <1>2 DEF TypeInv, Placed, Directory
<1>4. Shapes' /\ Placed' /\ \A q \in Runner \ {o} : bench'[q] = bench[q]
  BY <1>1, <1>3 DEF TypeInv, Shapes, Placed, Directory
<1>5. Typed(o)'
  BY DEF TypeInv, Typed, suiteVars
<1> QED
  BY <1>4, <1>5, TypeStep DEF suiteVars

(* A run that has not been started is only started by StartSuite.           *)
LEMMA OnlyStartStarts ==
  ASSUME DOMAIN pc = Runner, SuiteSteps, NEW q \in Runner, pc[q] = "idle"
  PROVE  pc'[q] = "idle"
<1>1. ASSUME NEW r \in Runner,
             \/ Suite!List(r) \/ Suite!WriteSummary(r)
             \/ Suite!Interrupt(r) \/ Suite!InterruptWriting(r)
             \/ \E d \in 1..NDirs : \/ Suite!Read(r, d) \/ Suite!Judge(r, d)
                                    \/ Suite!WriteResult(r, d)
      PROVE  pc[r] # "idle" /\ (UNCHANGED pc \/ \E label : pc' = [pc EXCEPT ![r] = label])
  BY <1>1 DEF Suite!List, Suite!Read, Suite!Judge, Suite!WriteResult,
     Suite!WriteSummary, Suite!Interrupt, Suite!InterruptWriting, Suite!AllRun,
     Suite!Goto, Suite!Ends
<1>2. ASSUME NEW d \in 1..NDirs, Suite!EditScenario(d) PROVE UNCHANGED pc
  BY <1>2 DEF Suite!EditScenario
<1> QED
  BY <1>1, <1>2 DEF SuiteSteps

(* An observer is where its record says it is, and only its own suite runs  *)
(* for it, whatever any process does.                                       *)
THEOREM ObservationTypeCorrect == Spec => []TypeOK
<1> DEFINE Located == pc \in [Runner -> {"idle", "list", "filter", "read", "judge",
                                         "ended"}]
<1>1. Spec => []Located
  <2>1. Theorems!Spec => []Theorems!TypeOK
    BY SuiteAssumption, FilesAssumption, Theorems!ScenarioTypeCorrect
  <2>2. Theorems!TypeOK => Located
    BY DEF Theorems!TypeOK
  <2> QED
    BY <2>1, <2>2, SuiteOfAnObservation, PTL
<1>2. Located /\ TypeInv /\ [Next]_vars => TypeInv'
  <2> SUFFICES ASSUME Located, TypeInv, [Next]_vars PROVE TypeInv'
    OBVIOUS
  <2>1. ASSUME NEW o \in Runner,
               Begin(o) \/ Clear(o) \/ Remove(o) \/ StartBenchmark(o)
        PROVE  TypeInv'
    <3>1. PICK label \in {"refused", "suite", "clear", "remove", "benchmark", "died",
                          "benchmarking"} :
             Goto(o, label) /\ (label = "suite" => opc[o] = "idle")
      BY <2>1 DEF Begin, Clear, Remove, StartBenchmark
    <3>2. /\ opc[o] \in {"idle", "clear", "remove", "benchmark"}
          /\ UNCHANGED <<suiteVars, record, observations>>
          /\ bench' = bench \/ bench' = [bench EXCEPT ![o] = "running"]
          /\ benchmark' = benchmark \/ benchmark' = NoFile
      BY <2>1 DEF Begin, Clear, Remove, StartBenchmark
    <3>3. /\ benchmark' \in Directory
          /\ label = "suite" => record[o].governed # "measured"
      BY <3>1, <3>2 DEF TypeInv, Typed, Placed, Directory
    <3> QED
      BY <3>1, <3>2, <3>3, TypeMoveStep DEF Label, Over, Part
  <2>2. ASSUME NEW o \in Runner, StartSuite(o) PROVE TypeInv'
    <3>1. /\ opc[o] = "suite" /\ opc' = [opc EXCEPT ![o] = "suite_running"]
          /\ pc' = [pc EXCEPT ![o] = "list"]
          /\ UNCHANGED <<bench, benchmark, record, observations>>
      BY <2>2 DEF StartSuite, Goto, Suite!Start, Suite!Goto
    <3>2. /\ opc'[o] = "suite_running"
          /\ \A q \in Runner \ {o} : opc'[q] = opc[q] /\ pc'[q] = pc[q]
      BY <3>1 DEF TypeInv, Shapes
    <3>3. Shapes' /\ Placed'
      BY <3>1 DEF TypeInv, Shapes, Placed, Label
    <3>4. ASSUME NEW q \in Runner PROVE Typed(q)'
      BY <3>1, <3>2 DEF TypeInv, Typed, Recorded
    <3> QED
      BY <3>3, <3>4 DEF TypeInv
  <2>3. ASSUME NEW o \in Runner,
               \/ Inspect(o) \/ Collect(o) \/ Write(o) \/ Crash(o)
               \/ \E p \in Part : ReadPart(o, p)
        PROVE  TypeInv'
    BY <2>3, TypeInspectStep, TypeReadStep, TypeCollectStep, TypeWriteStep, TypeCrashStep
  <2>4. ASSUME NEW o \in Runner,
               \/ BenchmarkMakesDirectory(o) \/ BenchmarkEnds(o)
               \/ \E p \in Part : BenchmarkWrites(o, p) \/ BenchmarkTears(o, p)
        PROVE  TypeInv'
    <3>1. UNCHANGED <<suiteVars, opc, record, observations>>
      BY <2>4 DEF BenchmarkMakesDirectory, BenchmarkEnds, BenchmarkWrites, BenchmarkTears
    <3> QED
      BY <2>4, <3>1, TypeBenchmarkStep
  <2>5. CASE SuiteSteps
    <3>1. UNCHANGED ownVars
      BY <2>5 DEF SuiteSteps
    <3>2. \A q \in Runner : pc[q] = "idle" => pc'[q] = "idle"
      BY <2>5, OnlyStartStarts
    <3>3. ASSUME NEW q \in Runner PROVE Typed(q)'
      BY <3>1, <3>2 DEF TypeInv, Typed, ownVars
    <3> QED
      BY <3>1, <3>3 DEF TypeInv, Shapes, Placed, ownVars
  <2>6. CASE UNCHANGED vars
    BY <2>6 DEF vars, suiteVars, ownVars, TypeInv, Shapes, Placed, Typed
  <2> QED
    BY <2>1, <2>2, <2>3, <2>4, <2>5, <2>6 DEF Next
<1> QED
  BY <1>1, <1>2, TypeInit, TypeInvType, PTL DEF Spec

-----------------------------------------------------------------------------
(* The governed condition.  One observation at a time is alive, its         *)
(* benchmark included, and the directory the benchmark writes to has        *)
(* nothing in it that is older than the benchmark.                          *)

Unstarted == {"idle", "clear", "remove", "benchmark"}

Live(o) == opc[o] \notin Over \/ bench[o] = "running"

OneLive == \A o, q \in Runner : Live(o) /\ Live(q) => o = q

(* Before it is started there is no benchmark, while it is read none runs.  *)
BenchmarkInTime(o) ==
    /\ opc[o] \in Unstarted => bench[o] = "none"
    /\ opc[o] \in Part => bench[o] # "running"

(* Once the directory is cleared, nothing in it is another observer's.      *)
OwnDirectory(o) ==
    /\ opc[o] = "benchmark" => benchmark = NoFile
    /\ opc[o] \in {"benchmarking"} \cup Part =>
         benchmark = NoFile \/ \A p \in Part : benchmark[p] \in {o, NoFile, Torn}

(* What has been read, in the order of After, and what is made of it. *)
OwnSources(o) ==
    /\ opc[o] = "idle" => record[o].governed = "unavailable"
    /\ opc[o] = "blocked" => record[o].sources["final"] = o
    /\ opc[o] = "result"  => /\ record[o].sources["final"] = o
                             /\ record[o].sources["blocked"] = o
    /\ opc[o] \in Recorded /\ record[o].governed = "measured" =>
         \A p \in Part : record[o].sources[p] = o
    /\ Whole(observations[o]) /\ observations[o].governed = "measured" =>
         \A p \in Part : observations[o].sources[p] = o

Owns(o) == BenchmarkInTime(o) /\ OwnDirectory(o) /\ OwnSources(o)

GovernedInv == Shapes /\ OneLive /\ \A o \in Runner : Owns(o)

LEMMA GovernedInit == Init => GovernedInv
<1> SUFFICES ASSUME Init PROVE GovernedInv
  OBVIOUS
<1>1. Shapes
  BY DEF Init, Shapes, Field, NothingRead, NoFile
<1>2. \A o \in Runner : /\ opc[o] = "idle" /\ bench[o] = "none"
                        /\ record[o].governed = "unavailable"
                        /\ observations[o] = NoFile
  BY DEF Init
<1>3. OneLive /\ \A o \in Runner : Owns(o)
  BY <1>2 DEF OneLive, Live, Over, Owns, BenchmarkInTime, OwnDirectory, OwnSources,
              Part, Recorded, Whole
<1> QED
  BY <1>1, <1>3 DEF GovernedInv

(* A step of the only observation that is alive keeps the invariant when it *)
(* keeps that observation's part of it.                                     *)
LEMMA OwnStep ==
  ASSUME GovernedInv, NEW o \in Runner,
         Live(o) \/ \A q \in Runner : ~Live(q),
         \A q \in Runner \ {o} : /\ opc'[q] = opc[q] /\ bench'[q] = bench[q]
                                 /\ record'[q] = record[q]
                                 /\ observations'[q] = observations[q],
         Shapes', Owns(o)'
  PROVE  GovernedInv'
<1>1. \A q \in Runner \ {o} : ~Live(q) /\ ~Live(q)'
  BY DEF GovernedInv, OneLive, Live
<1>2. OneLive'
  BY <1>1 DEF OneLive
<1>3. ASSUME NEW q \in Runner \ {o} PROVE Owns(q)'
  <2>1. opc'[q] \in Over /\ Owns(q)
    BY <1>1 DEF Live, GovernedInv
  <2> QED
    BY <2>1 DEF Owns, BenchmarkInTime, OwnDirectory, OwnSources, Over, Part,
                Recorded, Unstarted
<1> QED
  BY <1>2, <1>3 DEF GovernedInv

(* A step of an observer that moves on to a label and changes, besides,     *)
(* neither the record nor what is on disk.                                  *)
LEMMA MoveStep ==
  ASSUME GovernedInv, NEW o \in Runner, NEW label, Goto(o, label),
         Live(o) \/ \A q \in Runner : ~Live(q),
         UNCHANGED <<bench, benchmark, record, observations>>,
         Owns(o)'
  PROVE  GovernedInv'
<1>1. opc' = [opc EXCEPT ![o] = label] /\ Shapes
  BY DEF Goto, GovernedInv
<1>2. Shapes'
  BY <1>1 DEF Shapes
<1>3. \A q \in Runner \ {o} : opc'[q] = opc[q]
  BY <1>1 DEF Shapes
<1> QED
  BY <1>2, <1>3, OwnStep

LEMMA BeginStep ==
  ASSUME GovernedInv, Serial, NEW o \in Runner, Begin(o)
  PROVE  GovernedInv'
<1>1. PICK label \in {"refused", "suite", "clear"} : Goto(o, label)
  BY DEF Begin
<1>2. /\ opc[o] = "idle" /\ \A q \in Runner : ~Live(q)
      /\ UNCHANGED <<bench, benchmark, record, observations>>
  BY DEF Begin, Quiet, Live
<1>3. opc'[o] = label
  BY <1>1 DEF Goto, GovernedInv, Shapes
<1>4. Owns(o)'
  BY <1>2, <1>3 DEF GovernedInv, Owns, BenchmarkInTime, OwnDirectory, OwnSources,
                    Unstarted, Part, Recorded
<1> QED
  BY <1>1, <1>2, <1>4, MoveStep

LEMMA ClearStep ==
  ASSUME GovernedInv, NEW o \in Runner, Clear(o)
  PROVE  GovernedInv'
<1> DEFINE label == IF MustRemove THEN "remove" ELSE "benchmark"
<1>1. /\ opc[o] = "clear" /\ Goto(o, label)
      /\ UNCHANGED <<bench, benchmark, record, observations>>
  BY DEF Clear
<1>2. opc'[o] = label
  BY <1>1 DEF Goto, GovernedInv, Shapes
<1>3. Live(o)
  BY <1>1 DEF Live, Over
<1>4. Owns(o)'
  BY <1>1, <1>2 DEF GovernedInv, Owns, BenchmarkInTime, OwnDirectory, OwnSources,
                    Unstarted, Part, Recorded, MustRemove
<1> HIDE DEF label
<1> QED
  BY <1>1, <1>3, <1>4, MoveStep

LEMMA RemoveStep ==
  ASSUME GovernedInv, NEW o \in Runner, Remove(o)
  PROVE  GovernedInv'
<1> DEFINE label == IF benchmark = NoFile THEN "died" ELSE "benchmark"
<1>1. /\ opc[o] = "remove" /\ opc' = [opc EXCEPT ![o] = label]
      /\ benchmark' = NoFile
      /\ UNCHANGED <<bench, record, observations>>
  BY DEF Remove, Goto
<1>2. opc'[o] = label /\ Shapes'
  BY <1>1 DEF GovernedInv, Shapes
<1>3. Live(o)
  BY <1>1 DEF Live, Over
<1>4. Owns(o)'
  BY <1>1, <1>2 DEF GovernedInv, Owns, BenchmarkInTime, OwnDirectory, OwnSources,
                    Unstarted, Part, Recorded
<1>5. \A q \in Runner \ {o} : opc'[q] = opc[q]
  BY <1>1 DEF GovernedInv, Shapes
<1> QED
  BY <1>1, <1>2, <1>3, <1>4, <1>5, OwnStep

LEMMA StartBenchmarkStep ==
  ASSUME GovernedInv, NEW o \in Runner, StartBenchmark(o)
  PROVE  GovernedInv'
<1>1. /\ opc[o] = "benchmark" /\ opc' = [opc EXCEPT ![o] = "benchmarking"]
      /\ bench' = [bench EXCEPT ![o] = "running"]
      /\ UNCHANGED <<benchmark, record, observations>>
  BY DEF StartBenchmark, Goto
<1>2. opc'[o] = "benchmarking" /\ Shapes'
  BY <1>1 DEF GovernedInv, Shapes
<1>3. Live(o)
  BY <1>1 DEF Live, Over
<1>4. Owns(o)'
  BY <1>1, <1>2 DEF GovernedInv, Owns, BenchmarkInTime, OwnDirectory, OwnSources,
                    Unstarted, Part, Recorded
<1>5. \A q \in Runner \ {o} : opc'[q] = opc[q] /\ bench'[q] = bench[q]
  BY <1>1 DEF GovernedInv, Shapes
<1> QED
  BY <1>1, <1>2, <1>3, <1>4, <1>5, OwnStep

LEMMA InspectStep ==
  ASSUME GovernedInv, NEW o \in Runner, Inspect(o)
  PROVE  GovernedInv'
<1>1. PICK kind \in {"no output", "incomplete", "measured"},
           label \in {"suite", "final"} :
         /\ record' = [record EXCEPT ![o].governed = kind]
         /\ opc' = [opc EXCEPT ![o] = label]
         /\ label = "suite" => kind # "measured"
  BY DEF Inspect, Governed, Goto
<1>2. /\ opc[o] = "benchmarking" /\ bench[o] = "ended"
      /\ UNCHANGED <<bench, benchmark, observations>>
  BY DEF Inspect
<1>3. /\ opc'[o] = label /\ record'[o].governed = kind
      /\ record'[o].sources = record[o].sources
  BY <1>1 DEF GovernedInv, Shapes, Field
<1>4. \A q \in Runner \ {o} : opc'[q] = opc[q] /\ record'[q] = record[q]
  BY <1>1 DEF GovernedInv, Shapes
<1>5. Shapes'
  <2>1. DOMAIN record'[o] = Field
    BY <1>1 DEF GovernedInv, Shapes
  <2> QED
    BY <1>1, <1>2, <1>3, <1>4, <2>1 DEF GovernedInv, Shapes
<1>6. Live(o)
  BY <1>2 DEF Live, Over
<1>7. Owns(o)'
  BY <1>1, <1>2, <1>3 DEF GovernedInv, Owns, BenchmarkInTime, OwnDirectory,
                          OwnSources, Unstarted, Part, Recorded
<1> QED
  BY <1>2, <1>4, <1>5, <1>6, <1>7, OwnStep

LEMMA ReadPartStep ==
  ASSUME GovernedInv, NEW o \in Runner, NEW p \in Part, ReadPart(o, p)
  PROVE  GovernedInv'
<1>1. /\ opc[o] = p /\ UNCHANGED <<bench, benchmark, observations>>
  BY DEF ReadPart
<1>2. Live(o)
  BY <1>1 DEF Live, Over, Part
<1>3. CASE /\ benchmark # NoFile /\ Whole(benchmark[p])
           /\ record' = [record EXCEPT ![o].sources[p] = benchmark[p]]
           /\ opc' = [opc EXCEPT ![o] = After[p]]
  <2>1. benchmark[p] = o
    BY <1>1, <1>3 DEF GovernedInv, Owns, OwnDirectory, Whole
  <2>2. /\ opc'[o] = After[p]
        /\ record'[o].sources[p] = o
        /\ \A r \in Part \ {p} : record'[o].sources[r] = record[o].sources[r]
        /\ record'[o].governed = record[o].governed
    BY <1>3, <2>1 DEF GovernedInv, Shapes, Field
  <2>3. \A q \in Runner \ {o} : opc'[q] = opc[q] /\ record'[q] = record[q]
    BY <1>3 DEF GovernedInv, Shapes
  <2>4. Shapes'
    <3>1. DOMAIN record'[o] = Field /\ DOMAIN record'[o].sources = Part
      BY <1>3 DEF GovernedInv, Shapes, Field
    <3> QED
      BY <1>1, <1>3, <2>3, <3>1 DEF GovernedInv, Shapes
  <2>5. \/ p = "final" /\ After[p] = "blocked"
        \/ p = "blocked" /\ After[p] = "result"
        \/ p = "result" /\ After[p] = "suite"
    BY DEF Part, After
  <2>6. Owns(o)'
    <3>1. BenchmarkInTime(o)' /\ OwnDirectory(o)'
      BY <1>1, <2>2, <2>5 DEF GovernedInv, Owns, BenchmarkInTime, OwnDirectory,
                              Unstarted, Part
    <3>2. OwnSources(o)'
      BY <1>1, <2>2, <2>5 DEF GovernedInv, Owns, OwnSources, Part, Recorded
    <3> QED
      BY <3>1, <3>2 DEF Owns
  <2> QED
    BY <1>1, <1>2, <2>3, <2>4, <2>6, OwnStep
<1>4. CASE Goto(o, "died") /\ UNCHANGED record
  <2>1. opc'[o] = "died"
    BY <1>4 DEF Goto, GovernedInv, Shapes
  <2>2. Owns(o)'
    BY <1>1, <1>4, <2>1
       DEF GovernedInv, Owns, BenchmarkInTime, OwnDirectory, OwnSources,
           Unstarted, Part, Recorded
  <2> QED
    BY <1>1, <1>2, <1>4, <2>2, MoveStep
<1> QED
  BY <1>3, <1>4 DEF ReadPart, Goto

LEMMA StartSuiteStep ==
  ASSUME GovernedInv, NEW o \in Runner, StartSuite(o)
  PROVE  GovernedInv'
<1>1. /\ opc[o] = "suite" /\ Goto(o, "suite_running")
      /\ UNCHANGED <<bench, benchmark, record, observations>>
  BY DEF StartSuite
<1>2. opc'[o] = "suite_running"
  BY <1>1 DEF Goto, GovernedInv, Shapes
<1>3. Live(o)
  BY <1>1 DEF Live, Over
<1>4. Owns(o)'
  BY <1>1, <1>2 DEF GovernedInv, Owns, BenchmarkInTime, OwnDirectory, OwnSources,
                    Unstarted, Part, Recorded
<1> QED
  BY <1>1, <1>3, <1>4, MoveStep

LEMMA CollectStep ==
  ASSUME GovernedInv, NEW o \in Runner, Collect(o)
  PROVE  GovernedInv'
<1> DEFINE found == files["summary"]
<1>1. /\ opc[o] = "suite_running"
      /\ UNCHANGED <<bench, benchmark, observations>>
  BY DEF Collect
<1>2. Live(o)
  BY <1>1 DEF Live, Over
<1>3. CASE Goto(o, "died") /\ UNCHANGED record
  <2>1. opc'[o] = "died"
    BY <1>3 DEF Goto, GovernedInv, Shapes
  <2>2. Owns(o)'
    BY <1>1, <1>3, <2>1
       DEF GovernedInv, Owns, BenchmarkInTime, OwnDirectory, OwnSources,
           Unstarted, Part, Recorded
  <2> QED
    BY <1>1, <1>2, <1>3, <2>2, MoveStep
<1>4. CASE /\ record' = [record EXCEPT ![o].suiteExit = exit[o],
                                       ![o].outcomes = found]
           /\ opc' = [opc EXCEPT ![o] = "write"]
  <2> HIDE DEF found
  <2>1. /\ opc'[o] = "write" /\ record'[o].governed = record[o].governed
        /\ record'[o].sources = record[o].sources
        /\ DOMAIN record'[o] = Field
    BY <1>4 DEF GovernedInv, Shapes, Field
  <2>2. \A q \in Runner \ {o} : opc'[q] = opc[q] /\ record'[q] = record[q]
    BY <1>4 DEF GovernedInv, Shapes
  <2>3. Shapes'
    BY <1>1, <1>4, <2>1, <2>2 DEF GovernedInv, Shapes
  <2>4. Owns(o)'
    BY <1>1, <2>1
       DEF GovernedInv, Owns, BenchmarkInTime, OwnDirectory, OwnSources,
           Unstarted, Part, Recorded
  <2> QED
    BY <1>1, <1>2, <2>2, <2>3, <2>4, OwnStep
<1> QED
  BY <1>3, <1>4 DEF Collect, Goto

LEMMA WriteStep ==
  ASSUME GovernedInv, NEW o \in Runner, Write(o)
  PROVE  GovernedInv'
<1>1. /\ opc[o] = "write" /\ opc' = [opc EXCEPT ![o] = "done"]
      /\ observations' = [observations EXCEPT ![o] = record[o]]
      /\ UNCHANGED <<bench, benchmark, record>>
  BY DEF Write, Goto
<1>2. /\ opc'[o] = "done" /\ observations'[o] = record[o] /\ Shapes'
      /\ \A q \in Runner \ {o} : /\ opc'[q] = opc[q]
                                 /\ observations'[q] = observations[q]
  BY <1>1 DEF GovernedInv, Shapes
<1>3. Live(o)
  BY <1>1 DEF Live, Over
<1>4. Owns(o)'
  BY <1>1, <1>2 DEF GovernedInv, Owns, BenchmarkInTime, OwnDirectory, OwnSources,
                    Unstarted, Part, Recorded
<1> QED
  BY <1>1, <1>2, <1>3, <1>4, OwnStep

LEMMA CrashStep ==
  ASSUME GovernedInv, NEW o \in Runner, Crash(o)
  PROVE  GovernedInv'
<1>1. /\ opc[o] \notin Over /\ opc' = [opc EXCEPT ![o] = "died"]
      /\ UNCHANGED <<bench, record>>
      /\ benchmark' = benchmark \/ DOMAIN benchmark' = Part
      /\ \/ UNCHANGED observations
         \/ observations' = [observations EXCEPT ![o] = Torn]
  BY DEF Crash, Goto
<1>2. opc'[o] = "died" /\ Shapes'
  BY <1>1 DEF GovernedInv, Shapes
<1>3. \A q \in Runner \ {o} : opc'[q] = opc[q] /\ observations'[q] = observations[q]
  BY <1>1 DEF GovernedInv, Shapes
<1>4. observations'[o] = observations[o] \/ observations'[o] = Torn
  BY <1>1 DEF GovernedInv, Shapes
<1>5. Owns(o)'
  BY <1>1, <1>2, <1>4 DEF GovernedInv, Owns, BenchmarkInTime, OwnDirectory,
                          OwnSources, Unstarted, Part, Recorded, Whole
<1> QED
  BY <1>1, <1>2, <1>3, <1>5, OwnStep DEF Live

(* Of what a running benchmark writes, every part is its observer's.        *)
LEMMA BenchmarkStep ==
  ASSUME GovernedInv, NEW o \in Runner, bench[o] = "running",
         UNCHANGED <<opc, record, observations>>,
         bench' = bench \/ bench' = [bench EXCEPT ![o] = "ended"],
         \/ UNCHANGED benchmark
         \/ benchmark' = [p \in Part |-> NoFile]
         \/ /\ benchmark # NoFile
            /\ \E p \in Part, file \in {o, Torn} :
                 benchmark' = [benchmark EXCEPT ![p] = file]
  PROVE  GovernedInv'
<1>1. Live(o)
  BY DEF Live
<1>2. /\ bench'[o] \in {"running", "ended"}
      /\ \A q \in Runner \ {o} : bench'[q] = bench[q]
  BY DEF GovernedInv, Shapes
<1>3. Shapes'
  BY DEF GovernedInv, Shapes
<1>4. opc[o] \notin Unstarted /\ opc[o] \notin Part
  BY DEF GovernedInv, Owns, BenchmarkInTime
<1>5. OwnDirectory(o)'
  <2>1. CASE UNCHANGED benchmark
    BY <2>1 DEF GovernedInv, Owns, OwnDirectory
  <2>2. CASE benchmark' = [p \in Part |-> NoFile]
    BY <1>4, <2>2 DEF OwnDirectory, Unstarted
  <2>3. CASE /\ benchmark # NoFile
             /\ \E p \in Part, file \in {o, Torn} :
                  benchmark' = [benchmark EXCEPT ![p] = file]
    BY <1>4, <2>3 DEF GovernedInv, Shapes, Owns, OwnDirectory, Unstarted
  <2> QED
    BY <2>1, <2>2, <2>3
<1>6. BenchmarkInTime(o)' /\ OwnSources(o)'
  BY <1>4 DEF GovernedInv, Owns, BenchmarkInTime, OwnSources
<1>7. Owns(o)'
  BY <1>5, <1>6 DEF Owns
<1> QED
  BY <1>1, <1>2, <1>3, <1>7, OwnStep

(* The ledgers and the result a measured governed condition quotes are of   *)
(* the observer's own benchmark.                                            *)
THEOREM GovernedOwn == Spec => []GovernedIsOwn
<1>1. CASE ~Serial
  <2>1. ~Serial => GovernedIsOwn
    BY DEF GovernedIsOwn
  <2> QED
    BY <1>1, <2>1, PTL
<1>2. CASE Serial
  <2>1. GovernedInv /\ [Next]_vars => GovernedInv'
    <3> SUFFICES ASSUME GovernedInv, [Next]_vars PROVE GovernedInv'
      OBVIOUS
    <3>1. CASE UNCHANGED ownVars
      BY <3>1 DEF ownVars, GovernedInv, Shapes, OneLive, Live, Owns,
                  BenchmarkInTime, OwnDirectory, OwnSources
    <3>2. ASSUME NEW o \in Runner,
                 Begin(o) \/ Clear(o) \/ Remove(o) \/ StartBenchmark(o) \/ Inspect(o)
                 \/ StartSuite(o) \/ Collect(o) \/ Write(o) \/ Crash(o)
          PROVE  GovernedInv'
      BY <1>2, <3>2, BeginStep, ClearStep, RemoveStep, StartBenchmarkStep,
         InspectStep, StartSuiteStep, CollectStep, WriteStep, CrashStep
    <3>3. ASSUME NEW o \in Runner, NEW p \in Part, ReadPart(o, p)
          PROVE  GovernedInv'
      BY <3>3, ReadPartStep
    <3>4. ASSUME NEW o \in Runner, BenchmarkMakesDirectory(o) \/ BenchmarkEnds(o)
          PROVE  GovernedInv'
      BY <3>4, BenchmarkStep DEF BenchmarkMakesDirectory, BenchmarkEnds
    <3>5. ASSUME NEW o \in Runner, NEW p \in Part,
                 BenchmarkWrites(o, p) \/ BenchmarkTears(o, p)
          PROVE  GovernedInv'
      BY <3>5, BenchmarkStep DEF BenchmarkWrites, BenchmarkTears
    <3>6. CASE SuiteSteps
      BY <3>1, <3>6 DEF SuiteSteps
    <3>7. CASE UNCHANGED vars
      BY <3>1, <3>7 DEF vars
    <3> QED
      BY <3>2, <3>3, <3>4, <3>5, <3>6, <3>7 DEF Next
  <2>2. GovernedInv => GovernedIsOwn
    BY DEF GovernedInv, Owns, OwnSources, GovernedIsOwn
  <2> QED
    BY <2>1, <2>2, GovernedInit, PTL DEF Spec
<1> QED
  BY <1>1, <1>2

-----------------------------------------------------------------------------
(* The summary that is recorded with status 0 *)

(* A summary that says of run o that everything it listed has passed. *)
Clean(summary, o) ==
    /\ Whole(summary) /\ summary.by = o
    /\ summary.count = Cardinality(todo[o])
    /\ \A id \in DOMAIN summary.outcomes : summary.outcomes[id] = "pass"

(* A finite set of directories has a last one. *)
LEMMA LastExists ==
  ASSUME NEW T \in SUBSET (1..NDirs), T # {}
  PROVE  \E d \in T : Suite!IsLast(d, T)
<1> DEFINE Below == {pair \in Nat \X Nat : pair[1] < pair[2]}
           U == {NDirs - d : d \in T}
<1>1. IsWellFoundedOn(Below, Nat)
  BY NatLessThanWellFounded DEF OpToRel
<1>2. U \subseteq Nat
  <2> SUFFICES ASSUME NEW d \in T PROVE NDirs - d \in Nat
    OBVIOUS
  <2>1. d \in 1..NDirs
    OBVIOUS
  <2> QED
    BY <2>1, ObservationAssumption
<1>3. PICK x \in U : \A y \in U : <<y, x>> \notin Below
  <2>1. U # {}
    OBVIOUS
  <2> HIDE DEF Below, U
  <2> QED
    BY <1>1, <1>2, <2>1, WFMin
<1>4. ASSUME NEW y \in U PROVE x <= y
  <2>1. x \in Nat /\ y \in Nat
    BY <1>2
  <2>2. ~(y < x)
    BY <1>3, <2>1
  <2> QED
    BY <2>1, <2>2
<1>5. PICK d \in T : x = NDirs - d
  OBVIOUS
<1>6. ASSUME NEW e \in T PROVE e <= d
  <2>1. e \in 1..NDirs /\ d \in 1..NDirs
    OBVIOUS
  <2>2. NDirs - d <= NDirs - e
    BY <1>4, <1>5
  <2> QED
    BY <2>1, <2>2, ObservationAssumption
<1> QED
  BY <1>6 DEF Suite!IsLast

LEMMA SummaryIsClean ==
  ASSUME SuiteFacts, NEW r \in Runner,
         todo[r] \subseteq DOMAIN results[r], Suite!AllPassed(r)
  PROVE  Clean(Suite!Summary(r), r)
<1> DEFINE Ran == DOMAIN results[r]
           Named(id) == {d \in Ran : results[r][d].id = id}
           ids == {results[r][d].id : d \in Ran}
           outcomes == [id \in ids |->
               results[r][CHOOSE d \in Ran : Suite!IsLast(d, Named(id))].outcome]
<1>1. Suite!Summary(r) = [by |-> r, count |-> Cardinality(Ran), outcomes |-> outcomes]
  <2>1. Suite!Summary(r).outcomes = outcomes
    BY DEF Suite!Summary
  <2>2. Suite!Summary(r) = [by |-> r, count |-> Cardinality(Ran),
                            outcomes |-> Suite!Summary(r).outcomes]
    BY SameCount DEF Suite!Summary, Suite!ScenarioCount
  <2> HIDE DEF outcomes
  <2> QED
    BY <2>1, <2>2
<1>2. Ran = todo[r] /\ Ran \in SUBSET (1..NDirs)
  BY DEF SuiteFacts
<1>3. ASSUME NEW id \in ids PROVE outcomes[id] = "pass"
  <2>1. Named(id) # {} /\ Named(id) \in SUBSET (1..NDirs)
    BY <1>2
  <2>2. \E d \in Named(id) : Suite!IsLast(d, Named(id))
    <3> HIDE DEF Named
    <3> QED
      BY <2>1, LastExists
  <2>3. (CHOOSE d \in Ran : Suite!IsLast(d, Named(id))) \in Ran
    BY <2>2
  <2> QED
    BY <2>3 DEF Suite!AllPassed
<1>4. Cardinality(Ran) \in 0..NDirs
  <2>1. /\ IsFiniteSet(1..NDirs)
        /\ Cardinality(1..NDirs) = IF 1 > NDirs THEN 0 ELSE NDirs - 1 + 1
    BY FS_Interval, ObservationAssumption
  <2>2. IsFiniteSet(Ran) /\ Cardinality(Ran) <= Cardinality(1..NDirs)
    BY <1>2, <2>1, FS_Subset
  <2>3. Cardinality(Ran) \in Nat
    BY <2>2, FS_CardinalityType
  <2> QED
    BY <2>1, <2>2, <2>3, ObservationAssumption
<1>5. Suite!Summary(r) \in SummaryFile
  <2>1. ids \in SUBSET Id
    BY DEF SuiteFacts
  <2>2. outcomes \in [ids -> {"pass", "fail", "inconclusive"}]
    BY <1>3
  <2>3. outcomes \in UNION {[js -> {"pass", "fail", "inconclusive"}] : js \in SUBSET Id}
    <3> HIDE DEF outcomes, ids
    <3> QED
      BY <2>1, <2>2
  <2> HIDE DEF outcomes
  <2> QED
    BY <1>1, <1>4, <2>3 DEF SummaryFile
<1>6. Whole(Suite!Summary(r))
  BY <1>5, ObservationAssumption DEF Whole, NoFile
<1> HIDE DEF outcomes
<1>7. DOMAIN outcomes = ids
  BY DEF outcomes
<1> QED
  BY <1>1, <1>2, <1>3, <1>6, <1>7 DEF Clean

Active(o) == opc[o] \notin Over \/ pc[o] \notin {"idle", "ended"}

OneActive == \A o, q \in Runner : Active(o) /\ Active(q) => o = q

OwnShapes ==
    /\ DOMAIN opc = Runner /\ DOMAIN record = Runner /\ DOMAIN observations = Runner
    /\ "summary" \in DOMAIN files
    /\ \A o \in Runner : DOMAIN record[o] = Field

(* The clean summary is in the directory when its run has ended, then in    *)
(* memory, then in the observation.                                         *)
OwnSuite(o) ==
    /\ pc[o] # "idle" => opc[o] \in {"suite_running", "write", "done", "died"}
    /\ opc[o] \in {"write", "done"} => pc[o] = "ended"
    /\ opc[o] = "suite_running" /\ pc[o] = "ended" /\ exit[o] = 0
         => Clean(files["summary"], o)
    /\ opc[o] = "write" /\ record[o].suiteExit = 0 => Clean(record[o].outcomes, o)
    /\ Whole(observations[o]) => opc[o] = "done"
    /\ Whole(observations[o]) /\ observations[o].suiteExit = 0
         => Clean(observations[o].outcomes, o)

CleanInv == OwnShapes /\ OneActive /\ \A o \in Runner : OwnSuite(o)

LEMMA CleanInit == Init => CleanInv
<1> SUFFICES ASSUME Init PROVE CleanInv
  OBVIOUS
<1>1. OwnShapes
  BY DEF Init, Suite!Init, Suite!File, OwnShapes, Field
<1>2. \A o \in Runner : opc[o] = "idle" /\ pc[o] = "idle" /\ observations[o] = NoFile
  BY DEF Init, Suite!Init
<1>3. OneActive /\ \A o \in Runner : OwnSuite(o)
  BY <1>2 DEF OneActive, Active, Over, OwnSuite, Whole
<1> QED
  BY <1>1, <1>3 DEF CleanInv

(* A step of the only observation that is active. *)
LEMMA ActiveStep ==
  ASSUME CleanInv, NEW o \in Runner,
         Active(o) \/ \A q \in Runner : ~Active(q),
         \A q \in Runner \ {o} :
            /\ opc'[q] = opc[q] /\ pc'[q] = pc[q] /\ todo'[q] = todo[q]
            /\ observations'[q] = observations[q],
         OwnShapes', OwnSuite(o)'
  PROVE  CleanInv'
<1>1. \A q \in Runner \ {o} : ~Active(q) /\ ~Active(q)'
  BY DEF CleanInv, OneActive, Active
<1>2. OneActive'
  BY <1>1 DEF OneActive
<1>3. ASSUME NEW q \in Runner \ {o} PROVE OwnSuite(q)'
  <2>1. opc'[q] \in Over /\ OwnSuite(q)
    BY <1>1 DEF Active, CleanInv
  <2> QED
    BY <2>1 DEF OwnSuite, Over, Clean
<1> QED
  BY <1>2, <1>3 DEF CleanInv

(* A step of an observer before its suite is started. *)
LEMMA BeforeSuiteStep ==
  ASSUME CleanInv, NEW o \in Runner, UNCHANGED <<suiteVars, observations>>,
         Active(o) \/ \A q \in Runner : ~Active(q),
         opc[o] \notin {"suite_running", "write", "done", "died"},
         NEW label, label \notin {"suite_running", "write", "done"}, Goto(o, label),
         \/ UNCHANGED record
         \/ \E kind : record' = [record EXCEPT ![o].governed = kind]
         \/ \E p, source : record' = [record EXCEPT ![o].sources[p] = source]
  PROVE  CleanInv'
<1>1. /\ opc'[o] = label /\ \A q \in Runner \ {o} : opc'[q] = opc[q]
      /\ DOMAIN opc' = Runner
  BY DEF Goto, CleanInv, OwnShapes
<1>2. OwnShapes'
  BY <1>1 DEF CleanInv, OwnShapes, suiteVars
<1>3. OwnSuite(o)'
  BY <1>1 DEF CleanInv, OwnSuite, suiteVars
<1> QED
  BY <1>1, <1>2, <1>3, ActiveStep DEF suiteVars

LEMMA CleanStartStep ==
  ASSUME CleanInv, SuiteFacts, NEW o \in Runner, StartSuite(o)
  PROVE  CleanInv'
<1>1. /\ opc[o] = "suite" /\ opc' = [opc EXCEPT ![o] = "suite_running"]
      /\ pc[o] = "idle" /\ pc' = [pc EXCEPT ![o] = "list"]
      /\ UNCHANGED <<todo, exit, files, record, observations>>
  BY DEF StartSuite, Goto, Suite!Start, Suite!Goto
<1>2. /\ opc'[o] = "suite_running" /\ pc'[o] = "list"
      /\ \A q \in Runner \ {o} : opc'[q] = opc[q] /\ pc'[q] = pc[q]
  BY <1>1 DEF CleanInv, OwnShapes, SuiteFacts
<1>3. OwnShapes'
  BY <1>1 DEF CleanInv, OwnShapes
<1>4. OwnSuite(o)' /\ Active(o)
  BY <1>1, <1>2 DEF CleanInv, OwnSuite, Active, Over
<1> QED
  BY <1>1, <1>2, <1>3, <1>4, ActiveStep

LEMMA CleanCollectStep ==
  ASSUME CleanInv, NEW o \in Runner, Collect(o)
  PROVE  CleanInv'
<1> DEFINE found == files["summary"]
<1>1. /\ opc[o] = "suite_running" /\ pc[o] = "ended"
      /\ UNCHANGED <<suiteVars, observations>>
  BY DEF Collect
<1>2. Active(o) /\ ~Whole(observations[o])
  BY <1>1 DEF Active, Over, CleanInv, OwnSuite
<1>3. PICK label \in {"died", "write"} :
         /\ opc' = [opc EXCEPT ![o] = label]
         /\ label = "died" => UNCHANGED record
         /\ label = "write" =>
              record' = [record EXCEPT ![o].suiteExit = exit[o], ![o].outcomes = found]
  BY DEF Collect, Goto
<1>4. opc'[o] = label /\ \A q \in Runner \ {o} : opc'[q] = opc[q]
  BY <1>3 DEF CleanInv, OwnShapes, Field
<1>5. label = "write" => record'[o].suiteExit = exit[o] /\ record'[o].outcomes = found
  BY <1>3 DEF CleanInv, OwnShapes, Field
<1>6. OwnShapes'
  <2> HIDE DEF found
  <2> QED
    BY <1>1, <1>3 DEF CleanInv, OwnShapes, Field, suiteVars
<1>7. OwnSuite(o)'
  BY <1>1, <1>2, <1>4, <1>5 DEF CleanInv, OwnSuite, Clean, suiteVars
<1> QED
  BY <1>1, <1>2, <1>4, <1>6, <1>7, ActiveStep DEF suiteVars

LEMMA CleanWriteStep ==
  ASSUME CleanInv, NEW o \in Runner, Write(o)
  PROVE  CleanInv'
<1>1. /\ opc[o] = "write" /\ opc' = [opc EXCEPT ![o] = "done"]
      /\ observations' = [observations EXCEPT ![o] = record[o]]
      /\ UNCHANGED <<suiteVars, record>>
  BY DEF Write, Goto
<1>2. /\ opc'[o] = "done" /\ observations'[o] = record[o]
      /\ \A q \in Runner \ {o} : /\ opc'[q] = opc[q]
                                 /\ observations'[q] = observations[q]
  BY <1>1 DEF CleanInv, OwnShapes
<1>3. OwnShapes' /\ Active(o)
  BY <1>1 DEF CleanInv, OwnShapes, suiteVars, Active, Over
<1>4. OwnSuite(o)'
  BY <1>1, <1>2 DEF CleanInv, OwnSuite, Clean, suiteVars
<1> QED
  BY <1>1, <1>2, <1>3, <1>4, ActiveStep DEF suiteVars

LEMMA CleanCrashStep ==
  ASSUME CleanInv, NEW o \in Runner, Crash(o)
  PROVE  CleanInv'
<1>1. /\ opc[o] \notin Over /\ opc' = [opc EXCEPT ![o] = "died"]
      /\ UNCHANGED <<suiteVars, record>>
      /\ \/ UNCHANGED observations
         \/ observations' = [observations EXCEPT ![o] = Torn]
  BY DEF Crash, Goto
<1>2. /\ opc'[o] = "died"
      /\ observations'[o] = observations[o] \/ observations'[o] = Torn
      /\ \A q \in Runner \ {o} : /\ opc'[q] = opc[q]
                                 /\ observations'[q] = observations[q]
  BY <1>1 DEF CleanInv, OwnShapes
<1>3. OwnShapes' /\ Active(o)
  BY <1>1 DEF CleanInv, OwnShapes, suiteVars, Active
<1>4. ~Whole(observations'[o])
  BY <1>1, <1>2 DEF CleanInv, OwnSuite, Whole, Over
<1>5. OwnSuite(o)'
  BY <1>1, <1>2, <1>4 DEF CleanInv, OwnSuite, Clean, suiteVars
<1> QED
  BY <1>1, <1>2, <1>3, <1>5, ActiveStep DEF suiteVars

(* A step of a scenario run; status 0 comes with a clean summary. *)
LEMMA RunningStep ==
  ASSUME CleanInv, NEW r \in Runner, pc[r] \notin {"idle", "ended"},
         UNCHANGED ownVars,
         \A q \in Runner \ {r} : pc'[q] = pc[q] /\ todo'[q] = todo[q],
         "summary" \in DOMAIN files',
         pc'[r] = "ended" /\ exit'[r] = 0 => Clean(files["summary"], r)'
  PROVE  CleanInv'
<1>1. Active(r) /\ opc[r] \in {"suite_running", "died"}
  BY DEF Active, CleanInv, OwnSuite
<1>2. OwnShapes'
  BY DEF CleanInv, OwnShapes, ownVars
<1>3. OwnSuite(r)'
  BY <1>1 DEF CleanInv, OwnSuite, ownVars
<1> QED
  BY <1>1, <1>2, <1>3, ActiveStep DEF ownVars

LEMMA CleanSuiteStep ==
  ASSUME CleanInv, SuiteFacts, SuiteSteps
  PROVE  CleanInv'
<1> USE DEF Suite!Goto, Suite!Ends
<1>1. UNCHANGED ownVars
  BY DEF SuiteSteps
<1>2. ASSUME NEW r \in Runner, Suite!List(r) PROVE CleanInv'
  <2>1. PICK label \in {"read", "filter"} :
           /\ pc[r] = "list" /\ pc' = [pc EXCEPT ![r] = label]
           /\ UNCHANGED <<files, exit>>
           /\ \E listed : todo' = [todo EXCEPT ![r] = listed]
    BY <1>2 DEF Suite!List
  <2>2. /\ pc'[r] = label
        /\ \A q \in Runner \ {r} : pc'[q] = pc[q] /\ todo'[q] = todo[q]
    BY <2>1 DEF SuiteFacts
  <2> QED
    BY <1>1, <2>1, <2>2, RunningStep DEF CleanInv, OwnShapes
<1>3. ASSUME NEW r \in Runner, NEW d \in 1..NDirs, Suite!Read(r, d) PROVE CleanInv'
  <2>1. /\ pc[r] = "read" /\ UNCHANGED <<todo, files, exit>>
        /\ UNCHANGED pc \/ pc' = [pc EXCEPT ![r] = "judge"]
    BY <1>3 DEF Suite!Read
  <2>2. pc'[r] # "ended" /\ \A q \in Runner \ {r} : pc'[q] = pc[q]
    BY <2>1 DEF SuiteFacts
  <2> QED
    BY <1>1, <2>1, <2>2, RunningStep DEF CleanInv, OwnShapes
<1>4. ASSUME NEW r \in Runner, NEW d \in 1..NDirs, Suite!Judge(r, d) PROVE CleanInv'
  <2>1. /\ pc[r] = "judge" /\ UNCHANGED <<todo, files>>
        /\ \/ pc' = [pc EXCEPT ![r] = "read"]
           \/ /\ pc' = [pc EXCEPT ![r] = "ended"]
              /\ content[d].evidence \in {"exits", "exits_zero"}
              /\ exit' = [exit EXCEPT ![r] = IF content[d].evidence = "exits"
                                             THEN 1 ELSE 0]
    BY <1>4 DEF Suite!Judge, Suite!ExitStatus
  <2>2. /\ pc'[r] = "ended" => exit'[r] = 1
        /\ \A q \in Runner \ {r} : pc'[q] = pc[q]
    BY <2>1 DEF SuiteFacts
  <2> QED
    BY <1>1, <2>1, <2>2, RunningStep DEF CleanInv, OwnShapes
<1>5. ASSUME NEW r \in Runner, NEW d \in 1..NDirs, Suite!WriteResult(r, d)
      PROVE  CleanInv'
  <2>1. /\ pc[r] = "read" /\ UNCHANGED <<pc, todo, exit>>
        /\ DOMAIN files' = DOMAIN files
    BY <1>5 DEF Suite!WriteResult, Suite!AllRun
  <2> QED
    BY <1>1, <2>1, RunningStep DEF CleanInv, OwnShapes
<1>6. ASSUME NEW r \in Runner, Suite!WriteSummary(r) PROVE CleanInv'
  <2>1. /\ pc[r] = "read" /\ Suite!Remaining(r) = {} /\ UNCHANGED todo
        /\ pc' = [pc EXCEPT ![r] = "ended"]
        /\ files' = [files EXCEPT !["summary"] = Suite!Summary(r)]
        /\ exit' = [exit EXCEPT ![r] = IF Suite!AllPassed(r) THEN 0 ELSE 1]
    BY <1>6 DEF Suite!WriteSummary, Suite!AllRun
  <2>2. /\ exit'[r] = 0 => Suite!AllPassed(r)
        /\ files'["summary"] = Suite!Summary(r)
        /\ "summary" \in DOMAIN files'
        /\ \A q \in Runner \ {r} : pc'[q] = pc[q]
    <3> HIDE DEF Suite!Summary, Suite!AllPassed
    <3> QED
      BY <2>1 DEF SuiteFacts, CleanInv, OwnShapes
  <2>3. todo[r] \subseteq DOMAIN results[r]
    BY <2>1 DEF Suite!Remaining
  <2>4. exit'[r] = 0 => Clean(files["summary"], r)'
    <3> HIDE DEF Suite!Summary
    <3> QED
      BY <2>1, <2>2, <2>3, SummaryIsClean DEF Clean
  <2> QED
    BY <1>1, <2>1, <2>2, <2>4, RunningStep
<1>7. ASSUME NEW r \in Runner, Suite!Interrupt(r) \/ Suite!InterruptWriting(r)
      PROVE  CleanInv'
  <2>1. /\ pc[r] \notin {"idle", "ended"} /\ UNCHANGED todo
        /\ pc' = [pc EXCEPT ![r] = "ended"] /\ exit' = [exit EXCEPT ![r] = 130]
        /\ DOMAIN files' = DOMAIN files
    BY <1>7 DEF Suite!Interrupt, Suite!InterruptWriting, Suite!AllRun
  <2>2. exit'[r] = 130 /\ \A q \in Runner \ {r} : pc'[q] = pc[q]
    BY <2>1 DEF SuiteFacts
  <2> QED
    BY <1>1, <2>1, <2>2, RunningStep DEF CleanInv, OwnShapes
<1>8. ASSUME NEW d \in 1..NDirs, Suite!EditScenario(d) PROVE CleanInv'
  <2>1. UNCHANGED <<pc, todo, files, exit>>
    BY <1>8 DEF Suite!EditScenario
  <2> QED
    BY <1>1, <2>1 DEF ownVars, CleanInv, OwnShapes, OneActive, Active, OwnSuite, Clean
<1> QED
  BY <1>2, <1>3, <1>4, <1>5, <1>6, <1>7, <1>8 DEF SuiteSteps

(* Status 0 comes with a clean summary of the observer's own run, unless an *)
(* evidence module ends the process with status 0.                          *)
THEOREM CleanSuiteOwn == Suite!NeverExitsZero => (Spec => []CleanSuiteIsOwn)
<1>1. CASE ~Serial
  <2>1. ~Serial => CleanSuiteIsOwn
    BY DEF CleanSuiteIsOwn
  <2> QED
    BY <1>1, <2>1, PTL
<1>2. CASE Serial
  <2>1. CleanInv /\ SuiteFacts /\ [Next]_vars => CleanInv'
    <3> SUFFICES ASSUME CleanInv, SuiteFacts, [Next]_vars PROVE CleanInv'
      OBVIOUS
    <3>1. ASSUME NEW o \in Runner, Begin(o) PROVE CleanInv'
      <4>1. PICK label \in {"refused", "suite", "clear"} : Goto(o, label)
        BY <3>1 DEF Begin
      <4>2. /\ opc[o] = "idle" /\ UNCHANGED <<suiteVars, record, observations>>
            /\ \A q \in Runner : ~Active(q)
        BY <1>2, <3>1 DEF Begin, Quiet, Active
      <4> QED
        BY <4>1, <4>2, BeforeSuiteStep
    <3>2. ASSUME NEW o \in Runner,
                 Clear(o) \/ Remove(o) \/ StartBenchmark(o) \/ Inspect(o)
                 \/ \E p \in Part : ReadPart(o, p)
          PROVE  CleanInv'
      <4>1. /\ opc[o] \in {"clear", "remove", "benchmark", "benchmarking"} \cup Part
            /\ UNCHANGED <<suiteVars, observations>>
        BY <3>2 DEF Clear, Remove, StartBenchmark, Inspect, ReadPart
      <4>2. PICK label \in {"remove", "benchmark", "benchmarking", "died", "suite",
                            "final", "blocked", "result"} : Goto(o, label)
        <5>1. \A p \in Part : After[p] \in {"blocked", "result", "suite"}
          BY DEF After, Part
        <5>2. CASE Clear(o) \/ Remove(o) \/ StartBenchmark(o)
          BY <5>2 DEF Clear, Remove, StartBenchmark
        <5>3. CASE Inspect(o)
          BY <5>3 DEF Inspect
        <5>4. ASSUME NEW p \in Part, ReadPart(o, p)
              PROVE  Goto(o, After[p]) \/ Goto(o, "died")
          BY <5>4 DEF ReadPart
        <5> QED
          BY <3>2, <5>1, <5>2, <5>3, <5>4
      <4>3. \/ UNCHANGED record
            \/ \E kind : record' = [record EXCEPT ![o].governed = kind]
            \/ \E p, source : record' = [record EXCEPT ![o].sources[p] = source]
        BY <3>2 DEF Clear, Remove, StartBenchmark, Inspect, Governed, ReadPart
      <4>4. Active(o) /\ opc[o] \notin {"suite_running", "write", "done", "died"}
        BY <4>1 DEF Active, Over, Part
      <4> QED
        BY <4>1, <4>2, <4>3, <4>4, BeforeSuiteStep
    <3>3. ASSUME NEW o \in Runner, StartSuite(o) \/ Collect(o) \/ Write(o) \/ Crash(o)
          PROVE  CleanInv'
      BY <3>3, CleanStartStep, CleanCollectStep, CleanWriteStep, CleanCrashStep
    <3>4. CASE UNCHANGED <<suiteVars, opc, record, observations>>
      BY <3>4 DEF suiteVars, CleanInv, OwnShapes, OneActive, Active, OwnSuite, Clean
    <3>5. ASSUME NEW o \in Runner,
                 \/ BenchmarkMakesDirectory(o) \/ BenchmarkEnds(o)
                 \/ \E p \in Part : BenchmarkWrites(o, p) \/ BenchmarkTears(o, p)
          PROVE  CleanInv'
      BY <3>4, <3>5 DEF BenchmarkMakesDirectory, BenchmarkEnds, BenchmarkWrites,
                        BenchmarkTears
    <3>6. CASE SuiteSteps
      BY <3>6, CleanSuiteStep
    <3>7. CASE UNCHANGED vars
      BY <3>4, <3>7 DEF vars, ownVars
    <3> QED
      BY <3>1, <3>2, <3>3, <3>5, <3>6, <3>7 DEF Next
  <2>2. CleanInv => CleanSuiteIsOwn
    BY DEF CleanInv, OwnSuite, Clean, CleanSuiteIsOwn
  <2>3. Suite!NeverExitsZero => (Spec => []SuiteFacts)
    BY SuiteFactsHold
  <2> QED
    BY <2>1, <2>2, <2>3, CleanInit, PTL DEF Spec
<1> QED
  BY <1>1, <1>2
================================================================================
