-------------------------------- MODULE SuiteRun --------------------------------
(****************************************************************************)
(* runners/run_suite.py and runners/run_case.py: processes that each score  *)
(* the whole corpus against one product binary and leave their evidence in  *)
(* an output directory.                                                     *)
(*                                                                          *)
(* The identity files (the product binary, the adapter manifest and the     *)
(* adapter implementation) live outside the evaluator and may be replaced   *)
(* while it runs: disk holds the version number of each.  The processes     *)
(* share one output directory, one after the other or overlapping (Serial). *)
(* A process may die at any step, in the middle of a write too.             *)
(****************************************************************************)
EXTENDS CaseScoring

CONSTANTS Runner,       \* suite processes started with the same --out
          NCases,       \* number of case files; 1..NCases is their sorted order
          GroundTruth,  \* [1..NCases -> ground truth]
          Child,        \* outputs a child may leave (see CaseScoring)
          AdapterOnly,  \* cases whose execution mode is "candidate-adapter"
          Commanded,    \* cases the adapter manifest has a command for
          MaxVersion,   \* bound on the versions of an identity file
          Reverting,    \* TRUE: a replaced file may be put back
          Serial        \* TRUE: no run is started while another is live

Case == 1..NCases
File == {"binary", "manifest", "implementation"}

ASSUME SuiteAssumption ==
    /\ NCases \in Nat
    /\ MaxVersion \in Nat
    /\ Serial \in BOOLEAN
    /\ Reverting \in BOOLEAN
    /\ AdapterOnly \subseteq Case
    /\ Commanded \subseteq Case

VARIABLES
    disk,         \* [File -> version now on disk]
    pc,           \* where each run is
    candidate,    \* --adapter (TRUE) or --fixture (FALSE)
    ident,        \* [File -> version], the identity a run captured; 0: not yet
    results,      \* the results list of each run, in memory
    child,        \* what the child of the current case left
    ran,          \* history: <<file, version>> pairs executed for each case
    snapshot,     \* history: the disk when the binary was hashed
    environment,  \* <out>/environment.json
    rawFile,      \* <out>/raw/<case>.stdout and .stderr
    caseFile,     \* <out>/cases/<case>.json
    summaryFile   \* <out>/summary.json

outVars == <<environment, rawFile, caseFile, summaryFile>>
runVars == <<candidate, ident, results, child, ran, snapshot>>
vars    == <<disk, pc, runVars, outVars>>

(* A file is absent, torn (created or truncated, not fully written), or     *)
(* whole.  The field by of a whole file is the run that wrote it.           *)
Absent == [status |-> "absent"]
Torn   == [status |-> "torn"]
Whole(file) == file.status = "whole"

Ended == {"done", "aborted", "refused", "crashed"}
Live(r) == pc[r] \notin Ended \cup {"idle"}

(* The case a run is at: the one after those it has a result for. *)
Current(r) == Len(results[r]) + 1

Goto(r, label) == pc' = [pc EXCEPT ![r] = label]

(* run_suite.py:57 *)
OutputEmpty ==
    /\ environment = Absent
    /\ summaryFile = Absent
    /\ \A c \in Case : rawFile[c] = Absent /\ caseFile[c] = Absent

Init ==
    /\ disk = [f \in File |-> 1]
    /\ pc = [r \in Runner |-> "idle"]
    /\ candidate \in [Runner -> BOOLEAN]
    /\ ident = [r \in Runner |-> [f \in File |-> 0]]
    /\ results = [r \in Runner |-> << >>]
    /\ child = [r \in Runner |-> NoValue]
    /\ ran = [r \in Runner |-> [c \in Case |-> {}]]
    /\ snapshot = [r \in Runner |-> [f \in File |-> 0]]
    /\ environment = Absent
    /\ rawFile = [c \in Case |-> Absent]
    /\ caseFile = [c \in Case |-> Absent]
    /\ summaryFile = Absent

-----------------------------------------------------------------------------
(* The world outside the evaluator *)

(* The versions that may replace version v of a file: bytes it never had    *)
(* before and, if files may be put back, bytes it had.                      *)
Replacements(v) ==
    {w \in 1..MaxVersion : w = v + 1 \/ (Reverting /\ w < v)}

(* Somebody replaces an identity file. *)
Edit(f) ==
    /\ \E w \in Replacements(disk[f]) : disk' = [disk EXCEPT ![f] = w]
    /\ UNCHANGED <<pc, runVars, outVars>>

-----------------------------------------------------------------------------
(* run_suite.main: starting a run and capturing its identity *)

(* The command line is parsed and the cases are loaded.  A corpus with      *)
(* candidate-adapter cases refuses to run without an adapter.               *)
Start(r) ==
    /\ pc[r] = "idle"
    /\ Serial => \A q \in Runner : ~Live(q)
    /\ Goto(r, IF AdapterOnly # {} /\ ~candidate[r] THEN "refused" ELSE "check")
    /\ UNCHANGED <<disk, runVars, outVars>>

(* A slip in the guard: a directory is taken as it is. *)
NotChecked(r) == TRUE

(* The directory a run may write to. *)
OutputFree(r) == OutputEmpty

(* Refuse an output directory that is not empty. *)
CheckOutput(r) ==
    /\ pc[r] = "check"
    /\ Goto(r, IF ~OutputFree(r) THEN "refused"
               ELSE IF candidate[r] THEN "read_manifest"
               ELSE "hash_binary")
    /\ UNCHANGED <<disk, runVars, outVars>>

(* The manifest is read once; its parse is what the run uses from here on. *)
ReadManifest(r) ==
    /\ pc[r] = "read_manifest"
    /\ ident' = [ident EXCEPT ![r]["manifest"] = disk["manifest"]]
    /\ Goto(r, "hash_implementation")
    /\ UNCHANGED <<disk, candidate, results, child, ran, snapshot, outVars>>

(* The implementation the manifest names is resolved and hashed. *)
HashImplementation(r) ==
    /\ pc[r] = "hash_implementation"
    /\ ident' = [ident EXCEPT ![r]["implementation"] = disk["implementation"]]
    /\ Goto(r, "hash_binary")
    /\ UNCHANGED <<disk, candidate, results, child, ran, snapshot, outVars>>

(* capture_environment hashes the binary. *)
HashBinary(r) ==
    /\ pc[r] = "hash_binary"
    /\ ident' = [ident EXCEPT ![r]["binary"] = disk["binary"]]
    /\ snapshot' = [snapshot EXCEPT ![r] = disk]
    /\ Goto(r, "write_environment")
    /\ UNCHANGED <<disk, candidate, results, child, ran, outVars>>

(* Any of the three reads may fail (no such file, a manifest that is not    *)
(* JSON, an implementation path that is a symlink or escapes its            *)
(* directory): the run ends before it has written anything.                 *)
CaptureFails(r) ==
    /\ pc[r] \in {"read_manifest", "hash_implementation", "hash_binary"}
    /\ Goto(r, "aborted")
    /\ UNCHANGED <<disk, runVars, outVars>>

(* A slip at the end of the loop: one case too many. *)
OneCaseTooMany(r, n) ==
    IF n > NCases THEN "write_summary"
    ELSE IF candidate[r] THEN "verify_binary"
    ELSE "command"

(* A slip at the end of the loop: the last case is left out. *)
LastCaseLeftOut(r, n) ==
    IF n + 1 >= NCases THEN "write_summary"
    ELSE IF candidate[r] THEN "verify_binary"
    ELSE "command"

(* Where the loop over the cases goes after n results. *)
NextCase(r, n) ==
    IF n = NCases THEN "write_summary"
    ELSE IF candidate[r] THEN "verify_binary"
    ELSE "command"

WriteEnvironment(r) ==
    /\ pc[r] = "write_environment"
    /\ environment' = [status |-> "whole", by |-> r,
                       candidate |-> candidate[r], ident |-> ident[r]]
    /\ Goto(r, NextCase(r, 0))
    /\ UNCHANGED <<disk, runVars, rawFile, caseFile, summaryFile>>

-----------------------------------------------------------------------------
(* run_case.run: one case *)

(* A slip in the identity check: only the product binary is compared. *)
OnlyBinaryCompared(r, f) == f # "binary" \/ disk[f] = ident[r][f]

(* A slip in the identity check: the binary is left out. *)
BinaryNotCompared(r, f) == f = "binary" \/ disk[f] = ident[r][f]

(* The bytes on disk are the ones the run recorded. *)
SameBytes(r, f) == disk[f] = ident[r][f]

(* _verify_case_identity rereads one file and compares it with the recorded *)
(* identity; a difference, or an unreadable file, ends the whole suite.     *)
Verify(r, f, here, next) ==
    /\ pc[r] = here
    /\ Goto(r, IF SameBytes(r, f) THEN next ELSE "aborted")
    /\ UNCHANGED <<disk, runVars, outVars>>

VerifyBinary(r) == Verify(r, "binary", "verify_binary", "verify_manifest")
VerifyManifest(r) ==
    Verify(r, "manifest", "verify_manifest", "verify_implementation")
VerifyImplementation(r) ==
    Verify(r, "implementation", "verify_implementation", "command")

(* command_for looks the case up in the manifest as it was first parsed and *)
(* resolves the implementation path once more.  Without a command, or when  *)
(* the path no longer resolves, the suite ends; results on disk stay.       *)
CommandFails(r) ==
    /\ pc[r] = "command"
    /\ candidate[r]
    /\ Goto(r, "aborted")
    /\ UNCHANGED <<disk, runVars, outVars>>

(* The versions of f that ran for the current case. *)
Executes(r, f) ==
    ran' = [ran EXCEPT ![r][Current(r)] = @ \cup {<<f, disk[f]>>}]

(* The child is started: the adapter implementation as it is on disk now,   *)
(* or, in a fixture run, the binary itself.                                 *)
Launch(r) ==
    /\ pc[r] = "command"
    /\ candidate[r] => Current(r) \in Commanded
    /\ Executes(r, IF candidate[r] THEN "implementation" ELSE "binary")
    /\ Goto(r, "running")
    /\ UNCHANGED <<disk, candidate, ident, results, child, snapshot, outVars>>

(* The adapter drives the product through many processes of its own, each   *)
(* of which executes the binary as it is on disk at that moment.            *)
AdapterCallsBinary(r) ==
    /\ pc[r] = "running"
    /\ candidate[r]
    /\ Executes(r, "binary")
    /\ UNCHANGED <<disk, pc, candidate, ident, results, child, snapshot, outVars>>

(* The operating system cannot start the child: the case gets an empty      *)
(* output and no exit code, and the suite goes on.                          *)
LaunchFails(r) ==
    /\ pc[r] = "command"
    /\ candidate[r] => Current(r) \in Commanded
    /\ \E o \in Child :
          /\ o.stdout.form = "empty" /\ o.exit_code = NoValue /\ ~o.timed_out
          /\ child' = [child EXCEPT ![r] = o]
    /\ Goto(r, "write_raw")
    /\ UNCHANGED <<disk, candidate, ident, results, ran, snapshot, outVars>>

(* The child exits by itself. *)
ChildExits(r) ==
    /\ pc[r] = "running"
    /\ \E o \in Child : /\ ~o.timed_out /\ o.exit_code # NoValue
                        /\ child' = [child EXCEPT ![r] = o]
    /\ Goto(r, "write_raw")
    /\ UNCHANGED <<disk, candidate, ident, results, ran, snapshot, outVars>>

(* A slip: subprocess.run without a timeout. *)
NoTimeout(r) == FALSE

(* The timeout expires and the child is killed; what it had printed so far  *)
(* is kept, and may be a complete JSON document.                            *)
TimeoutExpires(r) ==
    /\ pc[r] = "running"
    /\ \E o \in Child : o.timed_out /\ child' = [child EXCEPT ![r] = o]
    /\ Goto(r, "write_raw")
    /\ UNCHANGED <<disk, candidate, ident, results, ran, snapshot, outVars>>

WriteRaw(r) ==
    /\ pc[r] = "write_raw"
    /\ rawFile' = [rawFile EXCEPT ![Current(r)] =
                     [status |-> "whole", by |-> r, child |-> child[r]]]
    /\ Goto(r, "write_case")
    /\ UNCHANGED <<disk, runVars, environment, caseFile, summaryFile>>

(* The output is parsed, classified and written, the result is appended to  *)
(* the list in memory, and the loop goes on.                                *)
WriteCase(r) ==
    LET result == CaseResult(GroundTruth[Current(r)], child[r], candidate[r])
    IN /\ pc[r] = "write_case"
       /\ ~Raises(child[r])
       /\ caseFile' = [caseFile EXCEPT ![Current(r)] =
                         [status |-> "whole", by |-> r, result |-> result]]
       /\ results' = [results EXCEPT ![r] = Append(@, result)]
       /\ child' = [child EXCEPT ![r] = NoValue]
       /\ Goto(r, NextCase(r, Current(r)))
       /\ UNCHANGED <<disk, candidate, ident, ran, snapshot,
                      environment, rawFile, summaryFile>>

(* An output that cannot be interpreted ends the whole suite, with the raw  *)
(* bytes of its case on disk.                                               *)
InterpretFails(r) ==
    /\ pc[r] = "write_case"
    /\ Raises(child[r])
    /\ Goto(r, "aborted")
    /\ UNCHANGED <<disk, runVars, outVars>>

(* The summary is computed from the results in memory and written last. *)
WriteSummary(r) ==
    /\ pc[r] = "write_summary"
    /\ summaryFile' = [status |-> "whole", by |-> r,
                       summary |-> Summary(results[r], candidate[r])]
    /\ Goto(r, "done")
    /\ UNCHANGED <<disk, runVars, environment, rawFile, caseFile>>

-----------------------------------------------------------------------------
(* A run may die between any two steps ... *)
Crash(r) ==
    /\ Live(r)
    /\ Goto(r, "crashed")
    /\ UNCHANGED <<disk, runVars, outVars>>

(* ... or in the middle of a write: files are truncated, then written.      *)
CrashWriting(r) ==
    /\ \/ /\ pc[r] = "write_environment"
          /\ environment' = Torn
          /\ UNCHANGED <<rawFile, caseFile, summaryFile>>
       \/ /\ pc[r] = "write_raw"
          /\ rawFile' = [rawFile EXCEPT ![Current(r)] = Torn]
          /\ UNCHANGED <<environment, caseFile, summaryFile>>
       \/ /\ pc[r] = "write_case"
          /\ caseFile' = [caseFile EXCEPT ![Current(r)] = Torn]
          /\ UNCHANGED <<environment, rawFile, summaryFile>>
       \/ /\ pc[r] = "write_summary"
          /\ summaryFile' = Torn
          /\ UNCHANGED <<environment, rawFile, caseFile>>
    /\ Goto(r, "crashed")
    /\ UNCHANGED <<disk, runVars>>

-----------------------------------------------------------------------------
(* The statements of run_suite.main and run_case.run, the child excepted. *)
Step(r) ==
    \/ CheckOutput(r)
    \/ ReadManifest(r) \/ HashImplementation(r) \/ HashBinary(r)
    \/ CaptureFails(r)
    \/ WriteEnvironment(r)
    \/ VerifyBinary(r) \/ VerifyManifest(r) \/ VerifyImplementation(r)
    \/ CommandFails(r) \/ Launch(r) \/ LaunchFails(r) \/ TimeoutExpires(r)
    \/ WriteRaw(r) \/ WriteCase(r) \/ InterpretFails(r) \/ WriteSummary(r)

Next ==
    \/ \E f \in File : Edit(f)
    \/ \E r \in Runner : \/ Start(r) \/ Step(r)
                         \/ AdapterCallsBinary(r) \/ ChildExits(r)
                         \/ Crash(r) \/ CrashWriting(r)

Spec == Init /\ [][Next]_vars

(* A started process is scheduled, and the timeout of subprocess.run is     *)
(* part of its Step.  Nothing obliges anybody to start a run, to replace a  *)
(* file or to kill a process, nor a child to call the binary or to exit.    *)
Fairness == \A r \in Runner : WF_vars(Step(r))

FairSpec == Spec /\ Fairness

-----------------------------------------------------------------------------
(* Properties *)

Version == Nat

EnvironmentFile ==
    {Absent, Torn} \cup
    [status : {"whole"}, by : Runner, candidate : BOOLEAN,
     ident : [File -> Version]]
RawFile == {Absent, Torn} \cup [status : {"whole"}, by : Runner, child : Child]
Result  == {CaseResult(GroundTruth[c], o, b) :
               c \in Case, o \in Child, b \in BOOLEAN}

(* Python's None is neither a result nor an owner. *)
ASSUME NoValueAssumption ==
    /\ NoValue \notin Result
    /\ \A r \in Runner, b \in BOOLEAN : [by |-> r, candidate |-> b] # NoValue

ResultFile ==
    {Absent, Torn} \cup [status : {"whole"}, by : Runner, result : Result]

(* Before the loop over the cases *)
Capturing == {"read_manifest", "hash_implementation", "hash_binary"}
Starting  == {"idle", "check", "write_environment"} \cup Capturing

(* Inside the loop *)
Verifying == {"verify_binary", "verify_manifest", "verify_implementation"}
Launched  == {"running", "write_raw", "write_case"}
AtCase    == Verifying \cup {"command"} \cup Launched
Looping   == AtCase \cup {"write_summary"}

Label == Starting \cup Looping \cup Ended

(* The variables have the shapes the code gives them; a run is at a case of *)
(* the corpus wherever it needs one, and has a child's output to write.     *)
TypeOK ==
    /\ disk \in [File -> Version]
    /\ pc \in [Runner -> Label]
    /\ candidate \in [Runner -> BOOLEAN]
    /\ ident \in [Runner -> [File -> Version]]
    /\ results \in [Runner -> Seq(Result)]
    /\ child \in [Runner -> Child \cup {NoValue}]
    /\ ran \in [Runner -> [Case -> SUBSET (File \X Version)]]
    /\ snapshot \in [Runner -> [File -> Version]]
    /\ environment \in EnvironmentFile
    /\ rawFile \in [Case -> RawFile]
    /\ caseFile \in [Case -> ResultFile]
    /\ \/ summaryFile \in {Absent, Torn}
       \/ \E r \in Runner :
             /\ pc[r] = "done"
             /\ summaryFile = [status |-> "whole", by |-> r,
                               summary |-> Summary(results[r], candidate[r])]
    /\ \A r \in Runner :
          /\ Len(results[r]) <= NCases
          /\ pc[r] \in Starting => results[r] = << >>
          /\ pc[r] \in AtCase => Current(r) \in Case
          /\ pc[r] \in {"write_raw", "write_case"} => child[r] \in Child

(* The number of cases whose three identity checks have all passed. *)
Verified(r) ==
    IF pc[r] \in {"command"} \cup Launched
    THEN Current(r)
    ELSE Len(results[r])

(* Identity checks precede each case and nothing checks afterwards, so a    *)
(* replaced file is only noticed at the next case.  What the checks do buy: *)
(* every case before the last verified one executed exactly the bytes that  *)
(* environment.json records, provided replaced files are not put back.      *)
EarlierCasesRanRecordedBytes ==
    ~Reverting =>
      \A r \in Runner : candidate[r] =>
        \A c \in 1..(Verified(r) - 1) :
          \A use \in ran[r][c] : use[2] = ident[r][use[1]]

(* The three digests of environment.json are taken at three moments.  Once  *)
(* a first case passed its checks, they are known to have been on disk      *)
(* together, at the instant the binary was hashed.                          *)
RecordedIdentityExisted ==
    ~Reverting =>
      \A r \in Runner :
        candidate[r] /\ Verified(r) >= 1 => ident[r] = snapshot[r]

(* A whole summary is the last word of one run: every other file of the     *)
(* directory is whole and by that run, and the summary is what its case     *)
(* files and raw outputs yield, whatever crashed or was started again.      *)
PublishedRunIsCoherent ==
    Serial /\ Whole(summaryFile) =>
      LET r == summaryFile.by
      IN /\ pc[r] = "done"
         /\ Whole(environment) /\ environment.by = r
         /\ environment.ident = ident[r]
         /\ \A c \in Case :
              /\ Whole(rawFile[c]) /\ rawFile[c].by = r
              /\ Whole(caseFile[c]) /\ caseFile[c].by = r
              /\ caseFile[c].result =
                   CaseResult(GroundTruth[c], rawFile[c].child,
                              environment.candidate)
         /\ summaryFile.summary =
              Summary([c \in Case |-> caseFile[c].result],
                      environment.candidate)

(* The directory as its reader sees it implements EvidenceDirectory: one    *)
(* owner, results added in order and never rewritten, one final summary.    *)
Evidence == INSTANCE EvidenceDirectory WITH
    owner     <- IF Whole(environment)
                 THEN [by |-> environment.by,
                       candidate |-> environment.candidate]
                 ELSE NoValue,
    recorded  <- [c \in Case |-> IF Whole(caseFile[c]) THEN caseFile[c].result
                                 ELSE NoValue],
    published <- IF Whole(summaryFile) THEN summaryFile.summary ELSE NoValue

ImplementsEvidenceDirectory == Evidence!Spec

(* Every run that was started comes to an end: the timeout bounds the       *)
(* child, a failed check or launch never leaves the loop waiting.           *)
EveryRunEnds ==
    \A r \in Runner : (pc[r] # "idle") ~> (pc[r] \in Ended)

(* methodology/acceptance-integrity.md:48-49: "Results are written to a new *)
(* run directory and are never overwritten."                                *)
NeverOverwritten ==
    [][\A c \in Case : Whole(caseFile[c]) => caseFile'[c] = caseFile[c]]_vars
=============================================================================
