----------------------------- MODULE SuiteDirectoryProofs -----------------------------
(****************************************************************************)
(* Runs that share an output directory one after the other leave a coherent *)
(* directory, whatever crashes (proved from DirectoryInv), and implement    *)
(* EvidenceDirectory: for any number of runs, cases, outputs and versions.  *)
(****************************************************************************)
EXTENDS SuiteRunProofs

(* Labels of a run that may change the directory or rely on its content *)
Inside == Capturing \cup {"write_environment"} \cup Looping

(* While a run is inside, no other run is, and none has finished. *)
LEMMA Alone ==
    ASSUME TypeOK, DirectoryInv, Serial,
           NEW r \in Runner, pc[r] \in Inside, NEW q \in Runner, q # r
    PROVE  ~Live(q) /\ pc[q] # "done"
<1>1. OneLiveRun /\ EmptyUntilOwned /\ RunOwns(r) /\ RunOwns(q)
  BY DEF DirectoryInv, OwnerWritesInOrder
<1>2. Live(r)
  BY DEF Live, Inside, Capturing, Looping, AtCase, Verifying, Launched, Ended
<1>3. ~Live(q)
  BY <1>1, <1>2 DEF OneLiveRun
<1>4. ASSUME pc[q] = "done" PROVE FALSE
  <2>1. environment.by = q /\ environment.status = "whole"
    BY <1>1, <1>4 DEF RunOwns
  <2>2. CASE pc[r] \in Looping
    BY <1>1, <2>1, <2>2 DEF RunOwns
  <2>3. CASE pc[r] \notin Looping
    <3>1. environment = Absent
      BY <1>1, <2>3 DEF EmptyUntilOwned, OutputEmpty, Inside
    <3> QED
      BY <2>1, <3>1 DEF Absent
  <2> QED
    BY <2>2, <2>3
<1> QED
  BY <1>3, <1>4

(* A step of one run keeps DirectoryInv when the run is the only live one,  *)
(* touches files only from inside, and keeps its own files in order.        *)
LEMMA OwnStep ==
    ASSUME TypeOK, DirectoryInv, Serial,
           NEW r \in Runner,
           Live(r) \/ \A q \in Runner : ~Live(q),
           \A q \in Runner \ {r} :
              /\ pc'[q] = pc[q] /\ candidate'[q] = candidate[q]
              /\ ident'[q] = ident[q] /\ results'[q] = results[q]
              /\ child'[q] = child[q],
           UNCHANGED outVars \/ pc[r] \in Inside,
           pc'[r] \in Capturing \cup {"write_environment"} => OutputEmpty',
           RunOwns(r)'
    PROVE  DirectoryInv'
<1>1. OneLiveRun /\ EmptyUntilOwned /\ \A q \in Runner : RunOwns(q)
  BY DEF DirectoryInv, OwnerWritesInOrder
<1>2. \A q \in Runner \ {r} : ~Live(q) /\ ~Live(q)'
  BY <1>1 DEF OneLiveRun, Live
<1>3. OneLiveRun'
  BY <1>2 DEF OneLiveRun
<1>4. EmptyUntilOwned'
  <2>1. \A q \in Runner \ {r} : pc'[q] \notin Capturing \cup {"write_environment"}
    BY <1>2 DEF Live, Capturing, Ended
  <2> QED
    BY <2>1 DEF EmptyUntilOwned
<1>5. ASSUME NEW q \in Runner \ {r} PROVE RunOwns(q)'
  <2>1. pc'[q] \notin Looping
    BY <1>2 DEF Live, Looping, AtCase, Verifying, Launched, Ended
  <2>2. CASE pc'[q] = "done"
    <3>1. pc[r] \notin Inside
      BY <2>2, Alone
    <3>2. /\ environment' = environment /\ rawFile' = rawFile
          /\ caseFile' = caseFile
      BY <3>1 DEF outVars
    <3>3. RunOwns(q) /\ pc[q] = "done"
      BY <1>1, <2>2
    <3> QED
      BY <2>1, <2>2, <3>2, <3>3 DEF RunOwns, CasesWritten, Current
  <2>3. CASE pc'[q] # "done"
    BY <2>1, <2>3 DEF RunOwns, Looping, AtCase, Launched
  <2> QED
    BY <2>2, <2>3
<1> QED
  BY <1>3, <1>4, <1>5 DEF DirectoryInv, OwnerWritesInOrder

(* Writing the raw output does not touch the files of earlier cases. *)
LEMMA RawStep ==
    ASSUME TypeOK, NEW r \in Runner, WriteRaw(r), RunOwns(r)
    PROVE  RunOwns(r)'
<1>1. /\ pc[r] = "write_raw" /\ pc'[r] = "write_case"
      /\ UNCHANGED <<candidate, ident, results, child, environment, caseFile>>
      /\ rawFile' = [rawFile EXCEPT ![Current(r)] =
                       [status |-> "whole", by |-> r, child |-> child[r]]]
  BY DEF WriteRaw, Goto, TypeOK, runVars
<1>2. /\ Current(r) \in Case /\ Len(results[r]) \in Nat
      /\ Current(r) = Len(results[r]) + 1
      /\ \A c \in Case : c \in Nat
  BY <1>1, SuiteAssumption DEF TypeOK, AtCase, Launched, Current, Case
<1>3. /\ rawFile'[Current(r)] = [status |-> "whole", by |-> r, child |-> child[r]]
      /\ \A c \in Case : c <= Len(results[r]) => rawFile'[c] = rawFile[c]
  BY <1>1, <1>2 DEF TypeOK
<1>4. CasesWritten(r, Len(results[r]))
  BY <1>1 DEF RunOwns, Looping, AtCase, Launched
<1>5. CasesWritten(r, Len(results[r]))'
  BY <1>1, <1>3, <1>4 DEF CasesWritten
<1> QED
  BY <1>1, <1>3, <1>5 DEF RunOwns, Looping, AtCase, Launched, Current

(* Recording a result adds one case to the written ones. *)
LEMMA CaseStep ==
    ASSUME TypeOK, NEW r \in Runner, WriteCase(r), RunOwns(r)
    PROVE  RunOwns(r)'
<1> DEFINE here   == Current(r)
           result == CaseResult(GroundTruth[Current(r)], child[r], candidate[r])
<1>1. /\ pc[r] = "write_case" /\ pc'[r] = NextCase(r, here)
      /\ UNCHANGED <<candidate, ident, environment, rawFile>>
      /\ caseFile' = [caseFile EXCEPT ![here] =
                        [status |-> "whole", by |-> r, result |-> result]]
      /\ results'[r] = Append(results[r], result)
  BY DEF WriteCase, Goto, TypeOK
<1>2. /\ here \in Case /\ Len(results[r]) \in Nat /\ here = Len(results[r]) + 1
      /\ child[r] \in Child /\ candidate[r] \in BOOLEAN
      /\ results[r] \in Seq(Result)
      /\ \A c \in Case : c \in Nat
  BY <1>1, SuiteAssumption DEF TypeOK, AtCase, Launched, Current, Case
<1>3. result \in Result
  BY <1>2, ResultType
<1>4. /\ rawFile[here] = [status |-> "whole", by |-> r, child |-> child[r]]
      /\ CasesWritten(r, Len(results[r]))
      /\ environment = [status |-> "whole", by |-> r,
                        candidate |-> candidate[r], ident |-> ident[r]]
  BY <1>1 DEF RunOwns, Looping, AtCase, Launched
<1>5. result = CaseResult(GroundTruth[here], rawFile[here].child, candidate[r])
  BY <1>4
<1> HIDE DEF result
<1>6. /\ Len(results'[r]) = here
      /\ results'[r][here] = result
      /\ \A c \in 1..Len(results[r]) : results'[r][c] = results[r][c]
  BY <1>1, <1>2, <1>3
<1>7. ASSUME NEW c \in Case, c <= here
      PROVE  /\ Whole(rawFile[c]) /\ rawFile[c].by = r
             /\ Whole(caseFile'[c]) /\ caseFile'[c].by = r
             /\ caseFile'[c].result = results'[r][c]
             /\ caseFile'[c].result =
                  CaseResult(GroundTruth[c], rawFile[c].child, candidate[r])
  <2>1. CASE c = here
    <3>1. caseFile'[here] = [status |-> "whole", by |-> r, result |-> result]
      BY <1>1, <1>2 DEF TypeOK
    <3> QED
      BY <1>4, <1>5, <1>6, <2>1, <3>1 DEF Whole
  <2>2. CASE c # here
    <3>1. c \in 1..Len(results[r]) /\ c <= Len(results[r])
      BY <1>2, <1>7, <2>2, SuiteAssumption DEF Case
    <3>2. caseFile'[c] = caseFile[c]
      BY <1>1, <1>2, <2>2 DEF TypeOK
    <3> QED
      BY <1>4, <1>6, <3>1, <3>2 DEF CasesWritten
  <2> QED
    BY <2>1, <2>2
<1>8. CasesWritten(r, Len(results[r]))'
  BY <1>1, <1>6, <1>7 DEF CasesWritten, Whole
<1>9. /\ pc'[r] \notin {"write_case", "done"}
      /\ pc'[r] = "write_summary" => here = NCases
  BY <1>1, <1>2, NextCaseType, SuiteAssumption DEF NextCase, Case
<1> QED
  BY <1>1, <1>4, <1>6, <1>8, <1>9 DEF RunOwns

(* DirectoryInv holds in every reachable state. *)
THEOREM DirectoryInvariant == Spec => []DirectoryInv
<1>1. Init => DirectoryInv
  BY DEF Init, DirectoryInv, OneLiveRun, EmptyUntilOwned, OwnerWritesInOrder,
     RunOwns, Live, Capturing, Looping, AtCase, Verifying, Launched, Ended
<1>2. TypeOK /\ TypeOK' /\ DirectoryInv /\ [Next]_vars => DirectoryInv'
  <2> SUFFICES ASSUME TypeOK, TypeOK', DirectoryInv, Serial, [Next]_vars
               PROVE  DirectoryInv'
    BY DEF DirectoryInv
  <2> USE DEF Inside, Capturing, Looping, AtCase, Verifying, Launched
  <2>0. OneLiveRun /\ EmptyUntilOwned /\ \A r \in Runner : RunOwns(r)
    BY DEF DirectoryInv, OwnerWritesInOrder
  <2>1. ASSUME UNCHANGED <<pc, runVars, outVars>> PROVE DirectoryInv'
    BY <2>0, <2>1 DEF DirectoryInv, OneLiveRun, EmptyUntilOwned, OutputEmpty,
       OwnerWritesInOrder, RunOwns, CasesWritten, Live, Current, runVars, outVars
  <2>2. ASSUME NEW r \in Runner, Start(r) PROVE DirectoryInv'
    <3>1. pc'[r] \in {"refused", "check"} /\ RunOwns(r)'
      BY <2>2 DEF Start, Goto, TypeOK, RunOwns
    <3>2. \A q \in Runner : ~Live(q)
      BY <2>2 DEF Start
    <3> QED
      BY <2>2, <3>1, <3>2, OwnStep DEF Start, Goto, TypeOK, runVars
  <2>3. ASSUME NEW r \in Runner, CheckOutput(r) PROVE DirectoryInv'
    <3>1. /\ Live(r) /\ RunOwns(r)'
          /\ pc'[r] \in Capturing \cup {"write_environment"} => OutputEmpty
      BY <2>3 DEF CheckOutput, OutputFree, Goto, TypeOK, RunOwns, Live, Ended
    <3>2. OutputEmpty => OutputEmpty'
      BY <2>3 DEF CheckOutput, OutputEmpty, outVars
    <3> QED
      BY <2>3, <3>1, <3>2, OwnStep DEF CheckOutput, Goto, TypeOK, runVars
  <2>4. ASSUME NEW r \in Runner,
               ReadManifest(r) \/ HashImplementation(r) \/ HashBinary(r)
        PROVE  DirectoryInv'
    <3>1. /\ Live(r) /\ RunOwns(r)'
          /\ pc[r] \in Capturing
          /\ pc'[r] \in Capturing \cup {"write_environment"}
      BY <2>4 DEF ReadManifest, HashImplementation, HashBinary, Goto, TypeOK,
         RunOwns, Live, Ended
    <3>2. OutputEmpty'
      BY <2>0, <2>4, <3>1 DEF ReadManifest, HashImplementation, HashBinary,
         OutputEmpty, EmptyUntilOwned, outVars
    <3>3. /\ UNCHANGED <<candidate, results, child, outVars>>
          /\ \A q \in Runner \ {r} : pc'[q] = pc[q] /\ ident'[q] = ident[q]
      BY <2>4 DEF ReadManifest, HashImplementation, HashBinary, Goto, TypeOK
    <3> QED
      BY <3>1, <3>2, <3>3, OwnStep
  <2>5. ASSUME NEW r \in Runner, NEW l \in {"aborted", "crashed"},
               Live(r), Goto(r, l), UNCHANGED runVars,
               UNCHANGED outVars \/ pc[r] \in Inside
        PROVE  DirectoryInv'
    <3>1. pc'[r] = l /\ RunOwns(r)'
      BY <2>5 DEF Goto, TypeOK, RunOwns
    <3> QED
      BY <2>5, <3>1, OwnStep DEF Goto, TypeOK, runVars
  <2>6. ASSUME NEW r \in Runner,
               CaptureFails(r) \/ CommandFails(r) \/ InterpretFails(r)
                  \/ Crash(r) \/ CrashWriting(r)
        PROVE  DirectoryInv'
    BY <2>5, <2>6 DEF CaptureFails, CommandFails, InterpretFails, Crash,
       CrashWriting, Live, Ended
  <2>7. ASSUME NEW r \in Runner, WriteEnvironment(r) PROVE DirectoryInv'
    <3>1. /\ Live(r) /\ pc[r] = "write_environment" /\ results[r] = << >>
          /\ pc'[r] = NextCase(r, 0)
          /\ UNCHANGED runVars
          /\ environment' = [status |-> "whole", by |-> r,
                             candidate |-> candidate[r], ident |-> ident[r]]
      BY <2>7 DEF WriteEnvironment, Goto, TypeOK, Live, Ended, Starting
    <3>2. /\ pc'[r] \in {"write_summary", "verify_binary", "command"}
          /\ pc'[r] = "write_summary" => NCases = 0
      BY <3>1, SuiteAssumption DEF NextCase
    <3>3. CasesWritten(r, Len(results[r]))'
      BY <3>1, SuiteAssumption DEF CasesWritten, Case, runVars
    <3>4. RunOwns(r)'
      BY <3>1, <3>2, <3>3 DEF RunOwns, runVars
    <3> QED
      BY <2>7, <3>1, <3>2, <3>4, OwnStep DEF WriteEnvironment, Goto, TypeOK, runVars
  <2>8. ASSUME NEW r \in Runner,
               NEW l \in Looping \ {"write_case", "write_summary"},
               pc[r] \in Looping, Goto(r, l),
               UNCHANGED <<candidate, ident, results, outVars>>,
               \A q \in Runner \ {r} : child'[q] = child[q]
        PROVE  DirectoryInv'
    <3>1. Live(r) /\ pc'[r] = l
      BY <2>8 DEF Goto, TypeOK, Live, Ended
    <3>2. /\ pc'[r] \notin {"write_case", "write_summary", "done"}
          /\ environment' = environment
          /\ environment = [status |-> "whole", by |-> r,
                            candidate |-> candidate[r], ident |-> ident[r]]
          /\ CasesWritten(r, Len(results[r]))
      BY <2>0, <2>8, <3>1 DEF RunOwns, outVars
    <3>2a. CasesWritten(r, Len(results[r]))'
      BY <2>8, <3>2 DEF CasesWritten, outVars
    <3>2b. RunOwns(r)'
      BY <2>8, <3>2, <3>2a DEF RunOwns
    <3> QED
      BY <2>8, <3>1, <3>2b, OwnStep DEF Goto, TypeOK
  <2>9. ASSUME NEW r \in Runner,
               VerifyBinary(r) \/ VerifyManifest(r) \/ VerifyImplementation(r)
        PROVE  DirectoryInv'
    <3>1. /\ pc[r] \in Looping /\ Live(r)
          /\ \/ Goto(r, "aborted")
             \/ \E l \in Looping \ {"write_case", "write_summary"} : Goto(r, l)
          /\ UNCHANGED <<runVars, outVars>>
      BY <2>9 DEF VerifyBinary, VerifyManifest, VerifyImplementation, Verify,
         Live, Ended
    <3> QED
      BY <2>5, <2>8, <3>1 DEF runVars
  <2>10. ASSUME NEW r \in Runner, Launch(r) PROVE DirectoryInv'
    BY <2>8, <2>10 DEF Launch
  <2>11. ASSUME NEW r \in Runner, AdapterCallsBinary(r) PROVE DirectoryInv'
    <3>1. Goto(r, "running") /\ pc[r] = "running"
      BY <2>11 DEF AdapterCallsBinary, Goto, TypeOK
    <3> QED
      BY <2>8, <2>11, <3>1 DEF AdapterCallsBinary
  <2>12. ASSUME NEW r \in Runner,
                LaunchFails(r) \/ ChildExits(r) \/ TimeoutExpires(r)
         PROVE  DirectoryInv'
    <3>1. /\ pc[r] \in Looping /\ Goto(r, "write_raw")
          /\ UNCHANGED <<candidate, ident, results, outVars>>
          /\ \A q \in Runner \ {r} : child'[q] = child[q]
      BY <2>12 DEF LaunchFails, ChildExits, TimeoutExpires, TypeOK
    <3> QED
      BY <2>8, <3>1
  <2>13. ASSUME NEW r \in Runner, WriteRaw(r) PROVE DirectoryInv'
    <3>1. Live(r) /\ pc[r] \in Inside /\ pc'[r] = "write_case"
      BY <2>13 DEF WriteRaw, Goto, TypeOK, Live, Ended
    <3>2. RunOwns(r)'
      BY <2>0, <2>13, RawStep
    <3> QED
      BY <2>13, <3>1, <3>2, OwnStep DEF WriteRaw, Goto, TypeOK, runVars
  <2>14. ASSUME NEW r \in Runner, WriteCase(r) PROVE DirectoryInv'
    <3>1. /\ Live(r) /\ pc[r] \in Inside
          /\ pc'[r] \in {"write_summary", "verify_binary", "command"}
      BY <2>14 DEF WriteCase, Goto, TypeOK, Live, Ended, NextCase
    <3>2. RunOwns(r)'
      BY <2>0, <2>14, CaseStep
    <3>3. /\ UNCHANGED <<candidate, ident>>
          /\ \A q \in Runner \ {r} : /\ pc'[q] = pc[q] /\ child'[q] = child[q]
                                     /\ results'[q] = results[q]
      BY <2>14 DEF WriteCase, Goto, TypeOK
    <3> QED
      BY <3>1, <3>2, <3>3, OwnStep
  <2>15. ASSUME NEW r \in Runner, WriteSummary(r) PROVE DirectoryInv'
    <3>1. Live(r) /\ pc[r] = "write_summary" /\ pc'[r] = "done"
      BY <2>15 DEF WriteSummary, Goto, TypeOK, Live, Ended
    <3>2. RunOwns(r)'
      BY <2>0, <2>15, <3>1 DEF WriteSummary, RunOwns, CasesWritten, runVars
    <3> QED
      BY <2>15, <3>1, <3>2, OwnStep DEF WriteSummary, Goto, TypeOK, runVars
  <2>16. ASSUME NEW f \in File, Edit(f) PROVE DirectoryInv'
    BY <2>1, <2>16 DEF Edit
  <2>17. CASE UNCHANGED vars
    BY <2>1, <2>17 DEF vars
  <2> QED
    BY <2>2, <2>3, <2>4, <2>6, <2>7, <2>9, <2>10, <2>11, <2>12, <2>13, <2>14,
       <2>15, <2>16, <2>17 DEF Next, Step
<1> QED
  BY <1>1, <1>2, TypeCorrect, PTL DEF Spec

(* run_suite.main: whatever runs crashed, aborted or were refused before,   *)
(* a whole summary.json is the last word of one run whose case files, raw   *)
(* outputs and identity are all there, and it is computed from them.        *)
THEOREM PublicationIsCoherent == Spec => []PublishedRunIsCoherent
<1>1. TypeOK /\ DirectoryInv => PublishedRunIsCoherent
  <2> SUFFICES ASSUME TypeOK, DirectoryInv, Serial, Whole(summaryFile)
               PROVE  PublishedRunIsCoherent
    BY DEF PublishedRunIsCoherent
  <2>1. PICK r \in Runner :
          /\ pc[r] = "done"
          /\ summaryFile = [status |-> "whole", by |-> r,
                            summary |-> Summary(results[r], candidate[r])]
    BY DEF TypeOK, Whole, Absent, Torn
  <2>2. /\ environment = [status |-> "whole", by |-> r,
                          candidate |-> candidate[r], ident |-> ident[r]]
        /\ CasesWritten(r, NCases)
        /\ Len(results[r]) = NCases
    BY <2>1 DEF DirectoryInv, OwnerWritesInOrder, RunOwns
  <2>3. \A c \in Case :
          /\ Whole(rawFile[c]) /\ rawFile[c].by = r
          /\ Whole(caseFile[c]) /\ caseFile[c].by = r
          /\ caseFile[c].result = results[r][c]
          /\ caseFile[c].result =
               CaseResult(GroundTruth[c], rawFile[c].child, candidate[r])
    BY <2>2, SuiteAssumption DEF CasesWritten, Case
  <2>4. results[r] = [c \in Case |-> caseFile[c].result]
    <3>1. results[r] \in Seq(Result)
      BY DEF TypeOK
    <3>2. results[r] = [c \in Case |-> results[r][c]]
      BY <2>2, <3>1 DEF Case
    <3> QED
      BY <2>3, <3>2
  <2>5. /\ summaryFile.by = r /\ environment.by = r
        /\ environment.candidate = candidate[r] /\ environment.ident = ident[r]
        /\ Whole(environment)
        /\ summaryFile.summary = Summary(results[r], candidate[r])
    BY <2>1, <2>2 DEF Whole
  <2> QED
    BY <2>1, <2>3, <2>4, <2>5 DEF PublishedRunIsCoherent
<1> QED
  BY <1>1, TypeCorrect, DirectoryInvariant, PTL

-----------------------------------------------------------------------------
(* Runs that follow each other in one directory implement EvidenceDirectory *)

(* A run in its loop finds no case file beyond its results. *)
NothingAhead ==
    Serial =>
      \A r \in Runner : pc[r] \in Looping =>
        \A c \in Case : c > Len(results[r]) => ~Whole(caseFile[c])

(* A finished run and a run that is inside exclude each other. *)
LEMMA NoSummaryYet ==
    ASSUME TypeOK, DirectoryInv, Serial, NEW r \in Runner, pc[r] \in Inside
    PROVE  ~Whole(summaryFile)
<1> SUFFICES ASSUME Whole(summaryFile) PROVE FALSE
  OBVIOUS
<1>1. PICK q \in Runner : pc[q] = "done"
  BY DEF TypeOK, Whole, Absent, Torn
<1>2. q # r
  BY <1>1 DEF Inside, Capturing, Looping, AtCase, Verifying, Launched
<1> QED
  BY <1>1, <1>2, Alone

(* What follows the results of a run is left over from nobody: results are  *)
(* written in order into a directory that was found empty.                  *)
LEMMA NothingAheadInvariant == Spec => []NothingAhead
<1>1. Init => NothingAhead
  BY DEF Init, NothingAhead, Looping, AtCase, Verifying, Launched
<1>2. TypeOK /\ DirectoryInv /\ NothingAhead /\ [Next]_vars => NothingAhead'
  <2> SUFFICES ASSUME TypeOK, DirectoryInv, NothingAhead, Serial,
                      [Next]_vars, NEW r \in Runner, pc'[r] \in Looping,
                      NEW c \in Case, c > Len(results'[r])
               PROVE  ~Whole(caseFile'[c])
    BY DEF NothingAhead
  <2> USE DEF Looping, AtCase, Verifying, Launched
  <2>1. pc[r] \in Looping /\ c > Len(results[r]) => ~Whole(caseFile[c])
    BY DEF NothingAhead
  <2>2. CASE UNCHANGED <<pc, results, caseFile>>
    BY <2>1, <2>2
  <2>3. ASSUME NEW q \in Runner, NEW l, Goto(q, l), l \in Looping => pc[q] \in Looping,
               UNCHANGED <<results, caseFile>>
        PROVE  ~Whole(caseFile'[c])
    <3>1. pc[r] \in Looping
      BY <2>3 DEF Goto, TypeOK
    <3> QED
      BY <2>1, <2>3, <3>1
  <2>4. ASSUME NEW q \in Runner, WriteEnvironment(q) PROVE ~Whole(caseFile'[c])
    <3>1. pc[q] = "write_environment" /\ UNCHANGED caseFile
      BY <2>4 DEF WriteEnvironment
    <3>2. OutputEmpty
      BY <3>1 DEF DirectoryInv, EmptyUntilOwned
    <3> QED
      BY <3>1, <3>2 DEF OutputEmpty, Absent, Whole
  <2>5. ASSUME NEW q \in Runner, q # r, Live(q), pc'[r] = pc[r] PROVE FALSE
    BY <2>5 DEF DirectoryInv, OneLiveRun, Live, Ended
  <2>6. ASSUME NEW q \in Runner, WriteCase(q) PROVE ~Whole(caseFile'[c])
    <3>1. /\ pc[q] = "write_case"
          /\ \A p \in Runner \ {q} : pc'[p] = pc[p]
      BY <2>6 DEF WriteCase, Goto, TypeOK
    <3>2. q = r
      BY <2>5, <3>1 DEF Live, Ended
    <3>3. /\ results[r] \in Seq(Result)
          /\ \E result : results'[r] = Append(results[r], result)
          /\ \A d \in Case : d # Current(r) => caseFile'[d] = caseFile[d]
      BY <2>6, <3>2 DEF WriteCase, TypeOK
    <3>4. Len(results'[r]) = Current(r) /\ Len(results[r]) \in Nat
          /\ Current(r) = Len(results[r]) + 1
      BY <3>3 DEF Current
    <3>5. c \in Int
      BY SuiteAssumption DEF Case
    <3>6. c # Current(r) /\ c > Len(results[r])
      BY <3>4, <3>5
    <3> QED
      BY <2>1, <3>1, <3>2, <3>3, <3>6
  <2>7. ASSUME NEW q \in Runner, CrashWriting(q) PROVE ~Whole(caseFile'[c])
    <3>1. /\ pc[q] \in {"write_environment", "write_raw", "write_case", "write_summary"}
          /\ pc' = [pc EXCEPT ![q] = "crashed"]
      BY <2>7 DEF CrashWriting, Goto
    <3>2. q # r /\ pc'[r] = pc[r]
      BY <3>1 DEF TypeOK
    <3> QED
      BY <2>5, <3>1, <3>2 DEF Live, Ended
  <2>8. ASSUME NEW q \in Runner,
               \/ Start(q) \/ CheckOutput(q) \/ ReadManifest(q)
               \/ HashImplementation(q) \/ HashBinary(q) \/ CaptureFails(q)
               \/ CommandFails(q) \/ InterpretFails(q) \/ Crash(q)
        PROVE  ~Whole(caseFile'[c])
    <3>1. UNCHANGED <<results, caseFile>>
      BY <2>8 DEF Start, CheckOutput, ReadManifest, HashImplementation, HashBinary,
                  CaptureFails, CommandFails, InterpretFails, Crash, runVars, outVars
    <3>2. \E l : Goto(q, l) /\ l \notin Looping
      BY <2>8 DEF Start, CheckOutput, ReadManifest, HashImplementation, HashBinary,
                  CaptureFails, CommandFails, InterpretFails, Crash
    <3> QED
      BY <2>3, <3>1, <3>2
  <2>9. ASSUME NEW q \in Runner,
               \/ VerifyBinary(q) \/ VerifyManifest(q) \/ VerifyImplementation(q)
               \/ Launch(q) \/ LaunchFails(q) \/ ChildExits(q) \/ TimeoutExpires(q)
               \/ WriteRaw(q) \/ WriteSummary(q)
        PROVE  ~Whole(caseFile'[c])
    <3>1. UNCHANGED <<results, caseFile>> /\ pc[q] \in Looping
      BY <2>9 DEF VerifyBinary, VerifyManifest, VerifyImplementation, Verify, Launch,
                  LaunchFails, ChildExits, TimeoutExpires, WriteRaw, WriteSummary,
                  runVars, outVars
    <3>2. \E l : Goto(q, l)
      BY <2>9 DEF VerifyBinary, VerifyManifest, VerifyImplementation, Verify, Launch,
                  LaunchFails, ChildExits, TimeoutExpires, WriteRaw, WriteSummary
    <3> QED
      BY <2>3, <3>1, <3>2
  <2>10. ASSUME NEW q \in Runner, AdapterCallsBinary(q) PROVE ~Whole(caseFile'[c])
    BY <2>2, <2>10 DEF AdapterCallsBinary, outVars
  <2>11. ASSUME NEW f \in File, Edit(f) PROVE ~Whole(caseFile'[c])
    BY <2>2, <2>11 DEF Edit, runVars, outVars
  <2>12. CASE UNCHANGED vars
    BY <2>2, <2>12 DEF vars, runVars, outVars
  <2> QED
    BY <2>4, <2>6, <2>7, <2>8, <2>9, <2>10, <2>11, <2>12 DEF Next, Step
<1> QED
  BY <1>1, <1>2, TypeCorrect, DirectoryInvariant, PTL DEF Spec

(* The refinement mapping *)
owner     == IF Whole(environment)
             THEN [by |-> environment.by, candidate |-> environment.candidate]
             ELSE NoValue
recorded  == [c \in Case |-> IF Whole(caseFile[c]) THEN caseFile[c].result
                             ELSE NoValue]
published == IF Whole(summaryFile) THEN summaryFile.summary ELSE NoValue

(* What the reader sees of a directory a run is inside of. *)
LEMMA ViewFromInside ==
    ASSUME TypeOK, DirectoryInv, NothingAhead, Serial,
           NEW r \in Runner, pc[r] \in Looping
    PROVE  /\ owner = [by |-> r, candidate |-> candidate[r]]
           /\ owner # NoValue
           /\ published = NoValue
           /\ \A c \in Case : c <= Len(results[r]) =>
                /\ recorded[c] = results[r][c]
                /\ recorded[c] # NoValue
           /\ \A c \in Case : c > Len(results[r]) => recorded[c] = NoValue
<1>1. /\ environment = [status |-> "whole", by |-> r,
                        candidate |-> candidate[r], ident |-> ident[r]]
      /\ CasesWritten(r, Len(results[r]))
  BY DEF DirectoryInv, OwnerWritesInOrder, RunOwns
<1>2. owner = [by |-> r, candidate |-> candidate[r]] /\ owner # NoValue
  BY <1>1, NoValueAssumption DEF owner, Whole, TypeOK
<1>3. published = NoValue
  BY NoSummaryYet DEF published, Inside
<1>4. ASSUME NEW c \in Case, c <= Len(results[r])
      PROVE  recorded[c] = results[r][c] /\ recorded[c] # NoValue
  <2>1. Whole(caseFile[c]) /\ caseFile[c].result = results[r][c]
    BY <1>1, <1>4 DEF CasesWritten
  <2>2. c \in 1..Len(results[r]) /\ results[r] \in Seq(Result)
    BY <1>4, SuiteAssumption DEF TypeOK, Case
  <2>3. results[r][c] \in Result
    BY <2>2
  <2> QED
    BY <2>1, <2>3, NoValueAssumption DEF recorded
<1>5. ASSUME NEW c \in Case, c > Len(results[r]) PROVE recorded[c] = NoValue
  BY <1>5 DEF recorded, NothingAhead
<1> QED
  BY <1>2, <1>3, <1>4, <1>5

(* run_suite.main, run_case.run: runs that follow each other in one         *)
(* directory, crash where they may, give its reader one owner, results      *)
(* added in order and never rewritten, and one final summary.               *)
THEOREM ImplementsDirectory ==
    ASSUME Serial PROVE Spec => ImplementsEvidenceDirectory
<1>1. Init => Evidence!Init
  BY DEF Init, Evidence!Init, Evidence!Case, Case, Whole, Absent
<1>2. /\ TypeOK /\ TypeOK' /\ DirectoryInv /\ NothingAhead
      /\ [Next]_vars
      => [Evidence!Next]_Evidence!vars
  <2> SUFFICES ASSUME TypeOK, TypeOK', DirectoryInv, NothingAhead, [Next]_vars
               PROVE  Evidence!Next \/ UNCHANGED <<owner, recorded, published>>
    BY DEF Evidence!vars, owner, recorded, published
  <2>1. ASSUME NEW r \in Runner, WriteEnvironment(r) PROVE Evidence!Claim
    <3>1. /\ pc[r] = "write_environment"
          /\ environment' = [status |-> "whole", by |-> r,
                             candidate |-> candidate[r], ident |-> ident[r]]
          /\ UNCHANGED <<caseFile, summaryFile>>
          /\ candidate[r] \in BOOLEAN
      BY <2>1 DEF WriteEnvironment, TypeOK
    <3>2. ~Whole(environment)
      BY <3>1 DEF DirectoryInv, EmptyUntilOwned, OutputEmpty, Absent, Whole
    <3>3. /\ owner = NoValue
          /\ owner' = [by |-> r, candidate |-> candidate[r]]
          /\ UNCHANGED <<recorded, published>>
      BY <3>1, <3>2 DEF owner, recorded, published, Whole
    <3> QED
      BY <3>1, <3>3 DEF Evidence!Claim, owner, recorded, published
  <2>2. ASSUME NEW r \in Runner, WriteCase(r),
               NEW here \in Case, here = Current(r)
        PROVE  Evidence!Record(here)
    <3> DEFINE result == CaseResult(GroundTruth[here], child[r], candidate[r])
    <3>1. /\ pc[r] = "write_case" /\ pc[r] \in Looping
          /\ caseFile' = [caseFile EXCEPT ![here] =
                            [status |-> "whole", by |-> r, result |-> result]]
          /\ UNCHANGED <<environment, summaryFile>>
      BY <2>2 DEF WriteCase, Looping, AtCase, Launched
    <3>2. /\ here \in Case /\ child[r] \in Child
          /\ Len(results[r]) \in Nat /\ here = Len(results[r]) + 1
          /\ DOMAIN caseFile = Case
      BY <2>2, <3>1 DEF TypeOK, AtCase, Launched, Current
    <3> HIDE DEF result
    <3>3. /\ caseFile'[here] = [status |-> "whole", by |-> r, result |-> result]
          /\ \A c \in Case \ {here} : caseFile'[c] = caseFile[c]
      BY <3>1, <3>2 DEF TypeOK
    <3>4. /\ recorded'[here] = result
          /\ \A c \in Case \ {here} : recorded'[c] = recorded[c]
      BY <3>2, <3>3 DEF recorded, Whole
    <3>5. recorded' = [recorded EXCEPT ![here] = result]
      BY <3>2, <3>4 DEF recorded
    <3>6. UNCHANGED <<owner, published>>
      BY <3>1 DEF owner, published, Whole
    <3>7. /\ owner = [by |-> r, candidate |-> candidate[r]] /\ owner # NoValue
          /\ published = NoValue
          /\ recorded[here] = NoValue
          /\ \A c \in Case : c <= Len(results[r]) => recorded[c] # NoValue
      BY <3>1, <3>2, ViewFromInside
    <3>8. \A d \in 1..(here - 1) : d \in Case /\ d <= Len(results[r])
      BY <3>2, SuiteAssumption DEF Case
    <3>9. owner.candidate = candidate[r]
      BY <3>7
    <3>10. result = CaseResult(GroundTruth[here], child[r], owner.candidate)
      BY <3>9 DEF result
    <3>11. \A d \in 1..(here - 1) : recorded[d] # NoValue
      BY <3>7, <3>8
    <3> QED
      BY <3>2, <3>5, <3>6, <3>7, <3>10, <3>11
         DEF Evidence!Record, owner, recorded, published
  <2>3. ASSUME NEW r \in Runner, WriteSummary(r) PROVE Evidence!Publish
    <3>1. /\ pc[r] = "write_summary" /\ pc[r] \in Looping
          /\ summaryFile' = [status |-> "whole", by |-> r,
                             summary |-> Summary(results[r], candidate[r])]
          /\ UNCHANGED <<environment, caseFile>>
      BY <2>3 DEF WriteSummary, Looping
    <3>2. Len(results[r]) = NCases /\ results[r] \in Seq(Result)
      BY <3>1 DEF DirectoryInv, OwnerWritesInOrder, RunOwns, TypeOK
    <3>3. \A c \in Case : c <= Len(results[r])
      BY <3>2, SuiteAssumption DEF Case
    <3>4. /\ owner = [by |-> r, candidate |-> candidate[r]] /\ owner # NoValue
          /\ published = NoValue
          /\ \A c \in Case : recorded[c] = results[r][c] /\ recorded[c] # NoValue
      BY <3>1, <3>3, ViewFromInside
    <3>5. results[r] = recorded
      <4>1. results[r] = [c \in Case |-> results[r][c]]
        BY <3>2 DEF Case
      <4>2. recorded = [c \in Case |-> recorded[c]]
        BY DEF recorded
      <4> QED
        BY <3>4, <4>1, <4>2
    <3>6. owner.candidate = candidate[r]
      BY <3>4
    <3>7. published' = Summary(recorded, owner.candidate)
      BY <3>1, <3>5, <3>6 DEF published, Whole
    <3>8. UNCHANGED <<owner, recorded>>
      BY <3>1 DEF owner, recorded, Whole
    <3> QED
      BY <3>4, <3>7, <3>8
         DEF Evidence!Publish, Evidence!Case, Case, owner, recorded, published
  <2>4. ASSUME NEW r \in Runner, CrashWriting(r)
        PROVE  UNCHANGED <<owner, recorded, published>>
    <3>1. CASE /\ pc[r] = "write_environment"
               /\ environment' = Torn
               /\ UNCHANGED <<rawFile, caseFile, summaryFile>>
      <4>1. ~Whole(environment) /\ ~Whole(environment')
        BY <3>1 DEF DirectoryInv, EmptyUntilOwned, OutputEmpty, Absent, Torn, Whole
      <4> QED
        BY <3>1, <4>1 DEF owner, recorded, published, Whole
    <3>2. CASE UNCHANGED <<environment, caseFile, summaryFile>>
      BY <3>2 DEF owner, recorded, published, Whole
    <3>3. CASE /\ pc[r] = "write_case"
               /\ caseFile' = [caseFile EXCEPT ![Current(r)] = Torn]
               /\ UNCHANGED <<environment, summaryFile>>
      <4>1. Current(r) \in Case /\ Current(r) > Len(results[r])
        BY <3>3 DEF TypeOK, AtCase, Launched, Current
      <4>2. ~Whole(caseFile[Current(r)])
        BY <3>3, <4>1 DEF NothingAhead, Looping, AtCase, Launched
      <4>3. ~Whole(caseFile'[Current(r)])
        BY <3>3, <4>1 DEF TypeOK, Torn, Whole
      <4>4. \A c \in Case \ {Current(r)} : caseFile'[c] = caseFile[c]
        BY <3>3 DEF TypeOK
      <4>5. \A c \in Case : recorded'[c] = recorded[c]
        BY <4>2, <4>3, <4>4 DEF recorded, Whole
      <4> QED
        BY <3>3, <4>5 DEF owner, recorded, published, Whole
    <3>4. CASE /\ pc[r] = "write_summary"
               /\ summaryFile' = Torn
               /\ UNCHANGED <<environment, caseFile>>
      <4>1. ~Whole(summaryFile) /\ ~Whole(summaryFile')
        BY <3>4, NoSummaryYet DEF Inside, Looping, Torn, Whole
      <4> QED
        BY <3>4, <4>1 DEF owner, recorded, published, Whole
    <3> QED
      BY <2>4, <3>1, <3>2, <3>3, <3>4 DEF CrashWriting
  <2>5. CASE UNCHANGED outVars
    BY <2>5 DEF outVars, owner, recorded, published, Whole
  <2>6. ASSUME NEW r \in Runner, WriteRaw(r)
        PROVE  UNCHANGED <<owner, recorded, published>>
    BY <2>6 DEF WriteRaw, owner, recorded, published, Whole
  <2>7. ASSUME NEW r \in Runner,
               \/ Start(r) \/ CheckOutput(r) \/ ReadManifest(r)
               \/ HashImplementation(r) \/ HashBinary(r) \/ CaptureFails(r)
               \/ VerifyBinary(r) \/ VerifyManifest(r) \/ VerifyImplementation(r)
               \/ CommandFails(r) \/ InterpretFails(r) \/ Launch(r) \/ LaunchFails(r)
               \/ ChildExits(r) \/ TimeoutExpires(r) \/ AdapterCallsBinary(r)
               \/ Crash(r)
        PROVE  UNCHANGED outVars
    BY <2>7 DEF Start, CheckOutput, ReadManifest, HashImplementation, HashBinary,
       CaptureFails, VerifyBinary, VerifyManifest, VerifyImplementation, Verify,
       CommandFails, InterpretFails, Launch, LaunchFails, ChildExits, TimeoutExpires,
       AdapterCallsBinary, Crash
  <2>8. ASSUME NEW f \in File, Edit(f) PROVE UNCHANGED outVars
    BY <2>8 DEF Edit
  <2>9. CASE UNCHANGED vars
    BY <2>5, <2>9 DEF vars
  <2>10. ASSUME NEW r \in Runner, WriteCase(r) PROVE Evidence!Next
    <3>1. Current(r) \in Case
      BY <2>10 DEF WriteCase, TypeOK, AtCase, Launched
    <3>2. PICK c \in Case : c = Current(r)
      BY <3>1
    <3>3. Evidence!Record(c)
      BY <2>2, <2>10, <3>2
    <3> QED
      BY <3>3 DEF Evidence!Next, Evidence!Case, Case
  <2>11. (\E r \in Runner : WriteEnvironment(r) \/ WriteSummary(r)) => Evidence!Next
    BY <2>1, <2>3 DEF Evidence!Next
  <2> QED
    BY <2>4, <2>5, <2>6, <2>7, <2>8, <2>9, <2>10, <2>11 DEF Next, Step
<1> QED
  BY <1>1, <1>2, TypeCorrect, DirectoryInvariant, NothingAheadInvariant, PTL
     DEF Spec, Evidence!Spec, ImplementsEvidenceDirectory
=============================================================================
