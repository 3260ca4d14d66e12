------------------------------- MODULE SuiteRunProofs -------------------------------
(****************************************************************************)
(* The safety of SuiteRun for any number of runs, cases, outputs and        *)
(* versions, proved from the inductive invariants of SuiteRunInvariants.    *)
(****************************************************************************)
EXTENDS SuiteRunInvariants, TLAPS

(* A case result is a Result. *)
LEMMA ResultType ==
    ASSUME NEW c \in Case, NEW o \in Child, NEW b \in BOOLEAN
    PROVE  CaseResult(GroundTruth[c], o, b) \in Result
BY DEF Result

(* After n results the loop goes to a label, and to one that needs a case   *)
(* only when one is left.                                                   *)
LEMMA NextCaseType ==
    ASSUME NEW r \in Runner, NEW n \in Nat, n <= NCases
    PROVE  /\ NextCase(r, n) \in {"write_summary", "verify_binary", "command"}
           /\ NextCase(r, n) # "write_summary" => n + 1 \in Case
           /\ NextCase(r, n) = "write_summary" <=> n = NCases
BY SuiteAssumption DEF NextCase, Case

(* The variables keep the shapes the code gives them: SuiteRun's TypeOK     *)
(* holds in every reachable state.                                          *)
THEOREM TypeCorrect == Spec => []TypeOK
<1>1. Init => TypeOK
  BY SuiteAssumption DEF Init, TypeOK, Version, Label, EnvironmentFile, RawFile,
     ResultFile, Current, Starting, Capturing, AtCase, Verifying, Launched, Ended
<1>2. TypeOK /\ [Next]_vars => TypeOK'
  <2> SUFFICES ASSUME TypeOK, [Next]_vars PROVE TypeOK'
    OBVIOUS
  <2> USE SuiteAssumption DEF Label, Starting, Capturing, Looping, AtCase, Verifying,
      Launched, Ended
  <2>1. ASSUME NEW f \in File, Edit(f) PROVE TypeOK'
    <3>1. PICK w \in Replacements(disk[f]) : disk' = [disk EXCEPT ![f] = w]
      BY <2>1 DEF Edit
    <3>2. w \in Nat
      BY <3>1 DEF Replacements
    <3>3. disk' \in [File -> Version]
      BY <3>1, <3>2 DEF TypeOK, Version
    <3> QED
      BY <2>1, <3>3 DEF TypeOK, Edit, runVars, outVars, Current
  <2>2. ASSUME NEW r \in Runner, Start(r) PROVE TypeOK'
    BY <2>2 DEF TypeOK, Start, Goto, runVars, outVars, Current
  <2>3. ASSUME NEW r \in Runner, CheckOutput(r) PROVE TypeOK'
    BY <2>3 DEF TypeOK, CheckOutput, Goto, runVars, outVars, Current
  <2>4. ASSUME NEW r \in Runner, ReadManifest(r) PROVE TypeOK'
    BY <2>4 DEF TypeOK, ReadManifest, Goto, outVars, Current, File
  <2>5. ASSUME NEW r \in Runner, HashImplementation(r) PROVE TypeOK'
    BY <2>5 DEF TypeOK, HashImplementation, Goto, outVars, Current,
       File
  <2>6. ASSUME NEW r \in Runner, HashBinary(r) PROVE TypeOK'
    BY <2>6 DEF TypeOK, HashBinary, Goto, outVars, Current, File
  <2>7. ASSUME NEW r \in Runner, CaptureFails(r) PROVE TypeOK'
    BY <2>7 DEF TypeOK, CaptureFails, Goto, runVars, outVars, Current
  <2>8. ASSUME NEW r \in Runner, WriteEnvironment(r) PROVE TypeOK'
    <3>1. /\ NextCase(r, 0) \in {"write_summary", "verify_binary", "command"}
          /\ NextCase(r, 0) # "write_summary" => 1 \in Case
      BY NextCaseType
    <3>2. pc[r] = "write_environment"
      BY <2>8 DEF WriteEnvironment
    <3>3. environment' \in EnvironmentFile
      BY <2>8 DEF TypeOK, WriteEnvironment, EnvironmentFile
    <3>4. results[r] = << >> => Current(r) = 1
      BY DEF Current
    <3>5. pc' \in [Runner -> Label]
      BY <2>8, <3>1 DEF TypeOK, WriteEnvironment, Goto, Label
    <3> QED
      BY <2>8, <3>1, <3>2, <3>3, <3>4, <3>5 DEF TypeOK, WriteEnvironment, Goto,
         runVars, Current
  <2>9. ASSUME NEW r \in Runner, NEW f \in File,
               NEW here \in Verifying, NEW next \in Verifying \cup {"command"},
               Verify(r, f, here, next)
        PROVE  TypeOK'
    BY <2>9 DEF TypeOK, Verify, Verifying, Goto, runVars, outVars,
       Current
  <2>10. ASSUME NEW r \in Runner,
                VerifyBinary(r) \/ VerifyManifest(r) \/ VerifyImplementation(r)
         PROVE  TypeOK'
    BY <2>9, <2>10 DEF VerifyBinary, VerifyManifest, VerifyImplementation,
       Verifying, File
  <2>11. ASSUME NEW r \in Runner, CommandFails(r) \/ InterpretFails(r)
         PROVE  TypeOK'
    BY <2>11 DEF TypeOK, CommandFails, InterpretFails, Goto, runVars, outVars, Current
  <2>12. ASSUME NEW r \in Runner, NEW f \in File, pc[r] \in {"command", "running"},
                Executes(r, f)
         PROVE  ran' \in [Runner -> [Case -> SUBSET (File \X Version)]]
    BY <2>12 DEF TypeOK, Executes
  <2>13. ASSUME NEW r \in Runner, Launch(r) PROVE TypeOK'
    <3>1. ran' \in [Runner -> [Case -> SUBSET (File \X Version)]]
      BY <2>12, <2>13 DEF Launch, File
    <3> QED
      BY <2>13, <3>1 DEF TypeOK, Launch, Goto, outVars, Current
  <2>14. ASSUME NEW r \in Runner, AdapterCallsBinary(r) PROVE TypeOK'
    <3>1. ran' \in [Runner -> [Case -> SUBSET (File \X Version)]]
      BY <2>12, <2>14 DEF AdapterCallsBinary, File
    <3> QED
      BY <2>14, <3>1 DEF TypeOK, AdapterCallsBinary, outVars, Current
  <2>15. ASSUME NEW r \in Runner,
                LaunchFails(r) \/ ChildExits(r) \/ TimeoutExpires(r)
         PROVE  TypeOK'
    <3>1. PICK o \in Child :
            /\ child' = [child EXCEPT ![r] = o]
            /\ pc[r] \in {"command", "running"}
            /\ pc' = [pc EXCEPT ![r] = "write_raw"]
            /\ UNCHANGED <<disk, candidate, ident, results, ran, snapshot, outVars>>
      BY <2>15 DEF LaunchFails, ChildExits, TimeoutExpires, Goto
    <3> QED
      BY <3>1 DEF TypeOK, Label, outVars, Current
  <2>16. ASSUME NEW r \in Runner, WriteRaw(r) PROVE TypeOK'
    BY <2>16 DEF TypeOK, WriteRaw, Goto, runVars, Current, RawFile
  <2>17. ASSUME NEW r \in Runner, WriteCase(r) PROVE TypeOK'
    <3> DEFINE result ==
          CaseResult(GroundTruth[Current(r)], child[r], candidate[r])
    <3>1. /\ pc[r] = "write_case" /\ Current(r) \in Case /\ child[r] \in Child
          /\ candidate[r] \in BOOLEAN
      BY <2>17 DEF WriteCase, TypeOK
    <3>2. result \in Result
      BY <3>1, ResultType
    <3>3. /\ NextCase(r, Current(r)) \in {"write_summary", "verify_binary", "command"}
          /\ NextCase(r, Current(r)) # "write_summary" => Current(r) + 1 \in Case
      BY <3>1, NextCaseType DEF Case
    <3> HIDE DEF result
    <3>4. /\ caseFile' = [caseFile EXCEPT ![Current(r)] =
                            [status |-> "whole", by |-> r, result |-> result]]
          /\ results' = [results EXCEPT ![r] = Append(@, result)]
          /\ child' = [child EXCEPT ![r] = NoValue]
          /\ pc' = [pc EXCEPT ![r] = NextCase(r, Current(r))]
          /\ UNCHANGED <<disk, candidate, ident, ran, snapshot,
                         environment, rawFile, summaryFile>>
      BY <2>17 DEF WriteCase, Goto, result
    <3>5. caseFile' \in [Case -> ResultFile]
      BY <3>1, <3>2, <3>4 DEF TypeOK, ResultFile
    <3>6. /\ results' \in [Runner -> Seq(Result)]
          /\ Len(results'[r]) = Current(r)
          /\ Current(r)' = Current(r) + 1
          /\ \A q \in Runner : q # r => results'[q] = results[q]
      BY <3>2, <3>4 DEF TypeOK, Current
    <3>7. /\ child' \in [Runner -> Child \cup {NoValue}]
          /\ pc' \in [Runner -> Label]
      BY <3>3, <3>4 DEF TypeOK, Label
    <3>8. \A q \in Runner :
            /\ Len(results'[q]) <= NCases
            /\ pc'[q] \in Starting => results'[q] = << >>
            /\ pc'[q] \in AtCase => Current(q)' \in Case
            /\ pc'[q] \in {"write_raw", "write_case"} => child'[q] \in Child
      BY <3>1, <3>3, <3>4, <3>6 DEF TypeOK, Current, Case
    <3>9. \/ summaryFile' \in {Absent, Torn}
          \/ \E q \in Runner :
               /\ pc'[q] = "done"
               /\ summaryFile' = [status |-> "whole", by |-> q,
                                  summary |-> Summary(results'[q], candidate'[q])]
      BY <3>1, <3>4, <3>6 DEF TypeOK
    <3> QED
      BY <3>4, <3>5, <3>6, <3>7, <3>8, <3>9 DEF TypeOK
  <2>18. ASSUME NEW r \in Runner, WriteSummary(r) PROVE TypeOK'
    BY <2>18 DEF TypeOK, WriteSummary, Goto, runVars, Current
  <2>19. ASSUME NEW r \in Runner, Crash(r) PROVE TypeOK'
    BY <2>19 DEF TypeOK, Crash, Live, Goto, runVars, outVars, Current
  <2>20. ASSUME NEW r \in Runner, CrashWriting(r) PROVE TypeOK'
    BY <2>20 DEF TypeOK, CrashWriting, Goto, runVars, Current,
       EnvironmentFile, RawFile, ResultFile
  <2>21. CASE UNCHANGED vars
    BY <2>21 DEF TypeOK, vars, runVars, outVars, Current
  <2> QED
    BY <2>1, <2>2, <2>3, <2>4, <2>5, <2>6, <2>7, <2>8, <2>10, <2>11, <2>13,
       <2>14, <2>15, <2>16, <2>17, <2>18, <2>19, <2>20, <2>21 DEF Next, Step
<1> QED
  BY <1>1, <1>2, PTL DEF Spec

-----------------------------------------------------------------------------
(* A step of r that only moves its program counter, and not past an         *)
(* identity check, keeps IdentityInv.                                       *)
LEMMA ControlStep ==
    ASSUME TypeOK, IdentityInv,
           NEW r \in Runner, NEW l \in Label,
           pc' = [pc EXCEPT ![r] = l],
           UNCHANGED <<disk, candidate, ident, results, ran, snapshot>>,
           pc[r] \in Launched \cup Ended => l \in Launched \cup Ended,
           candidate[r] /\ l \in Looping \cup {"write_environment", "done"} =>
             pc[r] \in Looping \cup {"write_environment", "done"},
           candidate[r] /\ l \in {"verify_manifest", "verify_implementation",
                                  "command"} \cup Launched =>
             pc[r] \in {"command"} \cup Launched
    PROVE  IdentityInv'
<1> SUFFICES ASSUME ~Reverting
             PROVE  /\ NothingRanAhead' /\ VersionsInOrder' /\ SnapshotInOrder'
                    /\ ComparedFilesRanAsRecorded' /\ ComparedFilesWereInSnapshot'
  BY DEF IdentityInv
<1>0. /\ NothingRanAhead /\ VersionsInOrder /\ SnapshotInOrder
      /\ ComparedFilesRanAsRecorded /\ ComparedFilesWereInSnapshot
  BY DEF IdentityInv
<1>1. \A q \in Runner : pc'[q] = IF q = r THEN l ELSE pc[q]
  BY DEF TypeOK
<1>2. NothingRanAhead'
  BY <1>0, <1>1 DEF NothingRanAhead, Current
<1>3. VersionsInOrder'
  BY <1>0 DEF VersionsInOrder
<1>4. SnapshotInOrder'
  BY <1>0, <1>1 DEF SnapshotInOrder
<1>5. \A q \in Runner, f \in File : candidate[q] /\ Compared(q, f)' => Compared(q, f)
  BY <1>1 DEF Compared
<1>6. ComparedFilesRanAsRecorded'
  BY <1>0, <1>5 DEF ComparedFilesRanAsRecorded, RecordedUpTo
<1>7. ComparedFilesWereInSnapshot'
  BY <1>0, <1>5 DEF ComparedFilesWereInSnapshot
<1> QED
  BY <1>2, <1>3, <1>4, <1>6, <1>7

(* A passed check on f shows that f never changed since it was captured: it *)
(* ran as recorded so far, and was in the snapshot.                         *)
LEMMA PassedCheck ==
    ASSUME TypeOK, IdentityInv, ~Reverting,
           NEW r \in Runner, NEW f \in File,
           candidate[r], pc[r] \in Looping, disk[f] = ident[r][f]
    PROVE  RecordedUpTo(r, f, Len(results[r])) /\ ident[r][f] = snapshot[r][f]
<1>1. /\ ident[r][f] \in Nat /\ snapshot[r][f] \in Nat
      /\ \A c \in Case : ran[r][c] \subseteq File \X Nat
  BY DEF TypeOK, Version
<1>2. VersionsInOrder /\ SnapshotInOrder
  BY DEF IdentityInv
<1>3. ident[r][f] = snapshot[r][f]
  BY <1>1, <1>2 DEF VersionsInOrder, SnapshotInOrder
<1>4. ASSUME NEW c \in Case, NEW use \in ran[r][c], use[1] = f
      PROVE  use[2] = ident[r][f]
  <2>1. use[2] \in Nat
    BY <1>1
  <2> QED
    BY <1>1, <1>2, <1>4, <2>1 DEF VersionsInOrder
<1> QED
  BY <1>3, <1>4 DEF RecordedUpTo

(* A check that passed moves r on and keeps IdentityInv. *)
LEMMA CheckStep ==
    ASSUME TypeOK, IdentityInv,
           NEW r \in Runner, NEW f \in File, NEW l,
           candidate[r], disk[f] = ident[r][f],
           pc' = [pc EXCEPT ![r] = l],
           UNCHANGED <<disk, candidate, ident, results, ran, snapshot>>,
           \/ pc[r] = "verify_binary" /\ f = "binary" /\ l = "verify_manifest"
           \/ pc[r] = "verify_manifest" /\ f = "manifest"
                /\ l = "verify_implementation"
           \/ pc[r] = "verify_implementation" /\ f = "implementation"
                /\ l = "command"
    PROVE  IdentityInv'
<1> SUFFICES ASSUME ~Reverting
             PROVE  /\ NothingRanAhead' /\ VersionsInOrder' /\ SnapshotInOrder'
                    /\ ComparedFilesRanAsRecorded' /\ ComparedFilesWereInSnapshot'
  BY DEF IdentityInv
<1>0. /\ NothingRanAhead /\ VersionsInOrder /\ SnapshotInOrder
      /\ ComparedFilesRanAsRecorded /\ ComparedFilesWereInSnapshot
  BY DEF IdentityInv
<1>1. /\ \A q \in Runner : pc'[q] = IF q = r THEN l ELSE pc[q]
      /\ pc[r] \in Looping /\ l \in Looping
      /\ pc[r] \notin Launched \cup Ended
  BY DEF TypeOK, Looping, AtCase, Verifying, Launched, Ended
<1>2. NothingRanAhead'
  BY <1>0, <1>1 DEF NothingRanAhead, Current
<1>3. VersionsInOrder'
  BY <1>0 DEF VersionsInOrder
<1>4. SnapshotInOrder'
  BY <1>0, <1>1 DEF SnapshotInOrder
<1>5. RecordedUpTo(r, f, Len(results[r])) /\ ident[r][f] = snapshot[r][f]
  BY <1>1, PassedCheck
<1>6. \A q \in Runner, g \in File :
        Compared(q, g)' => Compared(q, g) \/ (q = r /\ g = f)
  BY <1>1 DEF Compared, File, Launched
<1>7. ComparedFilesRanAsRecorded'
  BY <1>0, <1>5, <1>6 DEF ComparedFilesRanAsRecorded, RecordedUpTo
<1>8. ComparedFilesWereInSnapshot'
  BY <1>0, <1>5, <1>6 DEF ComparedFilesWereInSnapshot
<1> QED
  BY <1>2, <1>3, <1>4, <1>7, <1>8

(* Capturing part of the identity keeps IdentityInv: nothing ran yet. *)
LEMMA CaptureStep ==
    ASSUME TypeOK, IdentityInv, TypeOK',
           NEW r \in Runner, NEW l \in Capturing \cup {"write_environment"},
           pc[r] \in Capturing,
           pc' = [pc EXCEPT ![r] = l],
           UNCHANGED <<disk, candidate, results, ran>>,
           \A q \in Runner : q # r => /\ ident'[q] = ident[q]
                                      /\ snapshot'[q] = snapshot[q],
           \A f \in File : /\ ident'[r][f] \in {ident[r][f], disk[f]}
                           /\ snapshot'[r][f] \in {snapshot[r][f], disk[f]},
           l = "write_environment" =>
             /\ snapshot'[r] = disk
             /\ ident'[r]["binary"] = disk["binary"]
    PROVE  IdentityInv'
<1> SUFFICES ASSUME ~Reverting
             PROVE  /\ NothingRanAhead' /\ VersionsInOrder' /\ SnapshotInOrder'
                    /\ ComparedFilesRanAsRecorded' /\ ComparedFilesWereInSnapshot'
  BY DEF IdentityInv
<1>0. /\ NothingRanAhead /\ VersionsInOrder /\ SnapshotInOrder
      /\ ComparedFilesRanAsRecorded /\ ComparedFilesWereInSnapshot
  BY DEF IdentityInv
<1>1. /\ \A q \in Runner : pc'[q] = IF q = r THEN l ELSE pc[q]
      /\ results[r] = << >>
      /\ pc[r] \notin Launched \cup Ended
      /\ l \notin Looping \cup Launched \cup Ended
  BY DEF TypeOK, Starting, Capturing, Launched, Ended, Looping, AtCase, Verifying
<1>2. /\ disk \in [File -> Nat] /\ ident \in [Runner -> [File -> Nat]]
      /\ snapshot \in [Runner -> [File -> Nat]]
      /\ ident' \in [Runner -> [File -> Nat]]
      /\ snapshot' \in [Runner -> [File -> Nat]]
  BY DEF TypeOK, Version
<1>3. \A c \in Case : ran[r][c] = {}
  BY <1>0, <1>1, SuiteAssumption DEF NothingRanAhead, Case
<1>4. NothingRanAhead'
  BY <1>0, <1>1, <1>3 DEF NothingRanAhead, Current
<1>5. \A f \in File : ident'[r][f] <= disk[f] /\ snapshot'[r][f] <= disk[f]
  <2> SUFFICES ASSUME NEW f \in File
               PROVE  ident'[r][f] <= disk[f] /\ snapshot'[r][f] <= disk[f]
    OBVIOUS
  <2>1. /\ ident[r][f] <= disk[f] /\ snapshot[r][f] <= disk[f]
        /\ disk[f] \in Nat
    BY <1>0, <1>2 DEF VersionsInOrder
  <2>2. /\ ident'[r][f] = ident[r][f] \/ ident'[r][f] = disk[f]
        /\ snapshot'[r][f] = snapshot[r][f] \/ snapshot'[r][f] = disk[f]
    OBVIOUS
  <2> QED
    BY <2>1, <2>2
<1>6. VersionsInOrder'
  BY <1>0, <1>3, <1>5 DEF VersionsInOrder
<1>7. SnapshotInOrder'
  <2>1. ASSUME NEW q \in Runner, q # r, candidate[q],
               pc'[q] \in Looping \cup {"write_environment", "done"}
        PROVE  /\ ident'[q]["binary"] = snapshot'[q]["binary"]
               /\ \A f \in File : ident'[q][f] <= snapshot'[q][f]
    BY <1>0, <1>1, <2>1 DEF SnapshotInOrder
  <2>2. l = "write_environment" =>
          /\ ident'[r]["binary"] = snapshot'[r]["binary"]
          /\ \A f \in File : ident'[r][f] <= snapshot'[r][f]
    BY <1>5
  <2>3. pc'[r] \in Looping \cup {"write_environment", "done"} =>
          l = "write_environment"
    BY <1>1 DEF Ended
  <2> QED
    BY <2>1, <2>2, <2>3 DEF SnapshotInOrder
<1>8. \A q \in Runner, f \in File : Compared(q, f)' => q # r /\ Compared(q, f)
  BY <1>1 DEF Compared, Looping, AtCase, Verifying
<1>9. ComparedFilesRanAsRecorded'
  BY <1>0, <1>1, <1>3, <1>8 DEF ComparedFilesRanAsRecorded, RecordedUpTo
<1>10. ComparedFilesWereInSnapshot'
  BY <1>0, <1>1, <1>8 DEF ComparedFilesWereInSnapshot
<1> QED
  BY <1>4, <1>6, <1>7, <1>9, <1>10

(* Executing f at the current case adds its version on disk to what ran. *)
LEMMA ExecuteStep ==
    ASSUME TypeOK, IdentityInv, TypeOK',
           NEW r \in Runner, NEW f \in File,
           Executes(r, f),
           pc[r] \in {"command", "running"},
           pc' = [pc EXCEPT ![r] = "running"],
           UNCHANGED <<disk, candidate, ident, results, snapshot>>
    PROVE  IdentityInv'
<1> SUFFICES ASSUME ~Reverting
             PROVE  /\ NothingRanAhead' /\ VersionsInOrder' /\ SnapshotInOrder'
                    /\ ComparedFilesRanAsRecorded' /\ ComparedFilesWereInSnapshot'
  BY DEF IdentityInv
<1>0. /\ NothingRanAhead /\ VersionsInOrder /\ SnapshotInOrder
      /\ ComparedFilesRanAsRecorded /\ ComparedFilesWereInSnapshot
  BY DEF IdentityInv
<1>1. \A q \in Runner : pc'[q] = IF q = r THEN "running" ELSE pc[q]
  BY DEF TypeOK
<1>2. /\ Current(r) \in Case
      /\ Current(r) = Len(results[r]) + 1 /\ Len(results[r]) \in Nat
  BY DEF TypeOK, Current, AtCase, Launched
<1>2a. /\ \A c \in Case : c \in Nat
       /\ \A q \in Runner : Len(results[q]) \in Nat
  BY SuiteAssumption DEF Case, TypeOK
<1>3. \A q \in Runner, c \in Case :
        ran'[q][c] = IF q = r /\ c = Current(r)
                     THEN ran[r][c] \cup {<<f, disk[f]>>} ELSE ran[q][c]
  BY <1>2 DEF Executes, TypeOK
<1>4. NothingRanAhead'
  <2> SUFFICES ASSUME NEW q \in Runner, NEW c \in Case, ran'[q][c] # {}
               PROVE  \/ c <= Len(results[q])
                      \/ c = Current(q) /\ pc'[q] \in Launched \cup Ended
    BY DEF NothingRanAhead, Current
  <2>1. CASE q = r /\ c = Current(r)
    BY <1>1, <2>1 DEF Launched
  <2>2. CASE ~(q = r /\ c = Current(r))
    <3>1. ran[q][c] # {}
      BY <1>3, <2>2
    <3> QED
      BY <1>0, <1>1, <2>2, <3>1 DEF NothingRanAhead, Current
  <2> QED
    BY <2>1, <2>2
<1>5. VersionsInOrder'
  <2>1. /\ ident[r][f] <= disk[f]
        /\ disk[f] <= disk[f]
    BY <1>0 DEF VersionsInOrder, TypeOK, Version
  <2>2. ASSUME NEW q \in Runner, NEW c \in Case, NEW use \in ran'[q][c]
        PROVE  ident[q][use[1]] <= use[2] /\ use[2] <= disk[use[1]]
    <3>1. CASE use \in ran[q][c]
      BY <1>0, <3>1 DEF VersionsInOrder
    <3>2. CASE use \notin ran[q][c]
      <4>1. q = r /\ use = <<f, disk[f]>>
        BY <1>3, <3>2
      <4> QED
        BY <2>1, <4>1
    <3> QED
      BY <3>1, <3>2
  <2> QED
    BY <1>0, <2>2 DEF VersionsInOrder
<1>6. SnapshotInOrder'
  BY <1>0, <1>1 DEF SnapshotInOrder, Looping, AtCase, Launched
<1>7. \A q \in Runner, g \in File : Compared(q, g)' => Compared(q, g)
  BY <1>1 DEF Compared, Launched
<1>8. \A q \in Runner, c \in Case :
        c <= Len(results[q]) => ran'[q][c] = ran[q][c]
  <2> SUFFICES ASSUME NEW q \in Runner, NEW c \in Case, c <= Len(results[q])
               PROVE  ran'[q][c] = ran[q][c]
    OBVIOUS
  <2>1. ~(q = r /\ c = Current(r))
    BY <1>2, <1>2a
  <2> QED
    BY <1>3, <2>1
<1>9. ComparedFilesRanAsRecorded'
  <2>1. \A q \in Runner, g \in File :
          /\ RecordedUpTo(q, g, Len(results[q]))' <=>
               RecordedUpTo(q, g, Len(results[q]))
          /\ RecordedUpTo(q, g, Len(results[q]) - 1)' <=>
               RecordedUpTo(q, g, Len(results[q]) - 1)
    BY <1>2a, <1>8 DEF RecordedUpTo
  <2> QED
    BY <1>0, <1>7, <2>1 DEF ComparedFilesRanAsRecorded
<1>10. ComparedFilesWereInSnapshot'
  BY <1>0, <1>7 DEF ComparedFilesWereInSnapshot
<1> QED
  BY <1>4, <1>5, <1>6, <1>9, <1>10

(* Replacing a file by newer bytes keeps IdentityInv. *)
LEMMA EditStep ==
    ASSUME TypeOK, IdentityInv, NEW f \in File, Edit(f)
    PROVE  IdentityInv'
<1> SUFFICES ASSUME ~Reverting
             PROVE  /\ NothingRanAhead' /\ VersionsInOrder' /\ SnapshotInOrder'
                    /\ ComparedFilesRanAsRecorded' /\ ComparedFilesWereInSnapshot'
  BY DEF IdentityInv
<1>0. /\ NothingRanAhead /\ VersionsInOrder /\ SnapshotInOrder
      /\ ComparedFilesRanAsRecorded /\ ComparedFilesWereInSnapshot
  BY DEF IdentityInv
<1>1. UNCHANGED <<pc, candidate, ident, results, ran, snapshot>>
  BY DEF Edit, runVars
<1>2. /\ \A g \in File : disk[g] \in Nat /\ disk'[g] \in Nat /\ disk[g] <= disk'[g]
      /\ \A r \in Runner, g \in File : ident[r][g] \in Nat /\ snapshot[r][g] \in Nat
      /\ \A r \in Runner, c \in Case : ran[r][c] \subseteq File \X Nat
  <2>1. PICK w \in Replacements(disk[f]) : disk' = [disk EXCEPT ![f] = w]
    BY DEF Edit
  <2>2. w \in Nat /\ disk[f] \in Nat /\ w = disk[f] + 1
    BY <2>1 DEF Replacements, TypeOK, Version
  <2> QED
    BY <2>1, <2>2 DEF TypeOK, Version
<1>3. VersionsInOrder'
  <2>1. ASSUME NEW r \in Runner, NEW g \in File
        PROVE  ident[r][g] <= disk'[g] /\ snapshot[r][g] <= disk'[g]
    <3>1. ident[r][g] <= disk[g] /\ snapshot[r][g] <= disk[g]
      BY <1>0 DEF VersionsInOrder
    <3> QED
      BY <1>2, <3>1
  <2>2. ASSUME NEW r \in Runner, NEW c \in Case, NEW use \in ran[r][c]
        PROVE  ident[r][use[1]] <= use[2] /\ use[2] <= disk'[use[1]]
    <3>1. ident[r][use[1]] <= use[2] /\ use[2] <= disk[use[1]]
      BY <1>0 DEF VersionsInOrder
    <3>2. use[1] \in File /\ use[2] \in Nat
      BY <1>2
    <3> QED
      BY <1>2, <3>1, <3>2
  <2> QED
    BY <1>1, <2>1, <2>2 DEF VersionsInOrder
<1>4. NothingRanAhead' /\ SnapshotInOrder'
  BY <1>0, <1>1 DEF NothingRanAhead, SnapshotInOrder, Current
<1>5. ComparedFilesRanAsRecorded' /\ ComparedFilesWereInSnapshot'
  BY <1>0, <1>1 DEF ComparedFilesRanAsRecorded, ComparedFilesWereInSnapshot,
     RecordedUpTo, Compared
<1> QED
  BY <1>3, <1>4, <1>5

(* Recording a result moves the current case among the earlier ones: the    *)
(* files that ran for it are compared only at the case after it.            *)
LEMMA RecordStep ==
    ASSUME TypeOK, IdentityInv, TypeOK', NEW r \in Runner, WriteCase(r)
    PROVE  IdentityInv'
<1> SUFFICES ASSUME ~Reverting
             PROVE  /\ NothingRanAhead' /\ VersionsInOrder' /\ SnapshotInOrder'
                    /\ ComparedFilesRanAsRecorded' /\ ComparedFilesWereInSnapshot'
  BY DEF IdentityInv
<1>0. /\ NothingRanAhead /\ VersionsInOrder /\ SnapshotInOrder
      /\ ComparedFilesRanAsRecorded /\ ComparedFilesWereInSnapshot
  BY DEF IdentityInv
<1>1. /\ pc[r] = "write_case"
      /\ UNCHANGED <<disk, candidate, ident, ran, snapshot>>
      /\ \A q \in Runner : q # r => pc'[q] = pc[q] /\ results'[q] = results[q]
      /\ pc'[r] = NextCase(r, Current(r))
  BY DEF WriteCase, Goto, TypeOK
<1>2. /\ Len(results[r]) \in Nat /\ Len(results'[r]) = Len(results[r]) + 1
      /\ Current(r) = Len(results[r]) + 1 /\ Current(r) \in Case
      /\ Current(r)' = Len(results[r]) + 2
  <2>1. results'[r] = Append(results[r], CaseResult(GroundTruth[Current(r)],
                                                    child[r], candidate[r]))
    BY DEF WriteCase, TypeOK
  <2>2. /\ results[r] \in Seq(Result)
        /\ CaseResult(GroundTruth[Current(r)], child[r], candidate[r]) \in Result
        /\ Current(r) \in Case
    BY <1>1, ResultType DEF TypeOK, AtCase, Launched
  <2> QED
    BY <2>1, <2>2 DEF Current
<1>3. pc'[r] \in {"write_summary", "verify_binary"} \/ ~candidate[r]
  BY <1>1 DEF NextCase
<1>3a. pc'[r] \in {"write_summary", "verify_binary", "command"}
  BY <1>1 DEF NextCase
<1>4. NothingRanAhead'
  <2> SUFFICES ASSUME NEW q \in Runner, NEW c \in Case, ran[q][c] # {}
               PROVE  \/ c <= Len(results'[q])
                      \/ c = Len(results'[q]) + 1 /\ pc'[q] \in Launched \cup Ended
    BY <1>1 DEF NothingRanAhead, Current
  <2>1. c \in Nat
    BY SuiteAssumption DEF Case
  <2>2. CASE q = r
    BY <1>0, <1>2, <2>1, <2>2 DEF NothingRanAhead
  <2>3. CASE q # r
    BY <1>0, <1>1, <2>3 DEF NothingRanAhead, Current
  <2> QED
    BY <2>2, <2>3
<1>5. VersionsInOrder'
  BY <1>0, <1>1 DEF VersionsInOrder
<1>6. SnapshotInOrder'
  BY <1>0, <1>1 DEF SnapshotInOrder, Looping, AtCase, Launched
<1>7. \A q \in Runner, f \in File :
        candidate[q] /\ Compared(q, f)' => q # r /\ Compared(q, f)
  BY <1>1, <1>3 DEF Compared, Launched
<1>8. \A f \in File : Compared(r, f)
  BY <1>1 DEF Compared, Launched
<1>9. ComparedFilesRanAsRecorded'
  <2> SUFFICES ASSUME NEW q \in Runner, candidate[q], NEW f \in File
               PROVE  /\ RecordedUpTo(q, f, Len(results[q]) - 1)'
                      /\ Compared(q, f)' => RecordedUpTo(q, f, Len(results[q]))'
    BY <1>1 DEF ComparedFilesRanAsRecorded
  <2>1. CASE q # r
    BY <1>0, <1>1, <1>7, <2>1 DEF ComparedFilesRanAsRecorded, RecordedUpTo
  <2>2. CASE q = r
    <3>1. RecordedUpTo(r, f, Len(results[r]))
      BY <1>0, <1>8, <2>2 DEF ComparedFilesRanAsRecorded
    <3>2. Len(results'[r]) - 1 = Len(results[r])
      BY <1>2
    <3> QED
      BY <1>1, <1>7, <2>2, <3>1, <3>2 DEF RecordedUpTo
  <2> QED
    BY <2>1, <2>2
<1>10. ComparedFilesWereInSnapshot'
  BY <1>0, <1>1, <1>7, <1>8 DEF ComparedFilesWereInSnapshot
<1> QED
  BY <1>4, <1>5, <1>6, <1>9, <1>10

(* IdentityInv holds in every reachable state. *)
THEOREM IdentityInvariant == Spec => []IdentityInv
<1>1. Init => IdentityInv
  BY SuiteAssumption DEF Init, IdentityInv, NothingRanAhead, VersionsInOrder,
     SnapshotInOrder, ComparedFilesRanAsRecorded, ComparedFilesWereInSnapshot,
     RecordedUpTo, Compared, Looping, AtCase, Verifying, Launched
<1>2. TypeOK /\ TypeOK' /\ IdentityInv /\ [Next]_vars => IdentityInv'
  <2> SUFFICES ASSUME TypeOK, TypeOK', IdentityInv, [Next]_vars
               PROVE  IdentityInv'
    OBVIOUS
  <2> USE DEF Label, Starting, Capturing, Looping, AtCase, Verifying, Launched,
      Ended
  <2>1. ASSUME NEW f \in File, Edit(f) PROVE IdentityInv'
    BY <2>1, EditStep
  <2>3. ASSUME NEW r \in Runner, Start(r) PROVE IdentityInv'
    BY <2>3, ControlStep DEF Start, Goto, runVars
  <2>4. ASSUME NEW r \in Runner, CheckOutput(r) PROVE IdentityInv'
    BY <2>4, ControlStep DEF CheckOutput, Goto, runVars
  <2>5. ASSUME NEW r \in Runner, ReadManifest(r) PROVE IdentityInv'
    BY <2>5, CaptureStep DEF ReadManifest, Goto, TypeOK
  <2>6. ASSUME NEW r \in Runner, HashImplementation(r) PROVE IdentityInv'
    BY <2>6, CaptureStep DEF HashImplementation, Goto, TypeOK
  <2>7. ASSUME NEW r \in Runner, HashBinary(r) PROVE IdentityInv'
    BY <2>7, CaptureStep DEF HashBinary, Goto, TypeOK, File
  <2>8. ASSUME NEW r \in Runner, CaptureFails(r) PROVE IdentityInv'
    BY <2>8, ControlStep DEF CaptureFails, Goto, runVars
  <2>9. ASSUME NEW r \in Runner, WriteEnvironment(r) PROVE IdentityInv'
    BY <2>9, ControlStep DEF WriteEnvironment, Goto, runVars, NextCase
  <2>10. ASSUME NEW r \in Runner, CommandFails(r) \/ InterpretFails(r)
         PROVE  IdentityInv'
    BY <2>10, ControlStep DEF CommandFails, InterpretFails, Goto, runVars
  <2>11. ASSUME NEW r \in Runner, Launch(r) PROVE IdentityInv'
    BY <2>11, ExecuteStep DEF Launch, Goto, File
  <2>12. ASSUME NEW r \in Runner, AdapterCallsBinary(r) PROVE IdentityInv'
    <3>1. pc' = [pc EXCEPT ![r] = "running"]
      BY <2>12 DEF AdapterCallsBinary, TypeOK
    <3> QED
      BY <2>12, <3>1, ExecuteStep DEF AdapterCallsBinary, File
  <2>13. ASSUME NEW r \in Runner,
                LaunchFails(r) \/ ChildExits(r) \/ TimeoutExpires(r)
         PROVE  IdentityInv'
    BY <2>13, ControlStep DEF LaunchFails, ChildExits, TimeoutExpires, Goto
  <2>14. ASSUME NEW r \in Runner, WriteRaw(r) PROVE IdentityInv'
    BY <2>14, ControlStep DEF WriteRaw, Goto, runVars
  <2>15. ASSUME NEW r \in Runner, WriteCase(r) PROVE IdentityInv'
    BY <2>15, RecordStep
  <2>16. ASSUME NEW r \in Runner, WriteSummary(r) PROVE IdentityInv'
    BY <2>16, ControlStep DEF WriteSummary, Goto, runVars
  <2>17. ASSUME NEW r \in Runner, Crash(r) PROVE IdentityInv'
    BY <2>17, ControlStep DEF Crash, Goto, runVars
  <2>18. ASSUME NEW r \in Runner, CrashWriting(r) PROVE IdentityInv'
    BY <2>18, ControlStep DEF CrashWriting, Goto, runVars
  <2>19. ASSUME NEW r \in Runner,
                VerifyBinary(r) \/ VerifyManifest(r) \/ VerifyImplementation(r)
         PROVE  IdentityInv'
    <3>1. PICK f \in File, here \in Verifying, next \in Verifying \cup {"command"} :
            /\ Verify(r, f, here, next)
            /\ \/ here = "verify_binary" /\ f = "binary"
                    /\ next = "verify_manifest"
               \/ here = "verify_manifest" /\ f = "manifest"
                    /\ next = "verify_implementation"
               \/ here = "verify_implementation" /\ f = "implementation"
                    /\ next = "command"
      BY <2>19 DEF VerifyBinary, VerifyManifest, VerifyImplementation, File
    <3>2. CASE disk[f] = ident[r][f] /\ candidate[r]
      BY <3>1, <3>2, CheckStep DEF Verify, SameBytes, Goto, runVars
    <3>3. CASE disk[f] # ident[r][f]
      BY <3>1, <3>3, ControlStep DEF Verify, SameBytes, Goto, runVars
    <3>4. CASE disk[f] = ident[r][f] /\ ~candidate[r]
      BY <3>1, <3>4, ControlStep DEF Verify, SameBytes, Goto, runVars
    <3> QED
      BY <3>2, <3>3, <3>4 DEF TypeOK
  <2>20. CASE UNCHANGED vars
    BY <2>20 DEF vars, runVars, IdentityInv, NothingRanAhead, VersionsInOrder,
       SnapshotInOrder, ComparedFilesRanAsRecorded, ComparedFilesWereInSnapshot,
       RecordedUpTo, Compared, Current
  <2> QED
    BY <2>1, <2>3, <2>4, <2>5, <2>6, <2>7, <2>8, <2>9, <2>10, <2>11, <2>12,
       <2>13, <2>14, <2>15, <2>16, <2>17, <2>18, <2>19, <2>20 DEF Next, Step
<1> QED
  BY <1>1, <1>2, TypeCorrect, PTL DEF Spec

(* run_case._verify_case_identity: however the identity files are replaced  *)
(* during a run, every candidate case before the last verified one executed *)
(* the bytes whose digests environment.json records.                        *)
THEOREM EarlierCasesBound == Spec => []EarlierCasesRanRecordedBytes
<1>1. TypeOK /\ IdentityInv => EarlierCasesRanRecordedBytes
  <2> SUFFICES ASSUME TypeOK, IdentityInv, ~Reverting,
                      NEW r \in Runner, candidate[r],
                      NEW c \in 1..(Verified(r) - 1), NEW use \in ran[r][c]
               PROVE  use[2] = ident[r][use[1]]
    BY DEF EarlierCasesRanRecordedBytes
  <2>1. /\ ComparedFilesRanAsRecorded
        /\ NCases \in Nat /\ Len(results[r]) \in Nat /\ Len(results[r]) <= NCases
        /\ Current(r) = Len(results[r]) + 1
    BY SuiteAssumption DEF IdentityInv, TypeOK, Current
  <2>2. c \in Case /\ c <= Len(results[r])
    BY <2>1, SuiteAssumption DEF Verified, Case
  <2>3. use[1] \in File
    BY <2>2 DEF TypeOK
  <2>4. CASE pc[r] \in {"command"} \cup Launched
    BY <2>1, <2>2, <2>3, <2>4
       DEF ComparedFilesRanAsRecorded, Compared, RecordedUpTo
  <2>5. CASE pc[r] \notin {"command"} \cup Launched
    <3>1. c <= Len(results[r]) - 1
      BY <2>1, <2>5 DEF Verified
    <3> QED
      BY <2>1, <2>2, <2>3, <3>1 DEF ComparedFilesRanAsRecorded, RecordedUpTo
  <2> QED
    BY <2>4, <2>5
<1> QED
  BY <1>1, TypeCorrect, IdentityInvariant, PTL

(* run_suite.py:60-66: the three digests of environment.json are taken one  *)
(* after the other, but after one verified case they are known to have been *)
(* on disk together.                                                        *)
THEOREM IdentityWasASnapshot == Spec => []RecordedIdentityExisted
<1>1. TypeOK /\ IdentityInv => RecordedIdentityExisted
  <2> SUFFICES ASSUME TypeOK, IdentityInv, ~Reverting,
                      NEW r \in Runner, candidate[r], Verified(r) >= 1
               PROVE  ident[r] = snapshot[r]
    BY DEF RecordedIdentityExisted
  <2>1. ComparedFilesWereInSnapshot
    BY DEF IdentityInv
  <2>2. results[r] = << >> => pc[r] \in {"command"} \cup Launched
    BY DEF Verified
  <2>3. \A f \in File : ident[r][f] = snapshot[r][f]
    BY <2>1, <2>2 DEF ComparedFilesWereInSnapshot, Compared
  <2> QED
    BY <2>3 DEF TypeOK
<1> QED
  BY <1>1, TypeCorrect, IdentityInvariant, PTL
=============================================================================
