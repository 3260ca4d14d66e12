----------------------------- MODULE SuiteRunInvariants -----------------------------
(****************************************************************************)
(* The inductive strengthenings behind the safety invariants of SuiteRun.   *)
(****************************************************************************)
EXTENDS SuiteRun

-----------------------------------------------------------------------------
(* What the identity checks have established *)

(* A run without results has started nothing. *)
NothingRanAhead ==
    \A r \in Runner :
      \A c \in Case :
          ran[r][c] # {} =>
            \/ c <= Len(results[r])
            \/ c = Current(r) /\ pc[r] \in Launched \cup Ended

(* Files are only ever replaced by newer ones, so what was captured is no   *)
(* newer than what ran, and what ran no newer than what is there now.       *)
VersionsInOrder ==
    \A r \in Runner :
      /\ \A f \in File : ident[r][f] <= disk[f]
      /\ \A f \in File : snapshot[r][f] <= disk[f]
      /\ \A c \in Case : \A use \in ran[r][c] :
           /\ ident[r][use[1]] <= use[2]
           /\ use[2] <= disk[use[1]]

(* Every recorded digest brackets the instant the binary was hashed. *)
SnapshotInOrder ==
    \A r \in Runner :
      candidate[r] /\ pc[r] \in Looping \cup {"write_environment", "done"} =>
        /\ ident[r]["binary"] = snapshot[r]["binary"]
        /\ \A f \in File : ident[r][f] <= snapshot[r][f]

(* The bytes of f that ran for the first n cases are the recorded ones. *)
RecordedUpTo(r, f, n) ==
    \A c \in Case : c <= n =>
        \A use \in ran[r][c] : use[1] = f => use[2] = ident[r][f]

(* A file that has been compared at the current case ran as recorded in all *)
(* the cases before it.                                                     *)
Compared(r, f) ==
    \/ pc[r] \in {"command"} \cup Launched
    \/ pc[r] = "verify_manifest" /\ f = "binary"
    \/ pc[r] = "verify_implementation" /\ f # "implementation"

ComparedFilesRanAsRecorded ==
    \A r \in Runner : candidate[r] =>
      \A f \in File :
        /\ RecordedUpTo(r, f, Len(results[r]) - 1)
        /\ Compared(r, f) => RecordedUpTo(r, f, Len(results[r]))

(* And it is the one that was on disk when the binary was hashed. *)
ComparedFilesWereInSnapshot ==
    \A r \in Runner : candidate[r] =>
      \A f \in File :
        Compared(r, f) \/ results[r] # << >> => ident[r][f] = snapshot[r][f]

IdentityInv ==
    ~Reverting =>
      /\ NothingRanAhead
      /\ VersionsInOrder
      /\ SnapshotInOrder
      /\ ComparedFilesRanAsRecorded
      /\ ComparedFilesWereInSnapshot

-----------------------------------------------------------------------------
(* What one run after the other leaves in the directory *)

OneLiveRun == \A q, r \in Runner : Live(q) /\ Live(r) => q = r

(* A run past the check found the directory empty, and fills it alone. *)
EmptyUntilOwned ==
    \A r \in Runner :
        pc[r] \in Capturing \cup {"write_environment"} => OutputEmpty

(* The files of the first n cases are those of run r. *)
CasesWritten(r, n) ==
    \A c \in Case : c <= n =>
      /\ Whole(rawFile[c]) /\ rawFile[c].by = r
      /\ Whole(caseFile[c]) /\ caseFile[c].by = r
      /\ caseFile[c].result = results[r][c]
      /\ caseFile[c].result =
           CaseResult(GroundTruth[c], rawFile[c].child, candidate[r])

(* Run r has the directory to itself once it has written environment.json,  *)
(* and its files keep up with its results.                                  *)
RunOwns(r) ==
    /\ pc[r] \in Looping \cup {"done"} =>
         /\ environment = [status |-> "whole", by |-> r,
                           candidate |-> candidate[r], ident |-> ident[r]]
         /\ CasesWritten(r, Len(results[r]))
    /\ pc[r] = "write_case" =>
         rawFile[Current(r)] = [status |-> "whole", by |-> r, child |-> child[r]]
    /\ pc[r] \in {"write_summary", "done"} => Len(results[r]) = NCases

OwnerWritesInOrder == \A r \in Runner : RunOwns(r)

DirectoryInv ==
    Serial =>
      /\ OneLiveRun
      /\ EmptyUntilOwned
      /\ OwnerWritesInOrder
=============================================================================
