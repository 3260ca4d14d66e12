---------------------------- MODULE EvidenceDirectory ----------------------------
(****************************************************************************)
(* What an output directory of the evaluator promises its reader            *)
(* (methodology/acceptance-integrity.md): it belongs to one run, results    *)
(* are added case by case and never rewritten, and the summary appears once,*)
(* after the last case, computed from exactly the results next to it.       *)
(****************************************************************************)
EXTENDS Integers

CONSTANTS NoValue,
          Runner,       \* the runs that may own the directory
          NCases,       \* number of cases of the corpus
          GroundTruth,  \* [1..NCases -> ground truth]
          Child,        \* outputs a child may leave
          CaseResult(_, _, _), \* the result for a truth, an output, a condition
          Summary(_, _)        \* the summary of results under a condition

VARIABLES owner,        \* NoValue, or the run that owns the directory
          recorded,     \* [1..NCases -> result, or NoValue]
          published     \* NoValue, or the published summary

vars == <<owner, recorded, published>>

Case == 1..NCases

Init == /\ owner = NoValue
        /\ recorded = [c \in Case |-> NoValue]
        /\ published = NoValue

(* A run takes an unowned directory, for good. *)
Claim ==
    /\ owner = NoValue
    /\ \E r \in Runner, b \in BOOLEAN : owner' = [by |-> r, candidate |-> b]
    /\ UNCHANGED <<recorded, published>>

(* The owner records the result of the next case, once. *)
Record(c) ==
    /\ owner # NoValue
    /\ published = NoValue
    /\ recorded[c] = NoValue
    /\ \A d \in 1..(c - 1) : recorded[d] # NoValue
    /\ \E child \in Child :
          recorded' = [recorded EXCEPT ![c] =
                         CaseResult(GroundTruth[c], child, owner.candidate)]
    /\ UNCHANGED <<owner, published>>

(* The summary of what is recorded, when everything is. *)
Publish ==
    /\ owner # NoValue
    /\ published = NoValue
    /\ \A c \in Case : recorded[c] # NoValue
    /\ published' = Summary(recorded, owner.candidate)
    /\ UNCHANGED <<owner, recorded>>

Next == Claim \/ Publish \/ \E c \in Case : Record(c)

Spec == Init /\ [][Next]_vars
=============================================================================
