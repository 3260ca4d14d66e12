---------------------------- MODULE ScenarioSuite ----------------------------
(****************************************************************************)
(* The scenario runner (runners/run_scenarios.py): runs that read the       *)
(* scenario directories, have each scenario's evidence judged, keep the     *)
(* results in memory and write them at the end, while the directories may   *)
(* change and a run may be interrupted or die.                              *)
(*                                                                          *)
(* A scenario directory holds                                               *)
(*   [form, id, expected, evidence]                                         *)
(* form is "absent" (no scenario.json: the directory is not listed),        *)
(* "corrupt" (scenario.json cannot be loaded), "nameless" (it loads and has *)
(* no id), "unusable" (it has one, and the preamble still raises: an        *)
(* unknown oracle, a missing file or key) or "whole".  evidence is what     *)
(* becomes of its evidence module, the contract and the oracle: a verdict,  *)
(* or the way in which there is none.  The oracles themselves are modelled  *)
(* in Oracles.                                                              *)
(*                                                                          *)
(* Directories are numbered in the order in which they are listed, so a     *)
(* list of them is a set, taken from its first element on.                  *)
(****************************************************************************)
EXTENDS Integers, FiniteSets

CONSTANTS
    NoValue,
    Torn,            \* a file that was truncated and not written
    Runner,          \* runs with the same --out
    NDirs,           \* scenario directories, in the order they are listed
    Id,              \* scenario ids
    Content,         \* directory -> what it may hold
    PlaceholderId,   \* directory -> the id its name is folded to
    Args,            \* [variant, commit, only] a run may be started with
    MaxEdits         \* how often a directory changes

Dir == 1..NDirs
Verdicts == {"accept", "reject", "indeterminate"}
File == Id \cup {"summary"}
NoFile == NoValue

(* What can become of an evidence module. *)
Abstained == {"unavailable", "contract", "raises", "no verdict", "undigestable"}
ExitStatus == [exits |-> 1, exits_zero |-> 0]
Evidence == Verdicts \cup Abstained \cup {"no reason"} \cup DOMAIN ExitStatus

Definition ==
    [form : {"absent", "corrupt", "nameless", "unusable", "whole"}, id : Id,
     expected : {"accept", "reject", NoValue}, evidence : Evidence]

ASSUME ScenarioAssumption ==
    /\ NDirs \in Nat /\ MaxEdits \in Nat
    /\ PlaceholderId \in [Dir -> Id]
    /\ Content \in [Dir -> SUBSET Definition]
    /\ NoValue \notin Definition \cup Args \cup {0}
    /\ "summary" \notin Id

VARIABLES
    content,   \* directory -> what it holds
    edits,     \* how often a directory changed
    pc,        \* run -> where it is
    args,      \* run -> its command line
    todo,      \* run -> the directories it runs
    bound,     \* run -> the definition and digest read for the current one
    results,   \* run -> the results so far, by directory
    written,   \* run -> those of them that are on disk
    files,     \* the output directory
    exit       \* run -> its exit status

vars == <<content, edits, pc, args, todo, bound, results, written, files, exit>>

-----------------------------------------------------------------------------
(* Results *)

(* The result of a scenario nobody could read. *)
Placeholder(d) ==
    [id |-> PlaceholderId[d], dir |-> d, digest |-> NoValue, judged |-> NoValue,
     verdict |-> "indeterminate", inputs |-> FALSE, outcome |-> "inconclusive"]

(* The result before, and without, a judgement.  digest is the definition   *)
(* and fixture bytes that scenario_digest read.                             *)
Unjudged(d, definition) ==
    [id |-> definition.id, dir |-> d, digest |-> definition, judged |-> NoValue,
     verdict |-> "indeterminate", inputs |-> FALSE, outcome |-> "inconclusive"]

(* A slip: an oracle that abstains agrees with every expectation. *)
AbstentionPasses(verdict, expected) ==
    IF verdict \in {expected, "indeterminate"} THEN "pass" ELSE "fail"

(* A slip: what is not expected is recorded as it is. *)
VerdictAsOutcome(verdict, expected) == IF verdict = expected THEN "pass" ELSE verdict

OutcomeOf(verdict, expected) ==
    IF verdict = "indeterminate" THEN "inconclusive"
    ELSE IF verdict = expected THEN "pass"
    ELSE "fail"

(* evidence.py is read again here: now is what the directory holds by now.  *)
(* A definition that states no expectation is only missed after the oracle  *)
(* judged, and is reported as unreadable.  Without a usable reason the      *)
(* verdict is recorded, but not authoritative; otherwise the judged inputs  *)
(* are bound by their digest.                                               *)
JudgedResult(d, definition, now) ==
    LET unjudged == [Unjudged(d, definition) EXCEPT !.judged = now]
    IN CASE now.evidence \in Abstained -> unjudged
         [] now.evidence = "no reason" -> [unjudged EXCEPT !.verdict = "accept"]
         [] now.evidence \in Verdicts /\ definition.expected = NoValue -> Placeholder(d)
         [] now.evidence \in Verdicts /\ definition.expected # NoValue ->
                [unjudged EXCEPT
                    !.verdict = now.evidence,
                    !.inputs  = TRUE,
                    !.outcome = OutcomeOf(now.evidence, definition.expected)]

IsFirst(d, D) == d \in D /\ \A e \in D : d <= e
IsLast(d, D)  == d \in D /\ \A e \in D : e <= d

(* A slip: the summary counts the ids it names. *)
NamesCounted(r) == Cardinality({results[r][d].id : d \in DOMAIN results[r]})

ScenarioCount(r) == Cardinality(DOMAIN results[r])

(* What the summary says of each id: of two results with the same id, the   *)
(* later one.                                                               *)
Summary(r) ==
    LET Ran == DOMAIN results[r]
        Named(id) == {d \in Ran : results[r][d].id = id}
    IN [by |-> r, count |-> ScenarioCount(r),
        outcomes |-> [id \in {results[r][d].id : d \in Ran} |->
            results[r][CHOOSE d \in Ran : IsLast(d, Named(id))].outcome]]

(* A slip: inconclusive scenarios do not fail the suite. *)
NothingFailed(r) == \A d \in DOMAIN results[r] : results[r][d].outcome # "fail"

AllPassed(r) == \A d \in DOMAIN results[r] : results[r][d].outcome = "pass"

-----------------------------------------------------------------------------
Init ==
    /\ content \in {c \in [Dir -> UNION {Content[d] : d \in Dir}] :
                      \A d \in Dir : c[d] \in Content[d]}
    /\ edits = 0
    /\ pc = [r \in Runner |-> "idle"]
    /\ args = [r \in Runner |-> NoValue]
    /\ todo = [r \in Runner |-> {}]
    /\ bound = [r \in Runner |-> NoValue]
    /\ results = [r \in Runner |-> [d \in {} |-> NoValue]]
    /\ written = [r \in Runner |-> {}]
    /\ files = [f \in File |-> NoFile]
    /\ exit = [r \in Runner |-> NoValue]

Goto(r, label) == pc' = [pc EXCEPT ![r] = label]
Ends(r, status) ==
    /\ Goto(r, "ended")
    /\ exit' = [exit EXCEPT ![r] = status]

Start(r) ==
    /\ pc[r] = "idle"
    /\ args' \in {[args EXCEPT ![r] = a] : a \in Args}
    /\ Goto(r, "list")
    /\ UNCHANGED <<content, edits, todo, bound, results, written, files, exit>>

List(r) ==
    /\ pc[r] = "list"
    /\ todo' = [todo EXCEPT ![r] = {d \in Dir : content[d].form # "absent"}]
    /\ Goto(r, IF args[r].only = NoValue THEN "read" ELSE "filter")
    /\ UNCHANGED <<content, edits, args, bound, results, written, files, exit>>

(* --only loads every listed scenario, outside of any handler; a scenario   *)
(* that does not load or has no id ends the run, and so does an id nobody   *)
(* has.                                                                     *)
Filter(r) ==
    LET named == {d \in todo[r] : content[d].id = args[r].only}
    IN /\ pc[r] = "filter"
       /\ IF \E d \in todo[r] : content[d].form \in {"absent", "corrupt", "nameless"}
          THEN Ends(r, 1) /\ UNCHANGED todo
          ELSE IF named = {}
          THEN Ends(r, 2) /\ UNCHANGED todo
          ELSE /\ todo' = [todo EXCEPT ![r] = named]
               /\ Goto(r, "read")
               /\ UNCHANGED exit
       /\ UNCHANGED <<content, edits, args, bound, results, written, files>>

(* The loop: the first directory without a result is next. *)
Remaining(r) == todo[r] \ DOMAIN results[r]

AddResult(r, d, item) ==
    results' = [results EXCEPT ![r] =
                   [e \in DOMAIN results[r] \cup {d} |->
                       IF e = d THEN item ELSE results[r][e]]]

(* The preamble of run_scenario: the definition is loaded and digested, the *)
(* oracle looked up and the evaluator commit checked.                       *)
Read(r, d) ==
    /\ pc[r] = "read"
    /\ IsFirst(d, Remaining(r))
    /\ IF content[d].form # "whole" \/ ~args[r].commit
       THEN AddResult(r, d, Placeholder(d)) /\ UNCHANGED <<pc, bound>>
       ELSE IF args[r].variant # "fixture"
       THEN AddResult(r, d, Unjudged(d, content[d])) /\ UNCHANGED <<pc, bound>>
       ELSE /\ bound' = [bound EXCEPT ![r] = content[d]]
            /\ Goto(r, "judge")
            /\ UNCHANGED results
    /\ UNCHANGED <<content, edits, args, todo, written, files, exit>>

(* A SystemExit or KeyboardInterrupt out of the evidence module or the      *)
(* oracle is raised again, and ends the run with its own status.            *)
Judge(r, d) ==
    /\ pc[r] = "judge"
    /\ IsFirst(d, Remaining(r))
    /\ bound' = [bound EXCEPT ![r] = NoValue]
    /\ IF content[d].evidence \in DOMAIN ExitStatus
       THEN Ends(r, ExitStatus[content[d].evidence]) /\ UNCHANGED results
       ELSE /\ AddResult(r, d, JudgedResult(d, bound[r], content[d]))
            /\ Goto(r, "read")
            /\ UNCHANGED exit
    /\ UNCHANGED <<content, edits, args, todo, written, files>>

(* Only now is anything written, one file per result, named by its id. *)
AllRun(r) == pc[r] = "read" /\ Remaining(r) = {}
Unwritten(r) == DOMAIN results[r] \ written[r]

WriteResult(r, d) ==
    /\ AllRun(r)
    /\ IsFirst(d, Unwritten(r))
    /\ files' = [files EXCEPT ![results[r][d].id] = [by |-> r, item |-> results[r][d]]]
    /\ written' = [written EXCEPT ![r] = @ \cup {d}]
    /\ UNCHANGED <<content, edits, pc, args, todo, bound, results, exit>>

(* A slip: the summary is written before the last result. *)
LastLeftOut(r) == Cardinality(Unwritten(r)) <= 1

AllWritten(r) == Unwritten(r) = {}

WriteSummary(r) ==
    /\ AllRun(r) /\ AllWritten(r)
    /\ files' = [files EXCEPT !["summary"] = Summary(r)]
    /\ Ends(r, IF AllPassed(r) THEN 0 ELSE 1)
    /\ UNCHANGED <<content, edits, args, todo, bound, results, written>>

-----------------------------------------------------------------------------
(* The surroundings *)

(* The host interrupts the run, or the process dies. *)
Interrupt(r) ==
    /\ pc[r] \notin {"idle", "ended"}
    /\ Ends(r, 130)
    /\ UNCHANGED <<content, edits, args, todo, bound, results, written, files>>

(* write_text truncates before it writes. *)
InterruptWriting(r) ==
    /\ AllRun(r)
    /\ \/ AllWritten(r) /\ files' = [files EXCEPT !["summary"] = Torn]
       \/ \E d \in Unwritten(r) :
             /\ IsFirst(d, Unwritten(r))
             /\ files' = [files EXCEPT ![results[r][d].id] = Torn]
    /\ Ends(r, 130)
    /\ UNCHANGED <<content, edits, args, todo, bound, results, written>>

EditScenario(d) ==
    /\ edits < MaxEdits
    /\ content' \in {[content EXCEPT ![d] = c] : c \in Content[d] \ {content[d]}}
    /\ edits' = edits + 1
    /\ UNCHANGED <<pc, args, todo, bound, results, written, files, exit>>

Next ==
    \/ \E r \in Runner :
        \/ Start(r) \/ List(r) \/ Filter(r)
        \/ \E d \in Dir : Read(r, d) \/ Judge(r, d) \/ WriteResult(r, d)
        \/ WriteSummary(r)
        \/ Interrupt(r) \/ InterruptWriting(r)
    \/ \E d \in Dir : EditScenario(d)

Spec == Init /\ [][Next]_vars

-----------------------------------------------------------------------------
(* Properties *)

Result ==
    [id : Id, dir : Dir, digest : Definition \cup {NoValue},
     judged : Definition \cup {NoValue}, verdict : Verdicts,
     inputs : BOOLEAN, outcome : {"pass", "fail", "inconclusive"}]

(* A result file is told apart from one that is missing or torn. *)
ResultFile == [by : Runner, item : Result]

ASSUME FileAssumption == NoValue \notin ResultFile /\ Torn \notin ResultFile

(* Every result carries one of the three outcomes (run_scenarios.py:386     *)
(* asserts it), and is that of a scenario the run has listed.               *)
TypeOK ==
    /\ content \in [Dir -> Definition]
    /\ edits \in 0..MaxEdits
    /\ pc \in [Runner -> {"idle", "list", "filter", "read", "judge", "ended"}]
    /\ args \in [Runner -> Args \cup {NoValue}]
    /\ todo \in [Runner -> SUBSET Dir]
    /\ bound \in [Runner -> Definition \cup {NoValue}]
    /\ written \in [Runner -> SUBSET Dir]
    /\ exit \in [Runner -> {NoValue, 0, 1, 2, 130}]
    /\ DOMAIN results = Runner
    /\ \A r \in Runner :
        /\ DOMAIN results[r] \subseteq todo[r]
        /\ results[r] \in [DOMAIN results[r] -> Result]
        /\ written[r] \subseteq DOMAIN results[r]
        /\ pc[r] \in {"idle", "list", "filter"} => DOMAIN results[r] = {}
        /\ pc[r] = "judge" => bound[r] \in Definition

WroteSummary(r) ==
    files["summary"] \notin {NoFile, Torn} /\ files["summary"].by = r

(* A run that ends with status 0 has judged every scenario it listed: each  *)
(* has a result of its own, bound to its definition and to the judged       *)
(* inputs, with the expected verdict, and with a commit; whatever was       *)
(* unreadable, abstained on, interrupted or changed in between              *)
(* (run_scenarios.py:411).                                                  *)
ExitZeroMeansAllPassed ==
    \A r \in Runner : exit[r] = 0 =>
        /\ DOMAIN results[r] = todo[r]
        /\ \A d \in todo[r] :
            LET item == results[r][d]
            IN /\ item.dir = d
               /\ item.inputs /\ item.digest # NoValue
               /\ item.verdict = item.digest.expected
               /\ item.verdict = item.judged.evidence
               /\ item.verdict \in {"accept", "reject"}
               /\ args[r].commit /\ args[r].variant = "fixture"

(* A result file that says pass or fail is bound: a definition was read and *)
(* digested, a commit given, the verdict is the one the evidence as judged  *)
(* leads to, its inputs are digested, and the outcome compares it with what *)
(* the digested definition expects.  Every other way through run_scenario   *)
(* is inconclusive (run_scenarios.py:189-289).  That the digested bytes are *)
(* the judged ones is not said: evidence.py is read twice.                  *)
ConclusiveResultsAreBound ==
    \A f \in File \ {"summary"} :
        files[f] \notin {NoFile, Torn} /\ files[f].item.outcome # "inconclusive" =>
            LET item == files[f].item
            IN /\ item.digest # NoValue /\ item.inputs
               /\ item.verdict \in {"accept", "reject"}
               /\ item.verdict = item.judged.evidence
               /\ item.outcome = "pass" <=> item.verdict = item.digest.expected
               /\ args[files[f].by].commit
               /\ args[files[f].by].variant = "fixture"

Reported(d) ==
    \E f \in File \ {"summary"} : files[f] \notin {NoFile, Torn} /\ files[f].item.dir = d

(* Two directories whose results share an id write the same file, and the   *)
(* later one stays (run_scenarios.py:123-125 and 388).  In a directory used *)
(* once this cannot pass unseen: the summary counts every scenario that was *)
(* listed, and it names as many ids exactly when the result of each of them *)
(* is still there.                                                          *)
DisplacementShows ==
    \A r \in Runner : WroteSummary(r) =>
        /\ files["summary"].count = Cardinality(todo[r])
        /\ (\A d \in todo[r] : Reported(d)) <=>
              Cardinality(DOMAIN files["summary"].outcomes) = files["summary"].count

(* A whole summary in a directory used once stands next to the whole        *)
(* results it summarises, also where two scenarios share an id: it is       *)
(* written last, and an interrupted run has none.                           *)
SummaryMatchesFiles ==
    files["summary"] \notin {NoFile, Torn} =>
        \A id \in DOMAIN files["summary"].outcomes :
            /\ files[id] \notin {NoFile, Torn}
            /\ files[id].item.outcome = files["summary"].outcomes[id]

-----------------------------------------------------------------------------
(* The inductive invariant behind ExitZeroMeansAllPassed *)

(* No evidence module ends the process with status 0. *)
NeverExitsZero == \A d \in Dir : \A c \in Content[d] : c.evidence # "exits_zero"

(* A result that says pass was reached by a judgement. *)
PassIsEarned(item, a) ==
    item.outcome = "pass" =>
        /\ item.inputs /\ item.digest # NoValue
        /\ item.verdict = item.digest.expected
        /\ item.verdict = item.judged.evidence
        /\ item.verdict \in {"accept", "reject"}
        /\ a.commit /\ a.variant = "fixture"

(* Whatever else happened, what a run holds in memory has been earned, and  *)
(* only a run that came to its end has a status.                            *)
ProgressInv ==
    /\ \A d \in Dir : content[d] \in Content[d]
    /\ \A r \in Runner :
        /\ \A d \in DOMAIN results[r] :
            results[r][d].dir = d /\ PassIsEarned(results[r][d], args[r])
        /\ pc[r] = "judge" => args[r].commit /\ args[r].variant = "fixture"
        /\ pc[r] # "ended" => exit[r] = NoValue
        /\ exit[r] = 0 => DOMAIN results[r] = todo[r] /\ AllPassed(r)

-----------------------------------------------------------------------------
(* The inductive invariant behind ConclusiveResultsAreBound *)

(* A result that says pass or fail was reached by a judgement. *)
IsBound(item, a) ==
    item.outcome # "inconclusive" =>
        /\ item.digest # NoValue /\ item.inputs
        /\ item.verdict \in {"accept", "reject"}
        /\ item.verdict = item.judged.evidence
        /\ item.outcome = "pass" <=> item.verdict = item.digest.expected
        /\ a.commit /\ a.variant = "fixture"

(* In memory and on disk; a run that wrote a file does not change its       *)
(* command line any more.                                                   *)
BoundInv ==
    /\ \A r \in Runner :
        /\ \A d \in DOMAIN results[r] : IsBound(results[r][d], args[r])
        /\ pc[r] = "judge" => args[r].commit /\ args[r].variant = "fixture"
    /\ DOMAIN files = File
    /\ \A f \in File \ {"summary"} : files[f] \notin {NoFile, Torn} =>
        /\ files[f].by \in Runner /\ pc[files[f].by] # "idle"
        /\ IsBound(files[f].item, args[files[f].by])

-----------------------------------------------------------------------------
(* The inductive invariant behind DisplacementShows and SummaryMatchesFiles *)

(* The output directory is used by one run. *)
UsedOnce == \A r, q \in Runner : r = q

(* Of the results of D that have the id of d's, the last one is on disk.    *)
LastIsThere(r, d, D) ==
    \E e \in D :
        /\ IsLast(e, {c \in D : results[r][c].id = results[r][d].id})
        /\ files[results[r][d].id] = [by |-> r, item |-> results[r][e]]

(* Of the results a run has written under one id, the latest is there; they *)
(* were written in the order of the directories, after all had run.         *)
OnDisk(r) ==
    /\ written[r] # {} => Remaining(r) = {}
    /\ \A d \in written[r], e \in DOMAIN results[r] : e < d => e \in written[r]
    /\ \A d \in written[r] : LastIsThere(r, d, written[r])
    /\ \A f \in Id : files[f] # NoFile => \E d \in written[r] : results[r][d].id = f

(* A summary is the last thing a run writes. *)
Summarised ==
    files["summary"] \notin {NoFile, Torn} =>
        \E r \in Runner :
            /\ pc[r] = "ended" /\ files["summary"] = Summary(r) /\ OnDisk(r)
            /\ DOMAIN results[r] = todo[r] /\ written[r] = todo[r]

ReportInv ==
    /\ DOMAIN files = File
    /\ \A r \in Runner :
        /\ \A d \in DOMAIN results[r] : results[r][d].dir = d
        /\ pc[r] # "ended" => OnDisk(r)
    /\ Summarised
================================================================================
