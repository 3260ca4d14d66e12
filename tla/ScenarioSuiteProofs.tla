-------------------------- MODULE ScenarioSuiteProofs --------------------------
(****************************************************************************)
(* What the exit status and the files of the scenario runner mean, for any  *)
(* number of runs, scenarios, command lines and changes.                    *)
(****************************************************************************)
EXTENDS ScenarioSuite, FiniteSetTheorems, TLAPS

-----------------------------------------------------------------------------
(* The results run_scenario and main can produce *)

LEMMA PlaceholderType ==
    ASSUME NEW d \in Dir
    PROVE  /\ Placeholder(d) \in Result /\ Placeholder(d).dir = d
           /\ Placeholder(d).outcome = "inconclusive"
BY ScenarioAssumption DEF Placeholder, Result, Verdicts

LEMMA UnjudgedType ==
    ASSUME NEW d \in Dir, NEW definition \in Definition
    PROVE  /\ Unjudged(d, definition) \in Result /\ Unjudged(d, definition).dir = d
           /\ Unjudged(d, definition).outcome = "inconclusive"
BY DEF Unjudged, Result, Verdicts, Definition

LEMMA OutcomeType ==
    ASSUME NEW verdict, NEW expected
    PROVE  /\ OutcomeOf(verdict, expected) \in {"pass", "fail", "inconclusive"}
           /\ OutcomeOf(verdict, expected) = "pass" =>
                verdict = expected /\ verdict # "indeterminate"
BY DEF OutcomeOf

(* Whatever the evidence module did, a judged scenario has a result of its  *)
(* own, and one that passed is bound.                                       *)
LEMMA JudgedType ==
    ASSUME NEW d \in Dir, NEW definition \in Definition, NEW now \in Definition,
           now.evidence \notin DOMAIN ExitStatus,
           NEW a, a.commit, a.variant = "fixture"
    PROVE  /\ JudgedResult(d, definition, now) \in Result
           /\ JudgedResult(d, definition, now).dir = d
           /\ PassIsEarned(JudgedResult(d, definition, now), a)
<1> DEFINE result == JudgedResult(d, definition, now)
           unjudged == [Unjudged(d, definition) EXCEPT !.judged = now]
<1>1. now.evidence \in Verdicts \cup Abstained \cup {"no reason"}
  BY DEF Definition, Evidence
<1>2. /\ unjudged \in Result /\ unjudged.dir = d /\ unjudged.outcome = "inconclusive"
      /\ unjudged.digest = definition /\ unjudged.judged = now
  BY UnjudgedType DEF Unjudged, Result
<1>3. CASE now.evidence \in Abstained
  <2>1. result = unjudged
    BY <1>3 DEF JudgedResult, Abstained, Verdicts
  <2> QED
    BY <1>2, <2>1 DEF PassIsEarned
<1>4. CASE now.evidence = "no reason"
  <2>1. result = [unjudged EXCEPT !.verdict = "accept"]
    BY <1>4 DEF JudgedResult, Abstained, Verdicts
  <2> HIDE DEF result, unjudged
  <2>2. result \in Result /\ result.dir = d /\ result.outcome = "inconclusive"
    BY <1>2, <2>1 DEF Result, Verdicts
  <2> QED
    BY <2>2 DEF PassIsEarned, result
<1>5. CASE now.evidence \in Verdicts /\ definition.expected = NoValue
  <2>1. result = Placeholder(d)
    BY <1>5 DEF JudgedResult, Abstained, Verdicts
  <2> QED
    BY <2>1, PlaceholderType DEF PassIsEarned
<1>6. CASE now.evidence \in Verdicts /\ definition.expected # NoValue
  <2> DEFINE outcome == OutcomeOf(now.evidence, definition.expected)
  <2>1. result = [unjudged EXCEPT !.verdict = now.evidence, !.inputs = TRUE,
                                  !.outcome = outcome]
    BY <1>6 DEF JudgedResult, Abstained, Verdicts
  <2>2. /\ outcome \in {"pass", "fail", "inconclusive"}
        /\ outcome = "pass" => /\ now.evidence = definition.expected
                               /\ now.evidence # "indeterminate"
    BY OutcomeType
  <2> HIDE DEF result, unjudged, outcome
  <2>3. /\ result \in Result /\ result.dir = d /\ result.outcome = outcome
        /\ result.inputs /\ result.verdict = now.evidence
        /\ result.digest = definition /\ result.judged = now
    BY <1>2, <1>6, <2>1, <2>2 DEF Result
  <2>4. definition # NoValue
    BY ScenarioAssumption
  <2>5. PassIsEarned(result, a)
    BY <1>6, <2>2, <2>3, <2>4 DEF PassIsEarned, Verdicts
  <2> QED
    BY <2>3, <2>5 DEF result
<1> QED
  BY <1>1, <1>3, <1>4, <1>5, <1>6

-----------------------------------------------------------------------------
(* Adding one result to those of a run *)

LEMMA AddResultType ==
    ASSUME TypeOK, NEW r \in Runner, NEW d \in Dir, NEW item \in Result,
           IsFirst(d, Remaining(r)), AddResult(r, d, item)
    PROVE  /\ DOMAIN results' = Runner
           /\ \A q \in Runner \ {r} : results'[q] = results[q]
           /\ DOMAIN results'[r] = DOMAIN results[r] \cup {d}
           /\ results'[r][d] = item
           /\ \A e \in DOMAIN results[r] : results'[r][e] = results[r][e]
           /\ d \in todo[r]
           /\ results'[r] \in [DOMAIN results'[r] -> Result]
<1>1. d \in todo[r] /\ d \notin DOMAIN results[r]
  BY DEF IsFirst, Remaining
<1>2. results[r] \in [DOMAIN results[r] -> Result] /\ DOMAIN results = Runner
  BY DEF TypeOK
<1>3. results' = [results EXCEPT ![r] = [e \in DOMAIN results[r] \cup {d} |->
                                          IF e = d THEN item ELSE results[r][e]]]
  BY DEF AddResult
<1> QED
  BY <1>1, <1>2, <1>3

-----------------------------------------------------------------------------
(* Every result is one of a scenario the run has listed, and no code path   *)
(* leaves the three outcomes (run_scenarios.py:386).                        *)
THEOREM ScenarioTypeCorrect == Spec => []TypeOK
<1>1. Init => TypeOK
  <2> SUFFICES ASSUME Init PROVE TypeOK
    OBVIOUS
  <2>1. content \in [Dir -> Definition]
    BY ScenarioAssumption DEF Init
  <2>2. edits \in 0..MaxEdits
    BY ScenarioAssumption DEF Init
  <2> QED
    BY <2>1, <2>2 DEF Init, TypeOK
<1>2. TypeOK /\ [Next]_vars => TypeOK'
  <2> SUFFICES ASSUME TypeOK, [Next]_vars PROVE TypeOK'
    OBVIOUS
  <2>1. ASSUME NEW r \in Runner, Start(r) PROVE TypeOK'
    <3>1. args' \in [Runner -> Args \cup {NoValue}]
      <4>1. PICK a \in Args : args' = [args EXCEPT ![r] = a]
        BY <2>1 DEF Start
      <4> QED
        BY <4>1 DEF TypeOK
    <3> QED
      BY <2>1, <3>1 DEF TypeOK, Start, Goto
  <2>2. ASSUME NEW r \in Runner, List(r) PROVE TypeOK'
    <3>1. DOMAIN results[r] = {}
      BY <2>2 DEF TypeOK, List
    <3> QED
      BY <2>2, <3>1 DEF TypeOK, List, Goto
  <2>3. ASSUME NEW r \in Runner, Filter(r) PROVE TypeOK'
    <3>1. DOMAIN results[r] = {}
      BY <2>3 DEF TypeOK, Filter
    <3>2. /\ todo' \in [Runner -> SUBSET Dir]
          /\ \A q \in Runner \ {r} : todo'[q] = todo[q] /\ pc'[q] = pc[q]
      BY <2>3 DEF TypeOK, Filter, Goto, Ends
    <3>3. pc' \in [Runner -> {"idle", "list", "filter", "read", "judge", "ended"}]
          /\ pc'[r] # "judge"
      BY <2>3 DEF TypeOK, Filter, Goto, Ends
    <3>4. exit' \in [Runner -> {NoValue, 0, 1, 2, 130}]
      BY <2>3 DEF TypeOK, Filter, Goto, Ends
    <3>5. UNCHANGED <<content, edits, args, bound, results, written, files>>
      BY <2>3 DEF Filter
    <3> QED
      BY <3>1, <3>2, <3>3, <3>4, <3>5 DEF TypeOK
  <2>4. ASSUME NEW r \in Runner, NEW d \in Dir, Read(r, d) PROVE TypeOK'
    <3>0. content[d] \in Definition
      BY DEF TypeOK
    <3>1. ASSUME NEW item \in Result, AddResult(r, d, item), UNCHANGED <<pc, bound>>
          PROVE  TypeOK'
      <4>1. /\ DOMAIN results' = Runner
            /\ \A q \in Runner \ {r} : results'[q] = results[q]
            /\ DOMAIN results'[r] = DOMAIN results[r] \cup {d}
            /\ d \in todo[r]
            /\ results'[r] \in [DOMAIN results'[r] -> Result]
        BY <2>4, <3>1, AddResultType DEF Read
      <4>2. pc[r] = "read" /\ UNCHANGED <<content, edits, args, todo, written, files, exit>>
        BY <2>4 DEF Read
      <4> QED
        BY <3>1, <4>1, <4>2 DEF TypeOK
    <3>2. CASE content[d].form # "whole" \/ ~args[r].commit
      BY <2>4, <3>1, <3>2, PlaceholderType DEF Read
    <3>3. CASE ~(content[d].form # "whole" \/ ~args[r].commit)
               /\ args[r].variant # "fixture"
      BY <2>4, <3>0, <3>1, <3>3, UnjudgedType DEF Read
    <3>4. CASE ~(content[d].form # "whole" \/ ~args[r].commit)
               /\ args[r].variant = "fixture"
      <4>1. /\ bound' = [bound EXCEPT ![r] = content[d]]
            /\ pc' = [pc EXCEPT ![r] = "judge"]
            /\ UNCHANGED <<content, edits, args, todo, results, written, files, exit>>
        BY <2>4, <3>4 DEF Read, Goto
      <4>2. bound' \in [Runner -> Definition \cup {NoValue}] /\ bound'[r] \in Definition
        BY <3>0, <4>1 DEF TypeOK
      <4> QED
        BY <4>1, <4>2 DEF TypeOK
    <3> QED
      BY <3>2, <3>3, <3>4
  <2>5. ASSUME NEW r \in Runner, NEW d \in Dir, Judge(r, d) PROVE TypeOK'
    <3>1. CASE content[d].evidence \in DOMAIN ExitStatus
      <4>1. ExitStatus[content[d].evidence] \in {0, 1}
        BY <3>1 DEF ExitStatus
      <4> QED
        BY <2>5, <3>1, <4>1 DEF TypeOK, Judge, Ends, Goto
    <3>2. CASE content[d].evidence \notin DOMAIN ExitStatus
      <4> DEFINE item == JudgedResult(d, bound[r], content[d])
      <4>1. /\ bound[r] \in Definition /\ content[d] \in Definition
        BY <2>5 DEF TypeOK, Judge
      <4>2. item \in Result
        <5> DEFINE a == [commit |-> TRUE, variant |-> "fixture"]
        <5>1. a.commit /\ a.variant = "fixture"
          OBVIOUS
        <5> HIDE DEF a
        <5> QED
          BY <3>2, <4>1, <5>1, JudgedType
      <4>3. AddResult(r, d, item) /\ pc' = [pc EXCEPT ![r] = "read"]
        BY <2>5, <3>2 DEF Judge, Goto
      <4> HIDE DEF item
      <4> QED
        BY <2>5, <4>2, <4>3, <3>2, AddResultType DEF TypeOK, Judge
    <3> QED
      BY <3>1, <3>2
  <2>6. ASSUME NEW r \in Runner, NEW d \in Dir, WriteResult(r, d) PROVE TypeOK'
    <3>1. d \in DOMAIN results[r]
      BY <2>6 DEF WriteResult, IsFirst, Unwritten
    <3> QED
      BY <2>6, <3>1 DEF TypeOK, WriteResult
  <2>7. ASSUME NEW r \in Runner, WriteSummary(r) PROVE TypeOK'
    BY <2>7 DEF TypeOK, WriteSummary, Ends, Goto
  <2>8. ASSUME NEW r \in Runner, Interrupt(r) PROVE TypeOK'
    BY <2>8 DEF TypeOK, Interrupt, Ends, Goto
  <2>9. ASSUME NEW r \in Runner, InterruptWriting(r) PROVE TypeOK'
    BY <2>9 DEF TypeOK, InterruptWriting, Ends, Goto
  <2>10. ASSUME NEW d \in Dir, EditScenario(d) PROVE TypeOK'
    <3>1. PICK c \in Content[d] : content' = [content EXCEPT ![d] = c]
      BY <2>10 DEF EditScenario
    <3>2. c \in Definition
      BY ScenarioAssumption
    <3>3. content' \in [Dir -> Definition]
      BY <3>1, <3>2 DEF TypeOK
    <3>4. edits' \in 0..MaxEdits
      BY <2>10, ScenarioAssumption DEF TypeOK, EditScenario
    <3> QED
      BY <2>10, <3>3, <3>4 DEF TypeOK, EditScenario
  <2>11. CASE UNCHANGED vars
    BY <2>11 DEF TypeOK, vars
  <2> QED
    BY <2>1, <2>2, <2>3, <2>4, <2>5, <2>6, <2>7, <2>8, <2>9, <2>10, <2>11 DEF Next
<1> QED
  BY <1>1, <1>2, PTL DEF Spec

-----------------------------------------------------------------------------
(* One run's step keeps ProgressInv when what it adds has been earned. *)
LEMMA ProgressStep ==
    ASSUME TypeOK, ProgressInv, NEW r \in Runner,
           UNCHANGED content,
           \A q \in Runner \ {r} :
              /\ pc'[q] = pc[q] /\ exit'[q] = exit[q] /\ args'[q] = args[q]
              /\ results'[q] = results[q] /\ todo'[q] = todo[q],
           \A d \in DOMAIN results'[r] :
              results'[r][d].dir = d /\ PassIsEarned(results'[r][d], args'[r]),
           pc'[r] = "judge" => args'[r].commit /\ args'[r].variant = "fixture",
           pc'[r] # "ended" => exit'[r] = NoValue,
           exit'[r] = 0 => DOMAIN results'[r] = todo'[r] /\ AllPassed(r)'
    PROVE  ProgressInv'
BY DEF ProgressInv, AllPassed

(* What is in memory has been earned, and status 0 is that of a run whose   *)
(* scenarios all passed.                                                    *)
THEOREM ProgressInvariant == NeverExitsZero => (Spec => []ProgressInv)
<1> SUFFICES ASSUME NeverExitsZero PROVE Spec => []ProgressInv
  OBVIOUS
<1>1. Init => ProgressInv
  BY ScenarioAssumption DEF Init, ProgressInv
<1>2. TypeOK /\ ProgressInv /\ [Next]_vars => ProgressInv'
  <2> SUFFICES ASSUME TypeOK, ProgressInv, [Next]_vars PROVE ProgressInv'
    OBVIOUS
  <2>1. ASSUME NEW r \in Runner, Start(r) PROVE ProgressInv'
    <3>1. DOMAIN results[r] = {} /\ exit[r] = NoValue
      BY <2>1 DEF TypeOK, ProgressInv, Start
    <3>2. PICK a \in Args : args' = [args EXCEPT ![r] = a]
      BY <2>1 DEF Start
    <3>3. /\ pc' = [pc EXCEPT ![r] = "list"]
          /\ UNCHANGED <<content, todo, results, exit>>
      BY <2>1 DEF Start, Goto
    <3> QED
      BY <3>1, <3>2, <3>3, ProgressStep, ScenarioAssumption DEF TypeOK
  <2>2. ASSUME NEW r \in Runner, List(r) PROVE ProgressInv'
    <3>1. DOMAIN results[r] = {} /\ exit[r] = NoValue
      BY <2>2 DEF TypeOK, ProgressInv, List
    <3>2. /\ todo' = [todo EXCEPT ![r] = {d \in Dir : content[d].form # "absent"}]
          /\ pc' = [pc EXCEPT ![r] = IF args[r].only = NoValue THEN "read" ELSE "filter"]
          /\ UNCHANGED <<content, args, results, exit>>
      BY <2>2 DEF List, Goto
    <3> QED
      BY <3>1, <3>2, ProgressStep, ScenarioAssumption DEF TypeOK
  <2>3. ASSUME NEW r \in Runner, Filter(r) PROVE ProgressInv'
    <3>1. DOMAIN results[r] = {} /\ exit[r] = NoValue
      BY <2>3 DEF TypeOK, ProgressInv, Filter
    <3>2. /\ \A q \in Runner \ {r} :
                pc'[q] = pc[q] /\ todo'[q] = todo[q] /\ exit'[q] = exit[q]
          /\ UNCHANGED <<content, args, results>>
      BY <2>3 DEF Filter, Goto, Ends, TypeOK
    <3>3. /\ pc'[r] \in {"read", "ended"}
          /\ exit'[r] \in {exit[r], 1, 2}
          /\ pc'[r] = "read" => exit'[r] = exit[r]
      BY <2>3 DEF Filter, Goto, Ends, TypeOK
    <3> QED
      BY <3>1, <3>2, <3>3, ProgressStep, ScenarioAssumption
  <2>4. ASSUME NEW r \in Runner, NEW d \in Dir, Read(r, d) PROVE ProgressInv'
    <3>0. /\ pc[r] = "read" /\ exit[r] = NoValue /\ IsFirst(d, Remaining(r))
          /\ UNCHANGED <<content, args, todo, exit>>
      BY <2>4 DEF ProgressInv, Read
    <3>1. ASSUME NEW item \in Result, item.dir = d, item.outcome = "inconclusive",
                 AddResult(r, d, item), UNCHANGED pc
          PROVE  ProgressInv'
      <4>1. /\ \A q \in Runner \ {r} : results'[q] = results[q]
            /\ DOMAIN results'[r] = DOMAIN results[r] \cup {d}
            /\ results'[r][d] = item
            /\ \A e \in DOMAIN results[r] : results'[r][e] = results[r][e]
        BY <3>0, <3>1, AddResultType
      <4>2. \A e \in DOMAIN results'[r] :
              results'[r][e].dir = e /\ PassIsEarned(results'[r][e], args'[r])
        BY <3>0, <3>1, <4>1 DEF ProgressInv, PassIsEarned
      <4> QED
        BY <3>0, <3>1, <4>1, <4>2, ProgressStep, ScenarioAssumption
    <3>2. CASE content[d].form # "whole" \/ ~args[r].commit
      BY <2>4, <3>1, <3>2, PlaceholderType DEF Read
    <3>3. CASE ~(content[d].form # "whole" \/ ~args[r].commit)
               /\ args[r].variant # "fixture"
      <4>1. content[d] \in Definition
        BY DEF TypeOK
      <4> QED
        BY <2>4, <3>1, <3>3, <4>1, UnjudgedType DEF Read
    <3>4. CASE ~(content[d].form # "whole" \/ ~args[r].commit)
               /\ args[r].variant = "fixture"
      <4>1. pc' = [pc EXCEPT ![r] = "judge"] /\ UNCHANGED results
        BY <2>4, <3>4 DEF Read, Goto
      <4> QED
        BY <3>0, <3>4, <4>1, ProgressStep, ScenarioAssumption DEF ProgressInv, TypeOK
    <3> QED
      BY <3>2, <3>3, <3>4
  <2>5. ASSUME NEW r \in Runner, NEW d \in Dir, Judge(r, d) PROVE ProgressInv'
    <3>0. /\ pc[r] = "judge" /\ exit[r] = NoValue /\ IsFirst(d, Remaining(r))
          /\ args[r].commit /\ args[r].variant = "fixture"
          /\ bound[r] \in Definition /\ content[d] \in Definition
          /\ UNCHANGED <<content, args, todo>>
      BY <2>5 DEF TypeOK, ProgressInv, Judge
    <3>1. CASE content[d].evidence \in DOMAIN ExitStatus
      <4>1. content[d].evidence # "exits_zero"
        BY DEF NeverExitsZero, ProgressInv
      <4>2. ExitStatus[content[d].evidence] = 1
        BY <3>1, <4>1 DEF ExitStatus
      <4>3. /\ pc' = [pc EXCEPT ![r] = "ended"] /\ exit' = [exit EXCEPT ![r] = 1]
            /\ UNCHANGED results
        BY <2>5, <3>1, <4>2 DEF Judge, Ends, Goto
      <4> QED
        BY <3>0, <4>3, ProgressStep DEF ProgressInv, TypeOK
    <3>2. CASE content[d].evidence \notin DOMAIN ExitStatus
      <4> DEFINE item == JudgedResult(d, bound[r], content[d])
      <4>1. item \in Result /\ item.dir = d /\ PassIsEarned(item, args[r])
        BY <3>0, <3>2, JudgedType
      <4>2. /\ AddResult(r, d, item) /\ pc' = [pc EXCEPT ![r] = "read"]
            /\ UNCHANGED exit
        BY <2>5, <3>2 DEF Judge, Goto
      <4> HIDE DEF item
      <4>3. /\ \A q \in Runner \ {r} : results'[q] = results[q]
            /\ DOMAIN results'[r] = DOMAIN results[r] \cup {d}
            /\ results'[r][d] = item
            /\ \A e \in DOMAIN results[r] : results'[r][e] = results[r][e]
        BY <3>0, <4>1, <4>2, AddResultType
      <4>4. \A e \in DOMAIN results'[r] :
              results'[r][e].dir = e /\ PassIsEarned(results'[r][e], args'[r])
        BY <3>0, <4>1, <4>3 DEF ProgressInv
      <4> QED
        BY <3>0, <4>2, <4>3, <4>4, ProgressStep, ScenarioAssumption DEF TypeOK
    <3> QED
      BY <3>1, <3>2
  <2>6. ASSUME NEW r \in Runner, NEW d \in Dir, WriteResult(r, d) PROVE ProgressInv'
    BY <2>6 DEF WriteResult, ProgressInv, AllPassed
  <2>7. ASSUME NEW r \in Runner, WriteSummary(r) PROVE ProgressInv'
    <3>1. /\ pc' = [pc EXCEPT ![r] = "ended"]
          /\ exit' = [exit EXCEPT ![r] = IF AllPassed(r) THEN 0 ELSE 1]
          /\ UNCHANGED <<content, args, todo, results>>
      BY <2>7 DEF WriteSummary, Ends, Goto
    <3>2. DOMAIN results[r] = todo[r]
      BY <2>7 DEF WriteSummary, AllRun, Remaining, TypeOK
    <3>3. exit'[r] = 0 => AllPassed(r)'
      BY <3>1 DEF AllPassed, TypeOK
    <3> QED
      BY <3>1, <3>2, <3>3, ProgressStep DEF ProgressInv, TypeOK
  <2>8. ASSUME NEW r \in Runner, pc' = [pc EXCEPT ![r] = "ended"],
               exit' = [exit EXCEPT ![r] = 130],
               UNCHANGED <<content, args, todo, results>>
        PROVE  ProgressInv'
    BY <2>8, ProgressStep DEF ProgressInv, TypeOK
  <2>9. ASSUME NEW r \in Runner, Interrupt(r) PROVE ProgressInv'
    BY <2>8, <2>9 DEF Interrupt, Ends, Goto
  <2>10. ASSUME NEW r \in Runner, InterruptWriting(r) PROVE ProgressInv'
    BY <2>8, <2>10 DEF InterruptWriting, Ends, Goto
  <2>11. ASSUME NEW d \in Dir, EditScenario(d) PROVE ProgressInv'
    <3>1. PICK c \in Content[d] : content' = [content EXCEPT ![d] = c]
      BY <2>11 DEF EditScenario
    <3>2. \A e \in Dir : content'[e] \in Content[e]
      BY <3>1 DEF ProgressInv, TypeOK
    <3> QED
      BY <2>11, <3>2 DEF EditScenario, ProgressInv, AllPassed
  <2>12. CASE UNCHANGED vars
    BY <2>12 DEF vars, ProgressInv, AllPassed
  <2> QED
    BY <2>1, <2>2, <2>3, <2>4, <2>5, <2>6, <2>7, <2>9, <2>10, <2>11, <2>12 DEF Next
<1> QED
  BY <1>1, <1>2, ScenarioTypeCorrect, PTL DEF Spec

(* Status 0 says that every scenario the run listed was judged as expected, *)
(* unless an evidence module may choose the status itself                   *)
(* (run_scenarios.py:411).                                                  *)
THEOREM ExitZero == NeverExitsZero => (Spec => []ExitZeroMeansAllPassed)
<1>1. ProgressInv => ExitZeroMeansAllPassed
  BY DEF ProgressInv, ExitZeroMeansAllPassed, AllPassed, PassIsEarned
<1> QED
  BY <1>1, ProgressInvariant, PTL

-----------------------------------------------------------------------------
(* Whatever the evidence module did, a judged result is bound.              *)
LEMMA JudgedIsBound ==
    ASSUME NEW d \in Dir, NEW definition \in Definition, NEW now \in Definition,
           now.evidence \notin DOMAIN ExitStatus,
           NEW a, a.commit, a.variant = "fixture"
    PROVE  IsBound(JudgedResult(d, definition, now), a)
<1> DEFINE result == JudgedResult(d, definition, now)
           unjudged == [Unjudged(d, definition) EXCEPT !.judged = now]
<1>1. now.evidence \in Verdicts \cup Abstained \cup {"no reason"}
  BY DEF Definition, Evidence
<1>2. unjudged \in Result /\ unjudged.outcome = "inconclusive"
      /\ unjudged.digest = definition /\ unjudged.judged = now
  BY UnjudgedType DEF Unjudged, Result
<1>3. CASE now.evidence \in Abstained
  <2>1. result = unjudged
    BY <1>3 DEF JudgedResult, Abstained, Verdicts
  <2> QED
    BY <1>2, <2>1 DEF IsBound
<1>4. CASE now.evidence = "no reason"
  <2>1. result = [unjudged EXCEPT !.verdict = "accept"]
    BY <1>4 DEF JudgedResult, Abstained, Verdicts
  <2> HIDE DEF result, unjudged
  <2>2. result.outcome = "inconclusive"
    BY <1>2, <2>1 DEF Result
  <2> QED
    BY <2>2 DEF IsBound, result
<1>5. CASE now.evidence \in Verdicts /\ definition.expected = NoValue
  <2>1. result = Placeholder(d)
    BY <1>5 DEF JudgedResult, Abstained, Verdicts
  <2> QED
    BY <2>1, PlaceholderType DEF IsBound
<1>6. CASE now.evidence \in Verdicts /\ definition.expected # NoValue
  <2> DEFINE outcome == OutcomeOf(now.evidence, definition.expected)
  <2>1. result = [unjudged EXCEPT !.verdict = now.evidence, !.inputs = TRUE,
                                  !.outcome = outcome]
    BY <1>6 DEF JudgedResult, Abstained, Verdicts
  <2>2. outcome # "inconclusive" =>
          /\ now.evidence \in {"accept", "reject"}
          /\ outcome = "pass" <=> now.evidence = definition.expected
    BY <1>6 DEF OutcomeOf, Verdicts
  <2> HIDE DEF result, unjudged, outcome
  <2>3. /\ result.outcome = outcome /\ result.inputs
        /\ result.verdict = now.evidence /\ result.digest = definition
        /\ result.judged = now
    BY <1>2, <2>1 DEF Result
  <2>4. definition # NoValue
    BY ScenarioAssumption
  <2> QED
    BY <2>2, <2>3, <2>4 DEF IsBound, result
<1> QED
  BY <1>1, <1>3, <1>4, <1>5, <1>6

(* A step of one run that only adds bound results keeps BoundInv.           *)
LEMMA BoundStep ==
    ASSUME TypeOK, BoundInv, NEW r \in Runner,
           UNCHANGED <<files, args>>,
           \A q \in Runner \ {r} : pc'[q] = pc[q] /\ results'[q] = results[q],
           \A d \in DOMAIN results'[r] : IsBound(results'[r][d], args[r]),
           pc'[r] = "judge" => args[r].commit /\ args[r].variant = "fixture",
           pc'[r] # "idle"
    PROVE  BoundInv'
BY DEF BoundInv, IsBound

(* What is in memory and in the result files was judged.                    *)
THEOREM BoundInvariant == Spec => []BoundInv
<1>1. Init => BoundInv
  BY DEF Init, BoundInv
<1>2. TypeOK /\ BoundInv /\ [Next]_vars => BoundInv'
  <2> SUFFICES ASSUME TypeOK, BoundInv, [Next]_vars PROVE BoundInv'
    OBVIOUS
  <2>1. ASSUME NEW r \in Runner, Start(r) PROVE BoundInv'
    <3>1. DOMAIN results[r] = {} /\ pc[r] = "idle"
      BY <2>1 DEF TypeOK, Start
    <3>2. PICK a \in Args : args' = [args EXCEPT ![r] = a]
      BY <2>1 DEF Start
    <3>3. pc' = [pc EXCEPT ![r] = "list"] /\ UNCHANGED <<results, files>>
      BY <2>1 DEF Start, Goto
    <3>4. \A f \in File \ {"summary"} : files[f] \notin {NoFile, Torn} => files[f].by # r
      BY <3>1 DEF BoundInv
    <3> QED
      BY <3>1, <3>2, <3>3, <3>4 DEF BoundInv, IsBound, TypeOK
  <2>2. ASSUME NEW r \in Runner, List(r) PROVE BoundInv'
    <3>1. /\ pc' = [pc EXCEPT ![r] = IF args[r].only = NoValue THEN "read" ELSE "filter"]
          /\ UNCHANGED <<args, results, files>>
      BY <2>2 DEF List, Goto
    <3> QED
      BY <3>1, BoundStep DEF BoundInv, TypeOK
  <2>3. ASSUME NEW r \in Runner, Filter(r) PROVE BoundInv'
    <3>1. /\ \A q \in Runner \ {r} : pc'[q] = pc[q]
          /\ pc'[r] \in {"read", "ended"}
          /\ UNCHANGED <<args, results, files>>
      BY <2>3 DEF Filter, Goto, Ends, TypeOK
    <3> QED
      BY <3>1, BoundStep DEF BoundInv
  <2>4. ASSUME NEW r \in Runner, NEW d \in Dir, Read(r, d) PROVE BoundInv'
    <3>0. pc[r] = "read" /\ IsFirst(d, Remaining(r)) /\ UNCHANGED <<args, files>>
      BY <2>4 DEF Read
    <3>1. ASSUME NEW item \in Result, item.outcome = "inconclusive",
                 AddResult(r, d, item), UNCHANGED pc
          PROVE  BoundInv'
      <4>1. /\ \A q \in Runner \ {r} : results'[q] = results[q]
            /\ DOMAIN results'[r] = DOMAIN results[r] \cup {d}
            /\ results'[r][d] = item
            /\ \A e \in DOMAIN results[r] : results'[r][e] = results[r][e]
        BY <3>0, <3>1, AddResultType
      <4>2. \A e \in DOMAIN results'[r] : IsBound(results'[r][e], args[r])
        BY <3>1, <4>1 DEF BoundInv, IsBound
      <4> QED
        BY <3>0, <3>1, <4>1, <4>2, BoundStep
    <3>2. CASE content[d].form # "whole" \/ ~args[r].commit
      BY <2>4, <3>1, <3>2, PlaceholderType DEF Read
    <3>3. CASE ~(content[d].form # "whole" \/ ~args[r].commit)
               /\ args[r].variant # "fixture"
      <4>1. content[d] \in Definition
        BY DEF TypeOK
      <4> QED
        BY <2>4, <3>1, <3>3, <4>1, UnjudgedType DEF Read
    <3>4. CASE ~(content[d].form # "whole" \/ ~args[r].commit)
               /\ args[r].variant = "fixture"
      <4>1. pc' = [pc EXCEPT ![r] = "judge"] /\ UNCHANGED results
        BY <2>4, <3>4 DEF Read, Goto
      <4> QED
        BY <3>0, <3>4, <4>1, BoundStep DEF BoundInv, TypeOK
    <3> QED
      BY <3>2, <3>3, <3>4
  <2>5. ASSUME NEW r \in Runner, NEW d \in Dir, Judge(r, d) PROVE BoundInv'
    <3>0. /\ pc[r] = "judge" /\ IsFirst(d, Remaining(r))
          /\ args[r].commit /\ args[r].variant = "fixture"
          /\ bound[r] \in Definition /\ content[d] \in Definition
          /\ UNCHANGED <<args, files>>
      BY <2>5 DEF TypeOK, BoundInv, Judge
    <3>1. CASE content[d].evidence \in DOMAIN ExitStatus
      <4>1. pc' = [pc EXCEPT ![r] = "ended"] /\ UNCHANGED results
        BY <2>5, <3>1 DEF Judge, Ends, Goto
      <4> QED
        BY <3>0, <4>1, BoundStep DEF BoundInv, TypeOK
    <3>2. CASE content[d].evidence \notin DOMAIN ExitStatus
      <4> DEFINE item == JudgedResult(d, bound[r], content[d])
      <4>1. item \in Result /\ IsBound(item, args[r])
        BY <3>0, <3>2, JudgedType, JudgedIsBound
      <4>2. AddResult(r, d, item) /\ pc' = [pc EXCEPT ![r] = "read"]
        BY <2>5, <3>2 DEF Judge, Goto
      <4> HIDE DEF item
      <4>3. /\ \A q \in Runner \ {r} : results'[q] = results[q]
            /\ DOMAIN results'[r] = DOMAIN results[r] \cup {d}
            /\ results'[r][d] = item
            /\ \A e \in DOMAIN results[r] : results'[r][e] = results[r][e]
        BY <3>0, <4>1, <4>2, AddResultType
      <4>4. \A e \in DOMAIN results'[r] : IsBound(results'[r][e], args[r])
        BY <4>1, <4>3 DEF BoundInv
      <4> QED
        BY <3>0, <4>2, <4>3, <4>4, BoundStep DEF TypeOK
    <3> QED
      BY <3>1, <3>2
  <2>6. ASSUME NEW r \in Runner, NEW d \in Dir, WriteResult(r, d) PROVE BoundInv'
    <3> DEFINE item == results[r][d]
    <3>1. d \in DOMAIN results[r] /\ IsBound(item, args[r]) /\ pc[r] # "idle"
      BY <2>6 DEF WriteResult, IsFirst, Unwritten, AllRun, BoundInv
    <3>2. files' = [files EXCEPT ![item.id] = [by |-> r, item |-> item]]
          /\ UNCHANGED <<pc, args, results>>
      BY <2>6 DEF WriteResult
    <3>3. /\ DOMAIN files' = File
          /\ \A f \in File : \/ files'[f] = files[f]
                               \/ (files'[f].by = r /\ files'[f].item = item)
      BY <3>2 DEF BoundInv
    <3> QED
      BY <3>1, <3>2, <3>3 DEF BoundInv, IsBound
  <2>7. ASSUME NEW r \in Runner, WriteSummary(r) PROVE BoundInv'
    <3>1. /\ pc' = [pc EXCEPT ![r] = "ended"] /\ UNCHANGED <<args, results>>
          /\ DOMAIN files' = File
          /\ \A f \in File \ {"summary"} : files'[f] = files[f]
      BY <2>7 DEF WriteSummary, Ends, Goto, BoundInv
    <3> QED
      BY <3>1 DEF BoundInv, IsBound, TypeOK
  <2>8. ASSUME NEW r \in Runner, Interrupt(r) PROVE BoundInv'
    <3>1. pc' = [pc EXCEPT ![r] = "ended"] /\ UNCHANGED <<args, results, files>>
      BY <2>8 DEF Interrupt, Ends, Goto
    <3> QED
      BY <3>1, BoundStep DEF BoundInv, TypeOK
  <2>9. ASSUME NEW r \in Runner, InterruptWriting(r) PROVE BoundInv'
    <3>1. /\ pc' = [pc EXCEPT ![r] = "ended"] /\ UNCHANGED <<args, results>>
          /\ DOMAIN files' = File
          /\ \A f \in File : files'[f] = files[f] \/ files'[f] = Torn
      BY <2>9 DEF InterruptWriting, Ends, Goto, BoundInv
    <3> QED
      BY <3>1 DEF BoundInv, IsBound, TypeOK
  <2>10. ASSUME NEW d \in Dir, EditScenario(d) PROVE BoundInv'
    BY <2>10 DEF EditScenario, BoundInv, IsBound
  <2>11. CASE UNCHANGED vars
    BY <2>11 DEF vars, BoundInv, IsBound
  <2> QED
    BY <2>1, <2>2, <2>3, <2>4, <2>5, <2>6, <2>7, <2>8, <2>9, <2>10, <2>11 DEF Next
<1> QED
  BY <1>1, <1>2, ScenarioTypeCorrect, PTL DEF Spec

(* Every result file that says pass or fail is bound, whoever wrote it and  *)
(* whatever else happened (run_scenarios.py:189-289).                       *)
THEOREM ConclusiveBound == Spec => []ConclusiveResultsAreBound
<1>1. BoundInv => ConclusiveResultsAreBound
  BY DEF BoundInv, ConclusiveResultsAreBound, IsBound
<1> QED
  BY <1>1, BoundInvariant, PTL

-----------------------------------------------------------------------------
(* What is found in a directory that is used once *)

(* As long as its only run goes on there is no summary.                     *)
LEMMA NoSummaryYet ==
    ASSUME ReportInv, UsedOnce, NEW r \in Runner, pc[r] # "ended"
    PROVE  files["summary"] \in {NoFile, Torn} /\ OnDisk(r)
BY DEF ReportInv, Summarised, UsedOnce

(* Before a run has listed its scenarios, and until all have run, nothing   *)
(* was written.                                                             *)
LEMMA NothingWrittenYet ==
    ASSUME TypeOK, ReportInv, UsedOnce, NEW r \in Runner, pc[r] # "ended",
           pc[r] \in {"idle", "list", "filter"} \/ Remaining(r) # {}
    PROVE  written[r] = {} /\ \A f \in Id : files[f] = NoFile
BY NoSummaryYet DEF OnDisk, TypeOK

(* A step that writes nothing, before all have run or at the end.           *)
LEMMA ReportStep ==
    ASSUME TypeOK, ReportInv, UsedOnce, NEW r \in Runner, pc[r] # "ended",
           UNCHANGED <<files, written>>,
           \A d \in DOMAIN results'[r] : results'[r][d].dir = d,
           pc'[r] # "ended" => written[r] = {} /\ \A f \in Id : files[f] = NoFile
    PROVE  ReportInv'
<1>1. pc'[r] # "ended" => OnDisk(r)'
  BY DEF OnDisk
<1>2. Summarised'
  BY NoSummaryYet DEF Summarised
<1> QED
  BY <1>1, <1>2 DEF ReportInv, UsedOnce

(* Adding the result of the next directory.                                 *)
LEMMA ReportAddStep ==
    ASSUME TypeOK, ReportInv, UsedOnce, NEW r \in Runner, NEW d \in Dir,
           pc[r] # "ended", IsFirst(d, Remaining(r)),
           NEW item \in Result, item.dir = d,
           AddResult(r, d, item), UNCHANGED <<files, written>>
    PROVE  ReportInv'
<1>1. /\ DOMAIN results'[r] = DOMAIN results[r] \cup {d}
      /\ results'[r][d] = item
      /\ \A e \in DOMAIN results[r] : results'[r][e] = results[r][e]
  BY AddResultType
<1>2. \A e \in DOMAIN results'[r] : results'[r][e].dir = e
  BY <1>1 DEF ReportInv
<1>3. Remaining(r) # {}
  BY DEF IsFirst
<1> QED
  BY <1>2, <1>3, NothingWrittenYet, ReportStep

(* One more result on disk: it is the latest of its id.                     *)
LEMMA OnDiskStep ==
    ASSUME TypeOK, ReportInv, NEW r \in Runner, OnDisk(r), NEW d \in Dir,
           Remaining(r) = {}, IsFirst(d, Unwritten(r)),
           UNCHANGED <<results, todo>>,
           files' = [files EXCEPT ![results[r][d].id] =
                                    [by |-> r, item |-> results[r][d]]],
           written' = [written EXCEPT ![r] = @ \cup {d}]
    PROVE  OnDisk(r)'
<1> DEFINE id(e) == results[r][e].id
           file == [by |-> r, item |-> results[r][d]]
           Same(e, W) == {c \in W : results[r][c].id = results[r][e].id}
<1>1. /\ d \in DOMAIN results[r] /\ d \notin written[r]
      /\ written'[r] = written[r] \cup {d}
      /\ \A e \in written[r] \cup {d} : e \in DOMAIN results[r] /\ e \in Int
      /\ \A e \in DOMAIN results[r] : id(e) \in Id /\ id(e) \in File
  BY DEF IsFirst, Unwritten, TypeOK, Dir, Result, File
<1>2. /\ files'[id(d)] = file
      /\ \A f \in File : f # id(d) => files'[f] = files[f]
  BY <1>1 DEF ReportInv
<1>3. \A e \in written[r] : e < d
  BY <1>1 DEF OnDisk
<1>4. \A c \in written'[r], e \in DOMAIN results[r] : e < c => e \in written'[r]
  <2>1. ASSUME NEW e \in DOMAIN results[r], e < d PROVE e \in written[r]
    <3>1. e \in Int /\ d \in Int
      BY <1>1 DEF TypeOK, Dir
    <3> QED
      BY <2>1, <3>1 DEF IsFirst, Unwritten
  <2> QED
    BY <1>1, <2>1 DEF OnDisk
<1>5. ASSUME NEW c \in written'[r]
      PROVE  LastIsThere(r, c, written[r])'
  <2>1. CASE id(c) = id(d)
    <3>1. IsLast(d, Same(c, written'[r]))
      BY <1>1, <1>3, <2>1 DEF IsLast
    <3> QED
      BY <1>1, <1>2, <2>1, <3>1 DEF LastIsThere
  <2>2. CASE id(c) # id(d)
    <3>1. c \in written[r]
      BY <1>1, <2>2
    <3>2. PICK e \in written[r] : /\ IsLast(e, Same(c, written[r]))
                                  /\ files[id(c)] = [by |-> r, item |-> results[r][e]]
      BY <3>1 DEF OnDisk, LastIsThere
    <3>3. Same(c, written'[r]) = Same(c, written[r])
      BY <1>1, <2>2
    <3> QED
      BY <1>1, <1>2, <2>2, <3>2, <3>3 DEF LastIsThere
  <2> QED
    BY <2>1, <2>2
<1>6. ASSUME NEW f \in Id, files'[f] # NoFile
      PROVE  \E c \in written'[r] : id(c) = f
  <2>1. f = id(d) \/ files'[f] = files[f]
    BY <1>2 DEF File
  <2> QED
    BY <1>1, <1>6, <2>1 DEF OnDisk
<1>7. Remaining(r)' = {} /\ NoFile' = NoFile
  BY DEF Remaining, NoFile
<1> QED
  BY <1>4, <1>5, <1>6, <1>7 DEF OnDisk

(* In a directory one run uses, the latest of what it wrote under an id is  *)
(* still there and the summary comes last (run_scenarios.py:386-409).       *)
THEOREM ReportInvariant == UsedOnce => (Spec => []ReportInv)
<1> SUFFICES ASSUME UsedOnce PROVE Spec => []ReportInv
  OBVIOUS
<1>1. Init => ReportInv
  BY ScenarioAssumption DEF Init, ReportInv, OnDisk, Summarised, File
<1>2. TypeOK /\ ReportInv /\ [Next]_vars => ReportInv'
  <2> SUFFICES ASSUME TypeOK, ReportInv, [Next]_vars PROVE ReportInv'
    OBVIOUS
  <2>1. ASSUME NEW r \in Runner, Start(r) \/ List(r) \/ Filter(r) \/ Interrupt(r)
        PROVE  ReportInv'
    <3>1. /\ pc[r] # "ended" /\ UNCHANGED <<files, written, results>>
          /\ pc'[r] = "ended" \/ pc[r] \in {"idle", "list", "filter"}
      BY <2>1 DEF Start, List, Filter, Interrupt, Goto, Ends, TypeOK
    <3> QED
      BY <3>1, NothingWrittenYet, ReportStep DEF ReportInv
  <2>2. ASSUME NEW r \in Runner, NEW d \in Dir, Read(r, d) PROVE ReportInv'
    <3>0. /\ pc[r] = "read" /\ IsFirst(d, Remaining(r))
          /\ UNCHANGED <<files, written>> /\ content[d] \in Definition
      BY <2>2 DEF Read, TypeOK
    <3>1. CASE AddResult(r, d, Placeholder(d))
      BY <3>0, <3>1, PlaceholderType, ReportAddStep
    <3>2. CASE AddResult(r, d, Unjudged(d, content[d]))
      BY <3>0, <3>2, UnjudgedType, ReportAddStep
    <3>3. CASE UNCHANGED results
      <4>1. Remaining(r) # {}
        BY <3>0 DEF IsFirst
      <4> QED
        BY <3>0, <3>3, <4>1, NothingWrittenYet, ReportStep DEF ReportInv
    <3> QED
      BY <2>2, <3>1, <3>2, <3>3 DEF Read
  <2>3. ASSUME NEW r \in Runner, NEW d \in Dir, Judge(r, d) PROVE ReportInv'
    <3>0. /\ pc[r] = "judge" /\ IsFirst(d, Remaining(r)) /\ bound[r] \in Definition
          /\ content[d] \in Definition /\ UNCHANGED <<files, written>>
      BY <2>3 DEF Judge, TypeOK
    <3>1. CASE content[d].evidence \in DOMAIN ExitStatus
      <4>1. pc'[r] = "ended" /\ UNCHANGED results
        BY <2>3, <3>1 DEF Judge, Ends, Goto, TypeOK
      <4> QED
        BY <3>0, <4>1, ReportStep DEF ReportInv
    <3>2. CASE content[d].evidence \notin DOMAIN ExitStatus
      <4> DEFINE item == JudgedResult(d, bound[r], content[d])
                 a == [commit |-> TRUE, variant |-> "fixture"]
      <4>1. a.commit /\ a.variant = "fixture"
        OBVIOUS
      <4> HIDE DEF a
      <4>2. item \in Result /\ item.dir = d
        BY <3>0, <3>2, <4>1, JudgedType
      <4>3. AddResult(r, d, item)
        BY <2>3, <3>2 DEF Judge
      <4> HIDE DEF item
      <4> QED
        BY <3>0, <4>2, <4>3, ReportAddStep
    <3> QED
      BY <3>1, <3>2
  <2>4. ASSUME NEW r \in Runner, NEW d \in Dir, WriteResult(r, d) PROVE ReportInv'
    <3>1. /\ pc[r] = "read" /\ Remaining(r) = {} /\ IsFirst(d, Unwritten(r))
          /\ UNCHANGED <<results, todo, pc>>
          /\ files' = [files EXCEPT ![results[r][d].id] =
                                       [by |-> r, item |-> results[r][d]]]
          /\ written' = [written EXCEPT ![r] = @ \cup {d}]
      BY <2>4 DEF WriteResult, AllRun
    <3>2. OnDisk(r) /\ files["summary"] \in {NoFile, Torn}
      BY <3>1, NoSummaryYet
    <3>3. OnDisk(r)'
      BY <3>1, <3>2, OnDiskStep
    <3>4. results[r][d].id \in Id
      BY <3>1 DEF TypeOK, Result, IsFirst, Unwritten
    <3>5. DOMAIN files' = File /\ files'["summary"] = files["summary"]
      BY <3>1, <3>4, ScenarioAssumption DEF ReportInv, File
    <3>6. Summarised'
      BY <3>2, <3>5 DEF Summarised
    <3> QED
      BY <3>1, <3>3, <3>5, <3>6 DEF ReportInv, UsedOnce
  <2>5. ASSUME NEW r \in Runner, WriteSummary(r) PROVE ReportInv'
    <3>1. /\ pc[r] = "read" /\ Remaining(r) = {} /\ Unwritten(r) = {}
          /\ files' = [files EXCEPT !["summary"] = Summary(r)]
          /\ pc' = [pc EXCEPT ![r] = "ended"]
          /\ UNCHANGED <<todo, results, written>>
      BY <2>5 DEF WriteSummary, AllRun, AllWritten, Ends, Goto
    <3>2. /\ DOMAIN results[r] \subseteq todo[r] /\ written[r] \subseteq DOMAIN results[r]
          /\ \A e \in written[r] : results[r][e].id \in Id
      BY DEF TypeOK, Result
    <3>3. DOMAIN results[r] = todo[r] /\ written[r] = todo[r]
      BY <3>1, <3>2 DEF Remaining, Unwritten
    <3>4. /\ DOMAIN files' = File /\ pc'[r] = "ended"
          /\ files'["summary"] = Summary(r)
          /\ \A f \in Id : files'[f] = files[f]
      <4> HIDE DEF Summary
      <4> QED
        BY <3>1, ScenarioAssumption DEF ReportInv, File, TypeOK
    <3>5. Summary(r)' = Summary(r)
      BY <3>1 DEF Summary, ScenarioCount
    <3>6. OnDisk(r)
      BY <3>1, NoSummaryYet
    <3>7. OnDisk(r)'
      <4>1. /\ UNCHANGED <<written[r], results[r], todo[r]>> /\ NoFile' = NoFile
            /\ Remaining(r)' = {}
        BY <3>1 DEF Remaining, NoFile
      <4>2. ASSUME NEW d \in written[r], LastIsThere(r, d, written[r])
            PROVE  LastIsThere(r, d, written[r])'
        BY <3>2, <3>4, <4>1, <4>2 DEF LastIsThere
      <4> QED
        BY <3>4, <3>6, <4>1, <4>2 DEF OnDisk
    <3>8. Summarised'
      BY <3>1, <3>3, <3>4, <3>5, <3>7 DEF Summarised
    <3> QED
      BY <3>1, <3>4, <3>8 DEF ReportInv, UsedOnce
  <2>6. ASSUME NEW r \in Runner, InterruptWriting(r) PROVE ReportInv'
    <3>1. /\ pc[r] = "read" /\ pc'[r] = "ended" /\ UNCHANGED results
      BY <2>6 DEF InterruptWriting, AllRun, Ends, Goto, TypeOK
    <3>2. /\ DOMAIN files' = File
          /\ files'["summary"] = files["summary"] \/ files'["summary"] = Torn
      <4>1. DOMAIN files = File
        BY DEF ReportInv
      <4>2. \E f : files' = [files EXCEPT ![f] = Torn]
        BY <2>6 DEF InterruptWriting
      <4>3. "summary" \in File
        BY DEF File
      <4> QED
        BY <4>1, <4>2, <4>3
    <3>3. Summarised'
      BY <3>1, <3>2, NoSummaryYet DEF Summarised
    <3> QED
      BY <3>1, <3>2, <3>3 DEF ReportInv, UsedOnce
  <2>7. ASSUME UNCHANGED <<pc, todo, results, written, files>> PROVE ReportInv'
    <3>1. ASSUME NEW r \in Runner
          PROVE  OnDisk(r)' = OnDisk(r) /\ Summary(r)' = Summary(r)
      BY <2>7 DEF OnDisk, LastIsThere, Remaining, Summary, ScenarioCount, NoFile
    <3>2. Summarised'
      <4> HIDE DEF Summary
      <4> QED
        BY <2>7, <3>1 DEF ReportInv, Summarised
    <3> QED
      BY <2>7, <3>1, <3>2 DEF ReportInv
  <2>8. ASSUME NEW d \in Dir, EditScenario(d) PROVE ReportInv'
    BY <2>7, <2>8 DEF EditScenario
  <2>9. CASE UNCHANGED vars
    BY <2>7, <2>9 DEF vars
  <2> QED
    BY <2>1, <2>2, <2>3, <2>4, <2>5, <2>6, <2>8, <2>9 DEF Next
<1> QED
  BY <1>1, <1>2, ScenarioTypeCorrect, PTL DEF Spec

(* What stands next to a whole summary: of every id it names, the latest    *)
(* result that its run has reached.                                         *)
LEMMA BesideTheSummary ==
    ASSUME TypeOK, ReportInv, files["summary"] \notin {NoFile, Torn},
           NEW r, r = files["summary"].by
    PROVE  /\ r \in Runner
           /\ files["summary"] = Summary(r)
           /\ DOMAIN results[r] = todo[r]
           /\ \A f \in Id : files[f] # NoFile =>
                \E d \in todo[r] : results[r][d].id = f
           /\ \A d \in todo[r] :
                /\ LastIsThere(r, d, todo[r])
                /\ files[results[r][d].id] \notin {NoFile, Torn}
<1>1. PICK q \in Runner :
         /\ files["summary"] = Summary(q) /\ OnDisk(q)
         /\ DOMAIN results[q] = todo[q] /\ written[q] = todo[q]
  BY DEF ReportInv, Summarised
<1>2. q = r
  <2>1. Summary(q).by = q
    BY DEF Summary
  <2> HIDE DEF Summary
  <2> QED
    BY <1>1, <2>1
<1>3. \A d \in todo[r] : LastIsThere(r, d, todo[r])
  BY <1>1, <1>2 DEF OnDisk
<1>4. ASSUME NEW d \in todo[r] PROVE files[results[r][d].id] \notin {NoFile, Torn}
  <2>1. PICK e \in todo[r] : files[results[r][d].id] = [by |-> r, item |-> results[r][e]]
    BY <1>3 DEF LastIsThere
  <2>2. [by |-> r, item |-> results[r][e]] \in ResultFile
    BY <1>1, <1>2 DEF ResultFile, TypeOK
  <2> QED
    BY <2>1, <2>2, FileAssumption DEF NoFile
<1>5. \A f \in Id : files[f] # NoFile => \E d \in todo[r] : results[r][d].id = f
  BY <1>1, <1>2 DEF OnDisk
<1> HIDE DEF Summary
<1> QED
  BY <1>1, <1>2, <1>3, <1>4, <1>5

(* What the summary of a directory used once says of an id is what the      *)
(* result file of that id says, also when two scenarios share it.           *)
THEOREM SummaryOfFiles == UsedOnce => (Spec => []SummaryMatchesFiles)
<1>1. TypeOK /\ ReportInv => SummaryMatchesFiles
  <2> SUFFICES ASSUME TypeOK, ReportInv, files["summary"] \notin {NoFile, Torn},
                      NEW id \in DOMAIN files["summary"].outcomes
               PROVE  /\ files[id] \notin {NoFile, Torn}
                      /\ files[id].item.outcome = files["summary"].outcomes[id]
    BY DEF SummaryMatchesFiles
  <2> DEFINE r == files["summary"].by
  <2>1. /\ r \in Runner /\ files["summary"] = Summary(r) /\ DOMAIN results[r] = todo[r]
        /\ \A d \in todo[r] : /\ LastIsThere(r, d, todo[r])
                             /\ files[results[r][d].id] \notin {NoFile, Torn}
    BY BesideTheSummary
  <2> HIDE DEF r
  <2> DEFINE Ran == DOMAIN results[r]
             Named(i) == {d \in Ran : results[r][d].id = i}
             outcomes == [i \in {results[r][d].id : d \in Ran} |->
                 results[r][CHOOSE d \in Ran : IsLast(d, Named(i))].outcome]
  <2>2. files["summary"].outcomes = outcomes
    <3>1. Summary(r).outcomes = outcomes
      BY DEF Summary
    <3> QED
      BY <2>1, <3>1
  <2>3. PICK d \in Ran : id = results[r][d].id
    BY <2>2
  <2>4. PICK e \in Ran : /\ IsLast(e, Named(id))
                         /\ files[id] = [by |-> r, item |-> results[r][e]]
                         /\ files[id] \notin {NoFile, Torn}
    BY <2>1, <2>3 DEF LastIsThere
  <2>5. \A c \in Ran : c \in Int
    BY <2>1 DEF TypeOK, Dir
  <2>6. (CHOOSE c \in Ran : IsLast(c, Named(id))) = e
    BY <2>4, <2>5 DEF IsLast
  <2>7. outcomes[id] = results[r][e].outcome
    BY <2>3, <2>6
  <2> HIDE DEF outcomes
  <2> QED
    BY <2>2, <2>4, <2>7
<1>2. UsedOnce => (Spec => []ReportInv)
  BY ReportInvariant
<1> QED
  BY <1>1, <1>2, ScenarioTypeCorrect, PTL

(* A scenario whose result was displaced by one of the same id shows: the   *)
(* summary of a directory used once counts more scenarios than ids.         *)
THEOREM DisplacementSeen == UsedOnce => (Spec => []DisplacementShows)
<1>1. TypeOK /\ ReportInv => DisplacementShows
  <2> SUFFICES ASSUME TypeOK, ReportInv, NEW r \in Runner, WroteSummary(r)
               PROVE  /\ files["summary"].count = Cardinality(todo[r])
                      /\ (\A d \in todo[r] : Reported(d)) <=>
                            Cardinality(DOMAIN files["summary"].outcomes)
                              = files["summary"].count
    BY DEF DisplacementShows
  <2>1. /\ files["summary"] = Summary(r) /\ DOMAIN results[r] = todo[r]
        /\ \A f \in Id : files[f] # NoFile => \E d \in todo[r] : results[r][d].id = f
        /\ \A d \in todo[r] : /\ LastIsThere(r, d, todo[r])
                             /\ files[results[r][d].id] \notin {NoFile, Torn}
    BY BesideTheSummary DEF WroteSummary
  <2> DEFINE Ran == todo[r]
             ids == {results[r][d].id : d \in Ran}
             idOf == [d \in Ran |-> results[r][d].id]
  <2>2. files["summary"].count = Cardinality(Ran) /\ DOMAIN files["summary"].outcomes = ids
    <3>1. Summary(r).count = Cardinality(Ran) /\ DOMAIN Summary(r).outcomes = ids
      BY <2>1 DEF Summary, ScenarioCount
    <3> HIDE DEF Summary
    <3> QED
      BY <2>1, <3>1
  <2>3. IsFiniteSet(Ran)
    <3>1. IsFiniteSet(Dir)
      BY ScenarioAssumption, FS_Interval DEF Dir
    <3>2. Ran \in SUBSET Dir
      BY DEF TypeOK
    <3> QED
      BY <3>1, <3>2, FS_Subset
  <2>4. idOf \in Surjection(Ran, ids)
    BY DEF Surjection
  <2>5. Cardinality(ids) = Cardinality(Ran) <=> idOf \in Injection(Ran, ids)
    BY <2>3, <2>4, FS_Surjection
  <2>6. \A d \in Ran : /\ results[r][d].dir = d /\ results[r][d].id \in Id
                       /\ d \in Int
    BY <2>1 DEF ReportInv, TypeOK, Result, Dir
  <2>7. ASSUME \A d \in Ran : Reported(d) PROVE idOf \in Injection(Ran, ids)
    <3>1. ASSUME NEW d \in Ran PROVE files[idOf[d]].item.dir = d
      <4>1. PICK f \in Id : files[f] \notin {NoFile, Torn} /\ files[f].item.dir = d
        BY <2>7 DEF Reported, File
      <4>2. PICK c \in Ran : results[r][c].id = f
        BY <2>1, <4>1
      <4>3. PICK e \in Ran : /\ results[r][e].id = results[r][c].id
                             /\ files[f] = [by |-> r, item |-> results[r][e]]
        BY <2>1, <4>2 DEF IsLast, LastIsThere
      <4>4. e = d
        BY <2>6, <4>1, <4>3
      <4> QED
        BY <4>1, <4>2, <4>3, <4>4
    <3>2. \A d, e \in Ran : idOf[d] = idOf[e] => d = e
      BY <3>1
    <3> QED
      BY <2>4, <3>2 DEF Surjection, Injection, IsInjective
  <2>8. ASSUME idOf \in Injection(Ran, ids), NEW d \in Ran PROVE Reported(d)
    <3>1. PICK e \in Ran : /\ results[r][e].id = results[r][d].id
                           /\ files[results[r][d].id] = [by |-> r, item |-> results[r][e]]
                           /\ files[results[r][d].id] \notin {NoFile, Torn}
      BY <2>1 DEF IsLast, LastIsThere
    <3>2. e = d
      BY <2>8, <3>1 DEF Injection, IsInjective
    <3>3. results[r][d].id \in File \ {"summary"}
      BY <2>6, ScenarioAssumption DEF File
    <3> QED
      BY <2>6, <3>1, <3>2, <3>3 DEF Reported
  <2> HIDE DEF ids, idOf
  <2> QED
    BY <2>2, <2>5, <2>7, <2>8
<1>2. UsedOnce => (Spec => []ReportInv)
  BY ReportInvariant
<1> QED
  BY <1>1, <1>2, ScenarioTypeCorrect, PTL
================================================================================
