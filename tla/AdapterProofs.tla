----------------------------- MODULE AdapterProofs -----------------------------
(****************************************************************************)
(* The adapter, for every ground truth and any number of failing commands.  *)
(* The inductive invariant follows the script: how many attempts a position *)
(* has seen, what the answer kept there says of the product, and that       *)
(* the child's output is the verdict of a finished script, an adapter error *)
(* or nothing.  A second invariant follows a script that nothing disturbs,  *)
(* up to the answer that the product's defects make it end with.            *)
(****************************************************************************)
EXTENDS Adapter, TLAPS

(* Where a script hands in its second attempt; beyond its end if never. *)
Second(case) == IF Handler(case) = "stale_evidence" THEN 7
                ELSE IF Handler(case) = "stale_review_evidence" THEN 8
                ELSE 100

Attempts(case, n) ==
    IF n <= 4 THEN 0 ELSE IF n <= Second(case) THEN 1 ELSE 2

(* The shape of the four scripts. *)
LEMMA ScriptShape ==
  ASSUME NEW case \in CaseId
  PROVE  /\ Len(Script(case)) \in 7..10
         /\ \A n \in 1..Len(Script(case)) :
              /\ Script(case)[n] = "accept" => n = Len(Script(case))
              /\ Script(case)[n] = "worker" <=> n = 4 \/ n = Second(case)
              /\ Script(case)[n] \in {"scope", "return", "rework"} => n <= 7
              /\ Script(case)[n] = "accept" => Handler(case) # "stale_evidence"
         /\ Handler(case) = "stale_review_evidence" => Len(Script(case)) = 10
<1>1. CASE Handler(case) = "stale_evidence"
  <2>1. Script(case) = <<"init", "start", "scope", "worker",
                         "observe_first", "return", "worker", "observe_first">>
    BY <1>1 DEF Script
  <2> QED
    BY <1>1, <2>1 DEF Second
<1>2. CASE Handler(case) = "stale_review_evidence"
  <2>1. Script(case) = <<"init", "start", "scope", "worker",
                         "observe_first", "approve", "rework", "worker",
                         "observe_second", "accept">>
    BY <1>2 DEF Script
  <2> QED
    BY <1>2, <2>1 DEF Second
<1>3. CASE /\ Handler(case) \notin {"stale_evidence", "stale_review_evidence"}
           /\ case = "reported-observed-001"
  <2>1. Script(case) = <<"init", "start", "scope", "worker", "report",
                         "approve", "accept">>
    BY <1>3 DEF Script
  <2>2. Second(case) = 100
    BY <1>3 DEF Second
  <2>3. /\ Handler(case) # "stale_evidence"
        /\ Handler(case) # "stale_review_evidence"
    BY <1>3
  <2> QED
    BY <2>1, <2>2, <2>3
<1>4. CASE /\ Handler(case) \notin {"stale_evidence", "stale_review_evidence"}
           /\ case # "reported-observed-001"
  <2>1. Script(case) = <<"init", "start", "scope", "worker", "observe_first",
                         "approve", "accept">>
    BY <1>4 DEF Script
  <2>2. Second(case) = 100
    BY <1>4 DEF Second
  <2> QED
    BY <1>4, <2>1, <2>2
<1> QED
  BY <1>1, <1>2, <1>3, <1>4

-----------------------------------------------------------------------------
(* The inductive invariant *)

Types ==
    /\ id \in CaseId
    /\ defects \subseteq Defect
    /\ staleReply \in {"not_pending", "review_subject_stale"}
    /\ product \in [pending : Pending, attempt : 0..2, evidence : Evidence,
                    approved : 0..2]
    /\ step \in 1..(Len(Script(id)) + 1)
    /\ events \in Seq(0..2) /\ Len(events) <= 2
    /\ reply.code \in {0, 1}
    /\ faults \in 0..MaxFaults

(* An approval is of an attempt there was, and work under review again      *)
(* after it is another attempt.                                             *)
Lineage(p) ==
    /\ p.approved <= p.attempt
    /\ p.approved # 0 => p.pending \in {"review", "final", "worker", "accepted"}
    /\ p.approved # 0 /\ p.pending = "review" => p.approved < p.attempt

(* The position in the script fixes how many worker submissions were taken  *)
(* for attempts, the product has at most as many, an event printed for the  *)
(* second means that it was handed in, and only the end of the script has   *)
(* seen an acceptance.                                                      *)
InStep ==
    /\ Len(events) = Attempts(id, step)
    /\ product.attempt <= Len(events)
    /\ Lineage(product)
    /\ Len(events) = 2 /\ events[2] # NoEvent => product.pending # "worker"
    /\ product.pending = "accepted" => Finished

(* What the answer that is kept says of the product. *)
ReplyIsEarned ==
    /\ reply.text = "accepted" => product.pending = "accepted"
    /\ reply.text \in DOMAIN PRODUCT_REASON_MAP_V1 => product.pending # "accepted"
    /\ reply.text = "check_failed" => product.evidence = "failed"
    /\ reply.text = "observation_missing" => product.evidence = "reported"
    /\ reply.text = "review_subject_stale" =>
         product.approved # 0 /\ product.pending \in {"worker", "review"}

(* Where the output of the adapter comes from. *)
Provenance ==
    \/ child.stdout = Empty
    \/ child.stdout = AdapterError.stdout
    \/ Finished /\ child.stdout = Conclusion(Handler(id), reply).stdout

ExitCodes == {0, 1, 2, 3, NoValue}

AdapterInv ==
    /\ Types
    /\ child = NoValue \/ Finished => InStep /\ ReplyIsEarned
    /\ Ended => Provenance /\ child.exit_code \in ExitCodes

Products == [pending : Pending, attempt : 0..2, evidence : Evidence, approved : 0..2]

(* A command that the script is at. *)
LEMMA AtCommand ==
  ASSUME AdapterInv, NEW op, Doing(op)
  PROVE  /\ child = NoValue /\ ~Finished /\ InStep /\ ReplyIsEarned
         /\ step \in 1..Len(Script(id)) /\ step + 1 \in 1..(Len(Script(id)) + 1)
         /\ product \in Products /\ product.pending # "accepted"
         /\ events \in Seq(0..2)
         /\ op = "worker" => /\ Len(events) \in {0, 1}
                             /\ Attempts(id, step + 1) = Len(events) + 1
         /\ op # "worker" => Attempts(id, step + 1) = Len(events)
         /\ op \in {"scope", "return", "rework"} => Len(events) < 2
         /\ op = "accept" => step = Len(Script(id))
<1>1. child = NoValue /\ ~Finished /\ Script(id)[step] = op
  BY DEF Doing
<1>2. id \in CaseId /\ step \in 1..(Len(Script(id)) + 1)
      /\ product \in Products /\ InStep /\ ReplyIsEarned
      /\ events \in Seq(0..2)
  BY <1>1 DEF AdapterInv, Types, Products
<1>3. Len(Script(id)) \in 7..10 /\ step \in 1..Len(Script(id))
  BY <1>1, <1>2, ScriptShape DEF Finished
<1>4. /\ op = "accept" => step = Len(Script(id))
      /\ op = "worker" <=> step = 4 \/ step = Second(id)
      /\ op \in {"scope", "return", "rework"} => step <= 7
  BY <1>1, <1>2, <1>3, ScriptShape
<1>5. Second(id) \in {7, 8, 100}
  BY DEF Second
<1>6. Len(events) = Attempts(id, step)
      /\ (product.pending = "accepted" => Finished)
  BY <1>2 DEF InStep
<1>7. step + 1 \in 1..(Len(Script(id)) + 1)
  BY <1>3
<1>8. /\ op = "worker" => /\ Len(events) \in {0, 1}
                          /\ Attempts(id, step + 1) = Len(events) + 1
      /\ op # "worker" => Attempts(id, step + 1) = Len(events)
      /\ op \in {"scope", "return", "rework"} => Len(events) < 2
  BY <1>3, <1>4, <1>5, <1>6 DEF Attempts
<1> QED
  BY <1>1, <1>2, <1>3, <1>4, <1>6, <1>7, <1>8

(* What a command may make of the product: hand in an attempt, or leave it  *)
(* the attempt it has, and give work back only before the second one.       *)
Moves(op, after) ==
    /\ after \in Products
    /\ after.attempt = product.attempt
       \/ (op = "worker" /\ after.attempt = product.attempt + 1)
    /\ Lineage(after)
    /\ after.pending = "worker" =>
         product.pending = "worker" \/ op \in {"scope", "return", "rework"}
    /\ after.pending = "accepted" => op = "accept"

(* What an answer says of the product after it. *)
Tells(op, after, answer) ==
    /\ answer.code \in {0, 1}
    /\ op = "worker" /\ answer.text = "event" => after.pending = "review"
    /\ answer.text = "accepted" => after.pending = "accepted"
    /\ answer.text \in DOMAIN PRODUCT_REASON_MAP_V1 => after.pending # "accepted"
    /\ answer.text = "check_failed" => after.evidence = "failed"
    /\ answer.text = "observation_missing" => after.evidence = "reported"
    /\ answer.text = "review_subject_stale" =>
         after.approved # 0 /\ after.pending \in {"worker", "review"}

(* One command keeps the invariant, if what it does to the product and what *)
(* it answers go together.                                                  *)
LEMMA CliStep ==
  ASSUME AdapterInv, NEW op, NEW after, NEW answer, Cli(op, after, answer),
         Moves(op, after), Tells(op, after, answer)
  PROVE  AdapterInv'
<1>1. Doing(op) /\ UNCHANGED world
  BY DEF Cli
<1>2. UNCHANGED <<id, defects, staleReply>>
  BY <1>1 DEF world
<1>3. /\ child = NoValue /\ ~Finished /\ InStep /\ ReplyIsEarned
      /\ step \in 1..Len(Script(id)) /\ step + 1 \in 1..(Len(Script(id)) + 1)
      /\ product \in Products /\ product.pending # "accepted"
      /\ events \in Seq(0..2)
      /\ op = "worker" => /\ Len(events) \in {0, 1}
                          /\ Attempts(id, step + 1) = Len(events) + 1
      /\ op # "worker" => Attempts(id, step + 1) = Len(events)
      /\ op \in {"scope", "return", "rework"} => Len(events) < 2
      /\ op = "accept" => step = Len(Script(id))
  BY <1>1, AtCommand
<1>4. PICK returned \in {answer} \cup Garbage :
         /\ Returns(op, returned)
         /\ product' \in {product, after}
         /\ returned \notin Garbage => product' = after
         /\ faults' \in 0..MaxFaults
  <2>1. faults \in 0..MaxFaults
    BY DEF AdapterInv, Types
  <2>2. CASE product' = after /\ Returns(op, answer) /\ UNCHANGED faults
    BY <2>1, <2>2
  <2>3. CASE /\ faults < MaxFaults /\ faults' = faults + 1
             /\ product' \in {product, after}
             /\ \E noise \in Garbage : Returns(op, noise)
    BY <2>1, <2>3, AdapterAssumption
  <2> QED
    BY <2>2, <2>3 DEF Cli
<1>5. product' \in Products
  BY <1>3, <1>4 DEF Moves
<1>6. \A noise \in Garbage : /\ noise.code \in {0, 1}
                             /\ noise.text \in {"noise", "array", "lines"}
  BY DEF Garbage, Answer
<1>7. CASE child' = AdapterError /\ UNCHANGED <<step, events, reply>>
  <2>1. Types'
    BY <1>2, <1>4, <1>5, <1>7 DEF AdapterInv, Types, Products
  <2>2. ~Finished'
    BY <1>2, <1>3, <1>7 DEF Finished
  <2>3. child'.exit_code = 3 /\ child'.stdout = AdapterError.stdout
    BY <1>7 DEF AdapterError, Prints, Exits
  <2>4. child' # NoValue
    BY <1>7, NoValueAssumption
  <2> QED
    BY <1>7, <2>1, <2>2, <2>3, <2>4 DEF AdapterInv, Ended, Provenance, ExitCodes
<1>8. CASE /\ step' = step + 1
           /\ events' = IF op = "worker" THEN Append(events, EventOf(returned))
                        ELSE events
           /\ reply' = returned
           /\ UNCHANGED child
  <2>1. reply'.code \in {0, 1}
    BY <1>4, <1>6, <1>8 DEF Tells
  <2>2. EventOf(returned) \in 0..2
    BY <1>5 DEF EventOf, NoEvent, Products
  <2>3. /\ events' \in Seq(0..2) /\ Len(events') = Attempts(id, step + 1)
        /\ Len(events') <= 2 /\ Len(events) <= Len(events')
        /\ op = "worker" => /\ Len(events') = Len(events) + 1
                            /\ events'[Len(events')] = EventOf(returned)
    <3>1. CASE op = "worker"
      <4>1. events' = Append(events, EventOf(returned))
        BY <1>8, <3>1
      <4> HIDE DEF EventOf
      <4> QED
        BY <1>3, <2>2, <3>1, <4>1
    <3>2. CASE op # "worker"
      BY <1>3, <1>8, <3>2 DEF AdapterInv, Types
    <3> QED
      BY <3>1, <3>2
  <2>4. Types'
    BY <1>2, <1>3, <1>4, <1>5, <1>8, <2>1, <2>3 DEF AdapterInv, Types, Products
  <2>5. product'.attempt <= Len(events')
    BY <1>3, <1>4, <2>3 DEF Moves, InStep, Products
  <2>6. Lineage(product')
    BY <1>3, <1>4 DEF Moves, InStep
  <2>7. Len(events') = 2 /\ events'[2] # NoEvent => product'.pending # "worker"
    <3> SUFFICES ASSUME Len(events') = 2, events'[2] # NoEvent
                 PROVE  product'.pending # "worker"
      OBVIOUS
    <3>1. CASE op = "worker"
      <4>1. returned.text = "event"
        BY <2>3, <3>1 DEF EventOf
      <4>2. returned = answer /\ product' = after
        BY <1>4, <1>6, <4>1
      <4> QED
        BY <3>1, <4>1, <4>2 DEF Tells
    <3>2. CASE op # "worker"
      <4>1. events' = events
        BY <1>8, <3>2
      <4>2. Len(events) = 2 /\ events[2] # NoEvent
        BY <4>1
      <4>3. product.pending # "worker" /\ op \notin {"scope", "return", "rework"}
        BY <1>3, <4>2 DEF InStep
      <4> QED
        BY <1>4, <4>3 DEF Moves
    <3> QED
      BY <3>1, <3>2
  <2>8. product'.pending = "accepted" => step + 1 > Len(Script(id))
    BY <1>3, <1>4, ScriptShape DEF AdapterInv, Types, Moves
  <2>9. InStep'
    BY <1>2, <1>8, <2>3, <2>5, <2>6, <2>7, <2>8 DEF InStep, Finished, NoEvent, Lineage
  <2>10. ReplyIsEarned'
    <3>1. CASE returned \in Garbage
      BY <1>6, <1>8, <3>1 DEF ReplyIsEarned, PRODUCT_REASON_MAP_V1
    <3>2. CASE returned \notin Garbage
      BY <1>4, <1>8, <3>2 DEF ReplyIsEarned, Tells
    <3> QED
      BY <3>1, <3>2
  <2> QED
    BY <1>3, <1>8, <2>4, <2>9, <2>10 DEF AdapterInv, Ended
<1> QED
  BY <1>4, <1>7, <1>8 DEF Returns

LEMMA AdapterInit == Init => AdapterInv
<1> SUFFICES ASSUME Init PROVE AdapterInv
  OBVIOUS
<1>1. id \in CaseId /\ step = 1 /\ child = NoValue /\ reply.code = 0 /\ reply.text = "ok"
  BY DEF Init, Ok, Answer
<1>2. Len(Script(id)) \in 7..10
  BY <1>1, ScriptShape
<1>3. Types
  BY <1>1, <1>2, AdapterAssumption DEF Init, Types, Pending, Evidence
<1>4. InStep
  BY <1>1 DEF Init, InStep, Attempts, Lineage
<1>5. ReplyIsEarned
  BY <1>1 DEF ReplyIsEarned, PRODUCT_REASON_MAP_V1
<1> QED
  BY <1>1, <1>3, <1>4, <1>5 DEF AdapterInv, Ended

(* A command the product refuses leaves it as it is. *)
LEMMA RefusedMoves ==
  ASSUME AdapterInv, NEW op, Doing(op)
  PROVE  Moves(op, product)
BY AtCommand DEF Moves, InStep

(* It may refuse without looking at the evidence. *)
LEMMA RefusedStep ==
  ASSUME AdapterInv, NEW op, NEW text \in {"not_pending", "not_current"},
         Cli(op, product, Answer(1, text))
  PROVE  AdapterInv'
<1>1. Moves(op, product)
  BY RefusedMoves DEF Cli
<1> DEFINE answer == Answer(1, text)
<1>2. Tells(op, product, answer)
  BY DEF Tells, Answer, PRODUCT_REASON_MAP_V1
<1> HIDE DEF answer
<1>3. Cli(op, product, answer)
  BY DEF answer
<1> QED
  BY <1>1, <1>2, <1>3, CliStep

LEMMA SubmitStep ==
  ASSUME AdapterInv, NEW op \in DOMAIN Requires, Submit(op)
  PROVE  AdapterInv'
<1>1. CASE product.pending # Requires[op]
  BY <1>1, RefusedStep DEF Submit
<1>2. CASE product.pending = Requires[op]
  <2> DEFINE after == [product EXCEPT
                !.pending  = LeadsTo[op],
                !.attempt  = IF op = "worker" THEN @ + 1 ELSE @,
                !.evidence = IF op = "worker" THEN "none" ELSE @,
                !.approved = IF op = "approve" THEN product.attempt ELSE @]
             answer == IF op = "worker" THEN Answer(0, "event") ELSE Ok
  <2>1. Cli(op, after, answer)
    BY <1>2 DEF Submit
  <2>2. Doing(op)
    BY <2>1 DEF Cli
  <2>3. /\ product \in Products /\ InStep
        /\ op = "worker" => Len(events) \in {0, 1}
    BY <2>2, AtCommand
  <2>4. op = "worker" => product.attempt \in {0, 1}
    BY <2>3 DEF InStep, Products
  <2>5. LeadsTo[op] \in Pending /\ LeadsTo[op] # "accepted"
    BY DEF LeadsTo, Requires, Pending
  <2>6. after \in Products
    <3>1. CASE op = "worker"
      <4>1. product.attempt + 1 \in 0..2
        BY <2>4, <3>1
      <4> QED
        BY <2>3, <2>5, <3>1, <4>1 DEF Products, Evidence
    <3>2. CASE op = "approve"
      BY <2>3, <2>5, <3>2 DEF Products
    <3>3. CASE op \notin {"worker", "approve"}
      BY <2>3, <2>5, <3>3 DEF Products
    <3> QED
      BY <3>1, <3>2, <3>3
  <2>7. /\ op = "worker" => /\ after.attempt = product.attempt + 1
                            /\ after.pending = "review"
                            /\ after.approved = product.approved
        /\ op = "approve" => /\ after.attempt = product.attempt
                             /\ after.approved = product.attempt
                             /\ after.pending = "final"
        /\ op \notin {"worker", "approve"} => /\ after.attempt = product.attempt
                                              /\ after.approved = product.approved
        /\ after.pending = LeadsTo[op]
    BY <2>3 DEF Products, LeadsTo, Requires
  <2>8. answer.code = 0 /\ answer.text \in {"event", "ok"}
        /\ (op # "worker" => answer.text = "ok")
    BY DEF Answer, Ok
  <2> HIDE DEF after, answer
  <2>9. Lineage(product) /\ product.attempt \in 0..2 /\ product.approved \in 0..2
    BY <2>3 DEF InStep, Products
  <2>10. Lineage(after)
    <3>1. CASE op = "worker"
      BY <2>7, <2>9, <3>1 DEF Lineage
    <3>2. CASE op = "approve"
      BY <2>7, <2>9, <3>2 DEF Lineage
    <3>3. CASE op \in {"init", "start", "scope"}
      <4>1. product.approved = 0
        BY <1>2, <2>9, <3>3 DEF Lineage, Requires
      <4> QED
        BY <2>7, <2>9, <3>3, <4>1 DEF Lineage
    <3>4. CASE op \in {"return", "rework"}
      <4>1. after.pending = "worker"
        BY <2>7, <3>4 DEF LeadsTo
      <4> QED
        BY <2>7, <2>9, <3>4, <4>1 DEF Lineage
    <3> QED
      BY <3>1, <3>2, <3>3, <3>4 DEF Requires
  <2>11. LeadsTo[op] = "worker" => op \in {"scope", "return", "rework"}
    BY DEF LeadsTo, Requires
  <2>12. Moves(op, after)
    BY <2>5, <2>6, <2>7, <2>10, <2>11 DEF Moves
  <2>13. Tells(op, after, answer)
    BY <2>7, <2>8 DEF Tells, PRODUCT_REASON_MAP_V1
  <2> QED
    BY <2>1, <2>12, <2>13, CliStep
<1> QED
  BY <1>1, <1>2

(* observe-check and record-check change the evidence and nothing else. *)
LEMMA EvidenceStep ==
  ASSUME AdapterInv, NEW op \in {"observe_first", "observe_second", "report"},
         NEW evidence \in Evidence,
         Cli(op, [product EXCEPT !.evidence = evidence], Ok)
  PROVE  AdapterInv'
<1> DEFINE after == [product EXCEPT !.evidence = evidence]
<1>1. product \in Products /\ Moves(op, product)
  BY AtCommand, RefusedMoves DEF Cli
<1>2. /\ after \in Products /\ after.attempt = product.attempt
      /\ after.approved = product.approved /\ after.pending = product.pending
  BY <1>1 DEF Products
<1>3. Cli(op, after, Ok)
  OBVIOUS
<1> HIDE DEF after
<1>4. Moves(op, after)
  BY <1>1, <1>2 DEF Moves, Lineage
<1>5. Tells(op, after, Ok)
  BY DEF Tells, Ok, Answer, PRODUCT_REASON_MAP_V1
<1> QED
  BY <1>3, <1>4, <1>5, CliStep

LEMMA ObserveStep ==
  ASSUME AdapterInv, NEW op \in {"observe_first", "observe_second"}, Observe(op)
  PROVE  AdapterInv'
<1> DEFINE evidence == IF CheckPasses THEN "passed" ELSE "failed"
<1>1. evidence \in Evidence
  BY DEF Evidence
<1>2. CASE Cli(op, [product EXCEPT !.evidence = evidence], Ok)
  BY <1>1, <1>2, EvidenceStep
<1>3. CASE Cli(op, product, Answer(1, "not_current"))
  BY <1>3, RefusedStep
<1> QED
  BY <1>2, <1>3 DEF Observe

LEMMA ReportStep ==
  ASSUME AdapterInv, Report
  PROVE  AdapterInv'
<1>1. CASE Cli("report", [product EXCEPT !.evidence = "reported"], Ok)
  BY <1>1, EvidenceStep DEF Evidence
<1>2. CASE Cli("report", product, Answer(1, "not_current"))
  BY <1>2, RefusedStep
<1> QED
  BY <1>1, <1>2 DEF Report

LEMMA AcceptStep ==
  ASSUME AdapterInv, Accept
  PROVE  AdapterInv'
<1>1. Doing("accept")
  BY DEF Accept, Cli
<1>2. /\ product \in Products /\ InStep /\ product.pending # "accepted"
      /\ Moves("accept", product)
  BY <1>1, AtCommand, RefusedMoves
<1>3. CASE Objection = ""
  <2> DEFINE after == [product EXCEPT !.pending = "accepted"]
             answer == Answer(0, "accepted")
  <2>1. Cli("accept", after, answer)
    BY <1>3 DEF Accept
  <2>2. /\ after \in Products /\ after.attempt = product.attempt
        /\ after.approved = product.approved /\ after.pending = "accepted"
    BY <1>2 DEF Products, Pending
  <2>3. Tells("accept", after, answer)
    BY <2>2 DEF Tells, Answer, PRODUCT_REASON_MAP_V1
  <2> HIDE DEF after, answer
  <2>4. Moves("accept", after)
    BY <1>2, <2>2 DEF Moves, InStep, Lineage
  <2> QED
    BY <2>1, <2>3, <2>4, CliStep
<1>4. CASE Objection # ""
  <2> DEFINE answer == Answer(1, Objection)
  <2>1. Cli("accept", product, answer)
    BY <1>4 DEF Accept
  <2>2. staleReply \in {"not_pending", "review_subject_stale"}
    BY DEF AdapterInv, Types
  <2>3. /\ Objection # "accepted" /\ Objection # "event"
        /\ Objection = "check_failed" => product.evidence = "failed"
        /\ Objection = "observation_missing" => product.evidence = "reported"
        /\ Objection = "review_subject_stale" =>
             product.pending # "final" /\ product.approved # 0
    BY <2>2 DEF Objection
  <2>4. Objection = "review_subject_stale" => product.pending \in {"worker", "review"}
    BY <1>2, <2>3 DEF InStep, Lineage
  <2>5. answer.code = 1 /\ answer.text = Objection
    BY DEF Answer
  <2> HIDE DEF answer
  <2>6. Tells("accept", product, answer)
    BY <1>2, <2>3, <2>4, <2>5 DEF Tells
  <2> QED
    BY <1>2, <2>1, <2>6, CliStep
<1> QED
  BY <1>3, <1>4

(* Wherever the adapter is in its script, what it printed so far follows    *)
(* from the answers it has seen (adapters/exitbind-v0.17.0.py).             *)
THEOREM AdapterInvariant == Spec => []AdapterInv
<1>1. AdapterInv /\ [Next]_vars => AdapterInv'
  <2> SUFFICES ASSUME AdapterInv, [Next]_vars PROVE AdapterInv'
    OBVIOUS
  <2>1. CASE UNCHANGED vars
    BY <2>1 DEF vars, AdapterInv, Types, Finished, InStep, ReplyIsEarned,
                Provenance, Ended
  <2>2. CASE \E op \in DOMAIN Requires : Submit(op)
    BY <2>2, SubmitStep
  <2>3. CASE \E op \in {"observe_first", "observe_second"} : Observe(op)
    BY <2>3, ObserveStep
  <2>4. CASE Report
    BY <2>4, ReportStep
  <2>5. CASE Accept
    BY <2>5, AcceptStep
  <2>6. CASE HostFails
    <3>1. /\ child = NoValue /\ ~Finished /\ child' = AdapterError
          /\ UNCHANGED <<id, defects, staleReply, product, step, events, reply>>
          /\ faults' \in 0..MaxFaults
      BY <2>6, AdapterAssumption DEF HostFails, world, AdapterInv, Types
    <3>2. Types' /\ ~Finished'
      BY <3>1 DEF AdapterInv, Types, Finished
    <3>3. child'.exit_code = 3 /\ child'.stdout = AdapterError.stdout
      BY <3>1 DEF AdapterError, Prints, Exits
    <3> QED
      BY <3>1, <3>2, <3>3, NoValueAssumption
         DEF AdapterInv, Ended, Provenance, ExitCodes
  <2>7. CASE Conclude
    <3>1. /\ child = NoValue /\ Finished /\ child' = Conclusion(Handler(id), reply)
          /\ UNCHANGED <<id, defects, staleReply, product, step, events, reply, faults>>
      BY <2>7 DEF Conclude, world
    <3>2. Types' /\ Finished' /\ InStep' /\ ReplyIsEarned'
      BY <3>1 DEF AdapterInv, Types, Finished, InStep, ReplyIsEarned
    <3>3. Conclusion(Handler(id), reply).exit_code \in ExitCodes
      BY DEF Conclusion, ReportedRefusal, Prints, Exits, ExitCodes
    <3> QED
      BY <3>1, <3>2, <3>3 DEF AdapterInv, Provenance
  <2>8. CASE TimeoutExpires
    <3>1. /\ child = NoValue
          /\ UNCHANGED <<id, defects, staleReply, product, step, events, reply, faults>>
      BY <2>8 DEF TimeoutExpires, world
    <3>2. PICK stdout \in {Empty} \cup
                     (IF Finished THEN {Conclusion(Handler(id), reply).stdout}
                      ELSE {}) :
             child' = [stdout |-> stdout, exit_code |-> NoValue, timed_out |-> TRUE]
      BY <2>8 DEF TimeoutExpires
    <3>3. Types' /\ InStep' /\ ReplyIsEarned'
      BY <3>1 DEF AdapterInv, Types, Finished, InStep, ReplyIsEarned
    <3>4. child'.exit_code \in ExitCodes
      BY <3>2 DEF ExitCodes
    <3>5. child'.stdout = Empty
          \/ (Finished /\ child'.stdout = Conclusion(Handler(id), reply).stdout)
      BY <3>2
    <3>6. Provenance'
      BY <3>1, <3>5 DEF Provenance, Finished
    <3> QED
      BY <3>3, <3>4, <3>6 DEF AdapterInv
  <2> QED
    BY <2>1, <2>2, <2>3, <2>4, <2>5, <2>6, <2>7, <2>8 DEF Next
<1> QED
  BY <1>1, AdapterInit, PTL DEF Spec

-----------------------------------------------------------------------------
(* What the invariant says of a result *)

(* A scored result is the verdict of a finished script, by a handler that   *)
(* has an oracle: an acceptance, or the reason of the last command.         *)
LEMMA ScoredVerdict ==
  ASSUME AdapterInv, Ended, IsScored
  PROVE  /\ Finished /\ InStep /\ ReplyIsEarned /\ id \in CaseId
         /\ Handler(id) \notin {"stale_evidence", "unsupported"}
         /\ \/ /\ Result.observed.outcome = "READY"
               /\ reply.text = "accepted"
            \/ /\ Result.observed.outcome # "READY"
               /\ Result.observed.reason = refusal_reason(reply)
<1>1. /\ CandidateEnvelope(child.stdout)
      /\ child.stdout.coverage = SUPPORTED_COVERAGE
  <2>1. CaseCoverage(child.stdout, TRUE) = SUPPORTED_COVERAGE
    BY DEF IsScored, Scored, Result, CaseResult
  <2> QED
    BY <2>1 DEF CaseCoverage, SUPPORTED_COVERAGE, UNSUPPORTED_COVERAGE
<1>2. child.stdout # Empty
  BY <1>1 DEF CandidateEnvelope, IsObject, Empty
<1>3. AdapterError.stdout.coverage # SUPPORTED_COVERAGE
  BY DEF AdapterError, Prints, Exits, Envelope,
         SUPPORTED_COVERAGE, UNSUPPORTED_COVERAGE
<1>4. Finished /\ child.stdout = Conclusion(Handler(id), reply).stdout
  BY <1>1, <1>2, <1>3 DEF AdapterInv, Provenance
<1>5. InStep /\ ReplyIsEarned /\ id \in CaseId
  BY <1>4 DEF AdapterInv, Types
<1> DEFINE verdict == Conclusion(Handler(id), reply).stdout
<1>6. /\ Result.observed.outcome = observed_fields(verdict).outcome
      /\ Result.observed.reason = observed_fields(verdict).reason
  BY <1>4 DEF Result, CaseResult
<1>7. CandidateEnvelope(verdict) /\ verdict.coverage = SUPPORTED_COVERAGE
  BY <1>1, <1>4
<1>8. ASSUME NEW outcome, NEW reason, NEW supported \in BOOLEAN,
             verdict = Prints(outcome, reason, supported).stdout
      PROVE  /\ supported
             /\ Result.observed.outcome = outcome /\ Result.observed.reason = reason
  <2>1. verdict = Envelope(outcome, reason, supported)
    BY <1>8 DEF Prints, Exits
  <2>2. supported
    BY <1>7, <2>1 DEF Envelope, SUPPORTED_COVERAGE, UNSUPPORTED_COVERAGE
  <2>3. observed_fields(verdict) = [outcome |-> outcome, reason |-> reason]
    BY <1>7, <2>1 DEF Envelope, CandidateEnvelope, observed_fields
  <2> QED
    BY <1>6, <2>2, <2>3
<1>9. Handler(id) # "stale_evidence"
  BY <1>8 DEF Conclusion
<1>10. ~NotAnObject(reply)
  BY <1>7, <1>9 DEF Conclusion, Exits, Empty, CandidateEnvelope, IsObject
<1>11. CASE accepted(reply)
  BY <1>4, <1>5, <1>8, <1>9, <1>10, <1>11 DEF Conclusion, accepted
<1>12. CASE ~accepted(reply)
  <2>1. \/ verdict = Prints("BLOCKED", "OBSERVATION_MISSING", TRUE).stdout
           /\ refusal_reason(reply) = "OBSERVATION_MISSING"
           /\ Handler(id) # "unsupported"
        \/ verdict = Prints("BLOCKED", "ADAPTER_UNSUPPORTED", FALSE).stdout
        \/ verdict = Prints("REFUSED", refusal_reason(reply), TRUE).stdout
           /\ Handler(id) # "unsupported"
        \/ verdict = Prints("REFUSED", refusal_reason(reply),
                            Handler(id) # "unsupported").stdout
    BY <1>9, <1>10, <1>12 DEF Conclusion, ReportedRefusal
  <2>2. verdict # Prints("BLOCKED", "ADAPTER_UNSUPPORTED", FALSE).stdout
    BY <1>8
  <2>3. /\ Handler(id) # "unsupported"
        /\ Result.observed.outcome \in {"BLOCKED", "REFUSED"}
        /\ Result.observed.reason = refusal_reason(reply)
    <3>1. CASE verdict = Prints("BLOCKED", "OBSERVATION_MISSING", TRUE).stdout
               /\ refusal_reason(reply) = "OBSERVATION_MISSING"
               /\ Handler(id) # "unsupported"
      BY <1>8, <3>1
    <3>2. CASE verdict = Prints("REFUSED", refusal_reason(reply), TRUE).stdout
               /\ Handler(id) # "unsupported"
      BY <1>8, <3>2
    <3>3. CASE verdict = Prints("REFUSED", refusal_reason(reply),
                                Handler(id) # "unsupported").stdout
      BY <1>8, <3>3
    <3> QED
      BY <2>1, <2>2, <3>1, <3>2, <3>3
  <2> QED
    BY <1>4, <1>5, <1>9, <2>3
<1> QED
  BY <1>11, <1>12

(* Type correctness, for any number of failing commands. *)
THEOREM AdapterTypes == Spec => []TypeOK
<1>1. AdapterInv => TypeOK
  <2> SUFFICES ASSUME AdapterInv PROVE TypeOK
    OBVIOUS
  <2>1. CASE child = NoValue
    BY <2>1 DEF AdapterInv, Types, TypeOK
  <2>2. CASE child # NoValue
    <3>1. child.stdout.form \in {"empty", "object"}
      BY <2>2 DEF AdapterInv, Ended, Provenance, Empty, AdapterError, Conclusion,
                  ReportedRefusal, Prints, Exits, Envelope
    <3> QED
      BY <2>2, <3>1 DEF AdapterInv, Ended, Types, TypeOK, ExitCodes
  <2> QED
    BY <2>1, <2>2
<1> QED
  BY <1>1, AdapterInvariant, PTL

(* A script cut short, and a family without an oracle, enter no panel.      *)
THEOREM WholeScripts == Spec => []OnlyWholeScriptsAreScored
<1>1. AdapterInv => OnlyWholeScriptsAreScored
  BY ScoredVerdict DEF OnlyWholeScriptsAreScored, Handler, NoOracle, CaseId
<1> QED
  BY <1>1, AdapterInvariant, PTL

(* A counted READY is an acceptance by the product, whatever else failed.   *)
THEOREM ReadyIsAccepted == Spec => []ScoredReadyIsAnAcceptance
<1>1. AdapterInv => ScoredReadyIsAnAcceptance
  BY ScoredVerdict DEF ScoredReadyIsAnAcceptance, Ready, ReplyIsEarned
<1> QED
  BY <1>1, AdapterInvariant, PTL

(* A false exit that counts as detected was refused for its own reason.     *)
THEOREM CreditEarned == Spec => []CreditIsEarned
<1>1. AdapterInv => CreditIsEarned
  <2> SUFFICES ASSUME AdapterInv, Ended, IsScored, IsFalse(Result), ~Mismatch(Result)
               PROVE  /\ product.pending # "accepted"
                      /\ id = "false-completion-001"  => product.evidence = "failed"
                      /\ id = "reported-observed-001" => product.evidence = "reported"
                      /\ id = "stale-review-001" =>
                           /\ product.approved # 0
                           /\ \/ product.approved < product.attempt
                              \/ product.pending = "worker" /\ events[2] = NoEvent
    BY DEF CreditIsEarned
  <2>1. /\ Result.observed.outcome = Truth[id].outcome
        /\ Result.observed.reason = Truth[id].reason
        /\ Truth[id].outcome # "READY"
    BY DEF Mismatch, IsFalse, Result, CaseResult
  <2>2. /\ ReplyIsEarned /\ id \in CaseId
        /\ Truth[id].reason = refusal_reason(reply)
    BY <2>1, ScoredVerdict
  <2>3. refusal_reason(reply) # "CLI_ERROR"
    BY <2>2, TruthAssumption
  <2>4. /\ reply.text \in DOMAIN PRODUCT_REASON_MAP_V1
        /\ refusal_reason(reply) = PRODUCT_REASON_MAP_V1[reply.text]
    BY <2>3 DEF refusal_reason
  <2>5. /\ refusal_reason(reply) = "CHECK_FAILED" => reply.text = "check_failed"
        /\ refusal_reason(reply) = "OBSERVATION_MISSING" =>
             reply.text = "observation_missing"
        /\ refusal_reason(reply) = "REVIEW_SUBJECT_STALE" =>
             reply.text = "review_subject_stale"
    BY <2>4 DEF PRODUCT_REASON_MAP_V1
  <2>6. /\ product.pending # "accepted"
        /\ id = "false-completion-001"  => product.evidence = "failed"
        /\ id = "reported-observed-001" => product.evidence = "reported"
        /\ id = "stale-review-001" =>
             product.approved # 0 /\ product.pending \in {"worker", "review"}
    BY <2>2, <2>4, <2>5, TruthAssumption DEF ReplyIsEarned, Expects
  <2>7. ASSUME id = "stale-review-001"
        PROVE  \/ product.approved < product.attempt
               \/ product.pending = "worker" /\ events[2] = NoEvent
    <3>1. InStep /\ Finished /\ step \in 1..(Len(Script(id)) + 1)
      BY <2>2, ScoredVerdict DEF AdapterInv, Types
    <3>2. Len(Script(id)) = 10 /\ Second(id) = 8
      BY <2>2, <2>7, ScriptShape DEF Handler, Second
    <3>3. Len(events) = 2
      BY <3>1, <3>2 DEF Finished, InStep, Attempts
    <3> QED
      BY <2>6, <2>7, <3>1, <3>3 DEF InStep, Lineage
  <2> QED
    BY <2>6, <2>7
<1> QED
  BY <1>1, AdapterInvariant, PTL

-----------------------------------------------------------------------------
(* The undisturbed script: what it finds, and what becomes of it *)

(* The role that is pending at each position of a script that accepts. *)
Stage == <<"none", "ready", "scope", "worker", "review", "review", "final",
           "worker", "review", "review">>

(* The evidence a case gathers for each of its attempts. *)
Found(case) == IF case = "reported-observed-001" THEN "reported"
               ELSE IF case = "false-completion-001" THEN "failed"
               ELSE "passed"

OnTrack ==
    /\ product.pending = Stage[step]
    /\ product.attempt = Attempts(id, step)
    /\ \A n \in 1..Len(events) : events[n] = n
    /\ step \in {6, 7, 10} => product.evidence = Found(id)
    /\ step >= 7 => product.approved = 1

(* What keeps the product from accepting at the end, "" if nothing does. *)
Obstacle ==
    IF id = "stale-review-001"
    THEN IF "accepts_stale_review" \in defects THEN "" ELSE staleReply
    ELSE IF id = "false-completion-001"
    THEN IF "accepts_failed_check" \in defects THEN "" ELSE "check_failed"
    ELSE IF id = "reported-observed-001"
    THEN IF "accepts_reported_check" \in defects THEN ""
         ELSE "observation_missing"
    ELSE ""

Verdict == IF Obstacle = "" THEN Answer(0, "accepted") ELSE Answer(1, Obstacle)

(* No command failed, the timeout did not expire, and the script is not the *)
(* one without an acceptance at its end.                                    *)
Smooth ==
    /\ faults = 0
    /\ Handler(id) # "stale_evidence"
    /\ Ended => ~child.timed_out

TrackInv ==
    Smooth =>
      /\ ~Finished => child = NoValue /\ OnTrack
      /\ Finished => reply = Verdict
      /\ Ended => child = Conclusion(Handler(id), reply)

(* Where the commands of such a script are. *)
LEMMA SmoothScript ==
  ASSUME NEW case \in CaseId, Handler(case) # "stale_evidence",
         NEW n \in 1..Len(Script(case))
  PROVE  /\ Len(Script(case)) = IF case = "stale-review-001" THEN 10 ELSE 7
         /\ Script(case)[n] = "init" <=> n = 1
         /\ Script(case)[n] = "start" <=> n = 2
         /\ Script(case)[n] = "scope" <=> n = 3
         /\ Script(case)[n] = "worker" <=> n \in {4, 8}
         /\ Script(case)[n] = "observe_first" =>
              n = 5 /\ case # "reported-observed-001"
         /\ Script(case)[n] = "observe_second" => n = 9
         /\ Script(case)[n] = "report" => n = 5 /\ case = "reported-observed-001"
         /\ Script(case)[n] = "approve" <=> n = 6
         /\ Script(case)[n] = "rework" => n = 7 /\ Len(Script(case)) = 10
         /\ Script(case)[n] # "return"
         /\ Script(case)[n] = "accept" <=> n = Len(Script(case))
<1>1. CASE case = "stale-review-001"
  <2>1. Script(case) = <<"init", "start", "scope", "worker",
                         "observe_first", "approve", "rework", "worker",
                         "observe_second", "accept">>
    BY <1>1 DEF Script, Handler
  <2>2. Len(Script(case)) = 10 /\ n \in 1..10
    BY <2>1
  <2>3. Script(case)[n] =
          IF n = 1 THEN "init" ELSE IF n = 2 THEN "start" ELSE IF n = 3 THEN "scope"
          ELSE IF n \in {4, 8} THEN "worker" ELSE IF n = 5 THEN "observe_first"
          ELSE IF n = 6 THEN "approve" ELSE IF n = 7 THEN "rework"
          ELSE IF n = 9 THEN "observe_second" ELSE "accept"
    BY <2>1, <2>2
  <2>4. Len(Script(case)) = (IF case = "stale-review-001" THEN 10 ELSE 7)
    BY <1>1, <2>2
  <2>5. case # "reported-observed-001"
    BY <1>1
  <2> QED
    BY <2>2, <2>3, <2>4, <2>5
<1>2. CASE case = "reported-observed-001"
  <2>1. Script(case) = <<"init", "start", "scope", "worker", "report",
                         "approve", "accept">>
    BY <1>2 DEF Script, Handler
  <2>2. Len(Script(case)) = 7 /\ n \in 1..7
    BY <2>1
  <2>3. Script(case)[n] =
          IF n = 1 THEN "init" ELSE IF n = 2 THEN "start" ELSE IF n = 3 THEN "scope"
          ELSE IF n = 4 THEN "worker" ELSE IF n = 5 THEN "report"
          ELSE IF n = 6 THEN "approve" ELSE "accept"
    BY <2>1, <2>2
  <2>4. Len(Script(case)) = (IF case = "stale-review-001" THEN 10 ELSE 7)
    BY <1>2, <2>2
  <2>5. Script(case)[n] = "report" => case = "reported-observed-001"
    BY <1>2
  <2> QED
    BY <2>2, <2>3, <2>4, <2>5
<1>3. CASE case \notin {"stale-review-001", "reported-observed-001"}
  <2>1. Handler(case) # "stale_review_evidence"
    BY <1>3 DEF Handler
  <2>2. Script(case) = <<"init", "start", "scope", "worker", "observe_first",
                         "approve", "accept">>
    BY <1>3, <2>1 DEF Script
  <2> QED
    BY <1>3, <2>2
<1> QED
  BY <1>1, <1>2, <1>3

(* A command of a smooth script that is at position step. *)
LEMMA SmoothCommand ==
  ASSUME AdapterInv, TrackInv, Smooth, NEW op, Doing(op)
  PROVE  /\ id \in CaseId /\ step \in 1..Len(Script(id)) /\ Script(id)[step] = op
         /\ Len(Script(id)) = IF id = "stale-review-001" THEN 10 ELSE 7
         /\ OnTrack /\ product \in Products
         /\ Len(events) = Attempts(id, step)
<1>1. /\ child = NoValue /\ ~Finished /\ InStep
      /\ step \in 1..Len(Script(id)) /\ product \in Products
  BY AtCommand
<1>2. id \in CaseId
  BY DEF AdapterInv, Types
<1>3. Script(id)[step] = op
  BY DEF Doing
<1>4. Len(Script(id)) = IF id = "stale-review-001" THEN 10 ELSE 7
  BY <1>1, <1>2, SmoothScript DEF Smooth
<1>5. OnTrack
  BY <1>1 DEF TrackInv
<1>6. Len(events) = Attempts(id, step)
  BY <1>1 DEF InStep
<1> QED
  BY <1>1, <1>2, <1>3, <1>4, <1>5, <1>6

(* A command that is answered keeps a smooth script on its track. *)
LEMMA CliTrack ==
  ASSUME AdapterInv, TrackInv, NEW op, NEW after, NEW answer,
         Cli(op, after, answer),
         Smooth =>
           /\ op \in Checked => answer.code = 0
           /\ op = "worker" => answer.text = "event"
           /\ step < Len(Script(id)) =>
                /\ after.pending = Stage[step + 1]
                /\ after.attempt = Attempts(id, step + 1)
                /\ step + 1 \in {6, 7, 10} => after.evidence = Found(id)
                /\ step + 1 >= 7 => after.approved = 1
           /\ step = Len(Script(id)) => answer = Verdict
  PROVE  TrackInv'
<1> SUFFICES ASSUME Smooth'
             PROVE  /\ ~Finished' => child' = NoValue /\ OnTrack'
                    /\ Finished' => reply' = Verdict'
                    /\ Ended' => child' = Conclusion(Handler(id)', reply')
  BY DEF TrackInv
<1>1. Doing(op) /\ UNCHANGED <<id, defects, staleReply>>
  BY DEF Cli, world
<1>2. child = NoValue /\ step \in 1..Len(Script(id))
  BY <1>1, AtCommand
<1>3. product' = after /\ Returns(op, answer) /\ faults = 0
  <2>1. faults' = 0 /\ faults \in 0..MaxFaults
    BY DEF Smooth, AdapterInv, Types
  <2>2. ~(faults' = faults + 1)
    BY <2>1, AdapterAssumption
  <2> QED
    BY <2>1, <2>2 DEF Cli
<1>4. Smooth
  BY <1>1, <1>2, <1>3 DEF Smooth, Ended
<1>5. /\ step' = step + 1 /\ reply' = answer /\ child' = NoValue
      /\ events' = IF op = "worker" THEN Append(events, EventOf(answer)) ELSE events
  <2>1. op = "worker" => answer.text # "lines"
    BY <1>4
  <2> QED
    BY <1>2, <1>3, <1>4, <2>1 DEF Returns
<1>6. Len(Script(id)) \in Nat
  BY SmoothCommand, <1>1, <1>4
<1>7. ASSUME ~Finished' PROVE OnTrack'
  <2>1. step < Len(Script(id))
    BY <1>1, <1>2, <1>5, <1>6, <1>7 DEF Finished
  <2>2. \A n \in 1..Len(events) : events[n] = n
    BY <1>1, <1>4, SmoothCommand DEF OnTrack
  <2>3. events \in Seq(0..2)
    BY DEF AdapterInv, Types
  <2>4. \A n \in 1..Len(events') : events'[n] = n
    <3>1. CASE op = "worker"
      <4>1. EventOf(answer) = Len(events) + 1
        BY <1>1, <1>3, <1>4, <2>1, <3>1, AtCommand DEF EventOf
      <4>2. events' = Append(events, Len(events) + 1)
        BY <1>5, <3>1, <4>1
      <4> QED
        BY <2>2, <2>3, <4>2
    <3>2. CASE op # "worker"
      BY <1>5, <2>2, <3>2
    <3> QED
      BY <3>1, <3>2
  <2> QED
    BY <1>1, <1>3, <1>4, <1>5, <2>1, <2>4 DEF OnTrack
<1>8. ASSUME Finished' PROVE reply' = Verdict'
  <2>1. step = Len(Script(id))
    BY <1>1, <1>2, <1>5, <1>6, <1>8 DEF Finished
  <2> QED
    BY <1>1, <1>4, <1>5, <2>1 DEF Verdict, Obstacle
<1> QED
  BY <1>5, <1>7, <1>8 DEF Ended

LEMMA SubmitTrack ==
  ASSUME AdapterInv, TrackInv, NEW op \in DOMAIN Requires, Submit(op)
  PROVE  TrackInv'
<1> DEFINE moved == [product EXCEPT
                !.pending  = LeadsTo[op],
                !.attempt  = IF op = "worker" THEN @ + 1 ELSE @,
                !.evidence = IF op = "worker" THEN "none" ELSE @,
                !.approved = IF op = "approve" THEN product.attempt ELSE @]
           done == IF op = "worker" THEN Answer(0, "event") ELSE Ok
<1>1. Doing(op)
  BY DEF Submit, Cli
<1>2. ASSUME Smooth
      PROVE  /\ product.pending = Requires[op]
             /\ step < Len(Script(id))
             /\ LeadsTo[op] = Stage[step + 1]
             /\ Attempts(id, step + 1) =
                  IF op = "worker" THEN product.attempt + 1 ELSE product.attempt
             /\ step + 1 \in {6, 7, 10} =>
                  op = "approve" /\ product.evidence = Found(id)
             /\ step + 1 >= 7 => IF op = "approve" THEN product.attempt = 1
                                 ELSE product.approved = 1
  <2>1. /\ id \in CaseId /\ step \in 1..Len(Script(id)) /\ Script(id)[step] = op
        /\ Len(Script(id)) = IF id = "stale-review-001" THEN 10 ELSE 7
    BY <1>1, <1>2, SmoothCommand
  <2>2. /\ op = "init" <=> step = 1
        /\ op = "start" <=> step = 2
        /\ op = "scope" <=> step = 3
        /\ op = "worker" <=> step \in {4, 8}
        /\ op = "approve" <=> step = 6
        /\ op = "rework" => step = 7 /\ Len(Script(id)) = 10
        /\ op # "return"
    BY <1>2, <2>1, SmoothScript DEF Smooth
  <2>3. OnTrack /\ product.attempt = Len(events) /\ Len(events) = Attempts(id, step)
    BY <1>1, <1>2, SmoothCommand DEF OnTrack
  <2>4. op \in {"init", "start", "scope", "worker", "approve", "rework"}
    BY <2>2 DEF Requires
  <2>5. op = "approve" => product.attempt = 1
    BY <2>1, <2>2, <2>3 DEF Attempts, Second
  <2>6. step < Len(Script(id))
    BY <2>1, <2>2, <2>4
  <2>7. Attempts(id, step + 1) =
          IF op = "worker" THEN product.attempt + 1 ELSE product.attempt
    BY <1>1, <2>1, <2>3, AtCommand
  <2>8. /\ product.pending = Requires[op] /\ LeadsTo[op] = Stage[step + 1]
        /\ step + 1 \in {6, 7, 10} => op = "approve" /\ product.evidence = Found(id)
        /\ step + 1 >= 7 /\ op # "approve" => product.approved = 1
    BY <2>1, <2>2, <2>4, <2>6, <2>3 DEF OnTrack, Requires, LeadsTo, Stage
  <2> QED
    BY <2>5, <2>6, <2>7, <2>8
<1>3. CASE product.pending # Requires[op]
  <2>1. ~Smooth
    BY <1>2, <1>3
  <2>2. Cli(op, product, Answer(1, "not_pending"))
    BY <1>3 DEF Submit
  <2> QED
    BY <2>1, <2>2, CliTrack
<1>4. CASE product.pending = Requires[op]
  <2>1. Cli(op, moved, done)
    BY <1>4 DEF Submit
  <2>2. done.code = 0 /\ (op = "worker" => done.text = "event")
    BY DEF Answer, Ok
  <2>3. product \in Products
    BY <1>1, AtCommand
  <2>4. /\ moved.pending = LeadsTo[op]
        /\ moved.attempt = IF op = "worker" THEN product.attempt + 1
                           ELSE product.attempt
        /\ op # "worker" => moved.evidence = product.evidence
        /\ op = "approve" => moved.approved = product.attempt
        /\ op # "approve" => moved.approved = product.approved
    BY <2>3 DEF Products
  <2> HIDE DEF moved, done
  <2>5. Smooth => /\ moved.pending = Stage[step + 1] /\ step < Len(Script(id))
                  /\ moved.attempt = Attempts(id, step + 1)
                  /\ step + 1 \in {6, 7, 10} => moved.evidence = Found(id)
                  /\ step + 1 >= 7 => moved.approved = 1
    BY <1>2, <2>4
  <2>6. step \in 1..Len(Script(id)) /\ Len(Script(id)) \in Nat
    BY <1>1, AtCommand, ScriptShape DEF AdapterInv, Types
  <2>7. step < Len(Script(id)) => step # Len(Script(id))
    BY <2>6
  <2> QED
    BY <2>1, <2>2, <2>5, <2>7, CliTrack
<1> QED
  BY <1>3, <1>4

(* A change of the evidence at the position where it is gathered. *)
LEMMA EvidenceTrack ==
  ASSUME AdapterInv, TrackInv,
         NEW op \in {"observe_first", "observe_second", "report"},
         NEW evidence \in Evidence,
         Cli(op, [product EXCEPT !.evidence = evidence], Ok),
         Smooth => evidence = Found(id)
  PROVE  TrackInv'
<1> DEFINE after == [product EXCEPT !.evidence = evidence]
<1>1. Doing(op)
  BY DEF Cli
<1>2. product \in Products
  BY <1>1, AtCommand
<1>3. /\ after.evidence = evidence /\ after.pending = product.pending
      /\ after.approved = product.approved /\ after.attempt = product.attempt
  BY <1>2 DEF Products
<1>4. ASSUME Smooth
      PROVE  /\ step < Len(Script(id)) /\ step # Len(Script(id))
             /\ product.pending = Stage[step + 1]
             /\ product.attempt = Attempts(id, step + 1)
             /\ step + 1 >= 7 => product.approved = 1
  <2>1. /\ id \in CaseId /\ step \in 1..Len(Script(id)) /\ Script(id)[step] = op
        /\ Len(Script(id)) = IF id = "stale-review-001" THEN 10 ELSE 7
        /\ OnTrack /\ Len(events) = Attempts(id, step)
    BY <1>1, <1>4, SmoothCommand
  <2>2. op \notin {"accept", "approve", "worker"}
    OBVIOUS
  <2>3. step \in {5, 9} /\ (step = 9 => Len(Script(id)) = 10)
    BY <1>4, <2>1, SmoothScript DEF Smooth
  <2>4. product.attempt = Attempts(id, step + 1)
    BY <1>1, <2>1, <2>2, AtCommand DEF OnTrack
  <2>5. product.pending = "review" /\ Stage[step + 1] = "review"
    BY <2>1, <2>3 DEF OnTrack, Stage
  <2>6. step + 1 >= 7 => product.approved = 1
    BY <2>1, <2>3 DEF OnTrack
  <2>7. step < Len(Script(id))
    BY <2>1, <2>3
  <2> QED
    BY <2>1, <2>4, <2>5, <2>6, <2>7
<1>5. Cli(op, after, Ok) /\ op \notin Checked /\ op # "worker"
  BY DEF Checked
<1> HIDE DEF after
<1> QED
  BY <1>3, <1>4, <1>5, CliTrack

(* The product never refuses an observation of a smooth script. *)
LEMMA ObservationIsCurrent ==
  ASSUME AdapterInv, TrackInv, Smooth,
         NEW op \in {"observe_first", "observe_second", "report"}, Doing(op)
  PROVE  /\ Current(events[Target(op)])
         /\ op = "report" <=> id = "reported-observed-001"
<1>1. /\ id \in CaseId /\ step \in 1..Len(Script(id)) /\ Script(id)[step] = op
      /\ Len(Script(id)) = IF id = "stale-review-001" THEN 10 ELSE 7
      /\ OnTrack /\ Len(events) = Attempts(id, step)
  BY SmoothCommand
<1>2. /\ op = "observe_first" => step = 5 /\ id # "reported-observed-001"
      /\ op = "observe_second" => step = 9
      /\ op = "report" => step = 5 /\ id = "reported-observed-001"
  BY <1>1, SmoothScript DEF Smooth
<1>3. op = "observe_second" => id = "stale-review-001"
  BY <1>1, <1>2
<1>4. /\ step = 5 => Attempts(id, step) = 1
      /\ step = 9 /\ id = "stale-review-001" => Attempts(id, step) = 2
  BY DEF Attempts, Second, Handler
<1>5. Len(events) = Target(op) /\ Target(op) \in {1, 2}
  BY <1>1, <1>2, <1>3, <1>4 DEF Target
<1>6. events[Target(op)] = Target(op) /\ product.attempt = Target(op)
  BY <1>1, <1>5 DEF OnTrack
<1>7. product.pending = "review"
  BY <1>1, <1>2 DEF OnTrack, Stage
<1> QED
  BY <1>2, <1>3, <1>6, <1>7 DEF Current

LEMMA ObserveTrack ==
  ASSUME AdapterInv, TrackInv, NEW op \in {"observe_first", "observe_second"},
         Observe(op)
  PROVE  TrackInv'
<1> DEFINE evidence == IF CheckPasses THEN "passed" ELSE "failed"
<1>1. Doing(op)
  BY DEF Observe
<1>2. CASE Cli(op, [product EXCEPT !.evidence = evidence], Ok)
  <2>1. evidence \in Evidence
    BY DEF Evidence
  <2>2. Smooth => evidence = Found(id)
    BY <1>1, ObservationIsCurrent DEF CheckPasses, Found
  <2> HIDE DEF evidence
  <2> QED
    BY <1>2, <2>1, <2>2, EvidenceTrack
<1>3. CASE /\ ~Current(events[Target(op)])
           /\ Cli(op, product, Answer(1, "not_current"))
  <2>1. ~Smooth
    BY <1>1, <1>3, ObservationIsCurrent
  <2> QED
    BY <1>3, <2>1, CliTrack
<1> QED
  BY <1>2, <1>3 DEF Observe

LEMMA ReportTrack ==
  ASSUME AdapterInv, TrackInv, Report
  PROVE  TrackInv'
<1>1. Doing("report")
  BY DEF Report
<1>2. Smooth => Current(events[Target("report")]) /\ id = "reported-observed-001"
  BY <1>1, ObservationIsCurrent
<1>3. CASE Current(events[Target("report")])
  <2>1. Smooth => "reported" = Found(id)
    BY <1>2 DEF Found
  <2> QED
    BY <1>3, <2>1, EvidenceTrack DEF Report, Evidence
<1>4. CASE ~Current(events[Target("report")])
  BY <1>2, <1>4, CliTrack DEF Report
<1> QED
  BY <1>3, <1>4

(* The final command of a smooth script meets exactly its obstacle. *)
LEMMA ObjectionIsTheObstacle ==
  ASSUME AdapterInv, TrackInv, Smooth, Doing("accept")
  PROVE  step = Len(Script(id)) /\ Objection = Obstacle
<1>1. /\ id \in CaseId /\ step \in 1..Len(Script(id)) /\ Script(id)[step] = "accept"
      /\ Len(Script(id)) = IF id = "stale-review-001" THEN 10 ELSE 7
      /\ OnTrack
  BY SmoothCommand
<1>2. step = Len(Script(id))
  BY <1>1, SmoothScript DEF Smooth
<1>3. product.evidence = Found(id) /\ product.approved = 1
  BY <1>1, <1>2 DEF OnTrack
<1>4. product.pending = IF id = "stale-review-001" THEN "review" ELSE "final"
  BY <1>1, <1>2 DEF OnTrack, Stage
<1>5. CASE id = "stale-review-001"
  <2>1. product.pending = "review" /\ product.evidence = "passed"
    BY <1>3, <1>4, <1>5 DEF Found
  <2>2. /\ ~(product.approved = 0)
        /\ product.evidence \notin {"none", "failed", "reported"}
    BY <1>3, <2>1
  <2>3. CASE "accepts_stale_review" \in defects
    BY <1>2, <1>5, <2>2, <2>3 DEF Objection, Obstacle
  <2>4. CASE "accepts_stale_review" \notin defects
    BY <1>2, <1>5, <2>1, <2>2, <2>4 DEF Objection, Obstacle
  <2> QED
    BY <2>3, <2>4
<1>6. CASE id = "false-completion-001"
  BY <1>2, <1>3, <1>4, <1>6 DEF Objection, Obstacle, Found
<1>7. CASE id = "reported-observed-001"
  BY <1>2, <1>3, <1>4, <1>7 DEF Objection, Obstacle, Found
<1>8. CASE id \notin {"stale-review-001", "false-completion-001",
                      "reported-observed-001"}
  <2>1. product.pending = "final" /\ product.evidence = "passed" /\ Obstacle = ""
    BY <1>3, <1>4, <1>8 DEF Obstacle, Found
  <2> QED
    BY <1>2, <2>1 DEF Objection
<1> QED
  BY <1>5, <1>6, <1>7, <1>8

LEMMA AcceptTrack ==
  ASSUME AdapterInv, TrackInv, Accept
  PROVE  TrackInv'
<1>1. Doing("accept")
  BY DEF Accept, Cli
<1>2. PICK after :
        Cli("accept", after, IF Objection = "" THEN Answer(0, "accepted")
                             ELSE Answer(1, Objection))
  BY DEF Accept
<1> DEFINE answer == IF Objection = "" THEN Answer(0, "accepted")
                     ELSE Answer(1, Objection)
<1>3. Smooth => /\ step = Len(Script(id)) /\ ~(step < Len(Script(id)))
                /\ answer = Verdict
  <2> SUFFICES ASSUME Smooth
               PROVE  /\ step = Len(Script(id)) /\ ~(step < Len(Script(id)))
                      /\ answer = Verdict
    OBVIOUS
  <2>1. step = Len(Script(id)) /\ Objection = Obstacle
    BY <1>1, ObjectionIsTheObstacle
  <2>2. step \in Int
    BY DEF AdapterInv, Types
  <2> QED
    BY <2>1, <2>2 DEF Verdict
<1>4. "accept" \notin Checked
  BY DEF Checked
<1>5. Cli("accept", after, answer)
  BY <1>2
<1> HIDE DEF answer
<1> QED
  BY <1>3, <1>4, <1>5, CliTrack

(* As long as no command fails and the timeout does not expire, the product *)
(* is where the script wants it, and at the end it has answered what its    *)
(* defects and the case make it answer (adapters/exitbind-v0.17.0.py).      *)
THEOREM TrackInvariant == Spec => []TrackInv
<1>1. Init => TrackInv
  <2> SUFFICES ASSUME Init PROVE TrackInv
    OBVIOUS
  <2>1. /\ id \in CaseId /\ step = 1 /\ child = NoValue /\ events = << >>
        /\ product.pending = "none" /\ product.attempt = 0
    BY DEF Init
  <2>2. ~Finished
    BY <2>1, ScriptShape DEF Finished
  <2> QED
    BY <2>1, <2>2 DEF TrackInv, OnTrack, Stage, Attempts, Ended
<1>2. AdapterInv /\ TrackInv /\ [Next]_vars => TrackInv'
  <2> SUFFICES ASSUME AdapterInv, TrackInv, [Next]_vars PROVE TrackInv'
    OBVIOUS
  <2>1. CASE UNCHANGED vars
    BY <2>1 DEF vars, TrackInv, Smooth, OnTrack, Verdict, Obstacle, Finished, Ended
  <2>2. CASE \E op \in DOMAIN Requires : Submit(op)
    BY <2>2, SubmitTrack
  <2>3. CASE \E op \in {"observe_first", "observe_second"} : Observe(op)
    BY <2>3, ObserveTrack
  <2>4. CASE Report
    BY <2>4, ReportTrack
  <2>5. CASE Accept
    BY <2>5, AcceptTrack
  <2>6. CASE HostFails
    <3>1. faults' = faults + 1 /\ faults \in 0..MaxFaults
      BY <2>6 DEF HostFails, AdapterInv, Types
    <3>2. faults' # 0
      BY <3>1, AdapterAssumption
    <3> QED
      BY <3>2 DEF TrackInv, Smooth
  <2>7. CASE Conclude
    <3>1. /\ child = NoValue /\ Finished /\ child' = Conclusion(Handler(id), reply)
          /\ UNCHANGED <<id, defects, staleReply, product, step, events, reply, faults>>
      BY <2>7 DEF Conclude, world
    <3>2. Smooth' => Smooth
      BY <3>1 DEF Smooth, Ended
    <3>3. Finished' /\ Verdict' = Verdict
      BY <3>1 DEF Finished, Verdict, Obstacle
    <3> QED
      BY <3>1, <3>2, <3>3 DEF TrackInv
  <2>8. CASE TimeoutExpires
    <3>1. /\ child = NoValue
          /\ UNCHANGED <<id, defects, staleReply, product, step, events, reply, faults>>
      BY <2>8 DEF TimeoutExpires, world
    <3>2. child'.timed_out = TRUE
      BY <2>8 DEF TimeoutExpires
    <3>3. CASE child' = NoValue
      BY <3>1, <3>3 DEF TrackInv, Smooth, OnTrack, Verdict, Obstacle, Finished, Ended
    <3>4. CASE child' # NoValue
      BY <3>2, <3>4 DEF TrackInv, Smooth, Ended
    <3> QED
      BY <3>3, <3>4
  <2> QED
    BY <2>1, <2>2, <2>3, <2>4, <2>5, <2>6, <2>7, <2>8 DEF Next
<1> QED
  BY <1>1, <1>2, AdapterInvariant, PTL DEF Spec

-----------------------------------------------------------------------------
(* How what the adapter printed is scored *)

(* A printed verdict is scored when it says it is supported, and then as it *)
(* stands: the Holytail verdict, never measured, is no mismatch.            *)
LEMMA Printed ==
  ASSUME NEW outcome \in {"READY", "REFUSED", "BLOCKED"}, NEW reason,
         NEW supported \in BOOLEAN,
         child = Prints(outcome, reason, supported)
  PROVE  /\ IsScored =>
              /\ supported
              /\ Result.observed.outcome = outcome
              /\ Result.observed.reason = reason
              /\ Result.classification.outcome_match = (outcome = Truth[id].outcome)
              /\ Result.classification.reason_match = (reason = Truth[id].reason)
              /\ Result.classification.exit_code_match =
                   ([READY |-> 0, REFUSED |-> 2, BLOCKED |-> 3][outcome]
                      = Truth[id].exit_code)
              /\ Result.classification.holytail_match # FALSE
         /\ supported /\ outcome = "READY" /\ reason = "ACCEPTED" => IsScored
<1>1. /\ child.stdout = Envelope(outcome, reason, supported)
      /\ child.exit_code = [READY |-> 0, REFUSED |-> 2, BLOCKED |-> 3][outcome]
  BY DEF Prints, Exits
<1>2. /\ IsObject(child.stdout) /\ child.stdout.envelope
      /\ child.stdout.result = [outcome |-> outcome, reason |-> reason]
      /\ child.stdout.coverage = IF supported THEN SUPPORTED_COVERAGE
                                 ELSE UNSUPPORTED_COVERAGE
      /\ child.stdout.holytail.status = "unavailable"
  BY <1>1 DEF Envelope, IsObject
<1>3. IsScored <=> CaseCoverage(child.stdout, TRUE) = SUPPORTED_COVERAGE
  <2>1. Result.coverage = CaseCoverage(child.stdout, TRUE)
    BY DEF Result, CaseResult
  <2>2. IsScored <=> Result.coverage = SUPPORTED_COVERAGE
    BY DEF IsScored, Scored
  <2> QED
    BY <2>1, <2>2
<1>4. IsScored => supported /\ child.stdout.result # NoValue
  BY <1>2, <1>3 DEF CaseCoverage, CandidateEnvelope, SUPPORTED_COVERAGE,
                    UNSUPPORTED_COVERAGE
<1>5. observed_measurements(child.stdout) = NoValue
  BY <1>2 DEF observed_measurements
<1>6. Result.classification.holytail_match # FALSE
  BY <1>5, NoValueAssumption DEF Result, CaseResult, HolytailMatch
<1>7. ASSUME IsScored
      PROVE  observed_fields(child.stdout) = [outcome |-> outcome, reason |-> reason]
  BY <1>2, <1>4, <1>7 DEF observed_fields
<1>8. ASSUME supported, outcome = "READY", reason = "ACCEPTED" PROVE IsScored
  BY <1>2, <1>3, <1>8, NoValueAssumption DEF CaseCoverage, CandidateEnvelope
<1>9. ASSUME IsScored
      PROVE  /\ Result.observed.outcome = outcome
             /\ Result.observed.reason = reason
             /\ Result.classification.outcome_match = (outcome = Truth[id].outcome)
             /\ Result.classification.reason_match = (reason = Truth[id].reason)
  <2>1. /\ observed_fields(child.stdout).outcome = outcome
        /\ observed_fields(child.stdout).reason = reason
    BY <1>7, <1>9
  <2> QED
    BY <2>1 DEF Result, CaseResult
<1>10. Result.classification.exit_code_match =
         ([READY |-> 0, REFUSED |-> 2, BLOCKED |-> 3][outcome] = Truth[id].exit_code)
  BY <1>1 DEF Result, CaseResult
<1> QED
  BY <1>4, <1>6, <1>8, <1>9, <1>10

(* An adapter that was not disturbed printed what the obstacle makes it.    *)
LEMMA UndisturbedVerdict ==
  ASSUME AdapterInv, TrackInv, Ended, Undisturbed, Handler(id) # "stale_evidence"
  PROVE  child = Conclusion(Handler(id), Verdict) /\ id \in CaseId
<1>1. Smooth
  BY DEF Undisturbed, Smooth
<1>2. Finished
  BY <1>1 DEF TrackInv, Ended
<1> QED
  BY <1>1, <1>2 DEF TrackInv, AdapterInv, Types

(* Without an obstacle the verdict is an acceptance; otherwise it is the    *)
(* refusal, or the block, that the obstacle stands for.                     *)
LEMMA VerdictOfTheObstacle ==
  ASSUME AdapterInv, TrackInv, Ended, Undisturbed, Handler(id) # "stale_evidence"
  PROVE  /\ Obstacle = "" =>
              child = Prints("READY", "ACCEPTED", Handler(id) # "unsupported")
         /\ Obstacle = "check_failed" =>
              child = Prints("REFUSED", "CHECK_FAILED", TRUE)
         /\ Obstacle = "observation_missing" =>
              child = Prints("BLOCKED", "OBSERVATION_MISSING", TRUE)
         /\ Obstacle = "review_subject_stale" =>
              child = Prints("REFUSED", "REVIEW_SUBJECT_STALE", TRUE)
         /\ Obstacle = "not_pending" =>
              child = Prints("BLOCKED", "ADAPTER_UNSUPPORTED", FALSE)
<1>1. child = Conclusion(Handler(id), Verdict) /\ id \in CaseId
  BY UndisturbedVerdict
<1>2. staleReply \in {"not_pending", "review_subject_stale"}
  BY DEF AdapterInv, Types
<1>3. ASSUME Obstacle = ""
      PROVE  child = Prints("READY", "ACCEPTED", Handler(id) # "unsupported")
  <2>1. Verdict.code = 0 /\ Verdict.text = "accepted"
    BY <1>3 DEF Verdict, Answer
  <2> QED
    BY <1>1, <2>1 DEF Conclusion, NotAnObject, accepted
<1>4. ASSUME Obstacle # "" PROVE Verdict.code = 1 /\ Verdict.text = Obstacle
  BY <1>4 DEF Verdict, Answer
<1>5. ASSUME Obstacle = "check_failed"
      PROVE  child = Prints("REFUSED", "CHECK_FAILED", TRUE)
  <2>1. id = "false-completion-001"
    BY <1>2, <1>5 DEF Obstacle
  <2>2. Handler(id) = "supported_checked"
    BY <2>1 DEF Handler, NoOracle
  <2>3. refusal_reason(Verdict) = "CHECK_FAILED"
    BY <1>4, <1>5 DEF refusal_reason, PRODUCT_REASON_MAP_V1
  <2> QED
    BY <1>1, <1>4, <1>5, <2>2, <2>3 DEF Conclusion, NotAnObject, accepted
<1>6. ASSUME Obstacle = "observation_missing"
      PROVE  child = Prints("BLOCKED", "OBSERVATION_MISSING", TRUE)
  <2>1. id = "reported-observed-001"
    BY <1>2, <1>6 DEF Obstacle
  <2>2. Handler(id) = "reported_checked"
    BY <2>1 DEF Handler
  <2>3. refusal_reason(Verdict) = "OBSERVATION_MISSING"
    BY <1>4, <1>6 DEF refusal_reason, PRODUCT_REASON_MAP_V1
  <2> QED
    BY <1>1, <1>4, <1>6, <2>2, <2>3
       DEF Conclusion, ReportedRefusal, NotAnObject, accepted
<1>7. ASSUME Obstacle \in {"review_subject_stale", "not_pending"}
      PROVE  Handler(id) = "stale_review_evidence"
  <2>1. id = "stale-review-001"
    BY <1>7 DEF Obstacle
  <2> QED
    BY <2>1 DEF Handler
<1>8. ASSUME Obstacle = "review_subject_stale"
      PROVE  child = Prints("REFUSED", "REVIEW_SUBJECT_STALE", TRUE)
  <2>1. refusal_reason(Verdict) = "REVIEW_SUBJECT_STALE"
    BY <1>4, <1>8 DEF refusal_reason, PRODUCT_REASON_MAP_V1
  <2> QED
    BY <1>1, <1>4, <1>7, <1>8, <2>1 DEF Conclusion, NotAnObject, accepted
<1>9. ASSUME Obstacle = "not_pending"
      PROVE  child = Prints("BLOCKED", "ADAPTER_UNSUPPORTED", FALSE)
  BY <1>1, <1>4, <1>7, <1>9 DEF Conclusion, NotAnObject, accepted
<1> QED
  BY <1>3, <1>5, <1>6, <1>8, <1>9

(* Without failing commands, a product without defects has no mismatch, and *)
(* every control is scored as a valid acceptance, however the product words *)
(* its refusal of a stale approval.                                         *)
THEOREM SoundProduct == Spec => []SoundProductIsCleared
<1>1. AdapterInv /\ TrackInv => SoundProductIsCleared
  <2> SUFFICES ASSUME AdapterInv, TrackInv, Ended, defects = {}, Undisturbed
               PROVE  /\ Mismatches(<<Result>>) = {}
                      /\ id \in Controls => IsScored /\ Ready(Result)
    BY DEF SoundProductIsCleared
  <2>1. id \in CaseId
    BY DEF AdapterInv, Types
  <2>2. ~(IsScored /\ Mismatch(Result)) => Mismatches(<<Result>>) = {}
    BY DEF Mismatches, IsScored, Scored
  <2>3. CASE Handler(id) \in {"stale_evidence", "unsupported"}
    <3>1. ~IsScored
      BY <2>3, ScoredVerdict
    <3>2. id \notin Controls
      BY <2>1, <2>3 DEF Handler, NoOracle, Controls
    <3> QED
      BY <2>2, <3>1, <3>2
  <2>4. CASE Handler(id) \notin {"stale_evidence", "unsupported"}
    <3>1. id \in Controls \cup {"false-completion-001", "reported-observed-001",
                                "stale-review-001"}
      BY <2>1, <2>4 DEF CaseId, Handler, NoOracle, Controls
    <3>2. CASE id \in Controls
      <4>1. Obstacle = ""
        BY <3>2 DEF Obstacle, Controls
      <4>2. child = Prints("READY", "ACCEPTED", TRUE)
        BY <2>4, <4>1, VerdictOfTheObstacle
      <4>3. Expects(id, "READY", "ACCEPTED", 0)
        BY <3>2, TruthAssumption
      <4>4. IsScored /\ Ready(Result) /\ ~Mismatch(Result)
        BY <4>2, <4>3, Printed DEF Mismatch, Ready, Expects
      <4> QED
        BY <2>2, <4>4
    <3>3. CASE id = "false-completion-001"
      <4>1. Obstacle = "check_failed"
        BY <3>3 DEF Obstacle
      <4>2. child = Prints("REFUSED", "CHECK_FAILED", TRUE)
        BY <2>4, <4>1, VerdictOfTheObstacle
      <4>3. Expects(id, "REFUSED", "CHECK_FAILED", 2) /\ id \notin Controls
        BY <3>3, TruthAssumption DEF Controls
      <4>4. IsScored => ~Mismatch(Result)
        BY <4>2, <4>3, Printed DEF Mismatch, Expects
      <4> QED
        BY <2>2, <4>3, <4>4
    <3>4. CASE id = "reported-observed-001"
      <4>1. Obstacle = "observation_missing"
        BY <3>4 DEF Obstacle
      <4>2. child = Prints("BLOCKED", "OBSERVATION_MISSING", TRUE)
        BY <2>4, <4>1, VerdictOfTheObstacle
      <4>3. Expects(id, "BLOCKED", "OBSERVATION_MISSING", 3) /\ id \notin Controls
        BY <3>4, TruthAssumption DEF Controls
      <4>4. IsScored => ~Mismatch(Result)
        BY <4>2, <4>3, Printed DEF Mismatch, Expects
      <4> QED
        BY <2>2, <4>3, <4>4
    <3>5. CASE id = "stale-review-001"
      <4>1. Obstacle = staleReply /\ Obstacle \in {"not_pending", "review_subject_stale"}
        BY <3>5 DEF Obstacle, AdapterInv, Types
      <4>2. \/ child = Prints("REFUSED", "REVIEW_SUBJECT_STALE", TRUE)
            \/ child = Prints("BLOCKED", "ADAPTER_UNSUPPORTED", FALSE)
        BY <2>4, <4>1, VerdictOfTheObstacle
      <4>3. Expects(id, "REFUSED", "REVIEW_SUBJECT_STALE", 2) /\ id \notin Controls
        BY <3>5, TruthAssumption DEF Controls
      <4>4. IsScored => ~Mismatch(Result)
        <5>1. CASE child = Prints("REFUSED", "REVIEW_SUBJECT_STALE", TRUE)
          BY <4>3, <5>1, Printed DEF Mismatch, Expects
        <5>2. CASE child = Prints("BLOCKED", "ADAPTER_UNSUPPORTED", FALSE)
          BY <5>2, Printed
        <5> QED
          BY <4>2, <5>1, <5>2
      <4> QED
        BY <2>2, <4>3, <4>4
    <3> QED
      BY <3>1, <3>2, <3>3, <3>4, <3>5
  <2> QED
    BY <2>3, <2>4
<1> QED
  BY <1>1, AdapterInvariant, TrackInvariant, PTL

(* Without failing commands, a false acceptance is counted exactly when the *)
(* product has the defect the case is about.                                *)
THEOREM DefectsAreCaught == Spec => []DefectIsCaught
<1>1. AdapterInv /\ TrackInv => DefectIsCaught
  <2> SUFFICES ASSUME AdapterInv, TrackInv, Ended, Undisturbed,
                      NEW d \in DOMAIN Exposes, id = Exposes[d]
               PROVE  d \in defects <=> FalseAcceptances(<<Result>>) # {}
    BY DEF DefectIsCaught
  <2>1. \/ d = "accepts_failed_check" /\ id = "false-completion-001"
        \/ d = "accepts_reported_check" /\ id = "reported-observed-001"
        \/ d = "accepts_stale_review" /\ id = "stale-review-001"
    BY DEF Exposes
  <2>2. Handler(id) \notin {"stale_evidence", "unsupported"}
    BY <2>1 DEF Handler, NoOracle
  <2>3. Truth[id].outcome # "READY"
    BY <2>1, TruthAssumption DEF Expects
  <2>4. FalseAcceptances(<<Result>>) # {} <=> IsScored /\ IsFalse(Result) /\ Ready(Result)
    BY DEF FalseAcceptances, IsScored, Scored
  <2>5. IsFalse(Result)
    BY <2>3 DEF IsFalse, Result, CaseResult
  <2>6. CASE d \in defects
    <3>1. Obstacle = ""
      BY <2>1, <2>6 DEF Obstacle
    <3>2. child = Prints("READY", "ACCEPTED", TRUE)
      BY <2>2, <3>1, VerdictOfTheObstacle
    <3>3. IsScored /\ Ready(Result)
      BY <3>2, Printed DEF Ready
    <3> QED
      BY <2>4, <2>5, <2>6, <3>3
  <2>7. CASE d \notin defects
    <3>1. Obstacle \in {"check_failed", "observation_missing", "not_pending",
                        "review_subject_stale"}
      BY <2>1, <2>7 DEF Obstacle, AdapterInv, Types
    <3>2. PICK outcome \in {"REFUSED", "BLOCKED"}, supported \in BOOLEAN :
            \E reason : child = Prints(outcome, reason, supported)
      BY <2>2, <3>1, VerdictOfTheObstacle
    <3>3. IsScored => ~Ready(Result)
      BY <3>2, Printed DEF Ready
    <3> QED
      BY <2>4, <2>7, <3>3
  <2> QED
    BY <2>6, <2>7
<1> QED
  BY <1>1, AdapterInvariant, TrackInvariant, PTL
=============================================================================
