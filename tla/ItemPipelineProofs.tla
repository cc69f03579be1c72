-------------------------- MODULE ItemPipelineProofs --------------------------
(***************************************************************************)
(* What holds of ItemPipeline for any replicas, messages, recipe and cost. *)
(*                                                                         *)
(* First, that adding the pipeline to the queue only looks inside the runs *)
(* of QueueIngress: every behaviour of PipelineSpec is one of Spec, so that *)
(* the theorems of QueueIngressProofs hold of it.  Then, the pipeline's own *)
(* type correctness and its accounting, from one inductive invariant.      *)
(***************************************************************************)
EXTENDS ItemPipeline, QueueIngressProofs

(***************************************************************************)
(* The pipeline refines the queue.                                         *)
(***************************************************************************)

LEMMA QueueStepIsNext == QueueStep => Next
BY DEF QueueStep, Next, ReplicaStep

LEMMA ThrowIsNext ==
  ASSUME NEW r \in Replicas, NEW cost, Throw(r, cost) PROVE Next
BY DEF Throw, Next, ReplicaStep

LEMMA DeadLetterIsNext ==
  ASSUME NEW r \in Replicas, NEW reason, NEW cost, DeadLetterAs(r, reason, cost)
  PROVE  Next
BY DEF DeadLetterAs, Next, ReplicaStep

LEMMA GoOnIsStutter ==
  ASSUME NEW r, NEW next, NEW n, NEW res, NEW cost, GoOn(r, next, n, res, cost)
  PROVE  UNCHANGED vars
BY DEF GoOn

LEMMA AfterAttemptIsNext ==
  ASSUME NEW r \in Replicas, NEW res, NEW cost, AfterAttempt(r, res, cost)
  PROVE  [Next]_vars
BY GoOnIsStutter, DeadLetterIsNext DEF AfterAttempt, Escalate

LEMMA ChainEndsIsNext ==
  ASSUME NEW r \in Replicas, NEW res, NEW cost, ChainEnds(r, res, cost)
  PROVE  [Next]_vars
BY AfterAttemptIsNext, ThrowIsNext DEF ChainEnds

LEMMA AfterReconcileIsNext ==
  ASSUME NEW r \in Replicas, NEW res, NEW cost, AfterReconcile(r, res, cost)
  PROVE  [Next]_vars
BY GoOnIsStutter, ChainEndsIsNext DEF AfterReconcile

LEMMA PipelineStepIsNext ==
  ASSUME NEW r \in Replicas, PipelineStep(r) PROVE [Next]_vars
<1>1. CASE Begin(r)
  BY <1>1 DEF Begin, Next, ReplicaStep
<1>2. CASE CallRejects(r)
  BY <1>2, ThrowIsNext DEF CallRejects
<1>3. CASE Halt(r)
  BY <1>3, ThrowIsNext, DeadLetterIsNext DEF Halt
<1>4. CASE Classify(r)
  BY <1>4, GoOnIsStutter DEF Classify
<1>5. CASE Act(r)
  BY <1>5, GoOnIsStutter, AfterReconcileIsNext DEF Act
<1>6. CASE Reconcile(r)
  BY <1>6, AfterReconcileIsNext DEF Reconcile
<1>7. CASE Judge(r)
  BY <1>7, ChainEndsIsNext DEF Judge
<1>8. CASE GatewayCommits(r)
  BY <1>8 DEF GatewayCommits
<1>9. CASE CommitReturns(r)
  BY <1>9 DEF CommitReturns, Next, ReplicaStep
<1>10. CASE GatewayRefuses(r)
  BY <1>10, GoOnIsStutter, DeadLetterIsNext DEF GatewayRefuses, Escalate
<1>11. CASE FlowAnswers(r)
  BY <1>11, ThrowIsNext, DeadLetterIsNext DEF FlowAnswers, Next, ReplicaStep
<1>12. CASE FallbackThrows(r)
  BY <1>12 DEF FallbackThrows, Next, ReplicaStep
<1>13. QED
  BY <1>1, <1>2, <1>3, <1>4, <1>5, <1>6, <1>7, <1>8, <1>9, <1>10, <1>11, <1>12
     DEF PipelineStep

LEMMA PipelineNextIsNext == [PipelineNext]_allVars => [Next]_vars
<1>1. ASSUME NEW r \in Replicas, Exit(r) PROVE Next
  BY <1>1 DEF Exit, Next, ReplicaStep
<1>2. UNCHANGED allVars => UNCHANGED vars
  BY DEF allVars
<1>3. QED
  BY <1>1, <1>2, QueueStepIsNext, PipelineStepIsNext DEF PipelineNext

\* Whatever happens inside a run, the queue sees one of the runs it allows for:
\* the pipeline returns an outcome, is dead-lettered, or throws.
THEOREM RefinesQueue == PipelineSpec => Spec
<1>1. PipelineInit => Init
  BY DEF PipelineInit
<1>2. QED
  BY <1>1, PipelineNextIsNext, PTL DEF PipelineSpec, Spec

\* So an item completed through its pipeline is done and recorded, and no
\* duplicate of a recorded one is run again.
THEOREM PipelineCompletionIsSound ==
  PipelineSpec => [](CompletedMeansDone /\ RecordedIsReal)
BY RefinesQueue, CompletionIsSound, PTL

\* With the table store the whole pipeline, model calls, verdicts and audit rows
\* included, implements the ledger: an item's settlement and its recorded outcome
\* are final, and completion rests on a record (pipeline-processor.ts:297-345).
THEOREM PipelineImplementsLedger ==
  ASSUME DurableOutcomes PROVE PipelineSpec => LedgerSpec
BY RefinesQueue, ImplementsLedger, PTL

-------------------------------------------------------------------------------
(***************************************************************************)
(* Type correctness and accounting.                                        *)
(***************************************************************************)

\* A replica inside a pipeline is running an item that has one, in one of the
\* recipe's attempts, below its cap; outside, no ledger is open.
InPipeline(r) ==
  /\ stage[r] = "none" => spent[r] = 0
  /\ stage[r] # "none" =>
       /\ pc[r] = "run" /\ Pipelined(r)
       /\ attempt[r] \in 1 .. MaxAttempts
       /\ spent[r] < MaxCost

Ledgers ==
  /\ spent \in [Replicas -> Nat]
  /\ dayCost \in [Replicas -> Nat]
  /\ billed \in [Replicas -> Nat]
  /\ SpendCharged

PInv ==
  /\ IInv
  /\ PipelineTypeOK
  /\ Ledgers
  /\ \A r \in Replicas : InPipeline(r)

\* What an action of replica r leaves alone.
OthersInQueue(r) ==
  \A q \in Replicas \ {r} : pc'[q] = pc[q] /\ msg'[q] = msg[q]

\* One model call, or none, at this price.
Billed(r, price) ==
  /\ billed' \in [Replicas -> Nat]
  /\ billed'[r] = billed[r] + price
  /\ \A q \in Replicas \ {r} : billed'[q] = billed[q]

LEMMA UnbilledIsBilled ==
  ASSUME Ledgers, UNCHANGED billed, NEW r \in Replicas PROVE Billed(r, 0)
BY DEF Ledgers, Billed

LEMMA BillIsBilled ==
  ASSUME Ledgers, NEW r \in Replicas, NEW price \in Nat, Bill(r, price)
  PROVE  Billed(r, price)
BY DEF Ledgers, Billed, Bill

LEMMA PipelineInitInv == PipelineInit => PInv
<1> SUFFICES ASSUME PipelineInit PROVE PInv
  OBVIOUS
<1>1. IInv
  BY InitInv DEF PipelineInit
<1>2. QED
  BY <1>1, PipelineAssumption DEF PipelineInit, PInv, PipelineTypeOK, Ledgers,
     SpendCharged, InPipeline, Stages, ModelStages

\* A run that goes on.
LEMMA GoOnStep ==
  ASSUME PInv, NEW r \in Replicas, stage[r] # "none",
         NEW next \in Stages \ {"none"}, NEW n \in 1 .. MaxAttempts,
         NEW res \in SUBSET Results, NEW price \in Nat, spent[r] + price < MaxCost,
         Billed(r, price), GoOn(r, next, n, res, spent[r] + price),
         audit' \in [Stores -> SUBSET AuditRows]
  PROVE  PInv'
<1>1. /\ stage' = [stage EXCEPT ![r] = next]
      /\ attempt' = [attempt EXCEPT ![r] = n]
      /\ results' = [results EXCEPT ![r] = res]
      /\ spent' = [spent EXCEPT ![r] = spent[r] + price]
      /\ dayCost' = dayCost /\ faults' = faults /\ pc' = pc /\ msg' = msg
      /\ UNCHANGED vars
  BY DEF GoOn, vars
<1>2. IInv'
  BY <1>1, StepInv DEF PInv
<1>3. Ledgers'
  BY <1>1, PipelineAssumption DEF PInv, Ledgers, SpendCharged, Billed
<1>4. \A q \in Replicas : InPipeline(q)'
  BY <1>1 DEF PInv, InPipeline, PipelineTypeOK, Pipelined, Key
<1>5. PipelineTypeOK'
  BY <1>1, <1>3, <1>4 DEF PInv, PipelineTypeOK, Ledgers, InPipeline
<1>6. QED
  BY <1>2, <1>3, <1>4, <1>5 DEF PInv

\* A run that ends.
LEMMA LeaveStep ==
  ASSUME PInv, NEW r \in Replicas, stage[r] # "none",
         NEW price \in Nat, Billed(r, price), Leave(r, spent[r] + price),
         OthersInQueue(r), Next, faults' \subseteq Faults,
         audit' \in [Stores -> SUBSET AuditRows]
  PROVE  PInv'
<1>1. /\ stage' = [stage EXCEPT ![r] = "none"]
      /\ attempt' = [attempt EXCEPT ![r] = 0]
      /\ results' = [results EXCEPT ![r] = {}]
      /\ spent' = [spent EXCEPT ![r] = 0]
      /\ dayCost' = [dayCost EXCEPT ![r] = @ + (spent[r] + price)]
  BY DEF Leave
<1>2. IInv'
  BY StepInv DEF PInv
<1>3. Ledgers'
  BY <1>1 DEF PInv, Ledgers, SpendCharged, Billed
<1>4. \A q \in Replicas : InPipeline(q)'
  BY <1>1 DEF PInv, InPipeline, PipelineTypeOK, Pipelined, Key, OthersInQueue
<1>5. PipelineTypeOK'
  BY <1>1, <1>3, <1>4, PipelineAssumption
     DEF PInv, PipelineTypeOK, Ledgers, InPipeline, Stages
<1>6. QED
  BY <1>2, <1>3, <1>4, <1>5 DEF PInv

\* Rows that are written are audit rows.
LEMMA InsertType ==
  ASSUME PInv, NEW r \in Replicas, NEW rows \in SUBSET AuditRows, InsertRows(r, rows)
  PROVE  audit' \in [Stores -> SUBSET AuditRows]
<1>1. AuditOf(r) \in Stores
  BY DEF AuditOf, Stores
<1>2. QED
  BY <1>1 DEF PInv, PipelineTypeOK, InsertRows

LEMMA CorrelationType ==
  ASSUME PInv, NEW r \in Replicas, stage[r] # "none"
  PROVE  Correlation(r) \in Correlations /\ <<msg[r], delivery[r]>> \in Deliveries
<1>1. msg[r] \in Messages /\ delivery[r] \in Nat
  BY DEF PInv, InPipeline, IInv, LocalInv, Local, TypeOK
<1>2. QED
  BY <1>1 DEF Correlation, Correlations, Deliveries

LEMMA RowTypes ==
  ASSUME PInv, NEW r \in Replicas, stage[r] # "none"
  PROVE  BudgetRow(r) \in AuditRows /\ EscalationRow(r) \in AuditRows
BY CorrelationType DEF BudgetRow, EscalationRow, AuditRows

LEMMA VerifyRowsType ==
  ASSUME PInv, NEW r \in Replicas, stage[r] # "none", NEW res \in SUBSET Results
  PROVE  VerifyRows(r, res) \subseteq AuditRows
<1>1. AllPassed(res) \in BOOLEAN
  BY DEF AllPassed
<1>2. [tool |-> "composite", passed |-> AllPassed(res)] \in Results
  BY <1>1 DEF Results, Tools
<1>3. attempt[r] \in 1 .. MaxAttempts /\ Correlation(r) \in Correlations
  BY CorrelationType DEF PInv, InPipeline
<1>4. ASSUME NEW x \in Results
      PROVE  [kind |-> "verify", correlation |-> Correlation(r), tool |-> x.tool,
              attempt |-> attempt[r], passed |-> x.passed] \in AuditRows
  BY <1>3 DEF Results, AuditRows
<1>5. QED
  BY <1>2, <1>4 DEF VerifyRows

\* Deciding how to settle moves no other replica.
LEMMA SettleWithFrame ==
  ASSUME PInv, NEW r \in Replicas, NEW s, SettleWith(r, s)
  PROVE  OthersInQueue(r)
BY DEF PInv, IInv, TypeOK, SettleWith, OthersInQueue

LEMMA ThrowStep ==
  ASSUME PInv, NEW r \in Replicas, stage[r] # "none", NEW price \in Nat,
         Billed(r, price), Throw(r, spent[r] + price), faults' \subseteq Faults,
         audit' \in [Stores -> SUBSET AuditRows]
  PROVE  PInv'
<1>1. OthersInQueue(r)
  BY SettleWithFrame DEF Throw, RunThrows
<1>2. Leave(r, spent[r] + price)
  BY DEF Throw
<1>3. QED
  BY <1>1, <1>2, LeaveStep, ThrowIsNext

LEMMA DeadLetterStep ==
  ASSUME PInv, NEW r \in Replicas, stage[r] # "none", NEW price \in Nat, NEW reason,
         Billed(r, price), DeadLetterAs(r, reason, spent[r] + price),
         audit' \in [Stores -> SUBSET AuditRows]
  PROVE  PInv'
<1>1. OthersInQueue(r)
  BY SettleWithFrame DEF DeadLetterAs, PipelineDeadLetters
<1>2. Leave(r, spent[r] + price) /\ faults' \subseteq Faults
  BY DEF DeadLetterAs, PInv, PipelineTypeOK
<1>3. QED
  BY <1>1, <1>2, LeaveStep, DeadLetterIsNext

\* The run succeeded: RunSucceeds moves r from "run" to "record".
LEMMA SucceedStep ==
  ASSUME PInv, NEW r \in Replicas, stage[r] # "none", Billed(r, 0),
         RunSucceeds(r), Leave(r, spent[r]), UNCHANGED faults,
         audit' \in [Stores -> SUBSET AuditRows]
  PROVE  PInv'
<1>1. OthersInQueue(r) /\ Next
  BY DEF RunSucceeds, OthersInQueue, Next, ReplicaStep, PInv, IInv, TypeOK
<1>2. spent[r] + 0 = spent[r] /\ faults' \subseteq Faults
  BY DEF PInv, PipelineTypeOK
<1>3. Leave(r, spent[r] + 0)
  BY <1>2
<1>4. QED
  BY <1>1, <1>2, <1>3, LeaveStep

LEMMA EscalateStep ==
  ASSUME PInv, NEW r \in Replicas, stage[r] # "none", NEW price \in Nat,
         spent[r] + price < MaxCost, Billed(r, price),
         Escalate(r, spent[r] + price), audit' \in [Stores -> SUBSET AuditRows]
  PROVE  PInv'
<1>1. attempt[r] \in 1 .. MaxAttempts /\ "escalate" \in Stages \ {"none"}
      /\ {} \in SUBSET Results
  BY DEF PInv, InPipeline, Stages
<1>2. CASE GoOn(r, "escalate", attempt[r], {}, spent[r] + price)
  BY <1>1, <1>2, GoOnStep
<1>3. CASE DeadLetterAs(r, "ESCALATION_UNARMED", spent[r] + price)
  BY <1>3, DeadLetterStep
<1>4. QED
  BY <1>2, <1>3 DEF Escalate

LEMMA AfterAttemptStep ==
  ASSUME PInv, NEW r \in Replicas, stage[r] # "none", NEW price \in Nat,
         spent[r] + price < MaxCost, Billed(r, price), NEW res \in SUBSET Results,
         AfterAttempt(r, res, spent[r] + price), audit' \in [Stores -> SUBSET AuditRows]
  PROVE  PInv'
<1>1. attempt[r] \in 1 .. MaxAttempts /\ {} \in SUBSET Results
      /\ {"commit", "act"} \subseteq Stages \ {"none"}
  BY DEF PInv, InPipeline, Stages, ModelStages
<1>2. CASE GoOn(r, "commit", attempt[r], res, spent[r] + price)
  BY <1>1, <1>2, GoOnStep
<1>3. CASE attempt[r] < MaxAttempts /\ GoOn(r, "act", attempt[r] + 1, {}, spent[r] + price)
  <2>1. attempt[r] + 1 \in 1 .. MaxAttempts
    BY <1>1, <1>3, PipelineAssumption
  <2>2. QED
    BY <1>1, <1>3, <2>1, GoOnStep
<1>4. CASE Escalate(r, spent[r] + price)
  BY <1>4, EscalateStep
<1>5. CASE DeadLetterAs(r, "VERIFICATION_FAILED", spent[r] + price)
  BY <1>5, DeadLetterStep
<1>6. QED
  BY <1>2, <1>3, <1>4, <1>5 DEF AfterAttempt

LEMMA ChainEndsStep ==
  ASSUME PInv, NEW r \in Replicas, stage[r] # "none", NEW price \in Nat,
         spent[r] + price < MaxCost, Billed(r, price), NEW res \in SUBSET Results,
         ChainEnds(r, res, spent[r] + price)
  PROVE  PInv'
<1>1. PICK inserted \in SUBSET VerifyRows(r, res) :
        /\ InsertRows(r, inserted)
        /\ \/ AfterAttempt(r, res, spent[r] + price)
           \/ Throw(r, spent[r] + price) /\ UNCHANGED faults
  BY DEF ChainEnds
<1>2. audit' \in [Stores -> SUBSET AuditRows]
  BY <1>1, InsertType, VerifyRowsType
<1>3. UNCHANGED faults => faults' \subseteq Faults
  BY DEF PInv, PipelineTypeOK
<1>4. QED
  BY <1>1, <1>2, <1>3, AfterAttemptStep, ThrowStep

LEMMA AfterReconcileStep ==
  ASSUME PInv, NEW r \in Replicas, stage[r] # "none", NEW price \in Nat,
         spent[r] + price < MaxCost, Billed(r, price), NEW res \in SUBSET Results,
         AfterReconcile(r, res, spent[r] + price)
  PROVE  PInv'
<1>1. CASE GoOn(r, "judge", attempt[r], res, spent[r] + price) /\ UNCHANGED audit
  <2>1. attempt[r] \in 1 .. MaxAttempts /\ "judge" \in Stages \ {"none"}
        /\ audit' \in [Stores -> SUBSET AuditRows]
    BY <1>1 DEF PInv, InPipeline, Stages, ModelStages, PipelineTypeOK
  <2>2. QED
    BY <1>1, <2>1, GoOnStep
<1>2. CASE ChainEnds(r, res, spent[r] + price)
  BY <1>2, ChainEndsStep
<1>3. QED
  BY <1>1, <1>2 DEF AfterReconcile

LEMMA BeginStep == ASSUME PInv, NEW r \in Replicas, Begin(r) PROVE PInv'
<1>1. /\ stage' = [stage EXCEPT ![r] = IF HasClassify THEN "classify" ELSE "act"]
      /\ attempt' = [attempt EXCEPT ![r] = 1]
      /\ UNCHANGED <<results, spent, dayCost, audit, billed, faults, msg>>
      /\ pc' = [pc EXCEPT ![r] = "run"] /\ pc[r] = "lookup" /\ Pipelined(r)
  BY DEF Begin, StartRun
<1>2. IInv'
  BY StepInv DEF PInv, Begin, Next, ReplicaStep
<1>3. Ledgers'
  BY <1>1 DEF PInv, Ledgers, SpendCharged
<1>4. 1 \in 1 .. MaxAttempts /\ 0 < MaxCost
  BY PipelineAssumption
<1>5. \A q \in Replicas : InPipeline(q)'
  <2>1. stage[r] = "none"
    BY <1>1 DEF PInv, InPipeline
  <2>2. QED
    BY <1>1, <1>4, <2>1
       DEF PInv, InPipeline, PipelineTypeOK, Pipelined, Key, IInv, TypeOK
<1>6. PipelineTypeOK'
  BY <1>1, <1>3, <1>4, <1>5 DEF PInv, PipelineTypeOK, Ledgers, InPipeline, Stages, ModelStages
<1>7. QED
  BY <1>2, <1>3, <1>5, <1>6 DEF PInv

LEMMA FaultType ==
  ASSUME PInv, NEW r \in Replicas, pc[r] = "run", NEW f,
         f = faults \cup {FaultOf(r)}
  PROVE  f \subseteq Faults
<1>1. msg[r] \in Messages /\ delivery[r] \in Nat
  BY DEF PInv, IInv, LocalInv, Local, TypeOK
<1>2. QED
  BY <1>1 DEF FaultOf, Faults, PInv, PipelineTypeOK

LEMMA CallRejectsStep == ASSUME PInv, NEW r \in Replicas, CallRejects(r) PROVE PInv'
<1>1. /\ stage[r] # "none" /\ Throw(r, spent[r]) /\ UNCHANGED <<audit, billed>>
      /\ faults' = faults \cup {FaultOf(r)}
  BY DEF CallRejects
<1>2. spent[r] + 0 = spent[r] /\ audit' \in [Stores -> SUBSET AuditRows]
      /\ faults' \subseteq Faults
  BY <1>1, FaultType DEF PInv, PipelineTypeOK, InPipeline
<1>3. Throw(r, spent[r] + 0) /\ Billed(r, 0)
  BY <1>1, <1>2, UnbilledIsBilled DEF PInv
<1>4. QED
  BY <1>1, <1>2, <1>3, ThrowStep

LEMMA HaltStep == ASSUME PInv, NEW r \in Replicas, Halt(r) PROVE PInv'
<1>1. stage[r] # "none"
  BY DEF Halt, ModelStages
<1>2. PICK price \in CallCosts :
        /\ Bill(r, price)
        /\ \/ /\ InsertRows(r, {BudgetRow(r)})
              /\ DeadLetterAs(r, "BUDGET_EXCEEDED", spent[r] + price)
           \/ Throw(r, spent[r] + price) /\ UNCHANGED <<audit, faults>>
  BY DEF Halt
<1>3. price \in Nat /\ Billed(r, price)
  BY <1>2, PipelineAssumption, BillIsBilled DEF PInv
<1>4. CASE /\ InsertRows(r, {BudgetRow(r)})
           /\ DeadLetterAs(r, "BUDGET_EXCEEDED", spent[r] + price)
  <2>1. audit' \in [Stores -> SUBSET AuditRows]
    BY <1>1, <1>4, RowTypes, InsertType
  <2>2. QED
    BY <1>1, <1>3, <1>4, <2>1, DeadLetterStep
<1>5. CASE Throw(r, spent[r] + price) /\ UNCHANGED <<audit, faults>>
  <2>1. audit' \in [Stores -> SUBSET AuditRows] /\ faults' \subseteq Faults
    BY <1>5 DEF PInv, PipelineTypeOK
  <2>2. QED
    BY <1>1, <1>3, <1>5, <2>1, ThrowStep
<1>6. QED
  BY <1>2, <1>4, <1>5

\* A priced call that leaves the item below its cap.
LEMMA BelowCap ==
  ASSUME PInv, NEW r \in Replicas, NEW price \in Nat, ~Exhausted(spent[r] + price)
  PROVE  spent[r] + price < MaxCost
BY PipelineAssumption DEF Exhausted, PInv, PipelineTypeOK

LEMMA ClassifyStep == ASSUME PInv, NEW r \in Replicas, Classify(r) PROVE PInv'
<1>1. PICK price \in CallCosts :
        /\ ~Exhausted(spent[r] + price) /\ Bill(r, price)
        /\ GoOn(r, "act", 1, {}, spent[r] + price) /\ UNCHANGED audit
  BY DEF Classify
<1>2. price \in Nat /\ Billed(r, price) /\ spent[r] + price < MaxCost
  BY <1>1, PipelineAssumption, BillIsBilled, BelowCap DEF PInv
<1>3. /\ "act" \in Stages \ {"none"} /\ 1 \in 1 .. MaxAttempts /\ {} \in SUBSET Results
      /\ stage[r] # "none" /\ audit' \in [Stores -> SUBSET AuditRows]
  BY <1>1, PipelineAssumption DEF Stages, ModelStages, Classify, PInv, PipelineTypeOK
<1>4. QED
  BY <1>1, <1>2, <1>3, GoOnStep

LEMMA ActStep == ASSUME PInv, NEW r \in Replicas, Act(r) PROVE PInv'
<1>1. PICK price \in CallCosts, res \in SUBSET Results :
        /\ ~Exhausted(spent[r] + price) /\ Bill(r, price)
        /\ \/ GoOn(r, "reconcile", attempt[r], res, spent[r] + price) /\ UNCHANGED audit
           \/ AfterReconcile(r, res, spent[r] + price)
  BY DEF Act, Results, Tools
<1>2. price \in Nat /\ Billed(r, price) /\ spent[r] + price < MaxCost
  BY <1>1, PipelineAssumption, BillIsBilled, BelowCap DEF PInv
<1>3. /\ "reconcile" \in Stages \ {"none"} /\ stage[r] # "none"
      /\ attempt[r] \in 1 .. MaxAttempts
      /\ UNCHANGED audit => audit' \in [Stores -> SUBSET AuditRows]
  BY DEF Stages, Act, PInv, InPipeline, PipelineTypeOK
<1>4. QED
  BY <1>1, <1>2, <1>3, GoOnStep, AfterReconcileStep

LEMMA ReconcileStep == ASSUME PInv, NEW r \in Replicas, Reconcile(r) PROVE PInv'
<1>1. PICK passed \in BOOLEAN :
        AfterReconcile(r, results[r] \cup {[tool |-> "reconcile", passed |-> passed]},
                       spent[r])
  BY DEF Reconcile
<1>2. results[r] \cup {[tool |-> "reconcile", passed |-> passed]} \in SUBSET Results
  BY DEF PInv, PipelineTypeOK, Results, Tools
<1>3. stage[r] # "none" /\ spent[r] + 0 = spent[r] /\ spent[r] + 0 < MaxCost
  BY DEF Reconcile, PInv, InPipeline, PipelineTypeOK
<1>4. Billed(r, 0)
  BY UnbilledIsBilled DEF Reconcile, PInv
<1>5. QED
  BY <1>1, <1>2, <1>3, <1>4, AfterReconcileStep

LEMMA JudgeStep == ASSUME PInv, NEW r \in Replicas, Judge(r) PROVE PInv'
<1>1. PICK price \in CallCosts, passed \in BOOLEAN :
        /\ ~Exhausted(spent[r] + price) /\ Bill(r, price)
        /\ ChainEnds(r, results[r] \cup {[tool |-> "judge", passed |-> passed]},
                     spent[r] + price)
  BY DEF Judge
<1>2. price \in Nat /\ Billed(r, price) /\ spent[r] + price < MaxCost
  BY <1>1, PipelineAssumption, BillIsBilled, BelowCap DEF PInv
<1>3. results[r] \cup {[tool |-> "judge", passed |-> passed]} \in SUBSET Results
      /\ stage[r] # "none"
  BY DEF Judge, PInv, PipelineTypeOK, Results, Tools
<1>4. QED
  BY <1>1, <1>2, <1>3, ChainEndsStep

LEMMA GatewayCommitsStep ==
  ASSUME PInv, NEW r \in Replicas, GatewayCommits(r) PROVE PInv'
<1>1. /\ stage' = [stage EXCEPT ![r] = "committed"] /\ stage[r] = "commit"
      /\ UNCHANGED vars
      /\ UNCHANGED <<pc, msg, attempt, results, spent, dayCost, audit, billed, faults>>
  BY DEF GatewayCommits, vars
<1>2. IInv'
  BY <1>1, StepInv DEF PInv
<1>3. Ledgers'
  BY <1>1 DEF PInv, Ledgers, SpendCharged
<1>4. \A q \in Replicas : InPipeline(q)'
  BY <1>1 DEF PInv, InPipeline, PipelineTypeOK, Pipelined, Key
<1>5. PipelineTypeOK'
  BY <1>1, <1>3, <1>4 DEF PInv, PipelineTypeOK, Ledgers, InPipeline, Stages
<1>6. QED
  BY <1>2, <1>3, <1>4, <1>5 DEF PInv

LEMMA CommitReturnsStep ==
  ASSUME PInv, NEW r \in Replicas, CommitReturns(r) PROVE PInv'
<1>1. Billed(r, 0) /\ audit' \in [Stores -> SUBSET AuditRows]
  BY UnbilledIsBilled DEF CommitReturns, PInv, PipelineTypeOK
<1>2. QED
  BY <1>1, SucceedStep DEF CommitReturns

LEMMA GatewayRefusesStep ==
  ASSUME PInv, NEW r \in Replicas, GatewayRefuses(r) PROVE PInv'
<1>1. /\ stage[r] # "none" /\ spent[r] + 0 = spent[r] /\ spent[r] + 0 < MaxCost
      /\ audit' \in [Stores -> SUBSET AuditRows]
  BY DEF GatewayRefuses, PInv, InPipeline, PipelineTypeOK
<1>2. Escalate(r, spent[r] + 0) /\ Billed(r, 0)
  BY <1>1, UnbilledIsBilled DEF GatewayRefuses, PInv
<1>3. QED
  BY <1>1, <1>2, EscalateStep

LEMMA FlowAnswersStep ==
  ASSUME PInv, NEW r \in Replicas, FlowAnswers(r) PROVE PInv'
<1>1. /\ stage[r] # "none" /\ spent[r] + 0 = spent[r] /\ Billed(r, 0)
      /\ UNCHANGED faults => faults' \subseteq Faults
      /\ UNCHANGED audit => audit' \in [Stores -> SUBSET AuditRows]
  BY UnbilledIsBilled DEF FlowAnswers, PInv, PipelineTypeOK
<1>2. InsertRows(r, {EscalationRow(r)}) => audit' \in [Stores -> SUBSET AuditRows]
  BY <1>1, RowTypes, InsertType
<1>3. CASE Throw(r, spent[r]) /\ UNCHANGED <<audit, faults>>
  BY <1>1, <1>3, ThrowStep
<1>4. CASE /\ InsertRows(r, {EscalationRow(r)})
           /\ RunSucceeds(r) /\ Leave(r, spent[r]) /\ UNCHANGED faults
  BY <1>1, <1>2, <1>4, SucceedStep
<1>5. CASE /\ InsertRows(r, {EscalationRow(r)})
           /\ DeadLetterAs(r, "ESCALATION_UNRESOLVED", spent[r])
  BY <1>1, <1>2, <1>5, DeadLetterStep
<1>6. QED
  BY <1>3, <1>4, <1>5 DEF FlowAnswers

\* A step of the queue that leaves the pipeline's variables alone, and moves no
\* replica out of a pipeline.
LEMMA OutsideStep ==
  ASSUME PInv, [Next]_vars,
         UNCHANGED <<stage, attempt, results, spent, dayCost, audit, billed>>,
         faults' \subseteq Faults,
         \A q \in Replicas : stage[q] # "none" => pc'[q] = pc[q] /\ msg'[q] = msg[q]
  PROVE  PInv'
<1>1. IInv'
  BY StepInv DEF PInv
<1>2. Ledgers'
  BY DEF PInv, Ledgers, SpendCharged
<1>3. \A q \in Replicas : InPipeline(q)'
  BY DEF PInv, InPipeline, Pipelined, Key
<1>4. PipelineTypeOK'
  BY <1>2, <1>3 DEF PInv, PipelineTypeOK, Ledgers, InPipeline
<1>5. QED
  BY <1>1, <1>2, <1>3, <1>4 DEF PInv

LEMMA FallbackThrowsStep ==
  ASSUME PInv, NEW r \in Replicas, FallbackThrows(r) PROVE PInv'
<1>1. /\ faults' = faults \cup {FaultOf(r)} /\ pc[r] = "run" /\ ~Pipelined(r)
      /\ pc' = [pc EXCEPT ![r] = "settle"] /\ msg' = msg
      /\ UNCHANGED <<stage, attempt, results, spent, dayCost, audit, billed>>
  BY DEF FallbackThrows, RunThrows, SettleWith
<1>2. faults' \subseteq Faults /\ stage[r] = "none"
  BY <1>1, FaultType DEF PInv, InPipeline
<1>3. Next
  BY DEF FallbackThrows, Next, ReplicaStep
<1>4. \A q \in Replicas : stage[q] # "none" => pc'[q] = pc[q] /\ msg'[q] = msg[q]
  BY <1>1, <1>2 DEF PInv, IInv, TypeOK
<1>5. QED
  BY <1>1, <1>2, <1>3, <1>4, OutsideStep

LEMMA QueueStepStep == ASSUME PInv, QueueStep PROVE PInv'
<1>1. /\ UNCHANGED <<stage, attempt, results, spent, dayCost, audit, billed, faults>>
      /\ faults' \subseteq Faults /\ Next
  BY QueueStepIsNext DEF QueueStep, pipelineVars, PInv, PipelineTypeOK
<1>2. \A q \in Replicas : stage[q] # "none" => pc'[q] = pc[q] /\ msg'[q] = msg[q]
  <2>1. ASSUME NEW m \in Messages, Enqueue(m) \/ LockExpires(m)
        PROVE  pc' = pc /\ msg' = msg
    BY <2>1 DEF Enqueue, LockExpires, workerVars
  <2>2. ASSUME NEW r \in Replicas,
               \/ Receive(r) \/ ShortCircuit(r) \/ Poison(r) \/ RecordOutcome(r)
               \/ Settle(r) \/ Restart(r)
               \/ pc[r] \in {"lookup", "run"} /\ ~Pipelined(r)
                  /\ (StartRun(r) \/ RunSucceeds(r))
        PROVE  stage[r] = "none" /\ OthersInQueue(r)
    <3>1. pc[r] # "run" \/ ~Pipelined(r)
      BY <2>2 DEF Receive, ShortCircuit, Poison, RecordOutcome, Settle, Restart
    <3>2. OthersInQueue(r)
      BY <2>2 DEF Receive, ShortCircuit, Poison, RecordOutcome, Settle, Restart,
         StartRun, RunSucceeds, SettleWith, ToIdle, OthersInQueue, PInv, IInv, TypeOK
    <3>3. QED
      BY <3>1, <3>2 DEF PInv, InPipeline
  <2>3. QED
    BY <2>1, <2>2 DEF QueueStep, OthersInQueue
<1>3. QED
  BY <1>1, <1>2, OutsideStep

LEMMA PipelineExitStep == ASSUME PInv, NEW r \in Replicas, Exit(r) PROVE PInv'
<1>1. /\ stage' = [stage EXCEPT ![r] = "none"]
      /\ attempt' = [attempt EXCEPT ![r] = 0]
      /\ results' = [results EXCEPT ![r] = {}]
      /\ spent' = [spent EXCEPT ![r] = 0]
      /\ dayCost' = [dayCost EXCEPT ![r] = 0]
      /\ billed' = [billed EXCEPT ![r] = 0]
      /\ faults' = faults
  BY DEF Exit, ForgetRun
<1>2. OthersInQueue(r) /\ Next
  BY DEF Exit, Crash, SettleRejected, ToIdle, OthersInQueue, Next, ReplicaStep,
     PInv, IInv, TypeOK
<1>3. IInv'
  BY <1>2, StepInv DEF PInv
<1>4. Ledgers'
  BY <1>1 DEF PInv, Ledgers, SpendCharged
<1>5. \A q \in Replicas : InPipeline(q)'
  BY <1>1, <1>2 DEF PInv, InPipeline, PipelineTypeOK, Pipelined, Key, OthersInQueue
<1>6. audit' \in [Stores -> SUBSET AuditRows]
  BY DEF Exit, ForgetRun, PInv, PipelineTypeOK
<1>7. PipelineTypeOK'
  BY <1>1, <1>4, <1>5, <1>6, PipelineAssumption
     DEF PInv, PipelineTypeOK, Ledgers, InPipeline, Stages
<1>8. QED
  BY <1>3, <1>4, <1>5, <1>7 DEF PInv

LEMMA PipelineStepInv == PInv /\ [PipelineNext]_allVars => PInv'
<1> SUFFICES ASSUME PInv, [PipelineNext]_allVars PROVE PInv'
  OBVIOUS
<1>1. CASE UNCHANGED allVars
  BY <1>1, OutsideStep DEF allVars, vars, pipelineVars, PInv, PipelineTypeOK
<1>2. ASSUME NEW r \in Replicas, PipelineStep(r) PROVE PInv'
  BY <1>2, BeginStep, CallRejectsStep, HaltStep, ClassifyStep, ActStep, ReconcileStep,
     JudgeStep, GatewayCommitsStep, CommitReturnsStep, GatewayRefusesStep,
     FlowAnswersStep, FallbackThrowsStep DEF PipelineStep
<1>3. QED
  BY <1>1, <1>2, QueueStepStep, PipelineExitStep DEF PipelineNext

THEOREM PipelineInductiveInvariant == PipelineSpec => []PInv
BY PipelineInitInv, PipelineStepInv, PTL DEF PipelineSpec

\* The pipeline's state keeps its shape, and a replica is inside one only while
\* it runs an item that has one.
THEOREM PipelineTypeCorrect == PipelineSpec => []PipelineTypeOK
<1>1. PInv => PipelineTypeOK
  BY DEF PInv
<1>2. QED
  BY <1>1, PipelineInductiveInvariant, PTL

\* What the models billed is what the ledgers hold, at any price and for any
\* ending of the runs, and an item at its cap makes no further call, in any
\* attempt (item-pipeline.ts:179-190, 470-474).
THEOREM SpendIsAccounted == PipelineSpec => []SpendAccounted
<1>1. PInv => SpendAccounted
  BY DEF PInv, Ledgers, InPipeline, SpendAccounted, NoCallOverCap
<1>2. QED
  BY <1>1, PipelineInductiveInvariant, PTL
-------------------------------------------------------------------------------
(***************************************************************************)
(* The trail: what stands on the shared audit file when an effect leaves   *)
(* the pipeline and when an item is dead-lettered.                         *)
(*                                                                         *)
(* Rows are only ever added.  A chain whose first check is never sampled   *)
(* out writes all of its rows or none: the first of them is there whenever *)
(* any is (Led), so that no second chain adds to an attempt's verdicts     *)
(* (OneVerdict).                                                           *)
(***************************************************************************)
Judged(trail, c, n, verdict) ==
  \E x \in trail : /\ x.kind = "verify" /\ x.tool = "composite"
                   /\ x.correlation = c /\ x.attempt = n /\ x.passed = verdict

Explained(trail, reason, c) ==
  /\ reason = "BUDGET_EXCEEDED" =>
       \E x \in trail : x.kind = "budget" /\ x.correlation = c
  /\ reason = "ESCALATION_UNRESOLVED" =>
       \E x \in trail : x.kind = "escalation" /\ x.correlation = c
  /\ reason = "VERIFICATION_FAILED" =>
       \A n \in 1 .. MaxAttempts : Judged(trail, c, n, FALSE)

Complete(res, verifiers) ==
  /\ \A x \in res : x.tool \in Verifiers
  /\ \A v \in verifiers : \E x \in res : x.tool = v

FirstTool == IF "schema" \in Verifiers THEN "schema"
             ELSE IF "reconcile" \in Verifiers THEN "reconcile" ELSE "composite"

SameAttempt(x, y) ==
  /\ x.kind = "verify" /\ y.kind = "verify"
  /\ x.correlation = y.correlation /\ x.attempt = y.attempt

Led(trail) ==
  \A x \in trail : x.kind = "verify" =>
    \E y \in trail : SameAttempt(x, y) /\ y.tool = FirstTool

OneVerdict(trail) ==
  \A x, y \in trail :
    SameAttempt(x, y) /\ y.tool = "composite" /\ y.passed => x.passed

\* What a replica in a pipeline, or about to settle, has on the trail.
OnTrail(r) ==
  /\ stage[r] # "none" =>
       \A n \in 1 .. attempt[r] - 1 : Judged(audit[Table], Correlation(r), n, FALSE)
  /\ pc[r] = "settle" => Explained(audit[Table], settlement[r], Correlation(r))
  /\ stage[r] \in {"commit", "committed"} =>
       Judged(audit[Table], Correlation(r), attempt[r], TRUE)
  /\ stage[r] = "reconcile" => Complete(results[r], Verifiers \cap {"schema"})
  /\ stage[r] = "reconcile" => "reconcile" \in Verifiers
  /\ stage[r] = "judge" => Complete(results[r], Verifiers \ {"judge"})
  /\ stage[r] = "judge" => "judge" \in Verifiers

TrailInv ==
  /\ \A r \in Replicas : OnTrail(r)
  /\ \A m \in Messages : Explained(audit[Table], queue[m].reason, CorrelationOf[m])
  /\ \A e \in effects : Judged(audit[Table], e.correlation, e.attempt, TRUE)
  /\ Verifiers # {"judge"} => Led(audit[Table]) /\ OneVerdict(audit[Table])

-------------------------------------------------------------------------------
\* What more rows do not take away.
LEMMA JudgedStays ==
  ASSUME NEW old, NEW new, old \subseteq new, NEW c, NEW n, NEW v, Judged(old, c, n, v)
  PROVE  Judged(new, c, n, v)
BY DEF Judged

LEMMA ExplainedStays ==
  ASSUME NEW old, NEW new, old \subseteq new, NEW reason, NEW c, Explained(old, reason, c)
  PROVE  Explained(new, reason, c)
BY JudgedStays DEF Explained

\* Rows of budgets and escalations are no verdicts.
LEMMA OtherRowsKeepVerdicts ==
  ASSUME NEW old, NEW row, row.kind # "verify", Led(old), OneVerdict(old)
  PROVE  Led(old \cup {row}) /\ OneVerdict(old \cup {row})
BY DEF Led, OneVerdict, SameAttempt

\* A step of r on the trail: rows are added, effects are those before.
Grows == audit[Table] \subseteq audit'[Table]

VerdictsKept ==
  Verifiers # {"judge"} =>
    (Led(audit[Table]) /\ OneVerdict(audit[Table]) =>
       Led(audit'[Table]) /\ OneVerdict(audit'[Table]))

Added == Grows /\ VerdictsKept

\* Whom a step does not move it leaves on the trail.
Elsewhere(r) ==
  \A q \in Replicas \ {r} :
    /\ pc'[q] = pc[q] /\ msg'[q] = msg[q] /\ settlement'[q] = settlement[q]
    /\ stage'[q] = stage[q] /\ attempt'[q] = attempt[q] /\ results'[q] = results[q]

LEMMA OnTrailStays ==
  ASSUME NEW q \in Replicas, OnTrail(q), Grows,
         pc'[q] = pc[q], msg'[q] = msg[q], settlement'[q] = settlement[q],
         stage'[q] = stage[q], attempt'[q] = attempt[q], results'[q] = results[q]
  PROVE  OnTrail(q)'
<1>1. Correlation(q)' = Correlation(q)
  BY DEF Correlation
<1>2. ASSUME NEW n, NEW v, Judged(audit[Table], Correlation(q), n, v)
      PROVE  Judged(audit'[Table], Correlation(q), n, v)
  BY <1>2, JudgedStays DEF Grows
<1>3. Explained(audit[Table], settlement[q], Correlation(q)) =>
        Explained(audit'[Table], settlement[q], Correlation(q))
  BY ExplainedStays DEF Grows
<1> QED BY <1>1, <1>2, <1>3 DEF OnTrail

\* A step that moves r, kills no message and has no effect of its own.
LEMMA TrailFrame ==
  ASSUME TrailInv, NEW r \in Replicas, Added, Elsewhere(r), OnTrail(r)',
         UNCHANGED <<queue, effects>>
  PROVE  TrailInv'
<1>1. \A q \in Replicas : OnTrail(q)'
  BY OnTrailStays DEF TrailInv, Added, Elsewhere
<1>2. \A m \in Messages : Explained(audit'[Table], queue[m].reason, CorrelationOf[m])
  BY ExplainedStays DEF TrailInv, Added, Grows
<1>3. \A e \in effects : Judged(audit'[Table], e.correlation, e.attempt, TRUE)
  BY JudgedStays DEF TrailInv, Added, Grows
<1>4. Verifiers # {"judge"} => Led(audit'[Table]) /\ OneVerdict(audit'[Table])
  BY DEF TrailInv, Added, VerdictsKept
<1> QED BY <1>1, <1>2, <1>3, <1>4 DEF TrailInv

LEMMA NothingAdded ==
  ASSUME UNCHANGED audit PROVE Added
BY DEF Added, Grows, VerdictsKept

LEMMA RowsAdded ==
  ASSUME PInv, DurableAudit, NEW r \in Replicas, NEW rows, InsertRows(r, rows)
  PROVE  audit'[Table] = audit[Table] \cup rows
BY DEF PInv, PipelineTypeOK, InsertRows, AuditOf, Stores

LEMMA RowAdded ==
  ASSUME PInv, DurableAudit, NEW r \in Replicas, NEW row, row.kind # "verify",
         InsertRows(r, {row})
  PROVE  Added /\ row \in audit'[Table]
<1>1. audit'[Table] = audit[Table] \cup {row}
  BY RowsAdded
<1> QED BY <1>1, OtherRowsKeepVerdicts DEF Added, Grows, VerdictsKept

\* The ways a step of a run leaves the trail: the run goes on, settles, or has
\* succeeded.
LEMMA GoOnTrail ==
  ASSUME PInv, TrailInv, NEW r \in Replicas, stage[r] # "none", Added,
         NEW next, NEW n, NEW res, NEW cost, GoOn(r, next, n, res, cost),
         \A k \in 1 .. n - 1 : Judged(audit'[Table], Correlation(r), k, FALSE),
         next \in {"commit", "committed"} => Judged(audit'[Table], Correlation(r), n, TRUE),
         next = "reconcile" => "reconcile" \in Verifiers /\ Complete(res, Verifiers \cap {"schema"}),
         next = "judge" => "judge" \in Verifiers /\ Complete(res, Verifiers \ {"judge"})
  PROVE  TrailInv'
<1>1. /\ stage' = [stage EXCEPT ![r] = next] /\ attempt' = [attempt EXCEPT ![r] = n]
      /\ results' = [results EXCEPT ![r] = res]
      /\ UNCHANGED <<queue, effects, pc, msg, settlement>>
  BY DEF GoOn, vars
<1>2. /\ stage'[r] = next /\ attempt'[r] = n /\ results'[r] = res
      /\ pc'[r] # "settle" /\ Correlation(r)' = Correlation(r)
  BY <1>1 DEF PInv, PipelineTypeOK, InPipeline, Correlation
<1>3. OnTrail(r)'
  BY <1>2 DEF OnTrail
<1>4. Elsewhere(r)
  BY <1>1 DEF Elsewhere
<1> QED BY <1>1, <1>3, <1>4, TrailFrame

LEMMA LeaveTrail ==
  ASSUME PInv, TrailInv, NEW r \in Replicas, Added, NEW cost, Leave(r, cost),
         UNCHANGED <<queue, msg>>,
         \A q \in Replicas \ {r} : pc'[q] = pc[q] /\ settlement'[q] = settlement[q],
         pc'[r] = "settle" => Explained(audit'[Table], settlement'[r], Correlation(r))
  PROVE  TrailInv'
<1>1. /\ stage' = [stage EXCEPT ![r] = "none"] /\ attempt' = [attempt EXCEPT ![r] = 0]
      /\ results' = [results EXCEPT ![r] = {}] /\ UNCHANGED effects
  BY DEF Leave
<1>2. stage'[r] = "none" /\ Correlation(r)' = Correlation(r)
  BY <1>1 DEF PInv, PipelineTypeOK, Correlation
<1>3. OnTrail(r)'
  BY <1>2 DEF OnTrail
<1>4. Elsewhere(r)
  BY <1>1 DEF Elsewhere
<1> QED BY <1>1, <1>3, <1>4, TrailFrame

LEMMA SettleTrail ==
  ASSUME PInv, TrailInv, NEW r \in Replicas, Added, NEW cost, Leave(r, cost),
         NEW s, SettleWith(r, s), UNCHANGED queue,
         Explained(audit'[Table], s, Correlation(r))
  PROVE  TrailInv'
<1>1. /\ UNCHANGED msg /\ settlement'[r] = s
      /\ \A q \in Replicas \ {r} : pc'[q] = pc[q] /\ settlement'[q] = settlement[q]
  BY DEF SettleWith, PInv, IInv, TypeOK
<1> QED BY <1>1, LeaveTrail

LEMMA ThrowTrail ==
  ASSUME PInv, TrailInv, NEW r \in Replicas, Added, NEW cost, Throw(r, cost)
  PROVE  TrailInv'
<1>1. Explained(audit'[Table], "abandon", Correlation(r))
  BY DEF Explained
<1> QED BY <1>1, SettleTrail DEF Throw, RunThrows, brokerVars

LEMMA DeadLetterTrail ==
  ASSUME PInv, TrailInv, NEW r \in Replicas, Added, NEW reason, NEW cost,
         DeadLetterAs(r, reason, cost), Explained(audit'[Table], reason, Correlation(r))
  PROVE  TrailInv'
<1>1. PICK s \in PipelineDeadLetterReasons : SettleWith(r, s)
  BY DEF DeadLetterAs, PipelineDeadLetters
<1>2. s = reason
  BY <1>1 DEF SettleWith, DeadLetterAs, PInv, IInv, TypeOK
<1> QED BY <1>1, <1>2, SettleTrail DEF DeadLetterAs, PipelineDeadLetters, brokerVars

LEMMA SucceedTrail ==
  ASSUME PInv, TrailInv, NEW r \in Replicas, Added, NEW cost, RunSucceeds(r), Leave(r, cost)
  PROVE  TrailInv'
<1>1. /\ UNCHANGED <<queue, msg, settlement>> /\ pc'[r] = "record"
      /\ \A q \in Replicas \ {r} : pc'[q] = pc[q]
  BY DEF RunSucceeds, brokerVars, PInv, IInv, TypeOK
<1> QED BY <1>1, LeaveTrail

LEMMA EscalateTrail ==
  ASSUME PInv, TrailInv, NEW r \in Replicas, stage[r] # "none", Added,
         NEW cost, Escalate(r, cost)
  PROVE  TrailInv'
<1>1. ASSUME NEW k \in 1 .. attempt[r] - 1
      PROVE  Judged(audit'[Table], Correlation(r), k, FALSE)
  BY JudgedStays DEF TrailInv, OnTrail, Added, Grows
<1>2. Explained(audit'[Table], "ESCALATION_UNARMED", Correlation(r))
  BY DEF Explained
<1>3. CASE GoOn(r, "escalate", attempt[r], {}, cost)
  BY <1>1, <1>3, GoOnTrail
<1> QED BY <1>2, <1>3, DeadLetterTrail DEF Escalate

\* The rows of a chain whose verifiers ran as far as `res` says.
LEMMA ChainRows ==
  ASSUME NEW r \in Replicas, NEW res \in SUBSET Results, Complete(res, Verifiers \ {"judge"})
  PROVE  /\ \A x \in VerifyRows(r, res) :
              /\ x.kind = "verify" /\ x.correlation = Correlation(r) /\ x.attempt = attempt[r]
              /\ x.tool \in Verifiers \cup {"composite"}
              /\ x.tool = "composite" => x.passed = AllPassed(res)
              /\ AllPassed(res) => x.passed
         /\ \E x \in VerifyRows(r, res) : x.tool = "composite"
         /\ Verifiers # {"judge"} => \E x \in VerifyRows(r, res) : x.tool = FirstTool
<1> DEFINE Row(x) == [kind |-> "verify", correlation |-> Correlation(r), tool |-> x.tool,
                      attempt |-> attempt[r], passed |-> x.passed]
           last == [tool |-> "composite", passed |-> AllPassed(res)]
<1>1. VerifyRows(r, res) = {Row(x) : x \in res \cup {last}}
  BY DEF VerifyRows
<1>2. \A x \in res : x.tool \in Verifiers /\ x.tool # "composite" /\ (AllPassed(res) => x.passed)
  BY PipelineAssumption DEF Complete, AllPassed
<1>3. ASSUME NEW x \in VerifyRows(r, res)
      PROVE  /\ x.kind = "verify" /\ x.correlation = Correlation(r) /\ x.attempt = attempt[r]
             /\ x.tool \in Verifiers \cup {"composite"}
             /\ x.tool = "composite" => x.passed = AllPassed(res)
             /\ AllPassed(res) => x.passed
  <2>1. PICK y \in res \cup {last} : x = Row(y)
    BY <1>1
  <2>2. CASE y \in res
    BY <1>2, <2>1, <2>2
  <2>3. CASE y = last
    BY <2>1, <2>3
  <2> QED BY <2>1, <2>2, <2>3
<1>4. Row(last) \in VerifyRows(r, res) /\ Row(last).tool = "composite"
  BY <1>1
<1>5. Verifiers # {"judge"} => \E x \in VerifyRows(r, res) : x.tool = FirstTool
  <2>1. CASE FirstTool = "composite"
    BY <1>4, <2>1
  <2>2. CASE FirstTool # "composite"
    <3>1. FirstTool \in Verifiers \ {"judge"}
      BY <2>2 DEF FirstTool
    <3>2. PICK x \in res : x.tool = FirstTool
      BY <3>1 DEF Complete
    <3> QED BY <1>1, <3>2
  <2> QED BY <2>1, <2>2
<1> QED BY <1>3, <1>4, <1>5

\* Nothing comes before the first check of a chain that has one.
LEMMA FirstIsFirst ==
  ASSUME Verifiers # {"judge"}, NEW tool \in Verifiers \cup {"composite"}
  PROVE  ChainRank[FirstTool] <= ChainRank[tool]
<1>1. tool \in {"schema", "reconcile", "judge", "composite"}
  BY PipelineAssumption
<1>2. tool = "judge" => "schema" \in Verifiers \/ "reconcile" \in Verifiers
  BY PipelineAssumption
<1> QED BY <1>1, <1>2 DEF ChainRank, FirstTool

\* The chain's rows are all written, or some were there already.
Inserted(r, rows) ==
  {row \in rows : \A other \in rows :
     ChainRank[other.tool] <= ChainRank[row.tool] => ~Taken(r, other)}

LEMMA ChainInserts ==
  ASSUME PInv, DurableAudit, NEW r \in Replicas, NEW res \in SUBSET Results,
         Complete(res, Verifiers \ {"judge"}),
         InsertRows(r, Inserted(r, VerifyRows(r, res)))
  PROVE  /\ Added
         /\ Inserted(r, VerifyRows(r, res)) = VerifyRows(r, res) =>
              Judged(audit'[Table], Correlation(r), attempt[r], AllPassed(res))
<1> DEFINE rows == VerifyRows(r, res)
           new == Inserted(r, rows)
           trail == audit[Table]
<1>1. audit'[Table] = trail \cup new
  BY RowsAdded
<1>2. /\ \A x \in rows :
           /\ x.kind = "verify" /\ x.correlation = Correlation(r) /\ x.attempt = attempt[r]
           /\ x.tool \in Verifiers \cup {"composite"}
           /\ x.tool = "composite" => x.passed = AllPassed(res)
           /\ AllPassed(res) => x.passed
      /\ \E x \in rows : x.tool = "composite"
      /\ Verifiers # {"judge"} => \E x \in rows : x.tool = FirstTool
  BY ChainRows
<1> HIDE DEF rows, new
<1>3. new = rows => Judged(audit'[Table], Correlation(r), attempt[r], AllPassed(res))
  BY <1>1, <1>2 DEF Judged
<1>4. ASSUME Verifiers # {"judge"}, Led(trail), OneVerdict(trail)
      PROVE  Led(audit'[Table]) /\ OneVerdict(audit'[Table])
  <2>1. PICK f \in rows : f.tool = FirstTool
    BY <1>2, <1>4
  <2>2. \A x \in rows : ChainRank[f.tool] <= ChainRank[x.tool]
    BY <1>2, <1>4, <2>1, FirstIsFirst
  <2>3. CASE Taken(r, f)
    <3>1. new = {}
      BY <2>2, <2>3 DEF new, Inserted
    <3> QED BY <1>1, <1>4, <3>1
  <2>4. CASE ~Taken(r, f)
    <3>1. ASSUME NEW y \in trail PROVE ~SameAttempt(f, y)
      <4> SUFFICES ASSUME SameAttempt(f, y) PROVE FALSE
        OBVIOUS
      <4>1. PICK z \in trail : SameAttempt(y, z) /\ z.tool = FirstTool
        BY <1>4 DEF Led, SameAttempt
      <4>2. z.kind = f.kind /\ z.correlation = f.correlation /\ VerifyId(z) = VerifyId(f)
        BY <2>1, <4>1 DEF SameAttempt, VerifyId
      <4> QED BY <2>4, <4>2 DEF Taken, AuditOf
    <3>2. ASSUME NEW x \in rows, NEW y \in trail PROVE ~SameAttempt(x, y) /\ ~SameAttempt(y, x)
      BY <1>2, <3>1 DEF SameAttempt
    <3>3. ASSUME NEW x \in rows, NEW y \in trail, y.kind = "verify" PROVE
            y.correlation = x.correlation /\ y.attempt = x.attempt => FALSE
      BY <1>2, <3>2, <3>3 DEF SameAttempt
    <3>4. new \subseteq rows
      BY DEF new, Inserted
    <3>5. Led(audit'[Table])
      <4>1. \A x \in new : SameAttempt(x, f)
        BY <1>2, <3>4 DEF SameAttempt
      <4>2. new # {} => f \in new
        BY <2>2, <2>4, <3>3, <1>2 DEF new, Inserted, Taken, VerifyId, AuditOf
      <4> QED BY <1>1, <1>4, <2>1, <4>1, <4>2 DEF Led
    <3>6. OneVerdict(audit'[Table])
      BY <1>1, <1>2, <1>4, <3>2, <3>4 DEF OneVerdict
    <3> QED BY <3>5, <3>6
  <2> QED BY <2>3, <2>4
<1>5. Added
  BY <1>1, <1>4 DEF Added, Grows, VerdictsKept
<1> QED BY <1>3, <1>5 DEF rows, new

LEMMA AfterAttemptTrail ==
  ASSUME PInv, TrailInv, NEW r \in Replicas, stage[r] # "none", Added,
         NEW res, NEW cost, AfterAttempt(r, res, cost),
         Judged(audit'[Table], Correlation(r), attempt[r], AllPassed(res))
  PROVE  TrailInv'
<1>1. /\ attempt[r] \in 1 .. MaxAttempts /\ AllPassed(res) \in BOOLEAN
      /\ attempt[r] \in Nat /\ MaxAttempts \in Nat
  BY PipelineAssumption DEF PInv, InPipeline, AllPassed
<1>2. ASSUME NEW k \in 1 .. attempt[r] - 1
      PROVE  Judged(audit'[Table], Correlation(r), k, FALSE)
  BY JudgedStays DEF TrailInv, OnTrail, Added, Grows
<1>3. CASE AllPassed(res) /\ GoOn(r, "commit", attempt[r], res, cost)
  <2>1. AllPassed(res) = TRUE
    BY <1>3
  <2> QED BY <1>2, <1>3, <2>1, GoOnTrail
<1>4. ASSUME ~AllPassed(res), NEW k \in 1 .. attempt[r]
      PROVE  Judged(audit'[Table], Correlation(r), k, FALSE)
  <2>1. AllPassed(res) = FALSE
    BY <1>4
  <2>2. k \in 1 .. attempt[r] - 1 \/ k = attempt[r]
    BY <1>1
  <2> QED BY <1>2, <2>1, <2>2
<1>5. CASE ~AllPassed(res) /\ GoOn(r, "act", attempt[r] + 1, {}, cost)
  <2> DEFINE n == attempt[r] + 1
  <2>1. n - 1 = attempt[r] /\ GoOn(r, "act", n, {}, cost)
    BY <1>1, <1>5
  <2> HIDE DEF n
  <2>2. \A k \in 1 .. n - 1 : Judged(audit'[Table], Correlation(r), k, FALSE)
    BY <1>4, <1>5, <2>1
  <2> QED BY <2>1, <2>2, GoOnTrail
<1>6. CASE Escalate(r, cost)
  BY <1>6, EscalateTrail
<1>7. CASE /\ ~AllPassed(res) /\ attempt[r] = MaxAttempts
           /\ DeadLetterAs(r, "VERIFICATION_FAILED", cost)
  <2>1. Explained(audit'[Table], "VERIFICATION_FAILED", Correlation(r))
    BY <1>4, <1>7 DEF Explained
  <2> QED BY <1>7, <2>1, DeadLetterTrail
<1> QED BY <1>3, <1>5, <1>6, <1>7 DEF AfterAttempt

LEMMA ChainEndsTrail ==
  ASSUME PInv, TrailInv, DurableAudit, NEW r \in Replicas, stage[r] # "none",
         NEW res \in SUBSET Results, Complete(res, Verifiers \ {"judge"}),
         NEW cost, ChainEnds(r, res, cost)
  PROVE  TrailInv'
<1>1. /\ InsertRows(r, Inserted(r, VerifyRows(r, res)))
      /\ \/ /\ Inserted(r, VerifyRows(r, res)) = VerifyRows(r, res)
            /\ AfterAttempt(r, res, cost)
         \/ Throw(r, cost)
  BY DEF ChainEnds, Inserted
<1> QED BY <1>1, ChainInserts, AfterAttemptTrail, ThrowTrail

LEMMA AfterReconcileTrail ==
  ASSUME PInv, TrailInv, DurableAudit, NEW r \in Replicas, stage[r] # "none",
         NEW res \in SUBSET Results, Complete(res, Verifiers \ {"judge"}),
         NEW cost, AfterReconcile(r, res, cost)
  PROVE  TrailInv'
<1>1. CASE /\ "judge" \in Verifiers /\ GoOn(r, "judge", attempt[r], res, cost)
           /\ UNCHANGED audit
  <2>1. \A k \in 1 .. attempt[r] - 1 : Judged(audit'[Table], Correlation(r), k, FALSE)
    BY <1>1 DEF TrailInv, OnTrail
  <2> QED BY <1>1, <2>1, NothingAdded, GoOnTrail
<1> QED BY <1>1, ChainEndsTrail DEF AfterReconcile

LEMMA ActTrail ==
  ASSUME PInv, TrailInv, DurableAudit, NEW r \in Replicas, Act(r) PROVE TrailInv'
<1>1. PICK price \in CallCosts,
           res \in IF "schema" \in Verifiers
                     THEN {{[tool |-> "schema", passed |-> b]} : b \in BOOLEAN}
                     ELSE {{}} :
        \/ /\ "reconcile" \in Verifiers
           /\ GoOn(r, "reconcile", attempt[r], res, spent[r] + price)
           /\ UNCHANGED audit
        \/ /\ "reconcile" \notin Verifiers
           /\ AfterReconcile(r, res, spent[r] + price)
  BY DEF Act
<1>2. stage[r] # "none" /\ res \in SUBSET Results
  BY DEF Act, Results, Tools
<1>3. Complete(res, Verifiers \cap {"schema"})
  <2>1. CASE "schema" \in Verifiers
    <3>1. PICK b \in BOOLEAN : res = {[tool |-> "schema", passed |-> b]}
      BY <2>1
    <3> QED BY <2>1, <3>1 DEF Complete
  <2>2. CASE "schema" \notin Verifiers
    <3>1. res = {}
      BY <2>2
    <3> QED BY <2>2, <3>1 DEF Complete
  <2> QED BY <2>1, <2>2
<1>4. "reconcile" \notin Verifiers => Complete(res, Verifiers \ {"judge"})
  BY <1>3, PipelineAssumption DEF Complete
<1>5. CASE /\ "reconcile" \in Verifiers /\ UNCHANGED audit
           /\ GoOn(r, "reconcile", attempt[r], res, spent[r] + price)
  <2>1. \A k \in 1 .. attempt[r] - 1 : Judged(audit'[Table], Correlation(r), k, FALSE)
    BY <1>2, <1>5 DEF TrailInv, OnTrail
  <2> QED BY <1>2, <1>3, <1>5, <2>1, NothingAdded, GoOnTrail
<1> QED BY <1>1, <1>2, <1>4, <1>5, AfterReconcileTrail

LEMMA ReconcileTrail ==
  ASSUME PInv, TrailInv, DurableAudit, NEW r \in Replicas, Reconcile(r) PROVE TrailInv'
<1>1. PICK passed \in BOOLEAN :
        AfterReconcile(r, results[r] \cup {[tool |-> "reconcile", passed |-> passed]}, spent[r])
  BY DEF Reconcile
<1> DEFINE res == results[r] \cup {[tool |-> "reconcile", passed |-> passed]}
<1>2. stage[r] # "none" /\ res \in SUBSET Results
  BY DEF Reconcile, PInv, PipelineTypeOK, Results, Tools
<1>3. /\ "reconcile" \in Verifiers
      /\ Complete(results[r], Verifiers \cap {"schema"})
  BY DEF Reconcile, TrailInv, OnTrail
<1>4. Complete(res, Verifiers \ {"judge"})
  <2>1. \A x \in res : x.tool \in Verifiers
    BY <1>3 DEF Complete
  <2>2. ASSUME NEW v \in Verifiers \ {"judge"} PROVE \E x \in res : x.tool = v
    <3>1. CASE v = "schema"
      BY <1>3, <3>1 DEF Complete
    <3>2. CASE v = "reconcile"
      <4>1. [tool |-> "reconcile", passed |-> passed] \in res
        OBVIOUS
      <4> QED BY <3>2, <4>1
    <3> QED BY <3>1, <3>2, PipelineAssumption
  <2> QED BY <2>1, <2>2 DEF Complete
<1> QED BY <1>1, <1>2, <1>4, AfterReconcileTrail

LEMMA JudgeTrail ==
  ASSUME PInv, TrailInv, DurableAudit, NEW r \in Replicas, Judge(r) PROVE TrailInv'
<1>1. PICK price \in CallCosts, passed \in BOOLEAN :
        ChainEnds(r, results[r] \cup {[tool |-> "judge", passed |-> passed]}, spent[r] + price)
  BY DEF Judge
<1> DEFINE res == results[r] \cup {[tool |-> "judge", passed |-> passed]}
<1>2. stage[r] # "none" /\ res \in SUBSET Results
  BY DEF Judge, PInv, PipelineTypeOK, Results, Tools
<1>3. "judge" \in Verifiers /\ Complete(results[r], Verifiers \ {"judge"})
  BY DEF Judge, TrailInv, OnTrail
<1>4. Complete(res, Verifiers \ {"judge"})
  BY <1>3 DEF Complete
<1> QED BY <1>1, <1>2, <1>4, ChainEndsTrail

LEMMA HaltTrail ==
  ASSUME PInv, TrailInv, DurableAudit, NEW r \in Replicas, Halt(r) PROVE TrailInv'
<1>1. PICK cost :
        \/ /\ InsertRows(r, {BudgetRow(r)})
           /\ DeadLetterAs(r, "BUDGET_EXCEEDED", cost)
        \/ Throw(r, cost) /\ UNCHANGED audit
  BY DEF Halt
<1>2. CASE InsertRows(r, {BudgetRow(r)}) /\ DeadLetterAs(r, "BUDGET_EXCEEDED", cost)
  <2>1. Added /\ BudgetRow(r) \in audit'[Table]
    BY <1>2, RowAdded DEF BudgetRow
  <2>2. Explained(audit'[Table], "BUDGET_EXCEEDED", Correlation(r))
    BY <2>1 DEF Explained, BudgetRow
  <2> QED BY <1>2, <2>1, <2>2, DeadLetterTrail
<1> QED BY <1>1, <1>2, NothingAdded, ThrowTrail

LEMMA FlowAnswersTrail ==
  ASSUME PInv, TrailInv, DurableAudit, NEW r \in Replicas, FlowAnswers(r) PROVE TrailInv'
<1>1. CASE Throw(r, spent[r]) /\ UNCHANGED audit
  BY <1>1, NothingAdded, ThrowTrail
<1>2. CASE InsertRows(r, {EscalationRow(r)})
  <2>1. Added /\ EscalationRow(r) \in audit'[Table]
    BY <1>2, RowAdded DEF EscalationRow
  <2>2. Explained(audit'[Table], "ESCALATION_UNRESOLVED", Correlation(r))
    BY <2>1 DEF Explained, EscalationRow
  <2> QED BY <1>1, <2>1, <2>2, DeadLetterTrail, SucceedTrail DEF FlowAnswers
<1> QED BY <1>1, <1>2 DEF FlowAnswers

LEMMA GatewayCommitsTrail ==
  ASSUME PInv, TrailInv, NEW r \in Replicas, GatewayCommits(r) PROVE TrailInv'
<1> DEFINE e == [key |-> Key(r), correlation |-> Correlation(r),
                 attempt |-> attempt[r], store |-> AuditOf(r)]
<1>1. /\ stage' = [stage EXCEPT ![r] = "committed"] /\ stage[r] = "commit"
      /\ effects' = effects \cup {e}
      /\ UNCHANGED <<queue, pc, msg, settlement, attempt, results, audit>>
  BY DEF GatewayCommits, vars
<1>2. Judged(audit[Table], Correlation(r), attempt[r], TRUE)
  BY <1>1 DEF TrailInv, OnTrail
<1>3. OnTrail(r)'
  <2>1. stage'[r] = "committed" /\ Correlation(r)' = Correlation(r)
    BY <1>1 DEF PInv, PipelineTypeOK, Correlation
  <2> QED BY <1>1, <1>2, <2>1 DEF TrailInv, OnTrail
<1>4. \A q \in Replicas : OnTrail(q)'
  <2>1. ASSUME NEW q \in Replicas \ {r} PROVE OnTrail(q)'
    BY <1>1, OnTrailStays DEF TrailInv, Grows
  <2> QED BY <1>3, <2>1
<1>5. Judged(audit[Table], e.correlation, e.attempt, TRUE)
  BY <1>2
<1> HIDE DEF e
<1>6. \A x \in effects' : Judged(audit'[Table], x.correlation, x.attempt, TRUE)
  BY <1>1, <1>5 DEF TrailInv
<1> QED BY <1>1, <1>4, <1>6 DEF TrailInv

LEMMA BeginTrail ==
  ASSUME PInv, TrailInv, NEW r \in Replicas, Begin(r) PROVE TrailInv'
<1>1. /\ stage' = [stage EXCEPT ![r] = IF HasClassify THEN "classify" ELSE "act"]
      /\ attempt' = [attempt EXCEPT ![r] = 1]
      /\ pc' = [pc EXCEPT ![r] = "run"]
      /\ UNCHANGED <<queue, effects, msg, settlement, results, audit>>
  BY DEF Begin, StartRun, brokerVars
<1>2. stage'[r] \in {"classify", "act"} /\ attempt'[r] = 1 /\ pc'[r] = "run"
  BY <1>1 DEF PInv, PipelineTypeOK, IInv, TypeOK
<1>3. OnTrail(r)'
  <2>1. 1 .. attempt'[r] - 1 = {}
    BY <1>2
  <2> QED BY <1>2, <2>1 DEF OnTrail
<1>4. Elsewhere(r)
  BY <1>1 DEF Elsewhere
<1> QED BY <1>1, <1>3, <1>4, NothingAdded, TrailFrame

LEMMA PipelineStepTrail ==
  ASSUME PInv, TrailInv, DurableAudit, NEW r \in Replicas, PipelineStep(r) PROVE TrailInv'
<1>1. CASE CallRejects(r)
  BY <1>1, NothingAdded, ThrowTrail DEF CallRejects
<1>2. CASE Classify(r)
  <2>1. PICK cost : GoOn(r, "act", 1, {}, cost) /\ UNCHANGED audit
    BY <1>2 DEF Classify
  <2>2. stage[r] # "none" /\ 1 .. 1 - 1 = {}
    BY <1>2 DEF Classify
  <2> QED BY <2>1, <2>2, NothingAdded, GoOnTrail
<1>3. CASE CommitReturns(r)
  BY <1>3, NothingAdded, SucceedTrail DEF CommitReturns
<1>4. CASE GatewayRefuses(r)
  BY <1>4, NothingAdded, EscalateTrail DEF GatewayRefuses
<1>5. CASE FallbackThrows(r)
  <2>1. /\ pc' = [pc EXCEPT ![r] = "settle"]
        /\ settlement' = [settlement EXCEPT ![r] = "abandon"]
        /\ UNCHANGED <<queue, effects, msg, stage, attempt, results, audit>>
    BY <1>5 DEF FallbackThrows, RunThrows, SettleWith, brokerVars
  <2>2. stage[r] = "none" /\ settlement'[r] = "abandon"
    BY <1>5, <2>1 DEF FallbackThrows, PInv, InPipeline, IInv, TypeOK
  <2>3. OnTrail(r)'
    BY <2>1, <2>2 DEF OnTrail, Explained
  <2>4. Elsewhere(r)
    BY <2>1 DEF Elsewhere
  <2> QED BY <2>1, <2>3, <2>4, NothingAdded, TrailFrame
<1> QED BY <1>1, <1>2, <1>3, <1>4, <1>5, BeginTrail, HaltTrail, ActTrail, ReconcileTrail,
          JudgeTrail, GatewayCommitsTrail, FlowAnswersTrail DEF PipelineStep

\* The queue's own steps claim nothing of the trail but what a settlement does.
Claims == {"BUDGET_EXCEEDED", "ESCALATION_UNRESOLVED", "VERIFICATION_FAILED"}

LEMMA NoClaim ==
  ASSUME NEW trail, NEW reason, reason \notin Claims, NEW c PROVE Explained(trail, reason, c)
BY DEF Explained, Claims

LEMMA QueueTrail ==
  ASSUME PInv, TrailInv, UNCHANGED <<stage, attempt, results, audit, effects>>,
         NEW r \in Replicas, stage[r] = "none",
         \A q \in Replicas \ {r} : pc'[q] = pc[q] /\ msg'[q] = msg[q] /\ settlement'[q] = settlement[q],
         pc'[r] = "settle" => settlement'[r] \notin Claims,
         \A m \in Messages : Explained(audit[Table], queue'[m].reason, CorrelationOf[m])
  PROVE  TrailInv'
<1>1. OnTrail(r)'
  <2>1. pc'[r] = "settle" => Explained(audit'[Table], settlement'[r], Correlation(r)')
    BY NoClaim
  <2> QED BY <2>1 DEF OnTrail
<1>2. \A q \in Replicas : OnTrail(q)'
  <2>1. ASSUME NEW q \in Replicas \ {r} PROVE OnTrail(q)'
    BY OnTrailStays DEF TrailInv, Grows
  <2> QED BY <1>1, <2>1
<1> QED BY <1>2 DEF TrailInv

LEMMA BrokerTrail ==
  ASSUME PInv, TrailInv, UNCHANGED pipelineVars, NEW m \in Messages,
         Enqueue(m) \/ LockExpires(m)
  PROVE  TrailInv'
<1>1. UNCHANGED <<pc, msg, settlement, stage, attempt, results, audit, effects>>
  BY DEF Enqueue, LockExpires, workerVars, pipelineVars
<1>2. queue[m] \in QueueEntries /\ queue \in [Messages -> QueueEntries]
  BY DEF PInv, IInv, TypeOK
<1>3. queue'[m].reason \in {queue[m].reason, "MaxDeliveryCountExceeded"}
  <2>1. CASE Enqueue(m)
    BY <1>2, <2>1 DEF Enqueue, QueueEntries
  <2>2. CASE LockExpires(m)
    <3>1. queue'[m] = Returned(queue[m])
      BY <1>2, <2>2 DEF LockExpires
    <3> QED BY <1>2, <3>1 DEF Returned, QueueEntries
  <2> QED BY <2>1, <2>2
<1>4. \A n \in Messages : n # m => queue'[n] = queue[n]
  BY <1>2 DEF Enqueue, LockExpires
<1>5. ASSUME NEW n \in Messages
      PROVE  Explained(audit[Table], queue'[n].reason, CorrelationOf[n])
  <2>1. "MaxDeliveryCountExceeded" \notin Claims
    BY DEF Claims
  <2>2. Explained(audit[Table], queue[n].reason, CorrelationOf[n])
    BY DEF TrailInv
  <2>3. Explained(audit[Table], "MaxDeliveryCountExceeded", CorrelationOf[n])
    BY <2>1, NoClaim
  <2> QED BY <1>3, <1>4, <2>2, <2>3
<1>6. \A q \in Replicas : OnTrail(q)'
  BY <1>1, OnTrailStays DEF TrailInv, Grows
<1> QED BY <1>1, <1>5, <1>6 DEF TrailInv

LEMMA ReceiveTrail ==
  ASSUME PInv, TrailInv, UNCHANGED pipelineVars, NEW r \in Replicas, Receive(r)
  PROVE  TrailInv'
<1>1. PICK m \in Messages :
        /\ queue' = [queue EXCEPT ![m].state = "locked", ![m].deliveryCount = @ + 1]
        /\ msg' = [msg EXCEPT ![r] = m]
        /\ \/ /\ pc' = [pc EXCEPT ![r] = "settle"]
              /\ settlement' = [settlement EXCEPT ![r] = "MALFORMED_ENVELOPE"]
           \/ /\ pc' = [pc EXCEPT ![r] = "lookup"]
              /\ UNCHANGED settlement
  BY DEF Receive
<1>2. UNCHANGED <<stage, attempt, results, audit, effects>> /\ pc[r] = "idle"
  BY DEF Receive, pipelineVars
<1>3. stage[r] = "none"
  BY <1>2 DEF PInv, InPipeline
<1>4. \A n \in Messages : queue'[n].reason = queue[n].reason
  BY <1>1 DEF PInv, IInv, TypeOK, QueueEntries
<1>5. \A n \in Messages : Explained(audit[Table], queue'[n].reason, CorrelationOf[n])
  BY <1>4 DEF TrailInv
<1>6. /\ pc \in [Replicas -> PcStates] /\ settlement \in [Replicas -> Settlements]
      /\ msg \in [Replicas -> Messages \cup {NoMessage}]
  BY DEF PInv, IInv, TypeOK
<1>7. pc'[r] = "settle" => settlement'[r] \notin Claims
  BY <1>1, <1>6 DEF Claims
<1>8. \A q \in Replicas \ {r} :
        pc'[q] = pc[q] /\ msg'[q] = msg[q] /\ settlement'[q] = settlement[q]
  BY <1>1, <1>6
<1> QED BY <1>2, <1>3, <1>5, <1>7, <1>8, QueueTrail

\* A settlement's reason was explained when it was decided.
LEMMA SettleCallTrail ==
  ASSUME PInv, TrailInv, UNCHANGED pipelineVars, NEW r \in Replicas, Settle(r)
  PROVE  TrailInv'
<1> DEFINE m == msg[r]
           s == settlement[r]
<1>1. /\ pc[r] = "settle" /\ ToIdle(r, "idle")
      /\ queue' = [queue EXCEPT ![m] = Settled(queue[m], s)]
      /\ UNCHANGED <<stage, attempt, results, audit, effects>>
  BY DEF Settle, pipelineVars
<1>2. /\ m \in Messages /\ queue[m] \in QueueEntries /\ s \in Settlements /\ s # "none"
      /\ queue \in [Messages -> QueueEntries]
  BY <1>1 DEF PInv, IInv, TypeOK, LocalInv, Local
<1>3. Explained(audit[Table], s, CorrelationOf[m])
  BY <1>1 DEF TrailInv, OnTrail, Correlation
<1>4. Settled(queue[m], s).reason \in {queue[m].reason, s, "MaxDeliveryCountExceeded"}
  <2>1. CASE s = "complete"
    BY <1>2, <2>1 DEF Settled, QueueEntries
  <2>2. CASE s = "abandon"
    <3>1. Settled(queue[m], s) = Returned(queue[m])
      BY <2>2 DEF Settled
    <3> QED BY <1>2, <3>1 DEF Returned, QueueEntries
  <2>3. CASE s \in DeadLetterReasons
    <3>1. Settled(queue[m], s) = [queue[m] EXCEPT !.state = "dead", !.reason = s]
      BY <2>3 DEF Settled, DeadLetterReasons
    <3> QED BY <1>2, <3>1 DEF QueueEntries
  <2> QED BY <1>2, <2>1, <2>2, <2>3 DEF Settlements
<1>5. /\ queue'[m] = Settled(queue[m], s)
      /\ \A n \in Messages : n # m => queue'[n] = queue[n]
  BY <1>1, <1>2
<1>6. ASSUME NEW n \in Messages
      PROVE  Explained(audit[Table], queue'[n].reason, CorrelationOf[n])
  <2>1. Explained(audit[Table], queue[n].reason, CorrelationOf[n])
    BY DEF TrailInv
  <2>2. Explained(audit[Table], "MaxDeliveryCountExceeded", CorrelationOf[n])
    BY NoClaim DEF Claims
  <2> QED BY <1>3, <1>4, <1>5, <2>1, <2>2
<1>7. /\ stage[r] = "none" /\ pc'[r] = "idle"
      /\ \A q \in Replicas \ {r} :
           pc'[q] = pc[q] /\ msg'[q] = msg[q] /\ settlement'[q] = settlement[q]
  BY <1>1 DEF ToIdle, PInv, InPipeline, IInv, TypeOK
<1> QED BY <1>1, <1>6, <1>7, QueueTrail

LEMMA ConsumeTrail ==
  ASSUME PInv, TrailInv, UNCHANGED pipelineVars, NEW r \in Replicas,
         \/ ShortCircuit(r) \/ Poison(r) \/ RecordOutcome(r) \/ Restart(r)
         \/ pc[r] \in {"lookup", "run"} /\ ~Pipelined(r) /\ (StartRun(r) \/ RunSucceeds(r))
  PROVE  TrailInv'
<1>1. /\ UNCHANGED <<queue, msg, stage, attempt, results, audit, effects>>
      /\ pc[r] # "run" \/ ~Pipelined(r)
  BY DEF ShortCircuit, Poison, RecordOutcome, Restart, StartRun, RunSucceeds, SettleWith,
     brokerVars, pipelineVars
<1>2. stage[r] = "none"
  BY <1>1 DEF PInv, InPipeline
<1>3. pc'[r] = "settle" => settlement'[r] \in {"complete", "POISON_MESSAGE"}
  BY DEF ShortCircuit, Poison, RecordOutcome, Restart, StartRun, RunSucceeds, SettleWith,
     PInv, IInv, TypeOK
<1>4. \A q \in Replicas \ {r} : pc'[q] = pc[q] /\ settlement'[q] = settlement[q]
  BY DEF ShortCircuit, Poison, RecordOutcome, Restart, StartRun, RunSucceeds, SettleWith,
     PInv, IInv, TypeOK
<1>5. \A m \in Messages : Explained(audit[Table], queue'[m].reason, CorrelationOf[m])
  BY <1>1 DEF TrailInv
<1> QED BY <1>1, <1>2, <1>3, <1>4, <1>5, QueueTrail DEF Claims

LEMMA ExitTrail ==
  ASSUME PInv, TrailInv, DurableAudit, NEW r \in Replicas, Exit(r) PROVE TrailInv'
<1>1. /\ stage' = [stage EXCEPT ![r] = "none"] /\ attempt' = [attempt EXCEPT ![r] = 0]
      /\ results' = [results EXCEPT ![r] = {}]
      /\ UNCHANGED <<queue, audit, effects>> /\ ToIdle(r, "down")
  BY DEF Exit, ForgetRun, Crash, SettleRejected, brokerVars
<1>2. stage'[r] = "none" /\ pc'[r] = "down"
  BY <1>1 DEF ToIdle, PInv, PipelineTypeOK, IInv, TypeOK
<1>3. OnTrail(r)'
  BY <1>2 DEF OnTrail
<1>4. Elsewhere(r)
  BY <1>1 DEF Elsewhere, ToIdle
<1> QED BY <1>1, <1>3, <1>4, NothingAdded, TrailFrame

LEMMA TrailStep == PInv /\ TrailInv /\ DurableAudit /\ [PipelineNext]_allVars => TrailInv'
<1> SUFFICES ASSUME PInv, TrailInv, DurableAudit, [PipelineNext]_allVars PROVE TrailInv'
  OBVIOUS
<1>1. CASE UNCHANGED allVars
  <2>1. UNCHANGED <<queue, pc, msg, settlement, stage, attempt, results, audit, effects>>
    BY <1>1 DEF allVars, vars, pipelineVars
  <2>2. \A q \in Replicas : OnTrail(q)'
    BY <2>1, OnTrailStays DEF TrailInv, Grows
  <2> QED BY <2>1, <2>2 DEF TrailInv
<1>2. CASE QueueStep
  BY <1>2, BrokerTrail, ReceiveTrail, SettleCallTrail, ConsumeTrail DEF QueueStep
<1> QED BY <1>1, <1>2, PipelineStepTrail, ExitTrail DEF PipelineNext

LEMMA TrailInit == PipelineInit => TrailInv
<1> SUFFICES ASSUME PipelineInit PROVE TrailInv
  OBVIOUS
<1>1. /\ audit[Table] = {} /\ effects = {}
      /\ \A r \in Replicas : stage[r] = "none" /\ pc[r] = "idle"
      /\ \A m \in Messages : queue[m].reason = "none"
  BY DEF PipelineInit, Init, Stores
<1> QED BY <1>1 DEF TrailInv, OnTrail, Explained, Led, OneVerdict

\* With the audit file the reason code of every dead letter is borne out by the
\* trail, whatever was redelivered, duplicated or cut short.
THEOREM ReasonsAreOnTheTrail == PipelineSpec => []DeadLettersAreAudited
<1>1. CASE DurableAudit
  <2>1. TrailInv => DeadLettersAreAudited
    BY DEF TrailInv, Explained, Judged, DeadLettersAreAudited
  <2>2. PInv /\ TrailInv /\ [PipelineNext]_allVars => TrailInv'
    BY <1>1, TrailStep
  <2> QED BY <2>1, <2>2, TrailInit, PipelineInductiveInvariant, PTL DEF PipelineSpec
<1>2. CASE ~DurableAudit
  <2>1. DeadLettersAreAudited
    BY <1>2 DEF DeadLettersAreAudited
  <2> QED BY <2>1, PTL
<1> QED BY <1>1, <1>2

\* With the audit file every effect stands on favourable verdicts of its own
\* attempt, unless a check that is sampled out is the chain's first.
THEOREM EffectsStandOnTheTrail == PipelineSpec => []EffectBackedByAudit
<1>1. CASE DurableAudit
  <2>1. TrailInv => EffectBackedByAudit
    BY DEF TrailInv, Led, OneVerdict, SameAttempt, Judged, EffectBackedByAudit, AllPassed
  <2>2. PInv /\ TrailInv /\ [PipelineNext]_allVars => TrailInv'
    BY <1>1, TrailStep
  <2> QED BY <2>1, <2>2, TrailInit, PipelineInductiveInvariant, PTL DEF PipelineSpec
<1>2. CASE ~DurableAudit
  <2>1. EffectBackedByAudit
    BY <1>2 DEF EffectBackedByAudit
  <2> QED BY <2>1, PTL
<1> QED BY <1>1, <1>2
===============================================================================
