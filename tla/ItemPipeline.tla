----------------------------- MODULE ItemPipeline -----------------------------
(***************************************************************************)
(* What a replica does between StartRun and the end of a run, for an item  *)
(* whose type has a declarative pipeline (extensions/queue-ingress:        *)
(* item-pipeline.ts, verification.ts, cost-control.ts): classify, then up  *)
(* to MaxAttempts times act and verify, then commit or escalate, with the  *)
(* model spend of the item held under a cap and the audit trail written as *)
(* it goes.                                                                *)
(*                                                                         *)
(* The module refines QueueIngress: its variables are added to those of    *)
(* the queue, and a step either leaves the queue's variables alone or is   *)
(* one of the queue's actions with its pipeline half conjoined.  `stage`   *)
(* says which await inside the run the replica is suspended in.            *)
(*                                                                         *)
(* What is outside: the models and Flow's intake (their answers are chosen *)
(* freely), the toolshed's reads and the effect gateway, of which only     *)
(* "commits, refuses or rejects" is seen here.                             *)
(***************************************************************************)
EXTENDS QueueIngress

CONSTANTS
  CorrelationOf,  \* [Messages -> correlation ids]
  MaxAttempts,    \* max_attempts of the recipe
  HasClassify,    \* the recipe has a classify step
  Verifiers,      \* of {"schema", "reconcile", "judge"}, those declared
  OnFailure,      \* "dead_letter" or "escalate"
  MaxCost,        \* max_cost_usd
  CallCosts,      \* the prices a model call may have (0 when unpriced)
  DurableAudit    \* SQLITE_PATH is a file the replicas share; else ":memory:"

ASSUME PipelineAssumption ==
  /\ MaxAttempts \in Nat \ {0}
  /\ HasClassify \in BOOLEAN
  /\ Verifiers \subseteq {"schema", "reconcile", "judge"}
  /\ OnFailure \in {"dead_letter", "escalate"}
  /\ MaxCost \in Nat \ {0}
  /\ CallCosts \subseteq Nat
  /\ DurableAudit \in BOOLEAN

VARIABLES
  stage,    \* the await of the pipeline each replica is suspended in
  attempt,  \* the current attempt of the act/verify loop
  results,  \* the verdicts of this attempt's verifiers so far
  spent,    \* the item's cost ledger
  dayCost,  \* the spend charged to the process's daily budget
  audit,    \* the audit_log table of each store
  billed,   \* history: what the process's model calls have cost
  effects,  \* history: the effects committed through the gateway
  faults    \* history: the deliveries whose run a rejected call ended, and where

pipelineVars == <<stage, attempt, results, spent, dayCost, audit, billed,
                  effects, faults>>

Correlations == {CorrelationOf[m] : m \in Messages}
ModelStages == {"classify", "act", "judge"}
Stages == ModelStages \cup {"none", "reconcile", "commit", "committed", "escalate"}
Tools == {"schema", "reconcile", "judge", "composite"}
Faults == Messages \X Nat \X {"intake", "elsewhere"}
Results == [tool : Tools, passed : BOOLEAN]

\* The fields of an audit row that make up its primary key, and its verdict.
AuditRows ==
  [kind : {"verify"}, correlation : Correlations, tool : Tools,
   attempt : 1 .. MaxAttempts, passed : BOOLEAN]
  \cup [kind : {"budget"}, correlation : Correlations]
  \cup [kind : {"escalation"}, correlation : Correlations]

-------------------------------------------------------------------------------
Correlation(r) == CorrelationOf[msg[r]]
AuditOf(r) == IF DurableAudit THEN Table ELSE r
\* Mutant: a cap that is reached does not count as exceeded.
Exhausted_Strict(cost) == cost > MaxCost

Exhausted(cost) == cost >= MaxCost

VerifyId(row) == <<row.correlation, row.tool, row.attempt>>

\* Mutant: the rows are replaced or ignored instead, as the memory store does.
Taken_Ignored(r, row) == FALSE

\* createAuditEntry's plain INSERT fails on a primary key that is there.
Taken(r, row) ==
  \E old \in audit[AuditOf(r)] :
    /\ old.kind = row.kind /\ old.correlation = row.correlation
    /\ row.kind = "verify" => VerifyId(old) = VerifyId(row)

InsertRows(r, rows) == audit' = [audit EXCEPT ![AuditOf(r)] = @ \cup rows]

BudgetRow(r) == [kind |-> "budget", correlation |-> Correlation(r)]
EscalationRow(r) == [kind |-> "escalation", correlation |-> Correlation(r)]

\* The rows of one attempt: one per verifier that ran, in chain order, and the
\* composite's last.
ChainRank == [schema |-> 1, reconcile |-> 2, judge |-> 3, composite |-> 4]
AllPassed(res) == \A x \in res : x.passed
VerifyRows(r, res) ==
  {[kind |-> "verify", correlation |-> Correlation(r), tool |-> x.tool,
    attempt |-> attempt[r], passed |-> x.passed] :
     x \in res \cup {[tool |-> "composite", passed |-> AllPassed(res)]}}

-------------------------------------------------------------------------------
PipelineInit ==
  /\ Init
  /\ stage = [r \in Replicas |-> "none"]
  /\ attempt = [r \in Replicas |-> 0]
  /\ results = [r \in Replicas |-> {}]
  /\ spent = [r \in Replicas |-> 0]
  /\ dayCost = [r \in Replicas |-> 0]
  /\ audit = [s \in Stores |-> {}]
  /\ billed = [r \in Replicas |-> 0]
  /\ effects = {}
  /\ faults = {}

\* The run goes on, suspended in the await `next`, at a total cost of `cost`.
GoOn(r, next, n, res, cost) ==
  /\ stage' = [stage EXCEPT ![r] = next]
  /\ attempt' = [attempt EXCEPT ![r] = n]
  /\ results' = [results EXCEPT ![r] = res]
  /\ spent' = [spent EXCEPT ![r] = cost]
  /\ UNCHANGED <<vars, dayCost, effects, faults>>

\* Every exit of runItemPipeline passes its `finally`, which charges the day.
Leave(r, cost) ==
  /\ stage' = [stage EXCEPT ![r] = "none"]
  /\ attempt' = [attempt EXCEPT ![r] = 0]
  /\ results' = [results EXCEPT ![r] = {}]
  /\ spent' = [spent EXCEPT ![r] = 0]
  /\ dayCost' = [dayCost EXCEPT ![r] = @ + cost]
  /\ UNCHANGED effects

\* Mutant: only a pipeline that returns charges the day.
Throw_Uncharged(r, cost) == RunThrows(r) /\ Leave(r, 0)

\* The run rejects: the item is abandoned.
Throw(r, cost) == RunThrows(r) /\ Leave(r, cost)

\* The run returns an outcome that is dead-lettered.
DeadLetterAs(r, reason, cost) ==
  /\ PipelineDeadLetters(r) /\ settlement'[r] = reason
  /\ Leave(r, cost)
  /\ UNCHANGED faults

Bill(r, cost) == billed' = [billed EXCEPT ![r] = @ + cost]

\* StartRun of an item with a pipeline: createItemCostLedger, then classify.
Begin(r) ==
  /\ StartRun(r)
  /\ Pipelined(r)
  /\ stage' = [stage EXCEPT ![r] = IF HasClassify THEN "classify" ELSE "act"]
  /\ attempt' = [attempt EXCEPT ![r] = 1]
  /\ UNCHANGED <<results, spent, dayCost, audit, billed, effects, faults>>

FaultOf(r) == <<msg[r], delivery[r],
                IF stage[r] = "escalate" THEN "intake" ELSE "elsewhere">>

\* Any call out of the pipeline may reject; the model call is then not priced.
CallRejects(r) ==
  /\ stage[r] # "none"
  /\ Throw(r, spent[r])
  /\ faults' = faults \cup {FaultOf(r)}
  /\ UNCHANGED <<audit, billed>>

\* Mutant: the halt leaves no trace in the audit trail.
Halt_Unaudited(r) ==
  /\ stage[r] \in ModelStages
  /\ \E price \in CallCosts :
       /\ Exhausted(spent[r] + price)
       /\ Bill(r, price)
       /\ DeadLetterAs(r, "BUDGET_EXCEEDED", spent[r] + price)
  /\ UNCHANGED audit

\* A priced call brings the item to its cap: the halt is audited and the item
\* dead-lettered, whatever the call answered.
Halt(r) ==
  /\ stage[r] \in ModelStages
  /\ \E price \in CallCosts :
       LET cost == spent[r] + price
       IN  /\ Exhausted(cost)
           /\ Bill(r, price)
           /\ \/ /\ ~Taken(r, BudgetRow(r))
                 /\ InsertRows(r, {BudgetRow(r)})
                 /\ DeadLetterAs(r, "BUDGET_EXCEEDED", cost)
              \/ /\ Taken(r, BudgetRow(r))
                 /\ Throw(r, cost)
                 /\ UNCHANGED <<audit, faults>>

Classify(r) ==
  /\ stage[r] = "classify"
  /\ \E price \in CallCosts :
       /\ ~Exhausted(spent[r] + price)
       /\ Bill(r, price)
       /\ GoOn(r, "act", 1, {}, spent[r] + price)
       /\ UNCHANGED audit

\* escalateItem: delivered to Flow if an emitter is armed.
Escalate(r, cost) ==
  \/ EscalationArmed /\ GoOn(r, "escalate", attempt[r], {}, cost)
  \/ ~EscalationArmed /\ DeadLetterAs(r, "ESCALATION_UNARMED", cost)

\* Mutant: one attempt too many.
AfterAttempt_OffByOne(r, res, cost) ==
  \/ AllPassed(res) /\ GoOn(r, "commit", attempt[r], res, cost)
  \/ /\ ~AllPassed(res) /\ attempt[r] <= MaxAttempts
     /\ GoOn(r, "act", attempt[r] + 1, {}, cost)
  \/ /\ ~AllPassed(res) /\ attempt[r] > MaxAttempts
     /\ DeadLetterAs(r, "VERIFICATION_FAILED", cost)

\* What follows an attempt whose chain has ended and been audited.
AfterAttempt(r, res, cost) ==
  \/ AllPassed(res) /\ GoOn(r, "commit", attempt[r], res, cost)
  \/ /\ ~AllPassed(res) /\ attempt[r] < MaxAttempts
     /\ GoOn(r, "act", attempt[r] + 1, {}, cost)
  \/ /\ ~AllPassed(res) /\ attempt[r] = MaxAttempts
     /\ \/ OnFailure = "escalate" /\ Escalate(r, cost)
        \/ OnFailure = "dead_letter" /\ DeadLetterAs(r, "VERIFICATION_FAILED", cost)

\* writeVerificationAudit inserts row by row, and throws at the first that is
\* there already.
ChainEnds(r, res, cost) ==
  LET rows == VerifyRows(r, res)
      inserted == {row \in rows : \A other \in rows :
                     ChainRank[other.tool] <= ChainRank[row.tool] => ~Taken(r, other)}
  IN  /\ InsertRows(r, inserted)
      /\ \/ inserted = rows /\ AfterAttempt(r, res, cost)
         \/ inserted # rows /\ Throw(r, cost) /\ UNCHANGED faults

\* The judge runs on a random sample of the attempts.
AfterReconcile(r, res, cost) ==
  \/ /\ "judge" \in Verifiers
     /\ GoOn(r, "judge", attempt[r], res, cost)
     /\ UNCHANGED audit
  \/ ChainEnds(r, res, cost)

\* The act step answers; the schema check follows in the same stretch.
Act(r) ==
  /\ stage[r] = "act"
  /\ \E price \in CallCosts,
        res \in IF "schema" \in Verifiers
                  THEN {{[tool |-> "schema", passed |-> b]} : b \in BOOLEAN}
                  ELSE {{}} :
       /\ ~Exhausted(spent[r] + price)
       /\ Bill(r, price)
       /\ \/ /\ "reconcile" \in Verifiers
             /\ GoOn(r, "reconcile", attempt[r], res, spent[r] + price)
             /\ UNCHANGED audit
          \/ /\ "reconcile" \notin Verifiers
             /\ AfterReconcile(r, res, spent[r] + price)

\* Mutant: a failed read sends the item back to act without using an attempt up.
Reconcile_Retry(r) ==
  /\ stage[r] = "reconcile"
  /\ \/ GoOn(r, "act", attempt[r], {}, spent[r]) /\ UNCHANGED audit
     \/ AfterReconcile(r, results[r] \cup {[tool |-> "reconcile", passed |-> TRUE]},
                       spent[r])
  /\ UNCHANGED billed

\* The toolshed reads answer (a read that fails is a failed check).
Reconcile(r) ==
  /\ stage[r] = "reconcile"
  /\ \E passed \in BOOLEAN :
       AfterReconcile(r, results[r] \cup {[tool |-> "reconcile", passed |-> passed]},
                      spent[r])
  /\ UNCHANGED billed

Judge(r) ==
  /\ stage[r] = "judge"
  /\ \E price \in CallCosts, passed \in BOOLEAN :
       /\ ~Exhausted(spent[r] + price)
       /\ Bill(r, price)
       /\ ChainEnds(r, results[r] \cup {[tool |-> "judge", passed |-> passed]},
                    spent[r] + price)

\* The gateway commits the drafted effect, and then answers.
GatewayCommits(r) ==
  /\ stage[r] = "commit"
  /\ stage' = [stage EXCEPT ![r] = "committed"]
  /\ effects' = effects \cup {[key |-> Key(r), correlation |-> Correlation(r),
                               attempt |-> attempt[r], store |-> AuditOf(r)]}
  /\ UNCHANGED <<vars, attempt, results, spent, dayCost, audit, billed, faults>>

CommitReturns(r) ==
  /\ stage[r] = "committed"
  /\ RunSucceeds(r)
  /\ Leave(r, spent[r])
  /\ UNCHANGED <<audit, billed, faults>>

GatewayRefuses(r) ==
  /\ stage[r] = "commit"
  /\ Escalate(r, spent[r])
  /\ UNCHANGED <<audit, billed>>

\* Flow's verified resolution arrives, is audited, and closes the item or not.
FlowAnswers(r) ==
  /\ stage[r] = "escalate"
  /\ UNCHANGED billed
  /\ \/ /\ Taken(r, EscalationRow(r))
        /\ Throw(r, spent[r])
        /\ UNCHANGED <<audit, faults>>
     \/ /\ ~Taken(r, EscalationRow(r))
        /\ InsertRows(r, {EscalationRow(r)})
        /\ \/ RunSucceeds(r) /\ Leave(r, spent[r]) /\ UNCHANGED faults
           \/ DeadLetterAs(r, "ESCALATION_UNRESOLVED", spent[r])

\* A process exit loses the run, the day's ledger and an in-memory audit trail.
ForgetRun(r) ==
  /\ stage' = [stage EXCEPT ![r] = "none"]
  /\ attempt' = [attempt EXCEPT ![r] = 0]
  /\ results' = [results EXCEPT ![r] = {}]
  /\ spent' = [spent EXCEPT ![r] = 0]
  /\ dayCost' = [dayCost EXCEPT ![r] = 0]
  /\ billed' = [billed EXCEPT ![r] = 0]
  /\ audit' = IF DurableAudit THEN audit ELSE [audit EXCEPT ![r] = {}]
  /\ UNCHANGED <<effects, faults>>

Exit(r) == (Crash(r) \/ SettleRejected(r)) /\ ForgetRun(r)

\* An item without a pipeline is run by the orchestrator, in one step.
FallbackThrows(r) ==
  /\ RunThrows(r)
  /\ ~Pipelined(r)
  /\ faults' = faults \cup {FaultOf(r)}
  /\ UNCHANGED <<stage, attempt, results, spent, dayCost, audit, billed, effects>>

\* The queue's other actions are as they were.
QueueStep ==
  /\ \/ \E m \in Messages : Enqueue(m) \/ LockExpires(m)
     \/ \E r \in Replicas :
          \/ Receive(r) \/ ShortCircuit(r) \/ Poison(r) \/ RecordOutcome(r)
          \/ Settle(r) \/ Restart(r)
          \/ pc[r] \in {"lookup", "run"} /\ ~Pipelined(r) /\ (StartRun(r) \/ RunSucceeds(r))
  /\ UNCHANGED pipelineVars

PipelineStep(r) ==
  \/ Begin(r)
  \/ CallRejects(r)
  \/ Halt(r)
  \/ Classify(r)
  \/ Act(r)
  \/ Reconcile(r)
  \/ Judge(r)
  \/ GatewayCommits(r)
  \/ CommitReturns(r)
  \/ GatewayRefuses(r)
  \/ FlowAnswers(r)
  \/ FallbackThrows(r)

PipelineNext == QueueStep \/ \E r \in Replicas : PipelineStep(r) \/ Exit(r)

allVars == <<vars, pipelineVars>>

PipelineSpec == PipelineInit /\ [][PipelineNext]_allVars

\* Every awaited call returns or rejects in the end, a live process keeps
\* consuming, and the platform restarts a dead one.
ConsumeStep(r) ==
  /\ \/ Receive(r) \/ ShortCircuit(r) \/ Poison(r) \/ RecordOutcome(r)
     \/ Settle(r) \/ Restart(r)
     \/ pc[r] \in {"lookup", "run"} /\ ~Pipelined(r) /\ (StartRun(r) \/ RunSucceeds(r))
  /\ UNCHANGED pipelineVars

PipelineFairness ==
  \A r \in Replicas : WF_allVars(ConsumeStep(r) \/ PipelineStep(r))

FairPipelineSpec == PipelineSpec /\ PipelineFairness

-------------------------------------------------------------------------------
(***************************************************************************)
(* Properties.                                                             *)
(***************************************************************************)

\* The shape of the pipeline's state, and its agreement with the queue's: a
\* replica is inside a pipeline only while its item is being run.
PipelineTypeOK ==
  /\ stage \in [Replicas -> Stages]
  /\ attempt \in [Replicas -> 0 .. MaxAttempts]
  /\ results \in [Replicas -> SUBSET Results]
  /\ spent \in [Replicas -> Nat]
  /\ dayCost \in [Replicas -> Nat]
  /\ audit \in [Stores -> SUBSET AuditRows]
  /\ billed \in [Replicas -> Nat]
  /\ faults \subseteq Faults
  /\ \A r \in Replicas : stage[r] # "none" => pc[r] = "run" /\ Pipelined(r)

\* Every priced model call is on the running item's ledger or charged to the
\* day, never both and never neither, however the run ended: committed,
\* dead-lettered, escalated, halted or thrown (item-pipeline.ts:470-474).
SpendCharged ==
  \A r \in Replicas : dayCost[r] + spent[r] = billed[r]

\* No model call is made for an item that has reached its cap, in any attempt
\* and for any caller of the model (item-pipeline.ts:179-190).
NoCallOverCap ==
  \A r \in Replicas : stage[r] # "none" => spent[r] < MaxCost

\* The spend of an item is charged exactly once on every exit, and ends it as
\* soon as it reaches the cap, in whichever attempt and by whichever call.
SpendAccounted == SpendCharged /\ NoCallOverCap

\* An effect leaves the pipeline only when the trail that outlives the process
\* holds the verdicts of that very attempt, all of them favourable: neither a
\* redelivery, another replica's run of a duplicate, nor a half-written chain
\* can lend an attempt somebody else's verdict (item-pipeline.ts:521-526).  A
\* chain of nothing but the judge is excepted: sampled out in one run and not in
\* the next, it adds its row before the composite's is found taken.
EffectBackedByAudit ==
  DurableAudit /\ Verifiers # {"judge"} => \A e \in effects :
    LET rows == {row \in audit[Table] :
                   /\ row.kind = "verify"
                   /\ row.correlation = e.correlation /\ row.attempt = e.attempt}
    IN  /\ \E row \in rows : row.tool = "composite"
        /\ AllPassed(rows)

\* What the dead letters' reason codes say is on the audit trail under the
\* item's correlation id: the halt, a failed composite for every attempt, the
\* link to Flow's run (docs/runbooks/stream-operations.md, section 1).
DeadLettersAreAudited ==
  DurableAudit => \A m \in Messages :
    LET rows == {row \in audit[Table] : row.correlation = CorrelationOf[m]}
    IN  /\ queue[m].reason = "BUDGET_EXCEEDED" =>
             \E row \in rows : row.kind = "budget"
        /\ queue[m].reason = "ESCALATION_UNRESOLVED" =>
             \E row \in rows : row.kind = "escalation"
        /\ queue[m].reason = "VERIFICATION_FAILED" =>
             \A n \in 1 .. MaxAttempts : \E row \in rows :
               /\ row.kind = "verify" /\ row.tool = "composite"
               /\ row.attempt = n /\ ~row.passed

\* "A transient intake outage retries; a persistent one trips the poison path"
\* (pipeline-processor.ts:138-140): an item that nothing but the intake ever
\* failed is poison only if the intake failed it at every delivery.
TransientIntakeOutageRetries ==
  \A m \in Messages :
    /\ queue[m].reason = "POISON_MESSAGE"
    /\ \A f \in faults : f[1] = m => f[3] = "intake"
    => \A n \in 1 .. MaxDeliveryCount - 1 : <<m, n, "intake">> \in faults

\* A run ends: the act/verify loop gives up after MaxAttempts even when its
\* calls cost nothing and no cap can stop it (item-pipeline.ts:501-544).
RunEnds ==
  \A r \in Replicas : pc[r] = "run" ~> pc[r] # "run"
===============================================================================
