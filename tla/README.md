# Formal verification of managed-service-minions

TLA+ specifications of the parts of this repository that decide whether work is
lost, done twice, done without permission or done without a trace: the Stream
work queue and its consumers, the item pipeline, the effect gateway, the
governed tool calls of the toolshed with their breakers, buckets, approvals and
rules, the conversations from a message to its reply, and what operators,
sampling QA and the dashboard do. Each specification is model-checked with TLC
on small instances, and the most important facts are proved with TLAPS for every
value of the constants.

The specifications are translated from the source, not from the documents. Where
a document and the code disagree, the specification says what the code does and
a run whose expected result is a violation shows the difference (section 6).

1. [The system](#1-the-system) 2. [Modules](#2-modules)
3. [How state and actions correspond to the code](#3-how-state-and-actions-correspond-to-the-code)
4. [Runs](#4-runs) 5. [Proofs](#5-proofs) 6. [Findings](#6-findings)
7. [What is not modelled](#7-what-is-not-modelled) 8. [Plan](#8-plan)
9. [Running the tools](#9-running-the-tools)

## 1. The system

The repository is a set of Node.js services around an agent runtime ("goose").
Chat and webhook ingresses hand requests to an orchestrator that runs chains of
"minions"; the Stream path takes work items from a queue and drives each through
a declarative pipeline. Every tool call goes through the toolshed, and every
write to an outside system through the effect gateway. Processes share Azure
tables, a SQLite file on a file share, and a Service Bus queue.

| Component | State it keeps | Operations | Talks to | What is hard |
|---|---|---|---|---|
| Stream queue (`queue-ingress`: `queue.ts`, `service-bus-queue.ts`, `consumer.ts`, `processor.ts`, `pipeline-processor.ts`, `*idempotency-store.ts`) | the broker's messages with delivery counts; recorded outcomes per idempotency key; one message in hand per replica | enqueue, receive, look up, run, record, complete, abandon, dead-letter | item pipeline or orchestrator; Service Bus; Azure Tables | 1 to 5 replicas, duplicates, lock expiry, crashes between effect, record and settle, poison threshold |
| Item pipeline (`item-pipeline.ts`, `verification.ts`, `cost-control.ts`, `escalation.ts`) | attempt, verifier verdicts, cost ledger; audit rows; the day's spend | classify, act, verify (schema, reconcile, judge), commit, escalate, halt | goose, toolshed, effect gateway, Flow's intake, session store | many exits, each with accounting and audit duties; redelivery re-enters with rows already written |
| Effect gateway (`effect-gateway.ts`, `effect-store.ts`, `commit-record-store.ts`) | drafts and their decisions; approvals; durable commit records; a per-process decision lock | draft, commit, discard, replay | connectors, approval surfaces, Azure Tables, SQLite | several processes on one draft store, awaits between check and act, failed puts, spent approvals |
| Governance state (`circuit-breaker.ts`, `rate-limiter.ts`, `governance-state.ts`, `shared-governance-state.ts`) | breakers and token buckets, in a process or in Azure Tables | take a token, admit, record success or failure | Azure Tables | optimistic concurrency of several replicas, absent rows, lost answers, stale clock readings |
| Toolshed (`toolshed.ts`, `config.ts`, `redact.ts`) | rules, cache, approvals, audit trail | one governed tool call: allowlist, rate limits, breaker, approval gate, cache, adapter, audit | adapters, governance state, session store | concurrent calls between awaits, approvals that time out, rules swapped under a call |
| Hot reload (`hot-reload.ts`, `config-validation.ts`) | debounce timer | reload, validate, swap | toolshed | a swap between two awaits of a call |
| Ingress (`slack-bot`, `teams-bot`, `webhook-ingress`, framework-core's `ingress.ts`) | none of their own; sessions and their archive | authenticate, acknowledge, look up or restart the session, reply | orchestrator, chat platforms, toolshed | acknowledged before done; replies that are rejected; sessions that fall idle |
| Orchestrator (`orchestrator/src/runner.ts`, `goose-client.ts`; framework-core's `output-contract.ts`, `token-accounting.ts`, `token-budget.ts`) | minion run rows, token use of a run | classify, run a chain, retry on contract failure | goose, session store | rejected calls in the middle, budgets against retries |
| Sampling QA (`sampling-qa.ts`) | verdict windows, tripped types | sample, record a verdict, trip, reset | effect gateway, approval surfaces | statements of two processes on one file |
| Operator HTTP surface (`operator-http.ts`), dashboard (`dashboard.ts`) | none; per feed connection, what it has seen | resolve an approval, reset a type, push events | session store, sampling QA | decisions that overwrite one another, polls that miss what happened between |
| Session store (`store.ts` in toolshed and framework-core, `artifact-store.ts`) | sessions, minion runs, approvals, audit rows, cache | CRUD on SQLite or maps | everyone | primary keys that collide, two backends that differ |
| Cloud audit mirror (`cloud-audit.ts`) | bounded map of entries in flight | log, retry, drop oldest, dead-letter | a cloud sink, a file | eviction under running retries |
| HTTP retry (`http-retry.ts`), MCP adapters, tokens, telemetry, infra, recipes | stateless or data | | | |

What has to hold, component by component:

- **Queue.** Nothing is completed that was not done; what was recorded is real
  and final; a recorded item is not run again by a later delivery, nor, in one
  process, one that a run of has returned; runs are bounded by the delivery count;
  every message is settled in the end.
- **Pipeline.** Spend is accounted for exactly once on every exit; no call over
  the cap; no effect without a favourable verdict of that very attempt; a dead
  letter's reason code has its audit row; a run ends.
- **Gateway.** No execution of a key after its record; no human-gated effect
  without a commit that a human approved, of this draft or, carried by the caller,
  of none in particular; an approval is spent once; decisions and records are final
  and rest on effects that took place.
- **Governance state.** Replicas together behave like the in-process breaker and
  bucket but for the documented create race; they grant no more than burst and
  refill; no more probes than the budget; an open breaker stays open for its time.
- **Toolshed and rules.** A destructive call is paid for by an unspent, timely
  approval of that very request; every call leaves one audit row; only failures
  trip a breaker; only rules that validate ever permit a call.
- **Conversations.** Messages share a correlation root exactly while the
  conversation is not idle; the run rows agree with what the user was told; a
  minion's budget covers its run, retries included; idle threads start again.
- **Oversight.** A type is tripped when its latest reviews say so and only then;
  only an agent's commits are reviewed; a viewer is told of each open approval once.

`PROJECT.json` lists every hazard with its line, and the properties that cover
it or the reason why none does.

## 2. Modules

| Module | Role |
|---|---|
| `ItemLedger` | What queue and idempotency store promise together: statuses and outcomes per item, final once set. No replicas, deliveries or locks. |
| `QueueIngress` | The broker, the replicas' consume loop, both processors, both idempotency stores, crashes. Its `Ledger` instance is the refinement mapping to `ItemLedger`. |
| `ItemPipeline` | EXTENDS `QueueIngress`: the inside of a run. Each step leaves the queue's variables alone or is a `QueueIngress` action with its pipeline half conjoined, so `PipelineSpec => Spec`. |
| `EffectLedger` | What the effect gateways promise together: effects, decisions, commit records. |
| `EffectGateway` | Gateway processes with decision locks, draft stores, approvals, connector, commit records, crashes. Its `Ledger` instance maps to `EffectLedger`. |
| `Governance` | The in-process circuit breaker and token bucket, whose operations take effect one at a time. Both the abstract specification of the shared store and the breaker that `Toolshed` uses. |
| `SharedGovernance` | The Azure Tables implementation: read, compute, conditional write, retry, by calls of several replicas. Its `InProcess` instance maps to `Governance`. |
| `Rules` | What an edition of the rules files permits, gates and caches, and what the validator accepts. No state. |
| `Toolshed` | EXTENDS `Rules`, instantiates `Governance` per server: governed calls, approvals, cache, audit, breakers, hot reload. |
| `Conversation` | Bots and webhook server, sessions and their archive, the orchestrator's chain with its rows, budgets and contract retries, the reply. |
| `Oversight` | Operators, dashboard, event feed, sampling QA and the reviews the gateway routes. |
| `MC*` | Model values and constant functions for TLC. |
| `QueueIngressProofs`, `ItemPipelineProofs`, `EffectGatewayProofs`, `SharedGovernanceProofs`, `ToolshedProofs`, `OversightProofs`, `ConversationProofs` | Inductive invariants and theorems. |

How they fit together: `ItemPipeline` composes queue and pipeline; it sees the
effect gateway as "the effect is committed, and then answered", "refused" or
"rejected", each of which `EffectGateway` can do. `Toolshed` composes rules, hot
reload, breakers and approvals; the buckets it passes are nondeterministic, what
they promise being `SharedGovernance`'s. `Conversation` sees a tool call that
awaits approval as one possible answer of a turn, which is `Toolshed`'s
`approval_pending`; `Oversight` sees a gateway's commit as a call that succeeds or
not, and the decisions it records are those `EffectGateway` and `Toolshed` take as
`ResolveApproval`. `QueueIngress` sees the orchestrator's run of a fallback item as
one step, whose inside `Conversation` shows.

Definitions whose name ends in a suffix after an underscore (`RunSucceeds_SettleFirst`)
are mutants: a plausible bug in the definition that follows them. They are used by
no specification. Each property is paired in `PROJECT.json` with a mutant under
which TLC finds it violated, so that no property holds vacuously.

## 3. How state and actions correspond to the code

An action is the code between two awaits. The state variable `pc` (queue,
gateway), `stage` (pipeline, conversation), `await` (toolshed) or `request`
(shared governance) names the await a process is suspended in; other processes,
timers and crashes act while it is. Synchronous SQLite calls (`better-sqlite3`) do
not suspend, and belong to the action that makes them, except where a second
process writes the same tables in between and that matters (`EffectGateway`'s
`claim`, all of `Oversight`'s sampling QA).

**QueueIngress.** `queue` is the broker's view of each message (`unsent`,
`available`, `locked`, `completed`, `dead`, with delivery count and reason code).
`outcomes` holds one idempotency store per process and one shared table; which of
them a replica uses is `StoreOf` (`index.ts`, `buildOutcomes`). `Receive` is
`receive` plus the synchronous start of `process` (parsing, the malformed dead
letter). `ShortCircuit`, `Poison`, `StartRun` are the three ways on from the
lookup, in the order of `processor.ts:107-121`; the same order stands in
`pipeline-processor.ts:297-312`. `RunThrows`, `RunSucceeds`, `PipelineDeadLetters`
are the ways a run ends, `RecordOutcome` the insert, `Settle` and `SettleRejected`
the settle call with and without the lock. A rejected settle call, like any other
rejected broker or store call, leaves `process` and `consumeQueue` and reaches
`main().catch`, which exits: `SettleRejected`, `Crash`. `LockExpires` is the
broker's. Delivery counts start at 1, as `InMemoryWorkItemQueue.receive` counts.

**ItemPipeline.** `spent` is the `ItemCostLedger`, `dayCost` what `onItemCost`
charged to `DailyBudget`, `audit` the `audit_log` table with the columns that make
up its primary keys. `Begin` refines `StartRun`; `Classify`, `Act`, `Judge` are the
model calls that return below the cap, `Halt` one that reaches it, `Reconcile` the
toolshed reads, `ChainEnds` the audit inserts after a chain and what follows from
its verdict, `GatewayCommits` and `CommitReturns` the two halves of the commit
call, `FlowAnswers` a verified resolution. `CallRejects` is a rejection at any await.
`InsertRows` and `Taken` model `createAuditEntry` of the SQLite store: a plain
INSERT that throws on a primary key that is there. `Exit` conjoins what a process
exit erases.

**EffectGateway.** `drafts` are the rows of the draft stores, `StoreOf` which store
a gateway opens; a store outside `Persistent` is a map in its process and is lost
with it (status `lost`). `records` is the commit-record table. `performed` is the
list of effects the connectors carried out, an outcome being its index there; the
approval that let an effect through and the gateway that executed are kept with it. `pc` is the await in
`doCommit` that holds the decision lock: `lookup` (the durable get), `claim`
(between finding and marking an approval, see below), `notify`, `execute`
(connector called), `performed` (effect done, answer under way), `put`, `reread`.
`claim` is not an await: finding and consuming an approval are two SQL statements
on a file that other processes write too, so the two are separate actions, and
within a process nothing can come between them because the lock is held.
Approvals are what `RequestApproval` (the gate of a commit) and `RequestElsewhere`
create; the latter are `SurfaceRequests`, what other surfaces and the toolshed's own
gate ask approval of, among them commits whose params name no draft (`NoDraft`).
`Authorises` is `authorisesEffect`: an approval for the tool that names this draft or
none. Only the gateway's own requests (`own`) are found by their hash, which is taken
over params that name the draft; the others open a gate when a caller carries their id.
`DiscardEffect` has no await and is one action. `Refuse` stands for every refusal:
identity, expiry, evidence, denied or timed-out approval, missing connector.

**Governance, SharedGovernance.** A governed call makes up to four operations,
`take`, `admit`, then `success` or `failure` (`phase`). In `SharedGovernance` an
operation is one `readModifyWrite` loop, and one step is one request to the table
or its answer: `Begin` reads the clock (`at`), `Read` is `getEntity` (`snapshot`,
`Absent` for a 404; `current` says whether the ETag read is still the row's),
`Write` is `updateEntity` with that ETag or, for an absent row, `upsertEntity` without
one; `Conflict` is the 412 with its retry or, at `MAX_CAS_ATTEMPTS`, the throw; `Fail`
a request that never arrived. `Write` may also lose its answer: then the operation
takes effect and rejects. A rejected success report enters the catch block of
`toolshed.ts` and reports a failure. Tokens are in units of 1/`Cost` of a token, so
that fractions of a token are integers. `early` marks an operation that began before
the row was stored, the documented create race. History: `granted` (tokens given
out), `erased` (first writes that replaced a row), `probes` (admissions since the
breaker last moved).

**Rules, Toolshed.** An edition is what the rules files contain at some moment;
`rules` is the one loaded, `disk` the one on disk, `reload` the debounce timer,
`PerformReload` load, validate and swap. A call's `await` is what it is suspended in:
`governance` stands for the awaits of both token buckets and of the admission, which
suspend even with in-process state; `notifier`, `cache report`, `adapter`, `failure
report`. `Start` is everything before the first await, with the allowlists as they
are then (`under`); `Admission` the admission and the synchronous rest up to the next
await, with the governance rules as they are then (`gatedBy`). `Gate` is
`gateDestructiveCall` (`Used` tells the approvals behind which it asks again from those
that answer the call), `Execute` is `doExecuteTool`, `Respond` is `emit`. With
`RemoteState` an await of the governance state may reject and the call ends without
an audit row (`RejectCall`). `performed` is the history of downstream calls.

**Conversation.** A message's `stage` is what its handler awaits: `classify`, `minion`
(a turn of the current step), `reply`, `error reply`. `Resume`, `Restart`, `Refuse`
are the three ways of the session lookup: a live session, an idle one that is
archived with all others, an archive that already has the id. `sessions` and
`archived` are tables keyed by the session id, which is the thread's; `rows` is
`minion_runs` keyed by run id (session, step, clock). `Turn` is one answer of Goose
with the budget check, the output contract's retry, the row's update and, when the
chain goes on, the next step's `createMinionRun`. `Deliver` is a webhook delivery
with its verification and mapping. `ErrorReplyRejected` and `Crash` end the process
with every message it is handling.

**Oversight.** `verdicts` and `tripped` are SQLite tables that the toolshed (which
records verdicts) and the dashboard (which resets types) share, so the statements of
a recording (`RecordVerdict`, `WeighVerdicts`, `SetTripped`) and of a reset (`Reset`,
`FinishReset`) are separate actions. Both are there only where a deployment injects
them: the shipped `agent-dashboard/src/index.ts:14-18` passes no `resetSamplingQa`, so
its route answers 404, and no `index.ts` constructs a `SamplingQa`. The module models
the deployment that wires both, which is the one the race is possible in. The window is read off the table by `Selected`, a
recursive function that keeps the rows of a type in their order; `caused` remembers the
types whose window met its threshold, from the moment it is weighed. `feed` is the connection's `seen` set with what
was pushed; `Poll` is the interval's callback.

History variables (`ran`, `succeeded`, `late`, `billed`, `effects`, `faults`,
`granted`, `acked`, `erased`, `probes`, `performed` and `rejected` of the toolshed,
`refused`, `caused`, `raced`, `pushed`, `known`, `fresh`) record what happened for the
properties; no guard reads them, except that `faults` and `crashes` where named as
bounds stop the environment.

## 4. Runs

| Run | Configuration | Shows |
|---|---|---|
| `queue_cluster` | 2 replicas, Service Bus, table store, one envelope sent twice, poison and broker threshold 3, 1 crash | `TypeOK`, `CompletedMeansDone`, `RecordedIsReal`, `LateDuplicateShortCircuits`, `RunsBounded`, refinement `LedgerSpec` |
| `queue_at_most_once` | as `queue_cluster` | violation of `AtMostOnceCommit` (section 6) |
| `pipeline` | 2 replicas, shared audit file, one envelope sent twice, thresholds 2, 2 attempts, schema and judge, cap of 4 calls, 1 crash | `PipelineTypeOK`, `SpendAccounted`, `EffectBackedByAudit`, `DeadLettersAreAudited` |
| `pipeline_local` | 1 process on the in-memory queue, 4 messages (a pipeline item, a fallback item sent twice, a malformed body), free calls, reconcile, unarmed escalation, `FairPipelineSpec` | `ReturnedNeverRerun`, `PoisonMeansRepeatedFailure`, liveness `EventuallySettled`, `RunEnds` |
| `pipeline_outage` | 1 process, 1 item, armed escalation | violation of `TransientIntakeOutageRetries` |
| `gateway` | 2 gateways on one SQLite store and 1 on memory, a human-gated and an agent's draft of one key, 2 approval requests, at most one of them from elsewhere (a discard, or a commit that names no draft), 1 fault | `GatewayTypeOK`, `RecordedNeverRerun`, `HumanGate`, `ApprovalSpentOnce`, `OneDecisionAtATime`, refinement `EffectLedgerSpec` |
| `gateway_ack` | 1 gateway on memory, 1 fault | violation of `AcknowledgedIsRecorded` |
| `governance` | 2 calls in flight, 4 in all, rows there or absent, 2 attempts per operation, 2 ticks, thresholds and probes 2, bucket of 7 thirds of a token | `TypeOK`, `ProbeBudget`, `RateBound`, `WaitIsEnough`, `OpenIsHeld`, refinement `MirrorsInProcess` |
| `toolshed` | 2 calls in flight, 3 in all, remote state, requests `merge` (destructive, in one edition cached), `shell`, `ghost` (no adapter), 4 editions, 2 decisions, 1 edit, 2 ticks | `TypeOK`, `ApprovalPaysOnce`, `NotAskedTwice`, `AuditTrail`, `TripsOnFailuresOnly`, `PermittedWhenStarted` |
| `conversation` | 3 messages of one thread in one process, one of them by webhook, 4 intents, a chain of 2 minions, 2 ticks | `TypeOK`, `ConversationsSplitAtTtl`, `RowsAccountForReply`, `BudgetCoversTheRun` |
| `conversation_restart` | as `conversation`, all by webhook | violation of `IdleThreadsRestart` |
| `oversight` | 3 effects of a managed and an unmanaged type, 3 verdicts, 1 reset, 1 viewer | `TypeOK`, `TripFollowsTheWindow`, `ReviewsAreOfAgentCommits`, `FeedTellsWhatIsNew` |

What the properties say, beyond their names:

- `CompletedMeansDone`: `completed` at the broker implies a run of that key that
  had its effect, and with the table store a recorded outcome; no order of crash,
  lock expiry and duplicate gets around it.
- `LateDuplicateShortCircuits`: stated of messages received after the record, so
  it is silent about the window before the record, which is `AtMostOnceCommit`'s.
- `ReturnedNeverRerun`: of one process that does not crash; a key one of whose runs
  has *returned* is not run again. It does not say that a key has its effect once: a run
  whose gateway committed and whose call then rejected is abandoned, and its redelivery
  runs the item, and calls the gateway, again (`GatewayCommits`, `CallRejects`, `Begin`
  in this very run). What the second call does is the gateway's matter: it replays the
  commit record, if one was written (`RecordedNeverRerun`, finding 3).
- `HumanGate`: an effect of a human-gated draft rests on an approval that a human
  granted, for the tool `commit_effect`. The code asks a carried approval for no more:
  one whose params name a draft must name this one, one whose params name none (or do
  not parse) opens the gate of every draft (`effect-gateway.ts:825-828`, asserted by
  `effect-gateway.test.ts:506-520`). Only an approval the gate finds by its hash is an
  approval of that very commit, and the property says which is which.
- `LedgerSpec`, `EffectLedgerSpec`, `MirrorsInProcess`: the abstract specifications
  as temporal properties, every step mapped to a step or a stutter.
- `SpendAccounted`: ledger plus day equals the bill of the process's model calls, and a run
  that goes on is below its cap.
- `EffectBackedByAudit`: the verdict on the trail for (correlation, attempt) is the
  verdict the effect was committed under, although deliveries and duplicates share
  those keys. It holds because the INSERT throws; the memory store of the toolshed,
  which replaces rows, would not give it, and so `DurableAudit` is its premise. A chain
  whose only check is the sampled judge is excepted too (section 6).
- `OneDecisionAtATime`: of a draft store that belongs to one process. Over a shared
  SQLite file it fails, by design of the lock (`withDecisionLock` is a promise chain);
  what remains then is the ledger.
- `ApprovalSpentOnce`: of a draft store that belongs to one process, one execution per
  approval found by its hash. Over a shared file two processes may each find the approval
  before either marks it, and the property says what the code still keeps there: no
  process executes on it twice, so there are at most as many executions as processes.
- `RateBound`: the calls let through are paid for by the burst and the refill up to
  the present clock, once more for each row that an unchecked first write replaced.
  It does not assume that writes come in the order of their clock readings.
- `ProbeBudget`: counted by a history variable, so that the counter in the row, which
  the shared code also increments outside half-open, cannot vouch for itself.
- `ApprovalPaysOnce`: of every downstream call that the rules in force at its gate
  called destructive. A late denial of a consumed approval does not undo the call,
  and the property does not say so: it speaks of consumption in time.
- `NotAskedTwice`: no second approval of a request is created while the first stands,
  unspent and within its time, whether undecided, denied or granted. One that has timed
  out when the second is created is left out: there the code and its comment disagree
  (section 6). Its mutant asks again behind a denial. Approvals created in one instant
  are told apart by their order, of which the gate sees the first; behind a spent one of
  the same instant a resubmission asks again, which the property allows.
- `AuditTrail`: exactly one row per call and one call per row. With remote governance
  state a rejected operation leaves a call without its row; those calls, and no
  others, are excepted, although `toolshed.ts:247` speaks of an audit entry on every
  exit path (section 6).
- `PermittedWhenStarted`: the allowlists are those of the call's start, the edition
  in force has passed the validator's checks of grants and named cache entries.
- `RowsAccountForReply`: of runs whose runner replied; "answer" means that every step's
  row is completed. A run that threw is no part of it: its row stays `running` for ever
  (section 6).
- `TripFollowsTheWindow`: a recording and a reset of one type that overlap may leave
  verdicts without their trip or a trip without its verdicts; types that were raced so
  are excepted (`raced`), all others obey the window. The overlap needs a deployment
  that injects sampling QA and its reset (section 3).

**Bounds and why they are enough.** Two replicas and two messages of one key give
every race of the lookup, the run, the record and the settle, since these are
pairwise; a third message adds deliveries, not kinds of interleaving. Thresholds
of 3 (2 in the pipeline, whose state is larger) allow a failed delivery, a retry
and the poison delivery. One crash suffices to put it at each await of each
replica, and `SettleRejected` exits without using that bound. Two attempts
give a failed one and a last one. A cap of 4 with calls of price 1 lets both
attempts finish and the second judge call reach it. In the gateway, two drafts of
one key give siblings, two stores give replays that see and that miss each
other's drafts, two approval requests give an old and a fresh one, or one of the gate
and one from elsewhere that must, or must not, open it (`MaxElsewhere`; it is asked for
first, since nothing looks at a request from elsewhere before it is decided), one fault puts
a crash or a rejection at each await. `ReviewedDrafts` is empty in that run to keep
it in time: a reviewed draft takes the transitions a human-gated one does.

In `governance` two calls make every conflict of two writers, and two attempts an
operation that loses once and one that gives up; two ticks with a timeout of 1 open
a breaker and let it half-open again, thresholds of 2 tell a first failure or success
from a last one. A capacity of 7 thirds is not a whole number of tokens, and a refill
of 2 thirds per tick does not divide one, so rounding shows. In `toolshed` three calls
are two racing ones and one that follows; two decisions approve and overturn; a
timeout and a time to live of 1 both pass and lapse within two ticks; the edit
replaces the initial edition by one that tightens it, one that must be refused, or
one whose governance file reads as empty, at any moment. In `conversation` the time
to live is 0 ticks and the clock has 2, so a thread falls idle twice; the explorer's
budget fits one turn of a change and not its retry; the intents include one without
minions and one whose minion has no agent file. In `oversight` a window of 2 with a
threshold of 60 percent distinguishes the old verdicts from the latest ones once
there are 3. Symmetry is used in `gateway` (the two gateways that share a store),
`governance`, `toolshed` (calls) and `oversight` (the effects of one type), where no
liveness is checked.

**Assumptions on the environment.** The rules files are read at one instant: a reload
that straddles two writes is not in the model, except for the empty governance file.
Clocks of replicas agree, but an operation may act on a reading of any age.

**Fairness.** `FairSpec` is weak fairness of each replica's step, since a live
process keeps running its loop and Container Apps restarts an exited one; the
environment (enqueueing, lock expiry, crashes) gets none. `FairPipelineSpec`, which
`pipeline_local` checks, adds weak fairness of the pipeline's step: each awaited call
returns or rejects. The liveness run uses one process without crashes, as the
in-memory queue is deployed; with unboundedly many lock expiries the broker's own
limit settles the message, which `queue_cluster` covers as safety only. The other
specifications state safety only and have no fairness. Two progress properties one
would expect there do not hold of the code and no document promises them: with the
default thresholds (one probe, three successes) a half-open breaker never closes, and
a timed-out undecided approval blocks its request until somebody decides it.

`CHECK_DEADLOCK FALSE` stands in every configuration since the systems may stop:
all messages settled or answered, or the bounds on calls, decisions and the clock
reached.

## 5. Proofs

All theorems hold for every value of the constants under the named assumptions of
the modules (`ConstantsAssumption`, `MemoryQueueAssumption`, `PipelineAssumption`,
`GatewayAssumption`, `MemoryStoreAssumption`, `SharedAssumption`, `RulesAssumption`, `ToolshedAssumption`,
`ConversationAssumption`, `OversightAssumption`), which
TLC evaluates in each run.

**`QueueIngressProofs`.** `CompletedMeansDone` is not inductive: a message may be
completed only because its holder is about to settle with "complete", so the
invariant must say what is known at each `pc`. `IInv` adds to the invariants
`LocalInv`: per replica, what `pc` implies about the message in hand, its
delivery count against the broker's and the threshold, the runs it is charged
with, and, at `record` and `settle`, about the effect and the record. One lemma per
action shows that it keeps each part it can disturb; `StepInv` collects them.
From it follow `TypeCorrect`, `CompletionIsSound`, `RecordedOutcomesAreReal`,
`DuplicatesShortCircuit`, `RunsAreBounded`, and `ImplementsLedger` (for the table
store): initial states map to initial states, and each action to a ledger action or
a stutter, `IInv` giving the ledger's guards.

One process without crashes (`Sole`) gives more: with the table store, or on the in-memory
queue whose lock never expires, it remembers every effect it had (`Remembers`), and every
delivery below the threshold is charged to a run unless the outcome was recorded before
(`Charged`). `SoleInv` joins these to `ReturnedNeverRerun` and to what is known of a message
that is poison, or about to be (`PoisonKnown`); `SoleProcessNeverReruns` and
`SoleProcessPoisonsFailuresOnly` follow. The memory store over Service Bus is left out of
`Sole`: there a lost lock exits the process and takes the memory with it.

**`ItemPipelineProofs`.** `RefinesQueue` needs no invariant: every step of the pipeline
is a queue step or leaves the queue's variables alone, so all the queue's theorems carry
over (`PipelineCompletionIsSound`, and `PipelineImplementsLedger` by two refinements in
a row). `PInv` joins the type invariant with `SpendCharged` and what `stage` says of the
attempt and the spend; `PipelineTypeCorrect` and `SpendIsAccounted` follow.

The trail has an invariant of its own, `TrailInv`, inductive relative to `PInv` on the
shared audit file. Deliveries and duplicates share their correlation and count their
attempts from one, so what one replica writes is under the keys of another. Rows are
only ever added, and a chain whose first check is never sampled out writes all its rows
or none: its first row is there whenever any row of that attempt is (`Led`), so a second
chain throws at its first INSERT and a favourable composite verdict never comes to
stand beside an unfavourable row (`OneVerdict`; `ChainInserts` is the step that writes).
`OnTrail` says what a replica suspended in a model call, at the gateway or before its
settlement has on the trail: a failed composite for each attempt behind it, the
favourable one for the attempt it commits, the row its reason code names.
`ReasonsAreOnTheTrail` and `EffectsStandOnTheTrail` follow.

**`EffectGatewayProofs`.** None of the gateway's properties but its type is
inductive: the connector is called on what a lookup, the lock and an approval said
some awaits earlier. `GInv` therefore joins to the type invariant

- `Deciding(g)`, what a suspended decision still knows: its draft belongs to its own
  store, and in a memory store is still open (`DraftInHand`); the approval it acts on
  is granted, for a commit, and names this draft or, carried, none (`Covers`); found by
  its hash, it is spent before
  the connector is called and has no execution on it that is a rival of this one
  (`ClaimInHand`; `Rivals` are those of the same process, and where the drafts are in a
  memory store those of any); the
  outcome in hand is that of its own draft (`OutcomeInHand`); a key that had its
  record when the decision began still has it (`LateInHand`);
- `History`, what stands behind every effect performed (`AllBacked`,
  `ApprovalSpentOnce`, `ApprovedIsGranted`).

`GatewayMoves` is the frame: a step that keeps approvals, drafts and records in the
sense of `ApprovalsGrow`, `DraftsKept` and `Undisturbed` keeps the invariant of every
gateway it does not move; one lemma per action shows that it does.
`MemoryStoreAssumption` is what keeps two gateways from holding one draft of a memory
store. From `GInv` follow `GatewayTypeCorrect`, `RecordedIsNeverRerun`,
`HumansGateEffects`, `ApprovalsAreSpentOnce`, `LockHoldsAcrossAwaits` and, with the
ledger's `effects` mapped from `performed`, `GatewaysImplementLedger`.

**`SharedGovernanceProofs`.** The invariant says what an operation in flight knows
(`OpOK`, `WriteOK`): what it read is what the row still holds as long as its ETag is
current, and a snapshot that is absent while the row is stored belongs to an
operation that began early. On this rest

- `ProbesInBudget`: an admission is written only over the row it was read from, so the
  counter of history and the counter in the row move together (`Probing`);
- `RateIsBounded`, by a potential: the tokens in the bucket, less what has flowed in
  by its own `lastRefill`, plus what was granted, never exceed the capacity plus one
  allowance per erased row (`Allowance`). A stale clock reading takes tokens back that
  a later one gives out again, so the order of the readings does not matter;
- `OpenIsHeldOpen` and `WaitingSuffices`, by arithmetic on the row written;
- `SharedMirrorsInProcess`: `Canonical` forgets the half-open counter outside
  half-open, and commuting lemmas show that each stored write is the in-process
  operation on the canonical record; retries, reads and conflicts are stutters.

**`ToolshedProofs`.** A call's steps share most of what they do, so the lemmas about
`Gate`, `Admission` and the reports speak of how a step leaves its call: it goes on to
another await, is answered (`Respond`, with a row), or is rejected without one
(`CallOutcomes`), and of what it does to the approvals and downstream (`Pays`). Each
invariant then needs one lemma about the steps of calls, and one about everything else.

- `PermittedOnly`: a call in hand carries an edition that permitted it at its start, and
  the editions of rules and calls have all been loaded through the validator (`PermitInv`).
- `TrailIsComplete`: call numbers in hand are distinct, at most `started`, and have no row
  yet (`AuditInv`).
- `ApprovalsPayOnce`: the approval that a performed call names is consumed, in time, and
  named by no other (`PayInv`). A late decision may turn an approval over but not its
  consumption, and only an unconsumed one is ever spent.
- `NotAskedWhileItStands`: no approval times out later than one created now would, and
  one that leads its instant and is followed by a later one is spent (`AskInv`, which is
  stronger than the property: it covers timed-out approvals too, as the code does not
  replace them). A fresh approval is put only behind a list whose newest was spent;
  whichever leads its instant either is that newest, or was followed before.
- `FailuresTrip`: a breaker's failure count plus the reports that are still to be made is
  covered by the failures there have been (`TripInv`).

**`OversightProofs`.** `ReviewsFollowAgents` rests on an effect never moving again once it
is committed, `FeedIsFaithful` on `ConnectionOK`: what a connection has seen beyond what
it knew at first was pushed to it once, and what is undecided and older than its last poll
has been seen.

`TripsFollowTheWindow` relates the code's window, a recursive selection from the table, to
the property's, the set of places with less than a window of later ones on the type.
`Selected` satisfies its recursion (`SelectsExists`), an append adds its element or nothing
(`SelectedAppend`), and deleting one type leaves the others' selection (`SelectedTwice`);
`WindowIsLatest` then gives a bijection of the places (`RanksExist`) and with it the equal
counts. The inductive invariant is `TInv`: a type that nothing raced is in order
(`TypeInOrder`), that is, it is tripped if its window says so, unless a recording of its
verdict is still under way; while its reset is under way it has no verdicts; and it is
tripped only if its window has said so before. The induction over the sequence is done on a set of numbers with a
least element (`NatLessThanWellFounded`, `WFMin`), because the library's induction
theorems take an operator as a parameter.

**`ConversationProofs`.** Three invariants, each inductive relative to the one before.

- `BudgetsCoverRuns` needs to know that the row a turn updates is there and is its own,
  although rows of one thread are keyed by session, step and clock and handlers
  interleave: a handler that waits for a turn holds its row, one that has a row has been
  classified and its intent never changes, and a row's status fits its tokens (`BInv`).
- `ConversationsSplit`: a root was drawn by a message that was itself accepted
  (`RootsDrawn`); a live session is as old as the thread's latest
  message and has its root, and where there is none every message of the thread is past
  the time to live (`SessionIsLatest`). The second is what makes it matter not whose
  message expired the sessions, nor that a refused one removed only some of them (`SInv`).
- `RowsAccount`: the rows of a message are one for each step up to the one it has reached,
  all but the last completed (`Ordered`), and the last one agrees with what the message
  awaits or was told (`Told`), a run that threw having been told nothing. That there are as many rows as steps is then a bijection
  with an interval (`RowsCounted`).

**Only model-checked.** Liveness (`EventuallySettled`, `RunEnds`): fairness and ENABLED
are out of the prover's reach. Every invariant and action property of a run that is
expected to pass has a theorem.

## 6. Findings

1. **At most one effect per key, across replicas** (`queue_at_most_once`).
   `table-idempotency-store.ts:17-19` and `index.ts:122-124` say the table's
   insert-if-absent makes a duplicate commit at most one effect for several
   replicas. The lookup and the insert are a whole run apart: two replicas can both
   miss, both run, and both have their effect. The insert only decides whose outcome
   is kept.
2. **Retry after a transient intake outage** (`pipeline_outage`).
   `pipeline-processor.ts:138-140` says a transient outage retries. The retried
   delivery inserts verification rows under the primary keys of the first one and
   throws before it escalates again, so one failed delivery ends as poison.
3. **Recorded before acknowledged** (`gateway_ack`). `effect-gateway.ts:287-290`
   says the durable record is written before a commit is acknowledged. After a put
   that rejects, the draft is already committed locally, and the retry is
   acknowledged from it without a record.
4. **Idle threads start again** (`conversation_restart`). `ingress.ts:107-110` says
   that archiving makes the deterministic session id safe to reuse. The archive's
   primary key is that id, so the second time a thread falls idle the insert
   (`store.ts:509`) throws; the message is refused, the session stays idle, and since
   every message expires all idle sessions, first messages of other idle threads are
   refused too.

Differences that were met while modelling, are in the models as what the code does,
and have no run of their own:

- A timed-out, undecided approval answers `approval_timeout` to every resubmission
  (`toolshed.ts:604`); the comment at 610-614 says that a resubmission creates a fresh
  one after a timeout, and `docs/error-handling.md:243` that the user can
  re-request. No property takes a side; `Used` in `Toolshed` does what the code does.
- `runner.ts:164-166` has a row go from `running` to `completed`, `contract_violation`,
  `error` or `waiting_approval`. The code never writes `error`: a run that throws leaves
  its row `running` for ever (`GooseFails`).
- `toolshed.ts:247` has an audit entry on every exit path. A governance operation in
  Azure Tables that rejects leaves `executeTool` by its exception, without one
  (`RejectCall`).
- A reload swaps the rules a call under way will be gated by; the comment at
  `hot-reload.ts:164-167` has the call finish against the old objects.
- A recipe without schema and reconcile checks whose judge is sampled can commit on a
  first delivery that sampled the judge out, and have a redelivery's failed judge row
  beside that commit's favourable composite: the judge's row is inserted before the
  composite's is found taken (`verification.ts:213`, `item-pipeline.ts:311`).
- An empty governance file loads as defaults, without destructive actions, and
  validates; the comment at `hot-reload.ts:33-34` calls a broken edit inert.
- `ensureEffectGatewayRules` (`effect-gateway.ts:1043`) has no caller outside tests.
- The dashboard's feed of runs looks rows up by correlation roots
  (`store.ts:436`, `560`) that minion runs do not carry.

## 7. What is not modelled

- The daily-budget gate of `consumeQueue` (optional), corrupt idempotency and
  commit-record rows (treated by the code as a miss), `SQLITE_BUSY`.
- The order of the in-memory queue: any available message may be received, a
  superset of FIFO.
- Inside the pipeline: prompts, payloads, schemas and verdict findings; the
  signatures of escalation envelopes; the day's rollover in `dayCost`. A fallback
  item is run by the orchestrator in one step.
- In the gateway: the audit logger, credentials, the evidence view; time (expiry and
  approval timeouts may refuse whenever they are checked). The gateway without a
  commit-record store. In `index.ts:201-206` the gateway is built without connectors,
  so commits there refuse; the model has them mounted, as the tests and the other
  construction do.
- In the toolshed: redaction, parameter hashing (a request is a value), the contents
  of answers, the in-memory store's order among approvals of one instant. Patterns and
  globs of the rules are the sets of what they match.
- In conversations: prompts, the wording of replies, cards, quarantine (it wraps
  text), artifacts (content-addressed blobs), telemetry.
- In oversight: the shipped processes, which construct no sampling QA and wire no
  reset; what is modelled is a deployment that does.
- The dashboard's read-only pages and its feeds of runs and audit rows, whose code is
  that of the approvals' feed.
- The cloud audit mirror: a best-effort copy of rows that are in the audit table
  already, read by nothing here. HTTP retry and the MCP adapters: sequential loops
  around one request, without shared state; their outcome is the adapter's answer or
  throw. Tokens (cryptography), telemetry, infrastructure: see `PROJECT.json` for each
  with its reason.

## 8. Plan

Written so far: the modules above, ordered by what a failure costs. What is left:

1. **DailyBudget**: consume loop, day rollover, the audit transitions of several
   replicas, whose primary keys collide (`consumer.ts:81`).
2. Escalations per idempotency key, once Flow's side can be stated
   (`pipeline-processor.ts:320`).
3. **CloudAudit**: eviction under running retries.

## 9. Running the tools

```
tlc -workers 2 -config MCQueueIngressCluster.cfg MCQueueIngress
tlapm QueueIngressProofs.tla
```

Every run with its module, configuration and expected result is listed in
`PROJECT.json` under "runs"; "map" gives, for each definition, the lines of the
source it models. On two cores the largest runs (`gateway`, 1.8 million distinct
states, and `conversation`, 1.1 million) take about two minutes each, and the proofs
one to three minutes per module.
