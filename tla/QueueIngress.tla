----------------------------- MODULE QueueIngress -----------------------------
(***************************************************************************)
(* The Stream work queue and the replicas that consume it                  *)
(* (extensions/queue-ingress): consumeQueue's loop, WorkItemProcessor and  *)
(* PipelineWorkItemProcessor, the two queue backends and the two           *)
(* idempotency stores.                                                     *)
(*                                                                         *)
(* A replica handles one message at a time.  Every await in `process` is a *)
(* point where the other replicas, the broker's lock timer and a crash may *)
(* intervene, so each stretch between two awaits is one action; `pc` says  *)
(* which await the replica is suspended in.                                *)
(*                                                                         *)
(* The run of an item (orchestrator runner or item pipeline) is one step   *)
(* whose result is chosen among those the code can return; ItemPipeline    *)
(* looks inside it.  The daily budget, an optional gate in front of        *)
(* `receive`, is not configured here.                                      *)
(***************************************************************************)
EXTENDS Naturals

CONSTANTS
  Replicas,          \* queue-ingress processes
  Messages,          \* messages producers may enqueue; duplicates share a key
  Keys,              \* idempotency keys
  Malformed,         \* the "key" of a body parseWorkItem rejects
  ItemKey,           \* [Messages -> Keys \cup {Malformed}]
  PipelineKeys,      \* keys of the items whose item_type has a loaded pipeline
  EscalationArmed,   \* FORGE_INTAKE_URL and FORGE_BRIDGE_SECRET are both set
  DurableOutcomes,   \* TableIdempotencyStore (TRUE) or InMemoryIdempotencyStore
  ServiceBus,        \* ServiceBusWorkItemQueue (TRUE) or InMemoryWorkItemQueue
  MaxDeliveryCount,  \* the processor's poison threshold (default 3)
  BrokerMaxDelivery, \* the Service Bus queue's max_delivery_count (3)
  MaxCrashes         \* bound: process exits that no settle failure causes

ASSUME ConstantsAssumption ==
  /\ Malformed \notin Keys
  /\ ItemKey \in [Messages -> Keys \cup {Malformed}]
  /\ PipelineKeys \subseteq Keys
  /\ EscalationArmed \in BOOLEAN
  /\ DurableOutcomes \in BOOLEAN
  /\ ServiceBus \in BOOLEAN
  /\ MaxDeliveryCount \in Nat \ {0}
  /\ BrokerMaxDelivery \in Nat \ {0}
  /\ MaxCrashes \in Nat

\* The in-memory queue lives and dies with its one process.
ASSUME MemoryQueueAssumption ==
  ~ServiceBus => (\A r, s \in Replicas : r = s) /\ MaxCrashes = 0

VARIABLES
  queue,       \* the broker: [Messages -> [state, deliveryCount, reason]]
  outcomes,    \* idempotency stores: [Stores -> [Keys -> Delivery or NoOutcome]]
  pc,          \* the await each replica is suspended in
  msg,         \* the message each replica is processing
  delivery,    \* the deliveryCount it was received with
  settlement,  \* the settle call each replica is about to make
  crashes,     \* bounded by MaxCrashes
  late,        \* history: r's message arrived after its outcome was recorded
  ran,         \* history: the deliveries whose item was run
  succeeded    \* history: the deliveries whose run returned with its effect done

brokerVars == <<queue>>
workerVars == <<pc, msg, delivery, settlement>>
historyVars == <<late, ran, succeeded>>
vars == <<queue, outcomes, pc, msg, delivery, settlement, crashes, late, ran,
          succeeded>>

-------------------------------------------------------------------------------
NoMessage == "no message"
NoOutcome == <<>>
Table == "table"
Stores == {Table} \cup Replicas
Deliveries == Messages \X Nat

DeadLetterReasons ==
  {"MALFORMED_ENVELOPE", "POISON_MESSAGE", "BUDGET_EXCEEDED",
   "VERIFICATION_FAILED", "ESCALATION_UNARMED", "ESCALATION_UNRESOLVED"}

\* Service Bus's own dead-lettering, and the initial "no reason".
BrokerReasons == {"MaxDeliveryCountExceeded", "none"}

Settlements == {"none", "complete", "abandon"} \cup DeadLetterReasons

PcStates == {"down", "idle", "lookup", "run", "record", "settle"}

QueueEntries ==
  [state : {"unsent", "available", "locked", "completed", "dead"},
   deliveryCount : Nat,
   reason : DeadLetterReasons \cup BrokerReasons]

\* The store a replica was built with (index.ts, buildOutcomes).
StoreOf(r) == IF DurableOutcomes THEN Table ELSE r

Key(r) == ItemKey[msg[r]]
Recorded(r) == outcomes[StoreOf(r)][Key(r)] # NoOutcome
Pipelined(r) == Key(r) \in PipelineKeys

\* Mutant: the pipeline's own status is used as the reason code.
DeadLetterReasons_Raw == {"dead_lettered", "escalated", "bridged"}

\* How `process` dead-letters the pipeline outcomes it does not record: an
\* armed emitter turns an escalation into `bridged`, which Flow may leave
\* unresolved; an unarmed one leaves it `escalated`.
PipelineDeadLetterReasons ==
  {"BUDGET_EXCEEDED", "VERIFICATION_FAILED"} \cup
  (IF EscalationArmed THEN {"ESCALATION_UNRESOLVED"} ELSE {"ESCALATION_UNARMED"})

-------------------------------------------------------------------------------
Init ==
  /\ queue = [m \in Messages |->
                [state |-> "unsent", deliveryCount |-> 0, reason |-> "none"]]
  /\ outcomes = [s \in Stores |-> [k \in Keys |-> NoOutcome]]
  /\ pc = [r \in Replicas |-> "idle"]
  /\ msg = [r \in Replicas |-> NoMessage]
  /\ delivery = [r \in Replicas |-> 0]
  /\ settlement = [r \in Replicas |-> "none"]
  /\ crashes = 0
  /\ late = [r \in Replicas |-> FALSE]
  /\ ran = {}
  /\ succeeded = {}

(***************************************************************************)
(* The broker.                                                             *)
(***************************************************************************)
Enqueue(m) ==
  /\ queue[m].state = "unsent"
  /\ queue' = [queue EXCEPT ![m].state = "available"]
  /\ UNCHANGED <<outcomes, workerVars, crashes, historyVars>>

\* A message goes back to the queue; Service Bus dead-letters it instead when
\* it has been delivered max_delivery_count times.
Returned(entry) ==
  IF ServiceBus /\ entry.deliveryCount >= BrokerMaxDelivery
    THEN [entry EXCEPT !.state = "dead", !.reason = "MaxDeliveryCountExceeded"]
    ELSE [entry EXCEPT !.state = "available"]

\* A peek-lock runs out while its holder is still processing, or is gone.
LockExpires(m) ==
  /\ ServiceBus
  /\ queue[m].state = "locked"
  /\ queue' = [queue EXCEPT ![m] = Returned(queue[m])]
  /\ UNCHANGED <<outcomes, workerVars, crashes, historyVars>>

(***************************************************************************)
(* One iteration of consumeQueue: receive, process, settle.                *)
(***************************************************************************)

\* `receive` locks a message and bumps its deliveryCount; `process` parses it
\* at once, and dead-letters what does not parse without consulting the store.
Receive(r) ==
  /\ pc[r] = "idle"
  /\ \E m \in Messages :
       /\ queue[m].state = "available"
       /\ queue' = [queue EXCEPT ![m].state = "locked",
                                 ![m].deliveryCount = @ + 1]
       /\ msg' = [msg EXCEPT ![r] = m]
       /\ delivery' = [delivery EXCEPT ![r] = queue[m].deliveryCount + 1]
       /\ \/ /\ ItemKey[m] = Malformed
             /\ pc' = [pc EXCEPT ![r] = "settle"]
             /\ settlement' = [settlement EXCEPT ![r] = "MALFORMED_ENVELOPE"]
             /\ UNCHANGED late
          \/ /\ ItemKey[m] # Malformed
             /\ pc' = [pc EXCEPT ![r] = "lookup"]
             /\ late' = [late EXCEPT
                  ![r] = outcomes[StoreOf(r)][ItemKey[m]] # NoOutcome]
             /\ UNCHANGED settlement
  /\ UNCHANGED <<outcomes, crashes, ran, succeeded>>

\* The replica decides how to settle, and issues the call.
SettleWith(r, s) ==
  /\ pc' = [pc EXCEPT ![r] = "settle"]
  /\ settlement' = [settlement EXCEPT ![r] = s]
  /\ UNCHANGED <<msg, delivery>>

\* outcomes.get found a record: the duplicate settles with it, unrun.
ShortCircuit(r) ==
  /\ pc[r] = "lookup"
  /\ Recorded(r)
  /\ SettleWith(r, "complete")
  /\ UNCHANGED <<brokerVars, outcomes, crashes, historyVars>>

\* Mutant: the delivery count is compared before the store is asked.
Poison_BeforeLookup(r) ==
  /\ pc[r] = "lookup"
  /\ delivery[r] >= MaxDeliveryCount
  /\ SettleWith(r, "POISON_MESSAGE")
  /\ UNCHANGED <<brokerVars, outcomes, crashes, historyVars>>

\* Mutant: poison one delivery early.
Poison_OffByOne(r) ==
  /\ pc[r] = "lookup"
  /\ ~Recorded(r)
  /\ delivery[r] >= MaxDeliveryCount - 1
  /\ SettleWith(r, "POISON_MESSAGE")
  /\ UNCHANGED <<brokerVars, outcomes, crashes, historyVars>>

\* Checked after the short circuit: a recorded item is never called poison.
Poison(r) ==
  /\ pc[r] = "lookup"
  /\ ~Recorded(r)
  /\ delivery[r] >= MaxDeliveryCount
  /\ SettleWith(r, "POISON_MESSAGE")
  /\ UNCHANGED <<brokerVars, outcomes, crashes, historyVars>>

\* Mutant: the item is still run at the threshold.
StartRun_OffByOne(r) ==
  /\ pc[r] = "lookup"
  /\ ~Recorded(r)
  /\ delivery[r] <= MaxDeliveryCount
  /\ pc' = [pc EXCEPT ![r] = "run"]
  /\ ran' = ran \cup {<<msg[r], delivery[r]>>}
  /\ UNCHANGED <<brokerVars, outcomes, msg, delivery, settlement, crashes, late,
                 succeeded>>

StartRun(r) ==
  /\ pc[r] = "lookup"
  /\ ~Recorded(r)
  /\ delivery[r] < MaxDeliveryCount
  /\ pc' = [pc EXCEPT ![r] = "run"]
  /\ ran' = ran \cup {<<msg[r], delivery[r]>>}
  /\ UNCHANGED <<brokerVars, outcomes, msg, delivery, settlement, crashes, late,
                 succeeded>>

\* Mutant: the try block also covers what records the outcome.
RunThrows_Recorded(r) ==
  /\ pc[r] = "run"
  /\ pc' = [pc EXCEPT ![r] = "record"]
  /\ UNCHANGED <<brokerVars, outcomes, msg, delivery, settlement, crashes,
                 historyVars>>

\* Mutant: the failure is logged and the message is left locked.
RunThrows_NoAbandon(r) ==
  /\ pc[r] = "run"
  /\ pc' = [pc EXCEPT ![r] = "idle"]
  /\ msg' = [msg EXCEPT ![r] = NoMessage]
  /\ delivery' = [delivery EXCEPT ![r] = 0]
  /\ UNCHANGED <<brokerVars, outcomes, settlement, crashes, historyVars>>

\* A rejected run abandons the message, whatever it did before it threw.
RunThrows(r) ==
  /\ pc[r] = "run"
  /\ SettleWith(r, "abandon")
  /\ UNCHANGED <<brokerVars, outcomes, crashes, historyVars>>

\* Mutant: the message is settled first, the outcome never recorded if that
\* fails.
RunSucceeds_SettleFirst(r) ==
  /\ pc[r] = "run"
  /\ SettleWith(r, "complete")
  /\ succeeded' = succeeded \cup {<<msg[r], delivery[r]>>}
  /\ UNCHANGED <<brokerVars, outcomes, crashes, late, ran>>

\* runner.run returned, or the pipeline committed or was resolved by Flow: the
\* outcome is to be recorded before the message is settled.
RunSucceeds(r) ==
  /\ pc[r] = "run"
  /\ pc' = [pc EXCEPT ![r] = "record"]
  /\ succeeded' = succeeded \cup {<<msg[r], delivery[r]>>}
  /\ UNCHANGED <<brokerVars, outcomes, msg, delivery, settlement, crashes, late,
                 ran>>

\* The pipeline ended without an outcome to record: straight to the DLQ.
PipelineDeadLetters(r) ==
  /\ pc[r] = "run"
  /\ Pipelined(r)
  /\ \E reason \in PipelineDeadLetterReasons : SettleWith(r, reason)
  /\ UNCHANGED <<brokerVars, outcomes, crashes, historyVars>>

\* Mutant: an upsert where the insert-if-absent belongs.
RecordOutcome_Upsert(r) ==
  /\ pc[r] = "record"
  /\ outcomes' = [outcomes EXCEPT ![StoreOf(r)][Key(r)] = <<msg[r], delivery[r]>>]
  /\ SettleWith(r, "complete")
  /\ UNCHANGED <<brokerVars, crashes, historyVars>>

\* Mutant: the outcome is returned but not recorded.
RecordOutcome_Skipped(r) ==
  /\ pc[r] = "record"
  /\ SettleWith(r, "complete")
  /\ UNCHANGED <<brokerVars, outcomes, crashes, historyVars>>

\* outcomes.set: insert-if-absent in the table (409 is not an error), a plain
\* Map.set in memory.
RecordOutcome(r) ==
  LET mine == <<msg[r], delivery[r]>>
  IN  /\ pc[r] = "record"
      /\ outcomes' = [outcomes EXCEPT ![StoreOf(r)][Key(r)] =
                        IF DurableOutcomes /\ Recorded(r) THEN @ ELSE mine]
      /\ SettleWith(r, "complete")
      /\ UNCHANGED <<brokerVars, crashes, historyVars>>

-------------------------------------------------------------------------------
\* Only the holder of the delivery's lock can settle it.
HoldsLock(r) ==
  /\ queue[msg[r]].state = "locked"
  /\ queue[msg[r]].deliveryCount = delivery[r]

\* What complete, abandon and deadLetter do to the broker's entry.
Settled(entry, s) ==
  CASE s = "complete" -> [entry EXCEPT !.state = "completed"]
    [] s = "abandon" -> Returned(entry)
    [] OTHER -> [entry EXCEPT !.state = "dead", !.reason = s]

ToIdle(r, state) ==
  /\ pc' = [pc EXCEPT ![r] = state]
  /\ msg' = [msg EXCEPT ![r] = NoMessage]
  /\ delivery' = [delivery EXCEPT ![r] = 0]
  /\ settlement' = [settlement EXCEPT ![r] = "none"]
  /\ late' = [late EXCEPT ![r] = FALSE]

Settle(r) ==
  /\ pc[r] = "settle"
  /\ HoldsLock(r)
  /\ queue' = [queue EXCEPT ![msg[r]] = Settled(queue[msg[r]], settlement[r])]
  /\ ToIdle(r, "idle")
  /\ UNCHANGED <<outcomes, crashes, ran, succeeded>>

\* What a process exit erases: the in-memory idempotency store.
Forget(r) ==
  outcomes' = IF DurableOutcomes THEN outcomes
              ELSE [outcomes EXCEPT ![r] = [k \in Keys |-> NoOutcome]]

\* The broker rejects the settle call of an expired lock; nothing catches it
\* between `process` and main().catch, which exits the process.
SettleRejected(r) ==
  /\ pc[r] = "settle"
  /\ ~HoldsLock(r)
  /\ ToIdle(r, "down")
  /\ Forget(r)
  /\ UNCHANGED <<brokerVars, crashes, ran, succeeded>>

\* The process dies at any await, or a store or broker call rejects there.
Crash(r) ==
  /\ pc[r] # "down"
  /\ crashes < MaxCrashes
  /\ crashes' = crashes + 1
  /\ ToIdle(r, "down")
  /\ Forget(r)
  /\ UNCHANGED <<brokerVars, ran, succeeded>>

\* The platform restarts the container.
Restart(r) ==
  /\ pc[r] = "down"
  /\ pc' = [pc EXCEPT ![r] = "idle"]
  /\ UNCHANGED <<brokerVars, outcomes, msg, delivery, settlement, crashes,
                 historyVars>>

-------------------------------------------------------------------------------
ReplicaStep(r) ==
  \/ Receive(r)
  \/ ShortCircuit(r)
  \/ Poison(r)
  \/ StartRun(r)
  \/ RunThrows(r)
  \/ RunSucceeds(r)
  \/ PipelineDeadLetters(r)
  \/ RecordOutcome(r)
  \/ Settle(r)
  \/ SettleRejected(r)
  \/ Restart(r)

Next ==
  \/ \E m \in Messages : Enqueue(m) \/ LockExpires(m)
  \/ \E r \in Replicas : ReplicaStep(r) \/ Crash(r)

Spec == Init /\ [][Next]_vars

\* A live process keeps taking steps, and the platform restarts a dead one.
\* Locks need no fairness: an expired lock only redelivers sooner.
Fairness == \A r \in Replicas : WF_vars(ReplicaStep(r))

FairSpec == Spec /\ Fairness

-------------------------------------------------------------------------------
(***************************************************************************)
(* Properties.                                                             *)
(***************************************************************************)

\* The shape of the broker, the stores and the replicas' local state.
TypeOK ==
  /\ queue \in [Messages -> QueueEntries]
  /\ outcomes \in [Stores -> [Keys -> Deliveries \cup {NoOutcome}]]
  /\ pc \in [Replicas -> PcStates]
  /\ msg \in [Replicas -> Messages \cup {NoMessage}]
  /\ delivery \in [Replicas -> Nat]
  /\ settlement \in [Replicas -> Settlements]
  /\ crashes \in Nat
  /\ late \in [Replicas -> BOOLEAN]
  /\ ran \subseteq Deliveries
  /\ succeeded \subseteq Deliveries

\* A message leaves the queue as completed only when a run of its item had its
\* effect and returned, and, with the table store, the outcome is there for the next
\* duplicate: no crash, lost lock or duplicate between the run, the record and
\* the settle can lose an item (processor.ts:119-137, record before settle).
CompletedMeansDone ==
  \A m \in Messages : queue[m].state = "completed" =>
    /\ \E d \in succeeded : ItemKey[d[1]] = ItemKey[m]
    /\ DurableOutcomes => outcomes[Table][ItemKey[m]] # NoOutcome

\* A recorded outcome is the outcome of a run that had its effect, for an item
\* of that key (processor.ts:132-136): nothing fills in a row for a run that
\* threw, was dead-lettered or belonged to another item.
RecordedIsReal ==
  \A s \in Stores, k \in Keys : outcomes[s][k] # NoOutcome =>
    /\ outcomes[s][k] \in succeeded
    /\ ItemKey[outcomes[s][k][1]] = k

\* A message received after its key's outcome was recorded is neither run again
\* nor called poison, whatever its deliveryCount (processor.ts:81-87).
LateDuplicateShortCircuits ==
  \A r \in Replicas : late[r] =>
    /\ pc[r] \in {"lookup", "settle"}
    /\ pc[r] = "settle" => settlement[r] = "complete"

\* Under redeliveries, expired locks and crashes, no item is run on or after
\* the delivery at which it counts as poison, and no delivery reaches further
\* than the run that is charged to it (processor.ts:113-117).
RunsBounded ==
  \A d \in ran : /\ d[2] \in 1 .. MaxDeliveryCount - 1
                 /\ d[2] <= queue[d[1]].deliveryCount

\* QueueIngress with the table store implements the ledger: settlements and
\* recorded outcomes are final, and completion rests on a recorded outcome.
Ledger == INSTANCE ItemLedger WITH
  Outcomes <- Deliveries,
  status <- [m \in Messages |->
               IF queue[m].state \in {"completed", "dead"} THEN queue[m].state
               ELSE "pending"],
  outcome <- outcomes[Table]

LedgerSpec == Ledger!Spec

\* "A duplicate delivery commits at most one effect"
\* (table-idempotency-store.ts:17-19): no two runs of one key both return with
\* their effect done.  Runs that had theirs and then rejected are not even counted.
AtMostOnceCommit ==
  \A d, e \in succeeded : ItemKey[d[1]] = ItemKey[e[1]] => d = e

\* In one process without crashes, a key one of whose runs has returned is never
\* run again, however often it is enqueued, redelivered or was abandoned before
\* (processor.ts:107-109, 132-136).  A run that had its effect and then rejected is
\* not such a run: its message is abandoned, and the redelivery runs the item once
\* more; what an effect then does twice is the effect gateway's to prevent.
ReturnedNeverRerun ==
  \A r \in Replicas, d \in succeeded : pc[r] = "run" => ItemKey[d[1]] # Key(r)

\* In one process without crashes, an item is called poison only after every
\* delivery below the threshold ran it and failed (processor.ts:121-130).
PoisonMeansRepeatedFailure ==
  \A m \in Messages : queue[m].reason = "POISON_MESSAGE" =>
    \A n \in 1 .. MaxDeliveryCount - 1 : <<m, n>> \in ran \ succeeded

\* Every message that enters the queue is eventually completed or
\* dead-lettered: abandoning, redelivering and the poison check never leave one
\* circulating or locked for good.
EventuallySettled ==
  \A m \in Messages :
    queue[m].state # "unsent" ~> queue[m].state \in {"completed", "dead"}
===============================================================================
