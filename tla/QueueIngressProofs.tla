-------------------------- MODULE QueueIngressProofs --------------------------
(***************************************************************************)
(* What holds of QueueIngress for any replicas, messages, keys, thresholds *)
(* and number of crashes.                                                  *)
(*                                                                         *)
(* The safety properties are not inductive by themselves: what a settle or *)
(* a record writes was decided one or two awaits earlier.  Local(r) says,  *)
(* for each await replica r may be suspended in, what it has already done  *)
(* there and what no other replica can undo.                               *)
(***************************************************************************)
EXTENDS QueueIngress, TLAPS

\* What a suspended replica knows.  At `record` its own run had its effect;
\* at `settle` with "complete" the key's outcome is in its store.
Local(r) ==
  /\ pc[r] \in {"lookup", "run", "record", "settle"} =>
       /\ msg[r] \in Messages
       /\ delivery[r] >= 1
       /\ delivery[r] <= queue[msg[r]].deliveryCount
  /\ pc[r] \in {"lookup", "run", "record"} => Key(r) \in Keys
  /\ pc[r] = "record" => <<msg[r], delivery[r]>> \in succeeded
  /\ pc[r] = "settle" => settlement[r] # "none"
  /\ (pc[r] = "settle" /\ settlement[r] = "complete") =>
       Key(r) \in Keys /\ Recorded(r)
  /\ late[r] =>
       /\ pc[r] \in {"lookup", "settle"}
       /\ Key(r) \in Keys
       /\ Recorded(r)
       /\ pc[r] = "settle" => settlement[r] = "complete"

LocalInv == \A r \in Replicas : Local(r)

\* Only items that parse are run.
SucceededItems == \A d \in succeeded : ItemKey[d[1]] \in Keys

IInv ==
  /\ TypeOK
  /\ LocalInv
  /\ SucceededItems
  /\ RecordedIsReal
  /\ RunsBounded
  /\ CompletedMeansDone

-------------------------------------------------------------------------------
(***************************************************************************)
(* Type correctness.                                                       *)
(***************************************************************************)

LEMMA ReturnedType ==
  ASSUME NEW e \in QueueEntries
  PROVE  /\ Returned(e) \in QueueEntries
         /\ Returned(e).deliveryCount = e.deliveryCount
         /\ Returned(e).state \in {"available", "dead"}
         /\ Returned(e).state = "dead" => Returned(e).reason # "POISON_MESSAGE"
BY DEF Returned, QueueEntries, BrokerReasons, DeadLetterReasons

LEMMA SettledType ==
  ASSUME NEW e \in QueueEntries, NEW s \in Settlements, s # "none"
  PROVE  /\ Settled(e, s) \in QueueEntries
         /\ Settled(e, s).deliveryCount = e.deliveryCount
         /\ Settled(e, s).state = "completed" <=> s = "complete"
         /\ Settled(e, s).state \in {"completed", "available", "dead"}
<1>1. CASE s = "complete"
  BY <1>1 DEF Settled, QueueEntries
<1>2. CASE s = "abandon"
  BY <1>2, ReturnedType DEF Settled
<1>3. CASE s \in DeadLetterReasons
  BY <1>3 DEF Settled, QueueEntries, DeadLetterReasons
<1>4. QED
  BY <1>1, <1>2, <1>3 DEF Settlements

(***************************************************************************)
(* What no step takes away from a replica it does not move.                *)
(***************************************************************************)

\* Between two steps of a replica: deliveries only grow, effects stay, and an
\* outcome in its store stays.
Undisturbed(r) ==
  /\ pc'[r] = pc[r]
  /\ msg'[r] = msg[r]
  /\ delivery'[r] = delivery[r]
  /\ settlement'[r] = settlement[r]
  /\ late'[r] = late[r]
  /\ \A m \in Messages : queue'[m].deliveryCount >= queue[m].deliveryCount
  /\ succeeded \subseteq succeeded'
  /\ \A k \in Keys : outcomes[StoreOf(r)][k] # NoOutcome =>
                       outcomes'[StoreOf(r)][k] # NoOutcome

LEMMA LocalFrame ==
  ASSUME TypeOK, TypeOK', NEW r \in Replicas, Local(r), Undisturbed(r)
  PROVE  Local(r)'
<1>1. StoreOf(r)' = StoreOf(r)
  BY DEF StoreOf
<1>2. Key(r)' = Key(r)
  BY DEF Key, Undisturbed
<1>3. Key(r) \in Keys /\ Recorded(r) => Recorded(r)'
  BY <1>1, <1>2 DEF Recorded, Undisturbed
<1>4. msg[r] \in Messages /\ delivery[r] <= queue[msg[r]].deliveryCount
        => delivery[r] <= queue'[msg[r]].deliveryCount
  BY DEF Undisturbed, TypeOK, QueueEntries
<1>5. QED
  BY <1>2, <1>3, <1>4 DEF Local, Undisturbed

\* Adding deliveries to an entry, and nothing to the histories, keeps the
\* bound on runs.
LEMMA RunsFrame ==
  ASSUME TypeOK, TypeOK', RunsBounded, UNCHANGED ran,
         \A m \in Messages : queue'[m].deliveryCount >= queue[m].deliveryCount
  PROVE  RunsBounded'
BY DEF RunsBounded, TypeOK, Deliveries, QueueEntries

\* Effects and outcomes are only added to, so what is completed stays done.
LEMMA CompletedFrame ==
  ASSUME TypeOK, CompletedMeansDone,
         succeeded \subseteq succeeded',
         DurableOutcomes => \A k \in Keys : outcomes[Table][k] # NoOutcome =>
                                            outcomes'[Table][k] # NoOutcome,
         \A m \in Messages : queue'[m].state = "completed" =>
                                queue[m].state = "completed",
         \A m \in Messages : queue[m].state = "completed" => ItemKey[m] \in Keys
  PROVE  CompletedMeansDone'
BY DEF CompletedMeansDone

LEMMA InitInv == Init => IInv
BY ConstantsAssumption DEF Init, IInv, TypeOK, LocalInv, Local, SucceededItems,
   RecordedIsReal, RunsBounded, CompletedMeansDone, QueueEntries, BrokerReasons,
   PcStates, Settlements

LEMMA CompletedItems ==
  ASSUME TypeOK, SucceededItems, CompletedMeansDone, NEW m \in Messages,
         queue[m].state = "completed"
  PROVE  ItemKey[m] \in Keys
BY DEF SucceededItems, CompletedMeansDone

-------------------------------------------------------------------------------
(***************************************************************************)
(* One lemma per action.                                                   *)
(***************************************************************************)

LEMMA EnqueueStep ==
  ASSUME IInv, NEW m \in Messages, Enqueue(m)
  PROVE  IInv'
<1>1. TypeOK'
  BY DEF IInv, TypeOK, Enqueue, QueueEntries, workerVars, historyVars
<1>2. \A n \in Messages : /\ queue'[n].deliveryCount = queue[n].deliveryCount
                          /\ queue'[n].state = "completed" =>
                               queue[n].state = "completed"
  BY DEF IInv, TypeOK, Enqueue, QueueEntries
<1>3. LocalInv'
  <2> SUFFICES ASSUME NEW r \in Replicas PROVE Local(r)'
    BY DEF LocalInv
  <2>1. Undisturbed(r)
    BY <1>2 DEF Undisturbed, IInv, TypeOK, QueueEntries, Enqueue, workerVars, historyVars
  <2>2. QED
    BY <1>1, <2>1, LocalFrame DEF IInv, LocalInv
<1>4. SucceededItems' /\ RecordedIsReal'
  BY DEF IInv, SucceededItems, RecordedIsReal, Enqueue, historyVars
<1>5. RunsBounded'
  <2>1. \A n \in Messages : queue'[n].deliveryCount >= queue[n].deliveryCount
    BY <1>2 DEF IInv, TypeOK, QueueEntries
  <2>2. QED
    BY <1>1, <2>1, RunsFrame DEF IInv, Enqueue, historyVars
<1>6. CompletedMeansDone'
  BY <1>2, CompletedItems, CompletedFrame DEF IInv, Enqueue, historyVars
<1>7. QED
  BY <1>1, <1>3, <1>4, <1>5, <1>6 DEF IInv

LEMMA LockExpiresStep ==
  ASSUME IInv, NEW m \in Messages, LockExpires(m)
  PROVE  IInv'
<1>0. queue[m] \in QueueEntries
  BY DEF IInv, TypeOK
<1>1. TypeOK'
  BY <1>0, ReturnedType DEF IInv, TypeOK, LockExpires, workerVars, historyVars
<1>2. \A n \in Messages : /\ queue'[n].deliveryCount = queue[n].deliveryCount
                          /\ queue'[n].state = "completed" =>
                               queue[n].state = "completed"
  BY <1>0, ReturnedType DEF IInv, TypeOK, LockExpires
<1>3. LocalInv'
  <2> SUFFICES ASSUME NEW r \in Replicas PROVE Local(r)'
    BY DEF LocalInv
  <2>1. Undisturbed(r)
    BY <1>2 DEF Undisturbed, IInv, TypeOK, QueueEntries, LockExpires, workerVars, historyVars
  <2>2. QED
    BY <1>1, <2>1, LocalFrame DEF IInv, LocalInv
<1>4. SucceededItems' /\ RecordedIsReal'
  BY DEF IInv, SucceededItems, RecordedIsReal, LockExpires, historyVars
<1>5. RunsBounded'
  <2>1. \A n \in Messages : queue'[n].deliveryCount >= queue[n].deliveryCount
    BY <1>2 DEF IInv, TypeOK, QueueEntries
  <2>2. QED
    BY <1>1, <2>1, RunsFrame DEF IInv, LockExpires, historyVars
<1>6. CompletedMeansDone'
  BY <1>2, CompletedItems, CompletedFrame DEF IInv, LockExpires, historyVars
<1>7. QED
  BY <1>1, <1>3, <1>4, <1>5, <1>6 DEF IInv

\* A step of r that leaves the other replicas alone.
LEMMA OthersFrame ==
  ASSUME IInv, TypeOK', NEW r \in Replicas, Local(r)',
         \A s \in Replicas \ {r} : Undisturbed(s)
  PROVE  LocalInv'
<1> SUFFICES ASSUME NEW s \in Replicas PROVE Local(s)'
  BY DEF LocalInv
<1>1. CASE s = r
  BY <1>1
<1>2. CASE s # r
  BY <1>2, LocalFrame DEF IInv, LocalInv
<1>3. QED
  BY <1>1, <1>2

\* Choosing how to settle disturbs nothing but r's own pc and settlement.
LEMMA DecideStep ==
  ASSUME IInv, NEW r \in Replicas, NEW s \in Settlements,
         UNCHANGED <<queue, outcomes, crashes, late, ran, succeeded>>,
         pc[r] \in {"lookup", "run"}, SettleWith(r, s),
         s # "none", s = "complete" => Recorded(r), late[r] => s = "complete"
  PROVE  IInv'
<1>1. TypeOK'
  BY DEF IInv, TypeOK, SettleWith, PcStates
<1>2. Local(r)'
  <2>1. /\ pc'[r] = "settle" /\ settlement'[r] = s
        /\ msg'[r] = msg[r] /\ delivery'[r] = delivery[r]
    BY DEF SettleWith, IInv, TypeOK
  <2>2. Key(r)' = Key(r) /\ Recorded(r)' = Recorded(r)
    BY <2>1 DEF Key, Recorded, StoreOf
  <2>3. QED
    BY <2>1, <2>2 DEF IInv, LocalInv, Local
<1>3. \A t \in Replicas \ {r} : Undisturbed(t)
  BY DEF Undisturbed, SettleWith, IInv, TypeOK, QueueEntries
<1>4. LocalInv'
  BY <1>1, <1>2, <1>3, OthersFrame
<1>5. SucceededItems' /\ RecordedIsReal' /\ RunsBounded' /\ CompletedMeansDone'
  BY DEF IInv, SucceededItems, RecordedIsReal, RunsBounded, CompletedMeansDone
<1>6. QED
  BY <1>1, <1>4, <1>5 DEF IInv

LEMMA ShortCircuitStep ==
  ASSUME IInv, NEW r \in Replicas, ShortCircuit(r)
  PROVE  IInv'
BY DecideStep DEF ShortCircuit, brokerVars, historyVars, Settlements

LEMMA PoisonStep ==
  ASSUME IInv, NEW r \in Replicas, Poison(r)
  PROVE  IInv'
<1>1. ~late[r]
  BY DEF Poison, IInv, LocalInv, Local
<1>2. QED
  BY <1>1, DecideStep DEF Poison, brokerVars, historyVars, Settlements, DeadLetterReasons

LEMMA RunThrowsStep ==
  ASSUME IInv, NEW r \in Replicas, RunThrows(r)
  PROVE  IInv'
<1>1. ~late[r]
  BY DEF RunThrows, IInv, LocalInv, Local
<1>2. QED
  BY <1>1, DecideStep DEF RunThrows, brokerVars, historyVars, Settlements

LEMMA PipelineDeadLettersStep ==
  ASSUME IInv, NEW r \in Replicas, PipelineDeadLetters(r)
  PROVE  IInv'
<1>1. ~late[r]
  BY DEF PipelineDeadLetters, IInv, LocalInv, Local
<1>2. PICK reason \in PipelineDeadLetterReasons : SettleWith(r, reason)
  BY DEF PipelineDeadLetters
<1>3. reason \in Settlements /\ reason \notin {"none", "complete"}
  BY DEF PipelineDeadLetterReasons, Settlements, DeadLetterReasons
<1>4. QED
  BY <1>1, <1>2, <1>3, DecideStep DEF PipelineDeadLetters, brokerVars, historyVars

LEMMA ReceiveStep ==
  ASSUME IInv, NEW r \in Replicas, Receive(r)
  PROVE  IInv'
<1>1. PICK m \in Messages :
        /\ queue[m].state = "available"
        /\ queue' = [queue EXCEPT ![m].state = "locked",
                                  ![m].deliveryCount = @ + 1]
        /\ msg' = [msg EXCEPT ![r] = m]
        /\ delivery' = [delivery EXCEPT ![r] = queue[m].deliveryCount + 1]
        /\ \/ /\ ItemKey[m] = Malformed
              /\ pc' = [pc EXCEPT ![r] = "settle"]
              /\ settlement' = [settlement EXCEPT ![r] = "MALFORMED_ENVELOPE"]
              /\ UNCHANGED late
           \/ /\ ItemKey[m] # Malformed
              /\ pc' = [pc EXCEPT ![r] = "lookup"]
              /\ late' = [late EXCEPT
                   ![r] = outcomes[StoreOf(r)][ItemKey[m]] # NoOutcome]
              /\ UNCHANGED settlement
  BY DEF Receive
<1>2. /\ queue[m] \in QueueEntries
      /\ queue'[m] = [queue[m] EXCEPT !.state = "locked", !.deliveryCount = @ + 1]
      /\ queue'[m].deliveryCount = queue[m].deliveryCount + 1
      /\ queue'[m].state = "locked"
      /\ \A n \in Messages \ {m} : queue'[n] = queue[n]
  BY <1>1 DEF IInv, TypeOK, QueueEntries
<1>3. ASSUME NEW n \in Messages
      PROVE  queue'[n].deliveryCount >= queue[n].deliveryCount
  <2>1. queue[n].deliveryCount \in Nat
    BY DEF IInv, TypeOK, QueueEntries
  <2>2. queue'[n].deliveryCount \in {queue[n].deliveryCount, queue[n].deliveryCount + 1}
    BY <1>2
  <2>3. QED
    BY <2>1, <2>2
<1>4. UNCHANGED <<outcomes, crashes, ran, succeeded>> /\ pc[r] = "idle"
  BY DEF Receive
<1>5. TypeOK'
  <2>1. queue' \in [Messages -> QueueEntries]
    BY <1>1, <1>2 DEF IInv, TypeOK, QueueEntries
  <2>2. delivery' \in [Replicas -> Nat] /\ msg' \in [Replicas -> Messages \cup {NoMessage}]
    BY <1>1, <1>2 DEF IInv, TypeOK, QueueEntries
  <2>3. settlement' \in [Replicas -> Settlements] /\ pc' \in [Replicas -> PcStates]
    BY <1>1 DEF IInv, TypeOK, PcStates, Settlements, DeadLetterReasons
  <2>4. late' \in [Replicas -> BOOLEAN]
    BY <1>1, Zenon DEF IInv, TypeOK
  <2>5. QED
    BY <1>4, <2>1, <2>2, <2>3, <2>4 DEF IInv, TypeOK
<1>6. ~late[r]
  BY <1>4 DEF IInv, LocalInv, Local
<1>7. Local(r)'
  <2>1. msg'[r] = m /\ delivery'[r] = queue'[m].deliveryCount /\ delivery'[r] >= 1
    BY <1>1, <1>2 DEF IInv, TypeOK, QueueEntries
  <2>2. Key(r)' = ItemKey[m]
    BY <2>1 DEF Key
  <2>3. Recorded(r)' <=> outcomes[StoreOf(r)][ItemKey[m]] # NoOutcome
    BY <1>4, <2>2 DEF Recorded, StoreOf
  <2>4. CASE ItemKey[m] = Malformed
    <3>1. pc'[r] = "settle" /\ settlement'[r] = "MALFORMED_ENVELOPE" /\ ~late'[r]
      BY <1>1, <1>6, <2>4 DEF IInv, TypeOK
    <3>2. delivery'[r] <= queue'[msg'[r]].deliveryCount
      BY <2>1, <1>5 DEF TypeOK, QueueEntries
    <3>3. QED
      BY <2>1, <3>1, <3>2 DEF Local
  <2>5. CASE ItemKey[m] # Malformed
    <3>1. pc'[r] = "lookup"
      BY <1>1, <2>5 DEF IInv, TypeOK
    <3>2. late'[r] => Recorded(r)'
      BY <1>1, <2>3, <2>5 DEF IInv, TypeOK
    <3>3. delivery'[r] <= queue'[msg'[r]].deliveryCount
      BY <2>1, <1>5 DEF TypeOK, QueueEntries
    <3>4. Key(r)' \in Keys
      BY <2>2, <2>5, ConstantsAssumption
    <3>5. QED
      BY <2>1, <3>1, <3>2, <3>3, <3>4 DEF Local
  <2>6. QED
    BY <2>4, <2>5
<1>8. \A t \in Replicas \ {r} : Undisturbed(t)
  BY <1>1, <1>3, <1>4 DEF Undisturbed, IInv, TypeOK
<1>9. LocalInv'
  BY <1>5, <1>7, <1>8, OthersFrame
<1>10. SucceededItems' /\ RecordedIsReal'
  BY <1>4 DEF IInv, SucceededItems, RecordedIsReal
<1>11. RunsBounded'
  BY <1>3, <1>4, <1>5, RunsFrame DEF IInv
<1>12. CompletedMeansDone'
  BY <1>2, <1>4, CompletedItems, CompletedFrame DEF IInv
<1>13. QED
  BY <1>5, <1>9, <1>10, <1>11, <1>12 DEF IInv

LEMMA StartRunStep ==
  ASSUME IInv, NEW r \in Replicas, StartRun(r)
  PROVE  IInv'
<1>1. /\ pc' = [pc EXCEPT ![r] = "run"]
      /\ ran' = ran \cup {<<msg[r], delivery[r]>>}
      /\ UNCHANGED <<queue, outcomes, msg, delivery, settlement, crashes, late,
                     succeeded>>
      /\ pc[r] = "lookup" /\ ~Recorded(r) /\ delivery[r] < MaxDeliveryCount
  BY DEF StartRun, brokerVars
<1>2. /\ msg[r] \in Messages /\ delivery[r] \in Nat /\ delivery[r] >= 1
      /\ delivery[r] <= queue[msg[r]].deliveryCount
      /\ Key(r) \in Keys /\ ~late[r]
  BY <1>1 DEF IInv, LocalInv, Local, TypeOK
<1>3. TypeOK'
  BY <1>1, <1>2 DEF IInv, TypeOK, PcStates, Deliveries
<1>4. Local(r)'
  <2>1. Key(r)' = Key(r) /\ pc'[r] = "run"
    BY <1>1 DEF Key, IInv, TypeOK
  <2>2. QED
    BY <1>1, <1>2, <2>1 DEF Local
<1>5. \A t \in Replicas \ {r} : Undisturbed(t)
  BY <1>1 DEF Undisturbed, IInv, TypeOK, QueueEntries
<1>6. LocalInv'
  BY <1>3, <1>4, <1>5, OthersFrame
<1>7. RunsBounded'
  BY <1>1, <1>2, ConstantsAssumption DEF IInv, RunsBounded, TypeOK
<1>8. SucceededItems' /\ RecordedIsReal' /\ CompletedMeansDone'
  BY <1>1 DEF IInv, SucceededItems, RecordedIsReal, CompletedMeansDone
<1>9. QED
  BY <1>3, <1>6, <1>7, <1>8 DEF IInv

LEMMA RunSucceedsStep ==
  ASSUME IInv, NEW r \in Replicas, RunSucceeds(r)
  PROVE  IInv'
<1>1. /\ pc' = [pc EXCEPT ![r] = "record"]
      /\ succeeded' = succeeded \cup {<<msg[r], delivery[r]>>}
      /\ UNCHANGED <<queue, outcomes, msg, delivery, settlement, crashes, late, ran>>
      /\ pc[r] = "run"
  BY DEF RunSucceeds, brokerVars
<1>2. /\ msg[r] \in Messages /\ delivery[r] \in Nat /\ delivery[r] >= 1
      /\ delivery[r] <= queue[msg[r]].deliveryCount
      /\ Key(r) \in Keys /\ ~late[r]
  BY <1>1 DEF IInv, LocalInv, Local, TypeOK
<1>3. TypeOK'
  BY <1>1, <1>2 DEF IInv, TypeOK, PcStates, Deliveries
<1>4. Local(r)'
  <2>1. Key(r)' = Key(r) /\ pc'[r] = "record"
    BY <1>1 DEF Key, IInv, TypeOK
  <2>2. QED
    BY <1>1, <1>2, <2>1 DEF Local
<1>5. \A t \in Replicas \ {r} : Undisturbed(t)
  BY <1>1 DEF Undisturbed, IInv, TypeOK, QueueEntries
<1>6. LocalInv'
  BY <1>3, <1>4, <1>5, OthersFrame
<1>7. SucceededItems'
  BY <1>1, <1>2 DEF IInv, SucceededItems, Key
<1>8. RecordedIsReal' /\ RunsBounded' /\ CompletedMeansDone'
  BY <1>1 DEF IInv, RecordedIsReal, RunsBounded, CompletedMeansDone
<1>9. QED
  BY <1>3, <1>6, <1>7, <1>8 DEF IInv

LEMMA RecordOutcomeStep ==
  ASSUME IInv, NEW r \in Replicas, RecordOutcome(r)
  PROVE  IInv'
<1> DEFINE mine == <<msg[r], delivery[r]>>
           row == IF DurableOutcomes /\ Recorded(r)
                    THEN outcomes[StoreOf(r)][Key(r)] ELSE mine
<1>1. /\ outcomes' = [outcomes EXCEPT ![StoreOf(r)][Key(r)] = row]
      /\ SettleWith(r, "complete")
      /\ UNCHANGED <<queue, crashes, late, ran, succeeded>>
      /\ pc[r] = "record"
  BY DEF RecordOutcome, brokerVars, historyVars
<1>2. /\ msg[r] \in Messages /\ delivery[r] \in Nat /\ delivery[r] >= 1
      /\ delivery[r] <= queue[msg[r]].deliveryCount
      /\ Key(r) \in Keys /\ ~late[r] /\ mine \in succeeded
      /\ ItemKey[msg[r]] = Key(r) /\ StoreOf(r) \in Stores
  BY <1>1 DEF IInv, LocalInv, Local, TypeOK, Key, StoreOf, Stores
<1>3. row \in succeeded /\ ItemKey[row[1]] = Key(r)
  BY <1>2 DEF IInv, RecordedIsReal, Recorded
<1>4. row \in Deliveries /\ row # NoOutcome
  BY <1>3 DEF IInv, TypeOK, Deliveries, NoOutcome
<1>5. /\ outcomes' \in [Stores -> [Keys -> Deliveries \cup {NoOutcome}]]
      /\ \A s \in Stores, k \in Keys :
           outcomes'[s][k] = IF s = StoreOf(r) /\ k = Key(r) THEN row ELSE outcomes[s][k]
  BY <1>1, <1>2, <1>4 DEF IInv, TypeOK
<1>6. TypeOK'
  BY <1>1, <1>5 DEF IInv, TypeOK, SettleWith, PcStates, Settlements
<1>7. Local(r)'
  <2>1. /\ pc'[r] = "settle" /\ settlement'[r] = "complete"
        /\ msg'[r] = msg[r] /\ delivery'[r] = delivery[r]
    BY <1>1 DEF SettleWith, IInv, TypeOK
  <2>2. Key(r)' = Key(r) /\ Recorded(r)'
    BY <1>2, <1>4, <1>5, <2>1 DEF Key, Recorded, StoreOf
  <2>3. QED
    BY <1>1, <1>2, <2>1, <2>2 DEF Local
<1>8. \A t \in Replicas \ {r} : Undisturbed(t)
  <2> TAKE t \in Replicas \ {r}
  <2>1. StoreOf(t) \in Stores
    BY DEF StoreOf, Stores
  <2>2. \A k \in Keys : outcomes[StoreOf(t)][k] # NoOutcome =>
                        outcomes'[StoreOf(t)][k] # NoOutcome
    BY <1>4, <1>5, <2>1
  <2>3. QED
    BY <1>1, <2>2 DEF Undisturbed, SettleWith, IInv, TypeOK, QueueEntries
<1>9. LocalInv'
  BY <1>6, <1>7, <1>8, OthersFrame
<1>10. SucceededItems' /\ RunsBounded'
  BY <1>1 DEF IInv, SucceededItems, RunsBounded
<1>11. RecordedIsReal'
  BY <1>1, <1>3, <1>5 DEF IInv, RecordedIsReal
<1>12. CompletedMeansDone'
  <2>1. \A k \in Keys : outcomes[Table][k] # NoOutcome => outcomes'[Table][k] # NoOutcome
    BY <1>4, <1>5 DEF Stores
  <2>2. QED
    BY <1>1, <2>1, CompletedItems, CompletedFrame DEF IInv
<1>13. QED
  BY <1>6, <1>9, <1>10, <1>11, <1>12 DEF IInv

-------------------------------------------------------------------------------
(***************************************************************************)
(* Leaving a message: a settle, its rejection, a crash.                    *)
(***************************************************************************)

\* A replica at rest satisfies Local whatever happened around it.
LEMMA AtRest ==
  ASSUME IInv, NEW r \in Replicas, NEW state \in {"idle", "down"}, ToIdle(r, state)
  PROVE  /\ Local(r)'
         /\ pc' \in [Replicas -> PcStates]
         /\ msg' \in [Replicas -> Messages \cup {NoMessage}]
         /\ delivery' \in [Replicas -> Nat]
         /\ settlement' \in [Replicas -> Settlements]
         /\ late' \in [Replicas -> BOOLEAN]
<1>1. pc'[r] = state /\ late'[r] = FALSE
  BY DEF IInv, TypeOK, ToIdle
<1>2. Local(r)'
  BY <1>1 DEF Local
<1>3. QED
  BY <1>2 DEF IInv, TypeOK, ToIdle, PcStates, Settlements

LEMMA SettleStep ==
  ASSUME IInv, NEW r \in Replicas, Settle(r)
  PROVE  IInv'
<1> DEFINE m == msg[r]
           s == settlement[r]
<1>1. /\ queue' = [queue EXCEPT ![m] = Settled(queue[m], s)]
      /\ ToIdle(r, "idle") /\ pc[r] = "settle" /\ queue[m].state = "locked"
      /\ UNCHANGED <<outcomes, crashes, ran, succeeded>>
  BY DEF Settle, HoldsLock
<1>2. m \in Messages /\ queue[m] \in QueueEntries /\ s \in Settlements /\ s # "none"
  BY <1>1 DEF IInv, TypeOK, LocalInv, Local
<1>3. /\ Settled(queue[m], s) \in QueueEntries
      /\ Settled(queue[m], s).deliveryCount = queue[m].deliveryCount
      /\ Settled(queue[m], s).state = "completed" <=> s = "complete"
  BY <1>2, SettledType
<1>4. /\ queue' \in [Messages -> QueueEntries]
      /\ queue'[m] = Settled(queue[m], s)
      /\ \A n \in Messages \ {m} : queue'[n] = queue[n]
  BY <1>1, <1>2, <1>3 DEF IInv, TypeOK
<1>5. TypeOK'
  BY <1>1, <1>4, AtRest DEF IInv, TypeOK
<1>6. \A n \in Messages : queue'[n].deliveryCount >= queue[n].deliveryCount
  BY <1>2, <1>3, <1>4 DEF IInv, TypeOK, QueueEntries
<1>7. LocalInv'
  <2>1. \A t \in Replicas \ {r} : Undisturbed(t)
    BY <1>1, <1>6 DEF Undisturbed, ToIdle, IInv, TypeOK
  <2>2. QED
    BY <1>1, <1>5, <2>1, AtRest, OthersFrame
<1>8. SucceededItems' /\ RecordedIsReal'
  BY <1>1 DEF IInv, SucceededItems, RecordedIsReal
<1>9. RunsBounded'
  BY <1>1, <1>5, <1>6, RunsFrame DEF IInv
<1>10. CompletedMeansDone'
  <2> SUFFICES ASSUME NEW n \in Messages, queue'[n].state = "completed"
               PROVE  /\ \E d \in succeeded : ItemKey[d[1]] = ItemKey[n]
                      /\ DurableOutcomes => outcomes[Table][ItemKey[n]] # NoOutcome
    BY <1>1 DEF CompletedMeansDone
  <2>1. CASE n # m
    BY <1>4, <2>1 DEF IInv, CompletedMeansDone
  <2>2. CASE n = m
    <3>1. s = "complete"
      BY <1>3, <1>4, <2>2
    <3>2. Key(r) \in Keys /\ Recorded(r) /\ Key(r) = ItemKey[n]
      BY <1>1, <2>2, <3>1 DEF IInv, LocalInv, Local, Key
    <3>3. StoreOf(r) \in Stores /\ (DurableOutcomes => StoreOf(r) = Table)
      BY DEF StoreOf, Stores
    <3>4. QED
      BY <3>2, <3>3 DEF IInv, RecordedIsReal, Recorded
  <2>3. QED
    BY <2>1, <2>2
<1>11. QED
  BY <1>5, <1>7, <1>8, <1>9, <1>10 DEF IInv

\* A process exit erases at most that process's own in-memory store.
LEMMA ExitStep ==
  ASSUME IInv, NEW r \in Replicas, ToIdle(r, "down"), Forget(r),
         UNCHANGED <<queue, ran, succeeded>>, crashes' \in Nat
  PROVE  IInv'
<1>1. /\ outcomes' \in [Stores -> [Keys -> Deliveries \cup {NoOutcome}]]
      /\ \A s \in Stores, k \in Keys :
           outcomes'[s][k] # NoOutcome => outcomes'[s][k] = outcomes[s][k]
      /\ DurableOutcomes => outcomes' = outcomes
      /\ \A s \in Stores \ {r} : outcomes'[s] = outcomes[s]
  BY DEF Forget, IInv, TypeOK, Stores
<1>2. TypeOK'
  BY <1>1, AtRest DEF IInv, TypeOK
<1>3. \A t \in Replicas \ {r} : Undisturbed(t)
  <2> TAKE t \in Replicas \ {r}
  <2>1. outcomes'[StoreOf(t)] = outcomes[StoreOf(t)]
    BY <1>1 DEF StoreOf, Stores
  <2>2. QED
    BY <2>1 DEF Undisturbed, ToIdle, IInv, TypeOK, QueueEntries
<1>4. LocalInv'
  BY <1>2, <1>3, AtRest, OthersFrame
<1>5. SucceededItems' /\ RunsBounded'
  BY DEF IInv, SucceededItems, RunsBounded
<1>6. RecordedIsReal'
  BY <1>1 DEF IInv, RecordedIsReal
<1>7. CompletedMeansDone'
  BY <1>1 DEF IInv, CompletedMeansDone
<1>8. QED
  BY <1>2, <1>4, <1>5, <1>6, <1>7 DEF IInv

LEMMA RestartStep ==
  ASSUME IInv, NEW r \in Replicas, Restart(r)
  PROVE  IInv'
<1>1. /\ pc[r] = "down" /\ pc' = [pc EXCEPT ![r] = "idle"]
      /\ UNCHANGED <<queue, outcomes, msg, delivery, settlement, crashes, late, ran,
                     succeeded>>
  BY DEF Restart, brokerVars, historyVars
<1>2. TypeOK'
  BY <1>1 DEF IInv, TypeOK, PcStates
<1>3. Local(r)'
  BY <1>1 DEF IInv, LocalInv, Local, TypeOK
<1>4. \A t \in Replicas \ {r} : Undisturbed(t)
  BY <1>1 DEF Undisturbed, IInv, TypeOK, QueueEntries
<1>5. LocalInv'
  BY <1>2, <1>3, <1>4, OthersFrame
<1>6. SucceededItems' /\ RecordedIsReal' /\ RunsBounded' /\ CompletedMeansDone'
  BY <1>1 DEF IInv, SucceededItems, RecordedIsReal, RunsBounded, CompletedMeansDone
<1>7. QED
  BY <1>2, <1>5, <1>6 DEF IInv

LEMMA StepInv == IInv /\ [Next]_vars => IInv'
<1> SUFFICES ASSUME IInv, [Next]_vars PROVE IInv'
  OBVIOUS
<1>1. CASE UNCHANGED vars
  <2>1. LocalInv'
    BY <1>1 DEF IInv, LocalInv, Local, Key, Recorded, StoreOf, vars
  <2>2. QED
    BY <1>1, <2>1 DEF IInv, TypeOK, SucceededItems, RecordedIsReal, RunsBounded,
       CompletedMeansDone, vars
<1>2. ASSUME NEW m \in Messages, Enqueue(m) PROVE IInv'
  BY <1>2, EnqueueStep
<1>3. ASSUME NEW m \in Messages, LockExpires(m) PROVE IInv'
  BY <1>3, LockExpiresStep
<1>4. ASSUME NEW r \in Replicas, ReplicaStep(r) PROVE IInv'
  <2>1. CASE Receive(r)
    BY <2>1, ReceiveStep
  <2>2. CASE ShortCircuit(r)
    BY <2>2, ShortCircuitStep
  <2>3. CASE Poison(r)
    BY <2>3, PoisonStep
  <2>4. CASE StartRun(r)
    BY <2>4, StartRunStep
  <2>5. CASE RunThrows(r)
    BY <2>5, RunThrowsStep
  <2>6. CASE RunSucceeds(r)
    BY <2>6, RunSucceedsStep
  <2>7. CASE PipelineDeadLetters(r)
    BY <2>7, PipelineDeadLettersStep
  <2>8. CASE RecordOutcome(r)
    BY <2>8, RecordOutcomeStep
  <2>9. CASE Settle(r)
    BY <2>9, SettleStep
  <2>10. CASE SettleRejected(r)
    BY <2>10, ExitStep DEF SettleRejected, brokerVars, IInv, TypeOK
  <2>11. CASE Restart(r)
    BY <2>11, RestartStep
  <2>12. QED
    BY <1>4, <2>1, <2>2, <2>3, <2>4, <2>5, <2>6, <2>7, <2>8, <2>9, <2>10, <2>11
       DEF ReplicaStep
<1>5. ASSUME NEW r \in Replicas, Crash(r) PROVE IInv'
  BY <1>5, ExitStep DEF Crash, brokerVars, IInv, TypeOK
<1>6. QED
  BY <1>1, <1>2, <1>3, <1>4, <1>5 DEF Next

\* The inductive invariant holds of every behaviour.
THEOREM InductiveInvariant == Spec => []IInv
<1>1. QED
  BY InitInv, StepInv, PTL DEF Spec

\* The broker's, the stores' and the replicas' state keep their shape.
THEOREM TypeCorrect == Spec => []TypeOK
<1>1. IInv => TypeOK
  BY DEF IInv
<1>2. QED
  BY <1>1, InductiveInvariant, PTL

\* Every completed message stands on a run that had its effect and, with the
\* table store, on a recorded outcome.
THEOREM CompletionIsSound == Spec => [](CompletedMeansDone /\ RecordedIsReal)
<1>1. IInv => CompletedMeansDone /\ RecordedIsReal
  BY DEF IInv
<1>2. QED
  BY <1>1, InductiveInvariant, PTL

\* What the stores hold for a key is the outcome of a run of that key that had
\* its effect, whoever recorded it first.
THEOREM RecordedOutcomesAreReal == Spec => []RecordedIsReal
<1>1. IInv => RecordedIsReal
  BY DEF IInv
<1>2. QED
  BY <1>1, InductiveInvariant, PTL

\* A message that arrives after its outcome was recorded is neither run again
\* nor poisoned.
THEOREM DuplicatesShortCircuit == Spec => []LateDuplicateShortCircuits
<1>1. IInv => LateDuplicateShortCircuits
  BY DEF IInv, LocalInv, Local, LateDuplicateShortCircuits
<1>2. QED
  BY <1>1, InductiveInvariant, PTL

\* Redelivery is bounded by the poison threshold.
THEOREM RunsAreBounded == Spec => []RunsBounded
<1>1. IInv => RunsBounded
  BY DEF IInv
<1>2. QED
  BY <1>1, InductiveInvariant, PTL

-------------------------------------------------------------------------------
(***************************************************************************)
(* QueueIngress implements ItemLedger.                                     *)
(***************************************************************************)

StatusOf(entry) == IF entry.state \in {"completed", "dead"} THEN entry.state ELSE "pending"

\* A step that moves one entry between live states, or none, and leaves the
\* table alone is invisible in the ledger.
LEMMA InvisibleStep ==
  ASSUME TypeOK, TypeOK', outcomes'[Table] = outcomes[Table],
         \A m \in Messages : StatusOf(queue'[m]) = StatusOf(queue[m])
  PROVE  UNCHANGED Ledger!vars
BY DEF Ledger!vars, StatusOf

\* A locked message goes back to the queue, or to the broker's dead letters.
LEMMA ReturnIsLedgerStep ==
  ASSUME TypeOK, TypeOK', NEW m \in Messages, queue[m].state = "locked",
         queue' = [queue EXCEPT ![m] = Returned(queue[m])],
         outcomes'[Table] = outcomes[Table]
  PROVE  [Ledger!Next]_Ledger!vars
<1>1. /\ queue[m] \in QueueEntries /\ Returned(queue[m]).state \in {"available", "dead"}
      /\ queue'[m] = Returned(queue[m])
      /\ \A n \in Messages \ {m} : queue'[n] = queue[n]
  BY ReturnedType DEF TypeOK
<1>2. CASE Returned(queue[m]).state = "available"
  BY <1>1, <1>2, InvisibleStep DEF StatusOf
<1>3. CASE Returned(queue[m]).state = "dead"
  <2>1. Ledger!DeadLetter(m)
    BY <1>1, <1>3 DEF Ledger!DeadLetter
  <2>2. QED
    BY <2>1 DEF Ledger!Next
<1>4. QED
  BY <1>1, <1>2, <1>3

LEMMA SettleIsLedgerStep ==
  ASSUME DurableOutcomes, IInv, IInv', NEW r \in Replicas, Settle(r)
  PROVE  [Ledger!Next]_Ledger!vars
<1> DEFINE s == settlement[r]
<1>0. PICK held \in Messages : held = msg[r]
  BY DEF Settle, HoldsLock, IInv, LocalInv, Local, TypeOK
<1>1. /\ queue' = [queue EXCEPT ![held] = Settled(queue[held], s)]
      /\ pc[r] = "settle" /\ queue[held].state = "locked" /\ outcomes' = outcomes
  BY <1>0 DEF Settle, HoldsLock
<1>2. held \in Messages /\ queue[held] \in QueueEntries /\ s \in Settlements /\ s # "none"
  BY <1>0, <1>1 DEF IInv, TypeOK, LocalInv, Local
<1>3. /\ queue'[held] = Settled(queue[held], s)
      /\ \A n \in Messages \ {held} : queue'[n] = queue[n]
  BY <1>0, <1>1, <1>2 DEF IInv, TypeOK
<1>4. CASE s = "complete"
  <2>1. ItemKey[held] \in Keys /\ outcomes[Table][ItemKey[held]] # NoOutcome
    BY <1>0, <1>1, <1>4 DEF IInv, LocalInv, Local, Key, Recorded, StoreOf
  <2>2. queue'[held].state = "completed"
    BY <1>0, <1>2, <1>3, <1>4, SettledType
  <2>3. Ledger!Complete(held)
    BY <1>0, <1>1, <1>2, <1>3, <2>1, <2>2 DEF Ledger!Complete
  <2>4. Ledger!Next
    BY <2>3 DEF Ledger!Next
  <2>5. QED
    BY <2>4
<1>5. CASE s = "abandon"
  <2>1. Settled(queue[held], s) = Returned(queue[held])
    BY <1>5 DEF Settled
  <2>2. QED
    BY <1>0, <1>1, <1>2, <2>1, ReturnIsLedgerStep DEF IInv
<1>6. CASE s \in DeadLetterReasons
  <2>1. queue'[held].state = "dead"
    BY <1>0, <1>2, <1>3, <1>6 DEF Settled, DeadLetterReasons, QueueEntries
  <2>2. Ledger!DeadLetter(held)
    BY <1>0, <1>1, <1>2, <1>3, <2>1 DEF Ledger!DeadLetter
  <2>3. Ledger!Next
    BY <2>2 DEF Ledger!Next
  <2>4. QED
    BY <2>3
<1>7. QED
  BY <1>2, <1>4, <1>5, <1>6 DEF Settlements

LEMMA RecordIsLedgerStep ==
  ASSUME DurableOutcomes, IInv, IInv', NEW r \in Replicas, RecordOutcome(r)
  PROVE  [Ledger!Next]_Ledger!vars
<1>1. /\ Key(r) \in Keys /\ StoreOf(r) = Table /\ queue' = queue
      /\ <<msg[r], delivery[r]>> \in Deliveries
      /\ outcomes' = [outcomes EXCEPT ![Table][Key(r)] =
                        IF Recorded(r) THEN @ ELSE <<msg[r], delivery[r]>>]
  BY DEF IInv, LocalInv, Local, TypeOK, StoreOf, RecordOutcome, brokerVars, Deliveries
<1>2. outcomes'[Table] = [outcomes[Table] EXCEPT ![Key(r)] =
                            IF Recorded(r) THEN @ ELSE <<msg[r], delivery[r]>>]
  BY <1>1 DEF IInv, TypeOK, Stores
<1>3. outcomes[Table] \in [Keys -> Deliveries \cup {NoOutcome}]
  BY DEF IInv, TypeOK, Stores
<1>4. CASE Recorded(r)
  <2>1. outcomes'[Table] = outcomes[Table]
    BY <1>1, <1>2, <1>3, <1>4
  <2>2. QED
    BY <1>1, <2>1, InvisibleStep DEF IInv
<1>5. CASE ~Recorded(r)
  <2>1. outcomes[Table][Key(r)] = NoOutcome
    BY <1>1, <1>5 DEF Recorded
  <2>2. outcomes'[Table] = [outcomes[Table] EXCEPT ![Key(r)] = <<msg[r], delivery[r]>>]
    BY <1>1, <1>2, <1>5
  <2>3. outcomes'[Table][Key(r)] = <<msg[r], delivery[r]>>
    BY <1>1, <1>3, <2>2
  <2>4. Ledger!Record(Key(r))
    BY <1>1, <2>1, <2>2, <2>3 DEF Ledger!Record
  <2>5. QED
    BY <1>1, <2>4 DEF Ledger!Next
<1>6. QED
  BY <1>4, <1>5

LEMMA LedgerStep ==
  ASSUME DurableOutcomes, IInv, IInv', [Next]_vars
  PROVE  [Ledger!Next]_Ledger!vars
<1>1. CASE UNCHANGED vars
  BY <1>1, InvisibleStep DEF IInv, vars
<1>2. ASSUME NEW m \in Messages, Enqueue(m) PROVE [Ledger!Next]_Ledger!vars
  BY <1>2, InvisibleStep DEF IInv, TypeOK, QueueEntries, Enqueue, StatusOf
<1>3. ASSUME NEW m \in Messages, LockExpires(m) PROVE [Ledger!Next]_Ledger!vars
  BY <1>3, ReturnIsLedgerStep DEF IInv, LockExpires
<1>4. ASSUME NEW r \in Replicas, Receive(r) PROVE [Ledger!Next]_Ledger!vars
  <2>1. PICK m \in Messages :
          /\ queue[m].state = "available"
          /\ queue' = [queue EXCEPT ![m].state = "locked", ![m].deliveryCount = @ + 1]
    BY <1>4 DEF Receive
  <2>2. \A n \in Messages : StatusOf(queue'[n]) = StatusOf(queue[n])
    BY <2>1 DEF IInv, TypeOK, QueueEntries, StatusOf
  <2>3. QED
    BY <1>4, <2>2, InvisibleStep DEF IInv, Receive
<1>5. ASSUME NEW r \in Replicas,
             \/ ShortCircuit(r) \/ Poison(r) \/ StartRun(r) \/ RunThrows(r)
             \/ RunSucceeds(r) \/ PipelineDeadLetters(r) \/ SettleRejected(r)
             \/ Restart(r) \/ Crash(r)
      PROVE  [Ledger!Next]_Ledger!vars
  <2>1. queue' = queue /\ outcomes' = outcomes
    BY <1>5 DEF ShortCircuit, Poison, StartRun, RunThrows, RunSucceeds,
       PipelineDeadLetters, SettleRejected, Restart, Crash, Forget, brokerVars
  <2>2. QED
    BY <2>1, InvisibleStep DEF IInv
<1>6. QED
  BY <1>1, <1>2, <1>3, <1>4, <1>5, SettleIsLedgerStep, RecordIsLedgerStep
     DEF Next, ReplicaStep

\* With the table store, the cluster implements the ledger: settlements and
\* recorded outcomes are final whatever the replicas, the broker's timers and
\* the crashes do.
THEOREM ImplementsLedger == ASSUME DurableOutcomes PROVE Spec => LedgerSpec
<1>1. Init => Ledger!Init
  BY DEF Init, Ledger!Init, Stores
<1>2. IInv /\ IInv' /\ [Next]_vars => [Ledger!Next]_Ledger!vars
  BY LedgerStep
<1>3. QED
  BY <1>1, <1>2, InductiveInvariant, PTL DEF Spec, LedgerSpec, Ledger!Spec
-------------------------------------------------------------------------------
(***************************************************************************)
(* One process: nothing that returned is rerun, and poison means failure.  *)
(*                                                                         *)
(* A single process remembers every run that returned (Remembers), in the  *)
(* table, or in its own map on the queue that dies with it, where it never *)
(* loses a lock and so never exits.  Every delivery below the threshold is *)
(* then charged to a run or came after the record (Charged).               *)
(***************************************************************************)
Sole(r) ==
  /\ r \in Replicas /\ \A s \in Replicas : s = r
  /\ MaxCrashes = 0
  /\ DurableOutcomes \/ ~ServiceBus

Working(r) == pc[r] \in {"lookup", "run", "record", "settle"}

Remembers(r) ==
  \A d \in succeeded :
    \/ outcomes[StoreOf(r)][ItemKey[d[1]]] # NoOutcome
    \/ pc[r] = "record" /\ d = <<msg[r], delivery[r]>>

Charged(r) ==
  \A m \in Messages, n \in 1 .. MaxDeliveryCount - 1 :
    n <= queue[m].deliveryCount /\ ItemKey[m] \in Keys =>
      \/ <<m, n>> \in ran
      \/ outcomes[StoreOf(r)][ItemKey[m]] # NoOutcome
      \/ pc[r] = "lookup" /\ msg[r] = m /\ delivery[r] = n

AllFailed(m) == \A n \in 1 .. MaxDeliveryCount - 1 : <<m, n>> \in ran \ succeeded

\* What is dead as poison, and what is about to be.
PoisonKnown(r) ==
  /\ \A m \in Messages :
       queue[m].reason = "POISON_MESSAGE" => queue[m].state = "dead" /\ AllFailed(m)
  /\ Working(r) => queue[msg[r]].reason # "POISON_MESSAGE"
  /\ pc[r] = "settle" /\ settlement[r] = "POISON_MESSAGE" => AllFailed(msg[r])

SoleInv(r) ==
  /\ ~ServiceBus /\ Working(r) => HoldsLock(r)
  /\ pc[r] = "run" => ~Recorded(r)
  /\ Remembers(r)
  /\ Charged(r)
  /\ PoisonKnown(r)

\* The broker's own steps change no count, poison nothing, and take no lock of
\* the in-memory queue.
LEMMA SoleBroker ==
  ASSUME IInv, NEW r, Sole(r), SoleInv(r), NEW m \in Messages,
         Enqueue(m) \/ LockExpires(m)
  PROVE  SoleInv(r)'
<1>1. UNCHANGED <<outcomes, pc, msg, delivery, settlement, ran, succeeded>>
  BY DEF Enqueue, LockExpires, workerVars, historyVars
<1>2. /\ queue \in [Messages -> QueueEntries] /\ queue[m] \in QueueEntries
      /\ Working(r) => msg[r] \in Messages
  BY DEF IInv, LocalInv, Local, TypeOK, Working, Sole
<1>3. /\ queue[m].state \notin {"dead"} /\ queue[m].reason # "POISON_MESSAGE"
      /\ queue'[m].deliveryCount = queue[m].deliveryCount
      /\ queue'[m].reason # "POISON_MESSAGE"
  <2>1. queue[m].state # "dead" /\ queue[m].reason # "POISON_MESSAGE"
    BY DEF Enqueue, LockExpires, SoleInv, PoisonKnown
  <2>2. CASE Enqueue(m)
    BY <1>2, <2>1, <2>2 DEF Enqueue, QueueEntries
  <2>3. CASE LockExpires(m)
    <3>1. queue'[m] = Returned(queue[m])
      BY <1>2, <2>3 DEF LockExpires
    <3> QED BY <1>2, <2>1, <3>1 DEF Returned, QueueEntries
  <2> QED BY <2>1, <2>2, <2>3
<1>4. \A n \in Messages : n # m => queue'[n] = queue[n]
  BY <1>2 DEF Enqueue, LockExpires
<1>5. ~ServiceBus /\ Working(r)' => HoldsLock(r)'
  BY <1>1, <1>2, <1>4 DEF SoleInv, Working, HoldsLock, Enqueue, LockExpires
<1>6. \A n \in Messages : queue'[n].deliveryCount = queue[n].deliveryCount
  BY <1>3, <1>4
<1>7. Charged(r)'
  BY <1>1, <1>6 DEF SoleInv, Charged, StoreOf
<1>8. PoisonKnown(r)'
  BY <1>1, <1>2, <1>3, <1>4 DEF SoleInv, PoisonKnown, Working, AllFailed
<1>9. (pc[r] = "run" => ~Recorded(r))' /\ Remembers(r)'
  BY <1>1 DEF SoleInv, Recorded, Key, StoreOf, Remembers
<1> QED BY <1>5, <1>7, <1>8, <1>9 DEF SoleInv

\* Deciding how to settle.
LEMMA SoleDecides ==
  ASSUME IInv, NEW r, Sole(r), SoleInv(r), pc[r] \in {"lookup", "run"},
         NEW s, SettleWith(r, s), UNCHANGED <<queue, outcomes, ran, succeeded>>,
         s = "POISON_MESSAGE" => AllFailed(msg[r]),
         pc[r] = "lookup" => Recorded(r) \/ delivery[r] >= MaxDeliveryCount
  PROVE  SoleInv(r)'
<1>1. /\ pc'[r] = "settle" /\ settlement'[r] = s
      /\ msg'[r] = msg[r] /\ delivery'[r] = delivery[r] /\ Working(r)
  BY DEF SettleWith, IInv, TypeOK, Sole, Working
<1>2. HoldsLock(r)' = HoldsLock(r) /\ Working(r)'
  BY <1>1 DEF HoldsLock, Working
<1>3. Remembers(r)'
  BY <1>1 DEF SoleInv, Remembers, StoreOf
<1>4. Charged(r)'
  <2> SUFFICES ASSUME NEW m \in Messages, NEW n \in 1 .. MaxDeliveryCount - 1,
                      n <= queue[m].deliveryCount, ItemKey[m] \in Keys
               PROVE  <<m, n>> \in ran \/ outcomes[StoreOf(r)][ItemKey[m]] # NoOutcome
    BY <1>1 DEF Charged, StoreOf
  <2>1. CASE pc[r] = "lookup" /\ msg[r] = m /\ delivery[r] = n
    <3>1. ~(delivery[r] >= MaxDeliveryCount)
      BY <2>1, ConstantsAssumption
    <3> QED BY <2>1, <3>1 DEF Recorded, Key
  <2> QED BY <2>1 DEF SoleInv, Charged
<1>5. PoisonKnown(r)'
  BY <1>1 DEF SoleInv, PoisonKnown, Working, AllFailed
<1> QED BY <1>1, <1>2, <1>3, <1>4, <1>5 DEF SoleInv

LEMMA SolePoisons ==
  ASSUME IInv, NEW r, Sole(r), SoleInv(r), Poison(r)
  PROVE  SoleInv(r)'
<1>1. /\ pc[r] = "lookup" /\ ~Recorded(r) /\ delivery[r] >= MaxDeliveryCount
      /\ SettleWith(r, "POISON_MESSAGE") /\ UNCHANGED <<queue, outcomes, ran, succeeded>>
  BY DEF Poison, brokerVars, historyVars
<1>2. /\ msg[r] \in Messages /\ Key(r) \in Keys /\ delivery[r] \in Nat
      /\ delivery[r] <= queue[msg[r]].deliveryCount
      /\ queue[msg[r]].deliveryCount \in Nat
  BY <1>1 DEF IInv, LocalInv, Local, TypeOK, QueueEntries, Sole
<1>3. ASSUME NEW n \in 1 .. MaxDeliveryCount - 1
      PROVE  <<msg[r], n>> \in ran \ succeeded
  <2>1. n <= queue[msg[r]].deliveryCount /\ delivery[r] # n
    BY <1>1, <1>2, ConstantsAssumption
  <2>2. <<msg[r], n>> \in ran
    BY <1>1, <1>2, <2>1 DEF SoleInv, Charged, Recorded, Key
  <2>3. <<msg[r], n>> \notin succeeded
    BY <1>1 DEF SoleInv, Remembers, Recorded, Key
  <2> QED BY <2>2, <2>3
<1> QED BY <1>1, <1>3, SoleDecides DEF AllFailed

LEMMA SoleStartsRun ==
  ASSUME IInv, NEW r, Sole(r), SoleInv(r), StartRun(r)
  PROVE  SoleInv(r)'
<1>1. /\ pc[r] = "lookup" /\ pc'[r] = "run" /\ ~Recorded(r) /\ Working(r)
      /\ ran' = ran \cup {<<msg[r], delivery[r]>>}
      /\ UNCHANGED <<queue, outcomes, msg, delivery, settlement, succeeded>>
  BY DEF StartRun, brokerVars, IInv, TypeOK, Sole, Working
<1>2. HoldsLock(r)' = HoldsLock(r) /\ Recorded(r)' = Recorded(r)
  BY <1>1 DEF HoldsLock, Recorded, Key, StoreOf
<1>3. Remembers(r)'
  BY <1>1 DEF SoleInv, Remembers, StoreOf
<1>4. Charged(r)'
  BY <1>1 DEF SoleInv, Charged, StoreOf
<1>5. PoisonKnown(r)'
  BY <1>1 DEF SoleInv, PoisonKnown, Working, AllFailed
<1> QED BY <1>1, <1>2, <1>3, <1>4, <1>5 DEF SoleInv

LEMMA SoleSucceeds ==
  ASSUME IInv, NEW r, Sole(r), SoleInv(r), RunSucceeds(r)
  PROVE  SoleInv(r)'
<1> DEFINE mine == <<msg[r], delivery[r]>>
<1>1. /\ pc[r] = "run" /\ pc'[r] = "record" /\ Working(r)
      /\ succeeded' = succeeded \cup {mine}
      /\ UNCHANGED <<queue, outcomes, msg, delivery, settlement, ran>>
  BY DEF RunSucceeds, brokerVars, IInv, TypeOK, Sole, Working
<1>2. HoldsLock(r)' = HoldsLock(r)
  BY <1>1 DEF HoldsLock
<1>3. Remembers(r)'
  BY <1>1 DEF SoleInv, Remembers, StoreOf
<1>4. Charged(r)'
  BY <1>1 DEF SoleInv, Charged, StoreOf
<1>5. PoisonKnown(r)'
  BY <1>1 DEF SoleInv, PoisonKnown, Working, AllFailed
<1> QED BY <1>1, <1>2, <1>3, <1>4, <1>5 DEF SoleInv

LEMMA SoleRecords ==
  ASSUME IInv, NEW r, Sole(r), SoleInv(r), RecordOutcome(r)
  PROVE  SoleInv(r)'
<1> DEFINE mine == <<msg[r], delivery[r]>>
           row == IF DurableOutcomes /\ Recorded(r)
                    THEN outcomes[StoreOf(r)][Key(r)] ELSE mine
<1>1. /\ outcomes' = [outcomes EXCEPT ![StoreOf(r)][Key(r)] = row]
      /\ UNCHANGED <<queue, ran, succeeded>>
      /\ pc[r] = "record" /\ pc'[r] = "settle" /\ settlement'[r] = "complete"
      /\ UNCHANGED <<msg, delivery>> /\ Working(r)
  BY DEF RecordOutcome, SettleWith, brokerVars, historyVars, IInv, TypeOK, Sole, Working
<1>2. /\ Key(r) \in Keys /\ StoreOf(r) \in Stores /\ StoreOf(r)' = StoreOf(r)
      /\ row # NoOutcome
  BY <1>1 DEF IInv, LocalInv, Local, Recorded, StoreOf, Stores, Sole, NoOutcome
<1>3. /\ outcomes'[StoreOf(r)][Key(r)] # NoOutcome
      /\ \A k : outcomes[StoreOf(r)][k] # NoOutcome =>
                  outcomes'[StoreOf(r)][k] # NoOutcome
  BY <1>1, <1>2 DEF IInv, TypeOK
<1>4. HoldsLock(r)' = HoldsLock(r)
  BY <1>1 DEF HoldsLock
<1>5. Remembers(r)'
  BY <1>1, <1>2, <1>3 DEF SoleInv, Remembers, Key
<1>6. Charged(r)'
  BY <1>1, <1>2, <1>3 DEF SoleInv, Charged
<1>7. PoisonKnown(r)'
  BY <1>1 DEF SoleInv, PoisonKnown, Working, AllFailed
<1> QED BY <1>1, <1>4, <1>5, <1>6, <1>7 DEF SoleInv

LEMMA SoleReceives ==
  ASSUME IInv, NEW r, Sole(r), SoleInv(r), Receive(r)
  PROVE  SoleInv(r)'
<1>1. PICK m \in Messages :
        /\ queue[m].state = "available"
        /\ queue' = [queue EXCEPT ![m].state = "locked",
                                  ![m].deliveryCount = @ + 1]
        /\ msg' = [msg EXCEPT ![r] = m]
        /\ delivery' = [delivery EXCEPT ![r] = queue[m].deliveryCount + 1]
        /\ \/ /\ ItemKey[m] = Malformed
              /\ pc' = [pc EXCEPT ![r] = "settle"]
              /\ settlement' = [settlement EXCEPT ![r] = "MALFORMED_ENVELOPE"]
           \/ /\ ItemKey[m] # Malformed
              /\ pc' = [pc EXCEPT ![r] = "lookup"]
              /\ UNCHANGED settlement
  BY DEF Receive
<1>2. pc[r] = "idle" /\ UNCHANGED <<outcomes, ran, succeeded>>
  BY DEF Receive
<1>3. /\ msg'[r] = m /\ delivery'[r] = queue[m].deliveryCount + 1
      /\ queue[m] \in QueueEntries
      /\ queue'[m] = [queue[m] EXCEPT !.state = "locked", !.deliveryCount = @ + 1]
      /\ \A n \in Messages : n # m => queue'[n] = queue[n]
  BY <1>1 DEF IInv, TypeOK, Sole
<1>4. /\ queue'[m].state = "locked"
      /\ queue'[m].deliveryCount = queue[m].deliveryCount + 1
      /\ queue'[m].reason = queue[m].reason
      /\ queue[m].deliveryCount \in Nat
  BY <1>3 DEF QueueEntries
<1>5. HoldsLock(r)'
  BY <1>3, <1>4 DEF HoldsLock
<1>6. \/ pc'[r] = "lookup"
      \/ pc'[r] = "settle" /\ settlement'[r] = "MALFORMED_ENVELOPE"
  <2>1. pc \in [Replicas -> PcStates] /\ settlement \in [Replicas -> Settlements]
    BY DEF IInv, TypeOK
  <2>2. CASE pc' = [pc EXCEPT ![r] = "lookup"]
    BY <2>1, <2>2 DEF Sole
  <2>3. CASE /\ pc' = [pc EXCEPT ![r] = "settle"]
             /\ settlement' = [settlement EXCEPT ![r] = "MALFORMED_ENVELOPE"]
    BY <2>1, <2>3 DEF Sole
  <2> QED BY <1>1, <2>2, <2>3
<1>7. Remembers(r)'
  BY <1>2 DEF SoleInv, Remembers, StoreOf
<1>8. Charged(r)'
  <2> SUFFICES ASSUME NEW o \in Messages, NEW n \in 1 .. MaxDeliveryCount - 1,
                      n <= queue'[o].deliveryCount, ItemKey[o] \in Keys
               PROVE  \/ <<o, n>> \in ran \/ outcomes[StoreOf(r)][ItemKey[o]] # NoOutcome
                      \/ pc'[r] = "lookup" /\ msg'[r] = o /\ delivery'[r] = n
    BY <1>2 DEF Charged, StoreOf
  <2>1. CASE n <= queue[o].deliveryCount
    BY <1>2, <2>1 DEF SoleInv, Charged
  <2>2. CASE ~(n <= queue[o].deliveryCount)
    <3>1. o = m
      BY <1>3, <2>2
    <3>2. n = queue[m].deliveryCount + 1
      <4>1. n \in Nat
        BY ConstantsAssumption
      <4>2. n <= queue[m].deliveryCount + 1
        BY <1>4, <3>1
      <4>3. ~(n <= queue[m].deliveryCount)
        BY <2>2, <3>1
      <4> QED BY <1>4, <4>1, <4>2, <4>3
    <3>3. pc'[r] = "lookup"
      BY <1>1, <3>1, ConstantsAssumption DEF IInv, TypeOK, Sole
    <3> QED BY <1>3, <3>1, <3>2, <3>3
  <2> QED BY <2>1, <2>2
<1>9. PoisonKnown(r)'
  <2>1. queue[m].reason # "POISON_MESSAGE"
    BY <1>1 DEF SoleInv, PoisonKnown
  <2>2. \A n \in Messages : AllFailed(n)' = AllFailed(n)
    BY <1>2 DEF AllFailed
  <2>3. ASSUME NEW n \in Messages, queue'[n].reason = "POISON_MESSAGE"
        PROVE  queue'[n].state = "dead" /\ AllFailed(n)'
    <3>1. n # m
      BY <1>4, <2>1, <2>3
    <3> QED BY <1>3, <2>2, <2>3, <3>1 DEF SoleInv, PoisonKnown
  <2>4. queue'[msg'[r]].reason # "POISON_MESSAGE"
    BY <1>3, <1>4, <2>1
  <2>5. ~(pc'[r] = "settle" /\ settlement'[r] = "POISON_MESSAGE")
    BY <1>6
  <2> QED BY <2>3, <2>4, <2>5 DEF PoisonKnown
<1> QED BY <1>5, <1>6, <1>7, <1>8, <1>9 DEF SoleInv

\* A replica at rest has nothing left to remember by itself.
LEMMA SoleRests ==
  ASSUME IInv, NEW r, Sole(r), SoleInv(r), pc'[r] \in {"idle", "down"},
         pc[r] \in {"idle", "down", "settle"}, UNCHANGED <<outcomes, ran, succeeded>>,
         \A m \in Messages : queue'[m].deliveryCount = queue[m].deliveryCount,
         \A m \in Messages : queue'[m].reason = "POISON_MESSAGE" =>
                               queue'[m].state = "dead" /\ AllFailed(m)
  PROVE  SoleInv(r)'
<1>1. ~Working(r)'
  BY DEF Working
<1>2. Remembers(r)'
  BY DEF SoleInv, Remembers, StoreOf
<1>3. Charged(r)'
  BY DEF SoleInv, Charged, StoreOf
<1>4. PoisonKnown(r)'
  BY <1>1 DEF PoisonKnown, AllFailed
<1> QED BY <1>1, <1>2, <1>3, <1>4 DEF SoleInv

LEMMA SoleSettles ==
  ASSUME IInv, NEW r, Sole(r), SoleInv(r), Settle(r)
  PROVE  SoleInv(r)'
<1> DEFINE m == msg[r]
           s == settlement[r]
<1>1. /\ queue' = [queue EXCEPT ![m] = Settled(queue[m], s)]
      /\ pc'[r] = "idle" /\ pc[r] = "settle" /\ Working(r)
      /\ UNCHANGED <<outcomes, ran, succeeded>>
  BY DEF Settle, ToIdle, IInv, TypeOK, Sole, Working
<1>2. m \in Messages /\ queue[m] \in QueueEntries /\ s \in Settlements /\ s # "none"
  BY <1>1 DEF IInv, TypeOK, LocalInv, Local, Sole
<1>3. /\ Settled(queue[m], s).deliveryCount = queue[m].deliveryCount
      /\ queue'[m] = Settled(queue[m], s)
      /\ \A n \in Messages : n # m => queue'[n] = queue[n]
  BY <1>1, <1>2, SettledType DEF IInv, TypeOK
<1>4. queue[m].reason # "POISON_MESSAGE"
  BY <1>1 DEF SoleInv, PoisonKnown
<1>5. Settled(queue[m], s).reason = "POISON_MESSAGE" =>
        Settled(queue[m], s).state = "dead" /\ AllFailed(m)
  <2>1. CASE s = "complete"
    BY <1>2, <1>4, <2>1 DEF Settled, QueueEntries
  <2>2. CASE s = "abandon"
    <3>1. Settled(queue[m], s) = Returned(queue[m])
      BY <2>2 DEF Settled
    <3> QED BY <1>2, <1>4, <3>1 DEF Returned, QueueEntries
  <2>3. CASE s \in DeadLetterReasons
    <3>1. Settled(queue[m], s) = [queue[m] EXCEPT !.state = "dead", !.reason = s]
      BY <2>3 DEF Settled, DeadLetterReasons
    <3>2. s = "POISON_MESSAGE" => AllFailed(m)
      BY <1>1 DEF SoleInv, PoisonKnown
    <3> QED BY <1>2, <3>1, <3>2 DEF QueueEntries
  <2> QED BY <1>2, <2>1, <2>2, <2>3 DEF Settlements
<1>6. \A n \in Messages : queue'[n].reason = "POISON_MESSAGE" =>
                            queue'[n].state = "dead" /\ AllFailed(n)
  BY <1>3, <1>5 DEF SoleInv, PoisonKnown
<1> QED BY <1>1, <1>3, <1>6, SoleRests

\* The in-memory queue takes no lock away, so only a table's process exits.
LEMMA SoleExits ==
  ASSUME IInv, NEW r, Sole(r), SoleInv(r), SettleRejected(r)
  PROVE  SoleInv(r)'
<1>1. /\ pc[r] = "settle" /\ ~HoldsLock(r) /\ pc'[r] = "down"
      /\ UNCHANGED <<queue, ran, succeeded>>
  BY DEF SettleRejected, ToIdle, brokerVars, IInv, TypeOK, Sole
<1>2. UNCHANGED outcomes
  BY <1>1 DEF SettleRejected, Forget, SoleInv, Working, Sole
<1> QED BY <1>1, <1>2, SoleRests DEF SoleInv, PoisonKnown

LEMMA SoleStep ==
  ASSUME IInv, NEW r, Sole(r), SoleInv(r), [Next]_vars
  PROVE  SoleInv(r)'
<1>1. CASE UNCHANGED vars
  BY <1>1 DEF vars, SoleInv, Working, HoldsLock, Recorded, Key, StoreOf, Remembers,
     Charged, PoisonKnown, AllFailed
<1>2. ASSUME NEW m \in Messages, Enqueue(m) \/ LockExpires(m) PROVE SoleInv(r)'
  BY <1>2, SoleBroker
<1>3. CASE ReplicaStep(r)
  <2>1. CASE Receive(r)
    BY <2>1, SoleReceives
  <2>2. CASE ShortCircuit(r)
    BY <2>2, SoleDecides DEF ShortCircuit, brokerVars, historyVars
  <2>3. CASE Poison(r)
    BY <2>3, SolePoisons
  <2>4. CASE StartRun(r)
    BY <2>4, SoleStartsRun
  <2>5. CASE RunThrows(r)
    BY <2>5, SoleDecides DEF RunThrows, brokerVars, historyVars
  <2>6. CASE RunSucceeds(r)
    BY <2>6, SoleSucceeds
  <2>7. CASE PipelineDeadLetters(r)
    <3>1. PICK s \in PipelineDeadLetterReasons : SettleWith(r, s)
      BY <2>7 DEF PipelineDeadLetters
    <3>2. s # "POISON_MESSAGE"
      BY DEF PipelineDeadLetterReasons
    <3> QED BY <2>7, <3>1, <3>2, SoleDecides DEF PipelineDeadLetters, brokerVars, historyVars
  <2>8. CASE RecordOutcome(r)
    BY <2>8, SoleRecords
  <2>9. CASE Settle(r)
    BY <2>9, SoleSettles
  <2>10. CASE SettleRejected(r)
    BY <2>10, SoleExits
  <2>11. CASE Restart(r)
    <3>1. /\ pc[r] = "down" /\ pc'[r] = "idle"
          /\ UNCHANGED <<queue, outcomes, ran, succeeded>>
      BY <2>11 DEF Restart, brokerVars, historyVars, IInv, TypeOK, Sole
    <3> QED BY <3>1, SoleRests DEF SoleInv, PoisonKnown
  <2> QED
    BY <1>3, <2>1, <2>2, <2>3, <2>4, <2>5, <2>6, <2>7, <2>8, <2>9, <2>10, <2>11
       DEF ReplicaStep
<1>4. ~Crash(r)
  BY DEF Crash, Sole, IInv, TypeOK
<1> QED BY <1>1, <1>2, <1>3, <1>4 DEF Next, Sole

LEMMA SoleInit ==
  ASSUME NEW r, Sole(r), Init
  PROVE  SoleInv(r)
BY ConstantsAssumption DEF Init, Sole, SoleInv, Working, Remembers, Charged,
   PoisonKnown

\* In one process that does not crash a key with a run that returned is never run
\* again, whatever is enqueued, redelivered or fails.
THEOREM SoleProcessNeverReruns ==
  ASSUME NEW CONSTANT r, Sole(r)
  PROVE  Spec => []ReturnedNeverRerun
<1>1. Init => SoleInv(r)
  BY SoleInit
<1>2. IInv /\ SoleInv(r) /\ [Next]_vars => SoleInv(r)'
  BY SoleStep
<1>3. SoleInv(r) => ReturnedNeverRerun
  BY DEF SoleInv, Sole, Remembers, Recorded, Key, ReturnedNeverRerun
<1> QED BY <1>1, <1>2, <1>3, InductiveInvariant, PTL DEF Spec

\* In one process that does not crash an item is poison only after every
\* delivery below the threshold ran it and failed.
THEOREM SoleProcessPoisonsFailuresOnly ==
  ASSUME NEW CONSTANT r, Sole(r)
  PROVE  Spec => []PoisonMeansRepeatedFailure
<1>1. Init => SoleInv(r)
  BY SoleInit
<1>2. IInv /\ SoleInv(r) /\ [Next]_vars => SoleInv(r)'
  BY SoleStep
<1>3. SoleInv(r) => PoisonMeansRepeatedFailure
  BY DEF SoleInv, PoisonKnown, AllFailed, PoisonMeansRepeatedFailure
<1> QED BY <1>1, <1>2, <1>3, InductiveInvariant, PTL DEF Spec
===============================================================================
