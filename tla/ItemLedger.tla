------------------------------ MODULE ItemLedger ------------------------------
(***************************************************************************)
(* What the Stream runtime promises its producers, with no replicas, locks *)
(* or redeliveries in sight: a work item is pending until it is completed  *)
(* or dead-lettered, for good; an idempotency key gets at most one recorded *)
(* outcome, for good; and an item is completed only on the strength of the *)
(* outcome recorded for its key.  QueueIngress implements it (see          *)
(* QueueIngress!Ledger).                                                   *)
(***************************************************************************)
CONSTANTS
  Messages,    \* the queue's messages
  Keys,        \* idempotency keys
  ItemKey,     \* [Messages -> Keys \cup {Malformed}]
  Outcomes,    \* the values an outcome row may hold
  NoOutcome    \* "no row for this key"

VARIABLES
  status,      \* [Messages -> {"pending", "completed", "dead"}]
  outcome      \* [Keys -> Outcomes \cup {NoOutcome}]

vars == <<status, outcome>>

Init ==
  /\ status = [m \in Messages |-> "pending"]
  /\ outcome = [k \in Keys |-> NoOutcome]

\* The first writer's outcome is recorded.
Record(k) ==
  /\ outcome[k] = NoOutcome
  /\ outcome'[k] \in Outcomes
  /\ outcome' = [outcome EXCEPT ![k] = outcome'[k]]
  /\ UNCHANGED status

Complete(m) ==
  /\ status[m] = "pending"
  /\ ItemKey[m] \in Keys
  /\ outcome[ItemKey[m]] # NoOutcome
  /\ status' = [status EXCEPT ![m] = "completed"]
  /\ UNCHANGED outcome

DeadLetter(m) ==
  /\ status[m] = "pending"
  /\ status' = [status EXCEPT ![m] = "dead"]
  /\ UNCHANGED outcome

Next ==
  \/ \E k \in Keys : Record(k)
  \/ \E m \in Messages : Complete(m) \/ DeadLetter(m)

Spec == Init /\ [][Next]_vars
===============================================================================
