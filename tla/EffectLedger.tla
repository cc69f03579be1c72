----------------------------- MODULE EffectLedger -----------------------------
(***************************************************************************)
(* What the effect gateways promise together, with no processes, locks,    *)
(* approvals or awaits in sight: an effect that took place is never taken  *)
(* back; a draft is decided once, as committed only if its own effect took *)
(* place; and an idempotency key gets at most one durable commit record,   *)
(* for good, of an effect of that key.  EffectGateway implements it (see   *)
(* EffectGateway!Ledger).                                                  *)
(***************************************************************************)
EXTENDS Naturals, Sequences

CONSTANTS
  Drafts,    \* draft ids
  Keys,      \* idempotency keys
  KeyOf      \* [Drafts -> Keys]

VARIABLES
  effects,   \* the drafts whose effect took place, in order
  decision,  \* [Drafts -> {"open", "committed", "discarded", "lost"}]
  record     \* [Keys -> index into effects, 0 while there is no record]

vars == <<effects, decision, record>>

Init ==
  /\ effects = <<>>
  /\ decision = [d \in Drafts |-> "open"]
  /\ record = [k \in Keys |-> 0]

Perform(d) ==
  /\ effects' = Append(effects, d)
  /\ UNCHANGED <<decision, record>>

Commit(d) ==
  /\ decision[d] = "open"
  /\ \E e \in DOMAIN effects : effects[e] = d
  /\ decision' = [decision EXCEPT ![d] = "committed"]
  /\ UNCHANGED <<effects, record>>

Discard(d) ==
  /\ decision[d] = "open"
  /\ decision' = [decision EXCEPT ![d] = "discarded"]
  /\ UNCHANGED <<effects, record>>

\* A process that kept its drafts in memory is gone.
Lose(D) ==
  /\ decision' = [d \in Drafts |-> IF d \in D THEN "lost" ELSE decision[d]]
  /\ UNCHANGED <<effects, record>>

Record(k) ==
  /\ record[k] = 0
  /\ \E e \in DOMAIN effects :
       /\ KeyOf[effects[e]] = k
       /\ record' = [record EXCEPT ![k] = e]
  /\ UNCHANGED <<effects, decision>>

Next ==
  \/ \E D \in SUBSET Drafts : Lose(D)
  \/ \E d \in Drafts : Perform(d) \/ Commit(d) \/ Discard(d)
  \/ \E k \in Keys : Record(k)

Spec == Init /\ [][Next]_vars
===============================================================================
