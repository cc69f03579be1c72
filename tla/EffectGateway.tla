---------------------------- MODULE EffectGateway -----------------------------
(***************************************************************************)
(* The effect gateway (extensions/mcp-toolshed/src/effect-gateway.ts): the *)
(* draft store, the approvals a human-gated commit waits for, the connector *)
(* call and the durable commit records that several gateway processes      *)
(* share.                                                                  *)
(*                                                                         *)
(* withDecisionLock serialises a process's commits and discards, so a      *)
(* gateway has one decision in hand; `pc` names the await that decision is *)
(* suspended in.  The lock spans one process only: gateways with a SQLite  *)
(* draft store may share it, and all share the commit records.             *)
(*                                                                         *)
(* A refusal leaves no trace but its answer, so the checks of identity,    *)
(* expiry, evidence, approval timeouts and connectors that refuse a commit *)
(* are one action, Refuse.  The gateway has a commit-record store and an   *)
(* approval store.  Post-hoc sampling QA (routePostHocReview), which acts   *)
(* after a commit, is left out.                                            *)
(***************************************************************************)
EXTENDS Naturals, Sequences

CONSTANTS
  Gateways,       \* processes, each with one EffectGateway
  Stores,         \* draft stores
  StoreOf,        \* [Gateways -> Stores]
  Persistent,     \* the stores that outlive a process (SQLite)
  Drafts,         \* draft ids; several drafts may carry one key
  Keys,           \* idempotency keys
  KeyOf,          \* [Drafts -> Keys]
  PolicyOf,       \* [Drafts -> the policy of the draft's effect type]
  ReviewedDrafts, \* the sampler, or the QA breaker, may ask for a human here
  SurfaceRequests,\* what other surfaces ask approval of: [draft, tool]
  MaxApprovals,   \* bound: approval requests
  MaxElsewhere,   \* bound: how many of them may come from other surfaces
  MaxFaults       \* bound: crashes, rejected connector calls and store calls

\* makeEffectTypePolicy
Policies ==
  [reversibility : {"reversible", "compensatable", "irreversible"},
   approvalClass : {"auto", "sampled", "always_human"}]

\* The draft of an idle gateway, and of an approval whose params name none.
NoDraft == "no draft"
Tools == {"commit_effect", "discard_effect"}

ASSUME GatewayAssumption ==
  /\ StoreOf \in [Gateways -> Stores]
  /\ Persistent \subseteq Stores
  /\ KeyOf \in [Drafts -> Keys]
  /\ PolicyOf \in [Drafts -> Policies]
  /\ ReviewedDrafts \subseteq Drafts
  /\ SurfaceRequests \subseteq [draft : Drafts \cup {NoDraft}, tool : Tools]

\* A store in a process's memory belongs to that process.
ASSUME MemoryStoreAssumption ==
  \A g, h \in Gateways :
    StoreOf[g] = StoreOf[h] /\ StoreOf[g] \notin Persistent => g = h

VARIABLES
  drafts,     \* [Drafts -> [status, store, outcome]]
  records,    \* commit records: [Keys -> outcome, 0 while there is none]
  approvals,  \* approval requests, oldest first
  performed,  \* the effects connectors performed; an outcome is its index here
  pc,         \* the await each gateway's decision is suspended in
  loaded,     \* the draft it decides, as it was loaded: [draft, discarded]
  claim,      \* the approval it acts on: [approval, carried], 0 for an agent's
  outcome,    \* the outcome its connector call returned, 0 before
  faults,     \* bounded by MaxFaults
  late,       \* history: the key had its record when the decision began
  granted,    \* history: the approvals a human ever approved
  acked       \* history: the keys a commit was ever acknowledged for

storeVars == <<drafts, records>>
decisionVars == <<pc, loaded, claim, outcome>>
vars == <<drafts, records, approvals, performed, pc, loaded, claim, outcome,
          faults, late, granted, acked>>

-------------------------------------------------------------------------------
NoStore == "no store"
AgentClaim == [approval |-> 0, carried |-> FALSE]

PcStates == {"idle", "lookup", "claim", "notify", "execute", "performed",
             "put", "reread"}

DraftRows ==
  [status : {"unborn", "draft", "committed", "discarded", "lost"},
   store : Stores \cup {NoStore}, outcome : Nat]

\* `own`: created by a gateway, under the hash of the commit it asks for.
Approvals ==
  [draft : Drafts \cup {NoDraft}, tool : Tools, own : BOOLEAN,
   decision : {"undecided", "approved", "denied"}, consumed : BOOLEAN]

Performances ==
  [draft : Drafts, approval : Nat, carried : BOOLEAN, by : Gateways]

Request(d, tool, own) ==
  [draft |-> d, tool |-> tool, own |-> own, decision |-> "undecided",
   consumed |-> FALSE]

\* requiresHumanActor
HumanDrafts ==
  {d \in Drafts : \/ PolicyOf[d].reversibility = "irreversible"
                  \/ PolicyOf[d].approvalClass = "always_human"}

Draft(g) == loaded[g].draft
Key(g) == KeyOf[Draft(g)]
Held(g) == {d \in Drafts : drafts[d].store = StoreOf[g]}

\* getApprovalByRequestHash, of commitRequestHash.
CommitRequests(d) ==
  {a \in DOMAIN approvals : approvals[a].own /\ approvals[a].draft = d}

\* Mutant: the tool an approval names is not compared.
Authorises_AnyTool(a, d, tool) ==
  /\ approvals[a].decision = "approved"
  /\ approvals[a].draft \in {d, NoDraft}

\* humanActorFromApproval: approved, for this tool, and naming no other draft; an
\* approval whose params name none (draftRefOfParams) authorises any.
Authorises(a, d, tool) ==
  /\ approvals[a].decision = "approved"
  /\ approvals[a].tool = tool
  /\ approvals[a].draft \in {d, NoDraft}

-------------------------------------------------------------------------------
Init ==
  /\ drafts = [d \in Drafts |->
                 [status |-> "unborn", store |-> NoStore, outcome |-> 0]]
  /\ records = [k \in Keys |-> 0]
  /\ approvals = <<>>
  /\ performed = <<>>
  /\ pc = [g \in Gateways |-> "idle"]
  /\ loaded = [g \in Gateways |-> [draft |-> NoDraft, discarded |-> FALSE]]
  /\ claim = [g \in Gateways |-> AgentClaim]
  /\ outcome = [g \in Gateways |-> 0]
  /\ faults = 0
  /\ late = [g \in Gateways |-> FALSE]
  /\ granted = {}
  /\ acked = {}

\* draft_effect, of parameters that validate under a declared policy: the draft
\* enters the store of the gateway that was called.
DraftEffect(g, d) ==
  /\ drafts[d].status = "unborn"
  /\ drafts' = [drafts EXCEPT ![d].status = "draft", ![d].store = StoreOf[g]]
  /\ UNCHANGED <<records, approvals, performed, decisionVars, faults, late,
                 granted, acked>>

(***************************************************************************)
(* The end of a decision: the lock is released, with or without an answer  *)
(* that acknowledges a commit.                                             *)
(***************************************************************************)
Release(g) ==
  /\ pc' = [pc EXCEPT ![g] = "idle"]
  /\ loaded' = [loaded EXCEPT ![g] = [draft |-> NoDraft, discarded |-> FALSE]]
  /\ claim' = [claim EXCEPT ![g] = AgentClaim]
  /\ outcome' = [outcome EXCEPT ![g] = 0]
  /\ late' = [late EXCEPT ![g] = FALSE]

Acknowledge(g) == acked' = acked \cup {Key(g)}

(***************************************************************************)
(* commit_effect.                                                          *)
(***************************************************************************)

\* The committed drafts of d's key in d's store, d among them: their recorded
\* outcome answers the call.
Replayable(d) ==
  {e \in Drafts : /\ KeyOf[e] = KeyOf[d]
                  /\ drafts[e].store = drafts[d].store
                  /\ drafts[e].status = "committed"}

\* Nothing is gated, fetched or executed.
ReplayLocally(g, d) ==
  /\ pc[g] = "idle"
  /\ d \in Held(g)
  /\ Replayable(d) # {}
  /\ acked' = acked \cup {KeyOf[d]}
  /\ UNCHANGED <<storeVars, approvals, performed, decisionVars, faults, late,
                 granted>>

\* No local outcome: the commit record of the key is fetched.  The draft in
\* hand is a copy, made before the await.
BeginCommit(g, d) ==
  /\ pc[g] = "idle"
  /\ d \in Held(g)
  /\ drafts[d].status \in {"draft", "discarded"}
  /\ Replayable(d) = {}
  /\ pc' = [pc EXCEPT ![g] = "lookup"]
  /\ loaded' = [loaded EXCEPT ![g] =
                  [draft |-> d, discarded |-> drafts[d].status = "discarded"]]
  /\ late' = [late EXCEPT ![g] = records[KeyOf[d]] # 0]
  /\ UNCHANGED <<storeVars, approvals, performed, claim, outcome, faults,
                 granted, acked>>

\* A durable record answers the call, also after a lost put.
ReplayRecord(g) ==
  /\ pc[g] \in {"lookup", "reread"}
  /\ records[Key(g)] # 0
  /\ Acknowledge(g)
  /\ Release(g)
  /\ UNCHANGED <<storeVars, approvals, performed, faults, granted>>

\* Mutant: the durable record is not consulted.
Undecided_NoLookup(g) ==
  /\ pc[g] = "lookup"
  /\ ~loaded[g].discarded

\* The lookup found nothing and the draft was open when it was loaded.
Undecided(g) ==
  /\ pc[g] = "lookup"
  /\ records[Key(g)] = 0
  /\ ~loaded[g].discarded

ActAs(g, state, approval, carried) ==
  /\ pc' = [pc EXCEPT ![g] = state]
  /\ claim' = [claim EXCEPT ![g] = [approval |-> approval, carried |-> carried]]
  /\ UNCHANGED <<storeVars, performed, loaded, outcome, faults, late, granted,
                 acked>>

\* No human is asked: the calling agent is the actor.
AgentCommits(g) ==
  /\ Undecided(g)
  /\ Draft(g) \notin HumanDrafts
  /\ ActAs(g, "execute", 0, FALSE)
  /\ UNCHANGED approvals

AskHuman(g) == Undecided(g) /\ Draft(g) \in HumanDrafts \cup ReviewedDrafts

\* The caller carries the id of a resolved approval; it is not consumed.
ActOnCarried(g, a) ==
  /\ AskHuman(g)
  /\ Authorises(a, Draft(g), "commit_effect")
  /\ ActAs(g, "execute", a, TRUE)
  /\ UNCHANGED approvals

\* The newest request for this commit, found by its hash, is approved, in time
\* and not consumed.
FindApproval(g, a) ==
  /\ AskHuman(g)
  /\ a \in CommitRequests(Draft(g))
  /\ \A b \in CommitRequests(Draft(g)) : b <= a
  /\ Authorises(a, Draft(g), "commit_effect")
  /\ ~approvals[a].consumed
  /\ ActAs(g, "claim", a, FALSE)
  /\ UNCHANGED approvals

\* Mutant: the approval is left to be consumed once the commit is recorded.
ConsumeApproval_Later(g) ==
  /\ pc[g] = "claim"
  /\ pc' = [pc EXCEPT ![g] = "execute"]
  /\ UNCHANGED <<storeVars, approvals, performed, loaded, claim, outcome, faults,
                 late, granted, acked>>

\* markApprovalConsumed, before the connector is looked up: without one the
\* commit is refused and the approval is spent all the same.
ConsumeApproval(g) ==
  /\ pc[g] = "claim"
  /\ approvals' = [approvals EXCEPT ![claim[g].approval].consumed = TRUE]
  /\ \/ /\ pc' = [pc EXCEPT ![g] = "execute"]
        /\ UNCHANGED <<loaded, claim, outcome, late>>
     \/ Release(g)
  /\ UNCHANGED <<storeVars, performed, faults, granted, acked>>

\* No request for this commit, or the newest is spent: a fresh one is created
\* and its approvers are notified.
RequestApproval(g) ==
  /\ AskHuman(g)
  /\ Len(approvals) < MaxApprovals
  /\ \A a \in CommitRequests(Draft(g)) :
       (\A b \in CommitRequests(Draft(g)) : b <= a) =>
         approvals[a].decision = "approved" /\ approvals[a].consumed
  /\ approvals' = Append(approvals, Request(Draft(g), "commit_effect", TRUE))
  /\ pc' = [pc EXCEPT ![g] = "notify"]
  /\ UNCHANGED <<storeVars, performed, loaded, claim, outcome, faults, late,
                 granted, acked>>

\* The commit is refused, or its caller told that the approval is pending.
Refuse(g) ==
  /\ pc[g] = "notify" \/ (pc[g] = "lookup" /\ records[Key(g)] = 0)
  /\ Release(g)
  /\ UNCHANGED <<storeVars, approvals, performed, faults, granted, acked>>

\* The connector performs the effect; its answer is under way.
Perform(g) ==
  /\ pc[g] = "execute"
  /\ performed' = Append(performed, [draft |-> Draft(g),
                                     approval |-> claim[g].approval,
                                     carried |-> claim[g].carried, by |-> g])
  /\ outcome' = [outcome EXCEPT ![g] = Len(performed) + 1]
  /\ pc' = [pc EXCEPT ![g] = "performed"]
  /\ UNCHANGED <<storeVars, approvals, loaded, claim, faults, late, granted, acked>>

\* Mutant: the UPDATE has no "AND status = 'draft'".
RecordDecision_Unconditional(g) ==
  /\ pc[g] = "performed"
  /\ drafts' = [drafts EXCEPT ![Draft(g)].status = "committed",
                              ![Draft(g)].outcome = outcome[g]]
  /\ pc' = [pc EXCEPT ![g] = "put"]
  /\ UNCHANGED <<records, approvals, performed, loaded, claim, outcome, faults,
                 late, granted, acked>>

\* recordDecision, a compare-and-set on status 'draft'.  The loser of a race
\* replays the winner's outcome, or is refused although its effect took place.
RecordDecision(g) ==
  /\ pc[g] = "performed"
  /\ \/ /\ drafts[Draft(g)].status = "draft"
        /\ drafts' = [drafts EXCEPT ![Draft(g)].status = "committed",
                                    ![Draft(g)].outcome = outcome[g]]
        /\ pc' = [pc EXCEPT ![g] = "put"]
        /\ UNCHANGED <<loaded, claim, outcome, late, acked>>
     \/ /\ drafts[Draft(g)].status = "committed"
        /\ Acknowledge(g)
        /\ Release(g)
        /\ UNCHANGED drafts
     \/ /\ drafts[Draft(g)].status = "discarded"
        /\ Release(g)
        /\ UNCHANGED <<drafts, acked>>
  /\ UNCHANGED <<records, approvals, performed, faults, granted>>

\* Insert-if-absent into the table; only a commit that wins is acknowledged as
\* its own, the others fetch the winner's record.
PutRecord(g) ==
  /\ pc[g] = "put"
  /\ \/ /\ records[Key(g)] = 0
        /\ records' = [records EXCEPT ![Key(g)] = outcome[g]]
        /\ Acknowledge(g)
        /\ Release(g)
     \/ /\ records[Key(g)] # 0
        /\ pc' = [pc EXCEPT ![g] = "reread"]
        /\ UNCHANGED <<records, loaded, claim, outcome, late, acked>>
  /\ UNCHANGED <<drafts, approvals, performed, faults, granted>>

\* A connector or store call rejects, before or after it took effect: the
\* decision rejects and whatever it has done so far stays.
CallRejects(g) ==
  /\ faults < MaxFaults
  /\ faults' = faults + 1
  /\ pc[g] \in {"lookup", "execute", "performed", "put", "reread"}
  /\ \/ UNCHANGED records
     \/ /\ pc[g] = "put"
        /\ records[Key(g)] = 0
        /\ records' = [records EXCEPT ![Key(g)] = outcome[g]]
  /\ Release(g)
  /\ UNCHANGED <<drafts, approvals, performed, granted, acked>>

\* The process dies, at any await or between decisions, and is restarted.
Crash(g) ==
  /\ faults < MaxFaults
  /\ faults' = faults + 1
  /\ drafts' = [d \in Drafts |->
                  IF d \in Held(g) /\ StoreOf[g] \notin Persistent
                    THEN [drafts[d] EXCEPT !.status = "lost", !.store = NoStore]
                    ELSE drafts[d]]
  /\ Release(g)
  /\ UNCHANGED <<records, approvals, performed, granted, acked>>

(***************************************************************************)
(* discard_effect: one stretch under the lock, without an await.           *)
(***************************************************************************)
\* Mutant: the row gets the decision's verb, as in the decision record.
DiscardRow_Verb(g, d) ==
  /\ d \in Held(g)
  /\ drafts[d].status = "draft"
  /\ drafts' = [drafts EXCEPT ![d].status = "discard"]
  /\ UNCHANGED <<records, approvals, performed, decisionVars, faults, late,
                 granted, acked>>

DiscardRow(g, d) ==
  /\ d \in Held(g)
  /\ drafts[d].status = "draft"
  /\ d \in HumanDrafts =>
       \E a \in DOMAIN approvals : Authorises(a, d, "discard_effect")
  /\ drafts' = [drafts EXCEPT ![d].status = "discarded"]
  /\ UNCHANGED <<records, approvals, performed, decisionVars, faults, late,
                 granted, acked>>

\* Mutant: discards do not take the decision lock.
DiscardEffect_Unlocked(g, d) == DiscardRow(g, d)

DiscardEffect(g, d) == pc[g] = "idle" /\ DiscardRow(g, d)

(***************************************************************************)
(* Outside: the operators' surfaces.                                       *)
(***************************************************************************)

\* Another surface, such as the toolshed's gate (gateDestructiveCall), asks for the
\* approval of a call, under a hash of its own and with the call's own params: they
\* may name a draft or none.  Nobody looks at one that is undecided, so those come
\* first, within MaxElsewhere: asking earlier takes no behaviour away.
RequestElsewhere(r) ==
  /\ Len(approvals) < MaxApprovals /\ Len(approvals) < MaxElsewhere
  /\ approvals' = Append(approvals, Request(r.draft, r.tool, FALSE))
  /\ UNCHANGED <<storeVars, performed, decisionVars, faults, late, granted, acked>>

\* resolveApprovalRecord overwrites: a later decision replaces an earlier one.
ResolveApproval(a, decision) ==
  /\ approvals' = [approvals EXCEPT ![a].decision = decision]
  /\ granted' = IF decision = "approved" THEN granted \cup {a} ELSE granted
  /\ UNCHANGED <<storeVars, performed, decisionVars, faults, late, acked>>

-------------------------------------------------------------------------------
GatewayStep(g) ==
  \/ \E d \in Drafts : \/ DraftEffect(g, d) \/ ReplayLocally(g, d)
                       \/ BeginCommit(g, d) \/ DiscardEffect(g, d)
  \/ \E a \in DOMAIN approvals : ActOnCarried(g, a) \/ FindApproval(g, a)
  \/ ReplayRecord(g) \/ AgentCommits(g) \/ ConsumeApproval(g)
  \/ RequestApproval(g) \/ Refuse(g) \/ Perform(g) \/ RecordDecision(g)
  \/ PutRecord(g) \/ CallRejects(g) \/ Crash(g)

Next ==
  \/ \E g \in Gateways : GatewayStep(g)
  \/ \E r \in SurfaceRequests : RequestElsewhere(r)
  \/ \E a \in DOMAIN approvals, decision \in {"approved", "denied"} :
       ResolveApproval(a, decision)

Spec == Init /\ [][Next]_vars

-------------------------------------------------------------------------------
(***************************************************************************)
(* Properties.                                                             *)
(***************************************************************************)

\* The shape of the stores and of the decisions in hand.
GatewayTypeOK ==
  /\ drafts \in [Drafts -> DraftRows]
  /\ records \in [Keys -> 0 .. Len(performed)]
  /\ approvals \in Seq(Approvals)
  /\ performed \in Seq(Performances)
  /\ pc \in [Gateways -> PcStates]
  /\ loaded \in [Gateways -> [draft : Drafts \cup {NoDraft}, discarded : BOOLEAN]]
  /\ claim \in [Gateways -> [approval : 0 .. Len(approvals), carried : BOOLEAN]]
  /\ outcome \in [Gateways -> 0 .. Len(performed)]
  /\ faults \in Nat
  /\ late \in [Gateways -> BOOLEAN]
  /\ granted \subseteq DOMAIN approvals
  /\ acked \subseteq Keys

\* A key that has its commit record is never executed again by a decision that
\* begins later, whichever process takes it and whatever failed in between
\* (effect-gateway.ts:519-531; the guarantee commit-record-store.ts:5-13 is for).
RecordedNeverRerun ==
  \A g \in Gateways : late[g] => pc[g] = "lookup"

\* No effect of a human-gated type takes place without an approval that a human
\* granted, of a commit and not of another draft's: one of a discard, of another
\* draft, or that was only ever denied, lets nothing through, whatever became of it
\* during the awaits.  One found by its hash names this very draft; one a caller
\* carries may name none, and then opens the gate of every draft
\* (effect-gateway.ts:98-100, 810-836).
HumanGate ==
  \A e \in DOMAIN performed : performed[e].draft \in HumanDrafts =>
    /\ performed[e].approval \in granted
    /\ approvals[performed[e].approval].tool = "commit_effect"
    /\ \/ approvals[performed[e].approval].draft = performed[e].draft
       \/ performed[e].carried /\ approvals[performed[e].approval].draft = NoDraft

\* An approval that is found by its request hash lets one execution through: when
\* the connector fails or the answer is lost, the retry needs a new one
\* (effect-gateway.ts:750-797).  Processes that share a draft store may each find
\* it before any of them marks it consumed; none of them executes on it twice,
\* however often it crashes or the call is repeated.
ApprovalSpentOnce ==
  \A e, f \in DOMAIN performed :
    /\ performed[e].approval = performed[f].approval
    /\ performed[e].approval # 0
    /\ ~performed[e].carried /\ ~performed[f].carried
    => \/ e = f
       \/ /\ performed[e].by # performed[f].by
          /\ drafts[performed[e].draft].store \in Persistent

\* A process that owns its draft store never has a draft in execution that is
\* already decided: the lock keeps a discard out of a commit's awaits
\* (effect-gateway.ts:992-1002).
OneDecisionAtATime ==
  \A g \in Gateways :
    /\ StoreOf[g] \notin Persistent
    /\ pc[g] \in {"claim", "execute", "performed"}
    => drafts[Draft(g)].status = "draft"

\* The gateways implement the ledger: decisions and commit records are final and
\* rest on effects that took place.
Ledger == INSTANCE EffectLedger WITH
  effects <- [e \in DOMAIN performed |-> performed[e].draft],
  decision <- [d \in Drafts |->
                 IF drafts[d].status \in {"committed", "discarded", "lost"}
                   THEN drafts[d].status ELSE "open"],
  record <- records

EffectLedgerSpec == Ledger!Spec

\* "Written before a commit is acknowledged" (effect-gateway.ts:287-290): an
\* acknowledged commit has its durable record.
AcknowledgedIsRecorded ==
  \A k \in acked : records[k] # 0
===============================================================================
