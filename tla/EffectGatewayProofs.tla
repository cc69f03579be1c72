-------------------------- MODULE EffectGatewayProofs --------------------------
(***************************************************************************)
(* What holds of EffectGateway for any gateways, stores, drafts, keys and  *)
(* any number of approvals and faults.                                     *)
(*                                                                         *)
(* Every safety property speaks of a moment after an await: the connector  *)
(* is called on the strength of a lookup, a lock and an approval that were *)
(* read before it.  Deciding(g) says what a suspended decision still knows *)
(* of them; History says what every performed effect had behind it.        *)
(***************************************************************************)
EXTENDS EffectGateway, SequenceTheorems, TLAPS

InMemory(g) == StoreOf[g] \notin Persistent

\* A decision in hand is about a draft of its own store; in a memory store that
\* draft is still open until the decision is recorded.
DraftInHand(g) ==
  /\ pc[g] # "idle" =>
       /\ Draft(g) \in Drafts
       /\ drafts[Draft(g)].store = StoreOf[g]
       /\ drafts[Draft(g)].status # "unborn"
  /\ InMemory(g) /\ ( \/ pc[g] = "lookup" /\ ~loaded[g].discarded
                      \/ pc[g] \in {"claim", "execute", "performed"} )
       => drafts[Draft(g)].status = "draft"

\* e is an execution on the approval g found by its hash that rules g's own out.
Rivals(g, e) ==
  /\ performed[e].approval = claim[g].approval
  /\ performed[e].carried = FALSE
  /\ performed[e].by = g \/ InMemory(g)

\* An approval of a commit that names d or, where a caller carries it, no draft;
\* one that is not carried was found by its hash.
Covers(a, d, carried) ==
  /\ approvals[a].tool = "commit_effect"
  /\ approvals[a].draft = d \/ (carried = TRUE /\ approvals[a].draft = NoDraft)
  /\ carried = FALSE => a \in CommitRequests(d)

\* The approval a decision acts on was granted and covers its draft; one found by
\* its hash is spent before the connector is called; this process has not executed
\* on it, nor has another where the drafts are this one's own.
ClaimInHand(g) ==
  pc[g] \in {"claim", "execute"} =>
    /\ Draft(g) \in HumanDrafts \/ pc[g] = "claim" => claim[g].approval # 0
    /\ pc[g] = "claim" => claim[g].carried = FALSE
    /\ claim[g].approval # 0 =>
         /\ claim[g].approval \in granted
         /\ Covers(claim[g].approval, Draft(g), claim[g].carried)
         /\ claim[g].carried = FALSE =>
              /\ pc[g] = "execute" => approvals[claim[g].approval].consumed = TRUE
              /\ ~\E e \in DOMAIN performed : Rivals(g, e)

\* The outcome in hand is that of an effect of the draft in hand.
OutcomeInHand(g) ==
  pc[g] \in {"performed", "put"} =>
    /\ outcome[g] \in DOMAIN performed
    /\ performed[outcome[g]].draft = Draft(g)

LateInHand(g) == late[g] => pc[g] = "lookup" /\ records[Key(g)] # 0

Deciding(g) ==
  DraftInHand(g) /\ ClaimInHand(g) /\ OutcomeInHand(g) /\ LateInHand(g)

DecidingInv == \A g \in Gateways : Deciding(g)

\* What stands behind every effect that took place.
Backed(e) ==
  /\ drafts[performed[e].draft].status # "unborn"
  /\ performed[e].draft \in HumanDrafts => performed[e].approval # 0
  /\ performed[e].approval # 0 =>
       /\ performed[e].approval \in granted
       /\ Covers(performed[e].approval, performed[e].draft, performed[e].carried)
       /\ performed[e].carried = FALSE =>
            approvals[performed[e].approval].consumed = TRUE

AllBacked == \A e \in DOMAIN performed : Backed(e)

ApprovedIsGranted ==
  \A a \in DOMAIN approvals : approvals[a].decision = "approved" => a \in granted

History == AllBacked /\ ApprovalSpentOnce /\ ApprovedIsGranted

GInv == GatewayTypeOK /\ DecidingInv /\ History

-------------------------------------------------------------------------------
(***************************************************************************)
(* What no step takes away.                                                *)
(***************************************************************************)

ApprovalsGrow ==
  /\ granted \subseteq granted'
  /\ \A a \in DOMAIN approvals :
       /\ a \in DOMAIN approvals'
       /\ approvals'[a].draft = approvals[a].draft
       /\ approvals'[a].tool = approvals[a].tool
       /\ approvals'[a].own = approvals[a].own
       /\ approvals[a].consumed = TRUE => approvals'[a].consumed = TRUE

DraftsKept ==
  \A d \in Drafts :
    drafts[d].status # "unborn" =>
      /\ drafts'[d].status # "unborn"
      /\ drafts[d].store \in Persistent => drafts'[d].store = drafts[d].store

LEMMA SequenceShapes ==
  ASSUME GatewayTypeOK
  PROVE  /\ Len(approvals) \in Nat /\ DOMAIN approvals = 1 .. Len(approvals)
         /\ \A a \in DOMAIN approvals : approvals[a] \in Approvals
         /\ Len(performed) \in Nat /\ DOMAIN performed = 1 .. Len(performed)
         /\ \A e \in DOMAIN performed : performed[e] \in Performances
<1>1. approvals \in Seq(Approvals) /\ performed \in Seq(Performances)
  BY DEF GatewayTypeOK
<1>2. QED
  BY <1>1

LEMMA CoversStays ==
  ASSUME ApprovalsGrow, NEW a \in DOMAIN approvals, NEW d, NEW carried,
         Covers(a, d, carried)
  PROVE  Covers(a, d, carried)'
BY DEF ApprovalsGrow, CommitRequests, Covers

LEMMA RequestShape ==
  ASSUME NEW d \in Drafts \cup {NoDraft}, NEW tool \in Tools, NEW own \in BOOLEAN
  PROVE  /\ Request(d, tool, own) \in Approvals
         /\ Request(d, tool, own).decision = "undecided"
BY DEF Request, Approvals

\* A new request is the last of the approvals.
ApprovalsAppended(r) ==
  /\ approvals' \in Seq(Approvals)
  /\ Len(approvals') = Len(approvals) + 1
  /\ DOMAIN approvals' = DOMAIN approvals \cup {Len(approvals) + 1}
  /\ approvals'[Len(approvals) + 1] = r
  /\ \A a \in DOMAIN approvals : approvals'[a] = approvals[a]

LEMMA AppendedApprovals ==
  ASSUME GInv, NEW r \in Approvals, approvals' = Append(approvals, r)
  PROVE  ApprovalsAppended(r)
<1>1. approvals \in Seq(Approvals)
  BY DEF GInv, GatewayTypeOK
<1>2. QED
  BY <1>1, AppendProperties DEF ApprovalsAppended

LEMMA AppendedType ==
  ASSUME GInv, NEW r, ApprovalsAppended(r), pc' \in [Gateways -> PcStates],
         UNCHANGED <<drafts, records, performed, loaded, claim, outcome, faults, late,
                     granted, acked>>
  PROVE  GatewayTypeOK'
<1>1. 0 .. Len(approvals) \subseteq 0 .. Len(approvals')
  BY SequenceShapes DEF ApprovalsAppended, GInv
<1>2. claim' \in [Gateways -> [approval : 0 .. Len(approvals'), carried : BOOLEAN]]
  BY <1>1 DEF GInv, GatewayTypeOK
<1>3. granted' \subseteq DOMAIN approvals' /\ approvals' \in Seq(Approvals)
  BY DEF ApprovalsAppended, GInv, GatewayTypeOK
<1>4. QED
  BY <1>2, <1>3 DEF GInv, GatewayTypeOK

\* No new effect: the old ones keep what they had.
LEMMA HistoryFrame ==
  ASSUME GatewayTypeOK, AllBacked, ApprovalSpentOnce, ApprovalsGrow, DraftsKept,
         performed' = performed
  PROVE  AllBacked' /\ ApprovalSpentOnce'
<1>1. \A e \in DOMAIN performed : performed[e].draft \in Drafts
  BY SequenceShapes DEF Performances
<1>2. AllBacked'
  <2> SUFFICES ASSUME NEW e \in DOMAIN performed PROVE Backed(e)'
    BY DEF AllBacked
  <2>1. Backed(e)
    BY DEF AllBacked
  <2>2. drafts'[performed[e].draft].status # "unborn"
    BY <1>1, <2>1 DEF Backed, DraftsKept
  <2>3. performed[e].approval # 0 =>
          /\ performed[e].approval \in DOMAIN approvals
          /\ Covers(performed[e].approval, performed[e].draft, performed[e].carried)'
    BY <2>1, CoversStays DEF Backed, GatewayTypeOK
  <2>4. QED
    BY <2>1, <2>2, <2>3 DEF Backed, ApprovalsGrow
<1>3. ApprovalSpentOnce'
  BY <1>1 DEF ApprovalSpentOnce, AllBacked, Backed, DraftsKept
<1>4. QED
  BY <1>2, <1>3

\* What a step leaves to a gateway it does not move.
Undisturbed(g) ==
  /\ pc'[g] = pc[g]
  /\ loaded'[g] = loaded[g]
  /\ claim'[g] = claim[g]
  /\ outcome'[g] = outcome[g]
  /\ late'[g] = late[g]
  /\ pc[g] # "idle" =>
       /\ drafts'[Draft(g)].store = drafts[Draft(g)].store
       /\ drafts'[Draft(g)].status # "unborn"
       /\ InMemory(g) /\ drafts[Draft(g)].status = "draft" =>
            drafts'[Draft(g)].status = "draft"
  /\ \A k \in Keys : records[k] # 0 => records'[k] # 0
  /\ \A e \in DOMAIN performed : /\ e \in DOMAIN performed'
                                 /\ performed'[e] = performed[e]
  /\ pc[g] \in {"claim", "execute"} /\ claim[g].carried = FALSE /\ claim[g].approval # 0 =>
       \A e \in DOMAIN performed' : e \in DOMAIN performed \/ ~Rivals(g, e)'

LEMMA DecidingFrame ==
  ASSUME GatewayTypeOK, NEW g \in Gateways, Deciding(g), Undisturbed(g),
         ApprovalsGrow
  PROVE  Deciding(g)'
<1>0. Draft(g)' = Draft(g) /\ Key(g)' = Key(g) /\ InMemory(g)' = InMemory(g)
  BY DEF Draft, Key, Undisturbed, InMemory
<1>1. DraftInHand(g)'
  BY <1>0 DEF Deciding, DraftInHand, Undisturbed
<1>2. ClaimInHand(g)'
  <2> SUFFICES ASSUME pc[g] \in {"claim", "execute"} PROVE ClaimInHand(g)'
    BY DEF Undisturbed, ClaimInHand
  <2>1. ClaimInHand(g) /\ claim'[g] = claim[g] /\ pc'[g] = pc[g]
    BY DEF Deciding, Undisturbed
  <2>2. claim[g].approval # 0 =>
          Covers(claim[g].approval, Draft(g), claim[g].carried)'
    BY <1>0, <2>1, CoversStays DEF ClaimInHand, GatewayTypeOK
  <2>3. claim[g].approval # 0 => claim[g].approval \in DOMAIN approvals
    BY <2>1 DEF ClaimInHand, GatewayTypeOK
  <2>4. claim[g].approval # 0 /\ claim[g].carried = FALSE =>
          ~\E e \in DOMAIN performed' : Rivals(g, e)'
    BY <1>0, <2>1 DEF Undisturbed, ClaimInHand, Rivals
  <2>5. QED
    BY <1>0, <2>1, <2>2, <2>3, <2>4 DEF ClaimInHand, ApprovalsGrow
<1>3. OutcomeInHand(g)'
  BY <1>0 DEF Deciding, OutcomeInHand, Undisturbed
<1>4. LateInHand(g)'
  <2>1. late[g] => Key(g) \in Keys
    BY GatewayAssumption DEF Deciding, LateInHand, DraftInHand, Key
  <2>2. QED
    BY <1>0, <2>1 DEF Deciding, LateInHand, Undisturbed
<1>5. QED
  BY <1>1, <1>2, <1>3, <1>4 DEF Deciding

\* A released gateway decides nothing.
LEMMA ReleasedDeciding ==
  ASSUME GatewayTypeOK, NEW g \in Gateways, Release(g)
  PROVE  /\ Deciding(g)'
         /\ \A h \in Gateways \ {g} :
              /\ pc'[h] = pc[h] /\ loaded'[h] = loaded[h] /\ claim'[h] = claim[h]
              /\ outcome'[h] = outcome[h] /\ late'[h] = late[h]
         /\ pc' \in [Gateways -> PcStates]
         /\ loaded' \in [Gateways -> [draft : Drafts \cup {NoDraft}, discarded : BOOLEAN]]
         /\ claim' \in [Gateways -> [approval : 0 .. Len(approvals), carried : BOOLEAN]]
         /\ outcome' \in [Gateways -> 0 .. Len(performed)]
         /\ late' \in [Gateways -> BOOLEAN]
<1>1. pc'[g] = "idle" /\ late'[g] = FALSE
  BY DEF GatewayTypeOK, Release
<1>2. Deciding(g)'
  BY <1>1 DEF Deciding, DraftInHand, ClaimInHand, OutcomeInHand, LateInHand
<1>3. Len(approvals) \in Nat /\ Len(performed) \in Nat
  BY DEF GatewayTypeOK
<1>4. QED
  BY <1>2, <1>3 DEF GatewayTypeOK, Release, AgentClaim, PcStates
-------------------------------------------------------------------------------
(***************************************************************************)
(* The frames of the steps.                                                *)
(***************************************************************************)

RecordsGrow == \A k \in Keys : records[k] # 0 => records'[k] # 0

OthersStay(g) ==
  \A h \in Gateways \ {g} :
    /\ pc'[h] = pc[h] /\ loaded'[h] = loaded[h] /\ claim'[h] = claim[h]
    /\ outcome'[h] = outcome[h] /\ late'[h] = late[h]

\* A step of g, or of no gateway at all, that performs no effect.
LEMMA GatewayMoves ==
  ASSUME GInv, GatewayTypeOK', ApprovedIsGranted', ApprovalsGrow, DraftsKept,
         performed' = performed,
         \A h \in Gateways : Deciding(h)' \/ Undisturbed(h)
  PROVE  GInv'
<1>1. \A h \in Gateways : Deciding(h)'
  BY DecidingFrame DEF GInv, DecidingInv
<1>2. QED
  BY <1>1, HistoryFrame DEF GInv, DecidingInv, History

\* A step of g that changes no draft, performs no effect and adds no approval.
LEMMA QuietMove ==
  ASSUME GInv, NEW g \in Gateways, GatewayTypeOK', Deciding(g)', OthersStay(g),
         RecordsGrow, UNCHANGED <<drafts, performed, granted>>,
         \/ UNCHANGED approvals
         \/ ApprovalsGrow /\ ApprovedIsGranted'
  PROVE  GInv'
<1>1. ApprovalsGrow /\ ApprovedIsGranted' /\ DraftsKept
  BY DEF ApprovalsGrow, ApprovedIsGranted, DraftsKept, GInv, History
<1>2. ASSUME NEW h \in Gateways \ {g} PROVE Undisturbed(h)
  BY <1>2 DEF Undisturbed, OthersStay, RecordsGrow, GInv, DecidingInv, Deciding,
     DraftInHand
<1>3. QED
  BY <1>1, <1>2, GatewayMoves

LEMMA InitInv == Init => GInv
<1> SUFFICES ASSUME Init PROVE GInv
  OBVIOUS
<1>1. approvals = <<>> /\ performed = <<>> /\ Len(approvals) = 0 /\ Len(performed) = 0
      /\ DOMAIN approvals = {} /\ DOMAIN performed = {}
  BY DEF Init
<1>2. GatewayTypeOK
  BY <1>1 DEF Init, GatewayTypeOK, DraftRows, PcStates, AgentClaim
<1>3. DecidingInv
  BY DEF Init, DecidingInv, Deciding, DraftInHand, ClaimInHand, OutcomeInHand,
     LateInHand
<1>4. History
  BY <1>1 DEF History, AllBacked, ApprovalSpentOnce, ApprovedIsGranted
<1>5. QED
  BY <1>2, <1>3, <1>4 DEF GInv

-------------------------------------------------------------------------------
(***************************************************************************)
(* The steps of a decision.                                                *)
(***************************************************************************)

\* What the step lemmas know of a decision that is not idle.
LEMMA InHand ==
  ASSUME GInv, NEW g \in Gateways, pc[g] # "idle"
  PROVE  /\ Draft(g) \in Drafts /\ Key(g) \in Keys
         /\ drafts[Draft(g)].store = StoreOf[g]
         /\ drafts[Draft(g)].status # "unborn"
BY GatewayAssumption DEF GInv, DecidingInv, Deciding, DraftInHand, Key

LEMMA ReleaseMove ==
  ASSUME GInv, NEW g \in Gateways, Release(g), RecordsGrow,
         UNCHANGED <<drafts, approvals, performed, granted>>,
         records' \in [Keys -> 0 .. Len(performed)], faults' \in Nat,
         acked' \subseteq Keys
  PROVE  GInv'
<1>1. GatewayTypeOK' /\ Deciding(g)' /\ OthersStay(g)
  BY ReleasedDeciding DEF GInv, GatewayTypeOK, OthersStay
<1>2. QED
  BY <1>1, QuietMove

LEMMA ReplayLocallyStep ==
  ASSUME GInv, NEW g \in Gateways, NEW d \in Drafts, ReplayLocally(g, d)
  PROVE  GInv'
<1>1. KeyOf[d] \in Keys
  BY GatewayAssumption
<1>2. GatewayTypeOK'
  BY <1>1 DEF GInv, GatewayTypeOK, ReplayLocally, storeVars, decisionVars
<1>3. /\ UNCHANGED <<drafts, records, approvals, performed, granted>>
      /\ UNCHANGED <<pc, loaded, claim, outcome, late>>
  BY DEF ReplayLocally, storeVars, decisionVars
<1>4. OthersStay(g) /\ RecordsGrow /\ Undisturbed(g) /\ ApprovalsGrow
  BY <1>3 DEF OthersStay, RecordsGrow, Undisturbed, ApprovalsGrow, GInv,
     DecidingInv, Deciding, DraftInHand
<1>5. Deciding(g)'
  BY <1>4, DecidingFrame DEF GInv, DecidingInv
<1>6. QED
  BY <1>2, <1>3, <1>4, <1>5, QuietMove

LEMMA BeginCommitStep ==
  ASSUME GInv, NEW g \in Gateways, NEW d \in Drafts, BeginCommit(g, d)
  PROVE  GInv'
<1>1. GatewayTypeOK'
  BY DEF GInv, GatewayTypeOK, BeginCommit, storeVars, PcStates
<1>2. OthersStay(g) /\ RecordsGrow
  BY DEF GInv, GatewayTypeOK, BeginCommit, storeVars, OthersStay, RecordsGrow
<1>3. /\ pc'[g] = "lookup" /\ loaded'[g].draft = d
      /\ loaded'[g].discarded = (drafts[d].status = "discarded")
      /\ late'[g] = (records[KeyOf[d]] # 0)
      /\ drafts[d].store = StoreOf[g] /\ drafts[d].status \in {"draft", "discarded"}
      /\ UNCHANGED <<drafts, records, approvals, performed, granted>>
  BY DEF GInv, GatewayTypeOK, BeginCommit, storeVars, Held
<1>4. Deciding(g)'
  BY <1>3 DEF Deciding, DraftInHand, ClaimInHand, OutcomeInHand, LateInHand, Draft,
     Key, InMemory
<1>5. QED
  BY <1>1, <1>2, <1>3, <1>4, QuietMove

LEMMA ReplayRecordStep ==
  ASSUME GInv, NEW g \in Gateways, ReplayRecord(g)
  PROVE  GInv'
<1>1. pc[g] # "idle" /\ Release(g) /\ acked' = acked \cup {Key(g)}
      /\ UNCHANGED <<drafts, records, approvals, performed, faults, granted>>
  BY DEF ReplayRecord, storeVars, Acknowledge
<1>2. Key(g) \in Keys
  BY <1>1, InHand
<1>3. QED
  BY <1>1, <1>2, ReleaseMove DEF RecordsGrow, GInv, GatewayTypeOK

LEMMA RefuseStep ==
  ASSUME GInv, NEW g \in Gateways, Refuse(g)
  PROVE  GInv'
BY ReleaseMove DEF Refuse, storeVars, RecordsGrow, GInv, GatewayTypeOK

LEMMA CallRejectsStep ==
  ASSUME GInv, NEW g \in Gateways, CallRejects(g)
  PROVE  GInv'
<1>1. pc[g] # "idle" /\ Release(g) /\ faults' = faults + 1
      /\ UNCHANGED <<drafts, approvals, performed, granted, acked>>
  BY DEF CallRejects
<1>2. \/ records' = records
      \/ /\ records[Key(g)] = 0
         /\ records' = [records EXCEPT ![Key(g)] = outcome[g]]
  BY DEF CallRejects
<1>3. records' \in [Keys -> 0 .. Len(performed)] /\ RecordsGrow
  BY <1>2 DEF GInv, GatewayTypeOK, RecordsGrow
<1>4. faults' \in Nat /\ acked' \subseteq Keys
  BY <1>1 DEF GInv, GatewayTypeOK
<1>5. QED
  BY <1>1, <1>3, <1>4, ReleaseMove

LEMMA PutRecordStep ==
  ASSUME GInv, NEW g \in Gateways, PutRecord(g)
  PROVE  GInv'
<1>1. pc[g] = "put" /\ Key(g) \in Keys
      /\ UNCHANGED <<drafts, approvals, performed, faults, granted>>
  BY InHand DEF PutRecord
<1>2. CASE /\ records[Key(g)] = 0
           /\ records' = [records EXCEPT ![Key(g)] = outcome[g]]
           /\ Acknowledge(g)
           /\ Release(g)
  <2>1. records' \in [Keys -> 0 .. Len(performed)] /\ RecordsGrow
    BY <1>2 DEF GInv, GatewayTypeOK, RecordsGrow
  <2>2. QED
    BY <1>1, <1>2, <2>1, ReleaseMove DEF GInv, GatewayTypeOK, Acknowledge
<1>3. CASE /\ records[Key(g)] # 0
           /\ pc' = [pc EXCEPT ![g] = "reread"]
           /\ UNCHANGED <<records, loaded, claim, outcome, late, acked>>
  <2>1. GatewayTypeOK'
    BY <1>1, <1>3 DEF GInv, GatewayTypeOK, PcStates
  <2>2. OthersStay(g) /\ RecordsGrow /\ pc'[g] = "reread"
    BY <1>3 DEF GInv, GatewayTypeOK, OthersStay, RecordsGrow
  <2>3. Deciding(g)'
    BY <1>1, <1>3, <2>2 DEF GInv, DecidingInv, Deciding, DraftInHand, ClaimInHand,
       OutcomeInHand, LateInHand, Draft, Key, InMemory
  <2>4. QED
    BY <1>1, <1>3, <2>1, <2>2, <2>3, QuietMove
<1>4. QED
  BY <1>2, <1>3 DEF PutRecord
\* A decision that goes on to act on an approval, or on none.
LEMMA ActMove ==
  ASSUME GInv, NEW g \in Gateways, NEW state \in {"claim", "execute"},
         NEW a \in 0 .. Len(approvals), NEW carried \in BOOLEAN,
         Undecided(g), ActAs(g, state, a, carried), UNCHANGED approvals,
         Draft(g) \in HumanDrafts \/ state = "claim" => a # 0,
         state = "claim" => carried = FALSE,
         a # 0 => Authorises(a, Draft(g), "commit_effect"),
         a # 0 /\ carried = FALSE =>
           /\ state = "claim" /\ approvals[a].consumed = FALSE
           /\ a \in CommitRequests(Draft(g))
  PROVE  GInv'
<1>1. /\ pc[g] = "lookup" /\ loaded[g].discarded = FALSE
      /\ UNCHANGED <<drafts, records, approvals, performed, loaded, outcome, faults,
                     late, granted, acked>>
      /\ records[Key(g)] = 0
  BY DEF Undecided, ActAs, storeVars, GInv, GatewayTypeOK
<1>2. /\ pc' = [pc EXCEPT ![g] = state]
      /\ claim' = [claim EXCEPT ![g] = [approval |-> a, carried |-> carried]]
  BY DEF ActAs
<1>3. GatewayTypeOK'
  BY <1>1, <1>2 DEF GInv, GatewayTypeOK, PcStates
<1>4. /\ OthersStay(g) /\ RecordsGrow
      /\ pc'[g] = state /\ claim'[g].approval = a /\ claim'[g].carried = carried
  BY <1>1, <1>2 DEF GInv, GatewayTypeOK, OthersStay, RecordsGrow
<1>5. DraftInHand(g)' /\ OutcomeInHand(g)'
  BY <1>1, <1>4 DEF GInv, DecidingInv, Deciding, DraftInHand, OutcomeInHand, Draft,
     InMemory
<1>6. LateInHand(g)'
  <2>1. late[g] = FALSE
    BY <1>1 DEF GInv, GatewayTypeOK, DecidingInv, Deciding, LateInHand
  <2>2. QED
    BY <1>1, <2>1 DEF LateInHand
<1>7. ClaimInHand(g)'
  <2>1. Draft(g)' = Draft(g)
    BY <1>1 DEF Draft
  <2>2. CASE a = 0
    BY <1>4, <2>1, <2>2 DEF ClaimInHand
  <2>3. CASE a # 0
    <3>1. a \in DOMAIN approvals
      BY <2>3, SequenceShapes DEF GInv
    <3>2. Covers(a, Draft(g), carried) /\ a \in granted
      BY <2>3, <3>1 DEF Authorises, CommitRequests, Covers, GInv, History,
         ApprovedIsGranted
    <3>3. Covers(a, Draft(g), carried)'
      BY <1>1, <2>1, <3>2 DEF CommitRequests, Covers
    <3>4. ASSUME carried = FALSE, NEW e \in DOMAIN performed', Rivals(g, e)'
          PROVE  FALSE
      <4>1. e \in DOMAIN performed /\ performed[e].approval = a /\ performed[e].carried = FALSE
        BY <1>1, <1>4, <3>4 DEF Rivals
      <4>2. approvals[a].consumed = TRUE
        BY <2>3, <4>1 DEF GInv, History, AllBacked, Backed
      <4>3. QED
        BY <2>3, <3>4, <4>2
    <3>5. QED
      BY <1>1, <1>4, <2>1, <2>3, <3>2, <3>3, <3>4 DEF ClaimInHand
  <2>4. QED
    BY <2>2, <2>3
<1>8. QED
  BY <1>1, <1>3, <1>4, <1>5, <1>6, <1>7, QuietMove DEF Deciding

LEMMA AgentCommitsStep ==
  ASSUME GInv, NEW g \in Gateways, AgentCommits(g)
  PROVE  GInv'
<1>1. 0 \in 0 .. Len(approvals)
  BY SequenceShapes DEF GInv
<1>2. QED
  BY <1>1, ActMove DEF AgentCommits

LEMMA ActOnCarriedStep ==
  ASSUME GInv, NEW g \in Gateways, NEW a \in DOMAIN approvals, ActOnCarried(g, a)
  PROVE  GInv'
<1>1. a \in 0 .. Len(approvals) /\ a # 0
  BY SequenceShapes DEF GInv
<1>2. QED
  BY <1>1, ActMove DEF ActOnCarried, AskHuman

LEMMA FindApprovalStep ==
  ASSUME GInv, NEW g \in Gateways, NEW a \in DOMAIN approvals, FindApproval(g, a)
  PROVE  GInv'
<1>1. a \in 0 .. Len(approvals) /\ a # 0 /\ approvals[a].consumed \in BOOLEAN
  BY SequenceShapes DEF GInv, Approvals
<1>2. QED
  BY <1>1, ActMove DEF FindApproval, AskHuman

LEMMA ConsumeApprovalStep ==
  ASSUME GInv, NEW g \in Gateways, ConsumeApproval(g)
  PROVE  GInv'
<1> DEFINE c == claim[g].approval
<1>1. /\ pc[g] = "claim"
      /\ approvals' = [approvals EXCEPT ![c].consumed = TRUE]
      /\ UNCHANGED <<drafts, records, performed, faults, granted, acked>>
  BY DEF ConsumeApproval, storeVars
<1>2. c \in DOMAIN approvals /\ c \in granted /\ c \in CommitRequests(Draft(g))
      /\ claim[g].carried = FALSE /\ approvals[c].tool = "commit_effect"
  BY <1>1 DEF GInv, DecidingInv, Deciding, ClaimInHand, Covers, CommitRequests
<1>3. /\ DOMAIN approvals' = DOMAIN approvals /\ Len(approvals') = Len(approvals)
      /\ approvals' \in Seq(Approvals)
      /\ approvals'[c].consumed = TRUE
      /\ \A a \in DOMAIN approvals :
           /\ approvals'[a].draft = approvals[a].draft
           /\ approvals'[a].tool = approvals[a].tool
           /\ approvals'[a].own = approvals[a].own
           /\ approvals'[a].decision = approvals[a].decision
           /\ approvals[a].consumed = TRUE => approvals'[a].consumed = TRUE
  <2>1. approvals \in Seq(Approvals) /\ approvals[c] \in Approvals
    BY <1>2, SequenceShapes DEF GInv, GatewayTypeOK
  <2>2. [approvals[c] EXCEPT !.consumed = TRUE] \in Approvals
    BY <2>1 DEF Approvals
  <2>3. approvals' = [approvals EXCEPT ![c] = [approvals[c] EXCEPT !.consumed = TRUE]]
    BY <1>1
  <2>4. approvals' \in Seq(Approvals) /\ Len(approvals') = Len(approvals)
    BY <1>2, <2>1, <2>2, <2>3
  <2>5. DOMAIN approvals' = DOMAIN approvals
    BY <2>3
  <2>6. \A a \in DOMAIN approvals :
          approvals'[a] = IF a = c THEN [approvals[c] EXCEPT !.consumed = TRUE]
                                   ELSE approvals[a]
    BY <2>3
  <2>7. /\ [approvals[c] EXCEPT !.consumed = TRUE].draft = approvals[c].draft
        /\ [approvals[c] EXCEPT !.consumed = TRUE].tool = approvals[c].tool
        /\ [approvals[c] EXCEPT !.consumed = TRUE].own = approvals[c].own
        /\ [approvals[c] EXCEPT !.consumed = TRUE].decision = approvals[c].decision
        /\ [approvals[c] EXCEPT !.consumed = TRUE].consumed = TRUE
    BY <2>1 DEF Approvals
  <2>8. QED
    BY <1>2, <2>4, <2>5, <2>6, <2>7
<1>4. ApprovalsGrow /\ ApprovedIsGranted' /\ RecordsGrow
  BY <1>1, <1>3 DEF ApprovalsGrow, ApprovedIsGranted, RecordsGrow, GInv, History
<1>5. CASE pc' = [pc EXCEPT ![g] = "execute"] /\ UNCHANGED <<loaded, claim, outcome, late>>
  <2>1. GatewayTypeOK'
    BY <1>1, <1>3, <1>5 DEF GInv, GatewayTypeOK, PcStates
  <2>2. OthersStay(g) /\ pc'[g] = "execute"
    BY <1>5 DEF GInv, GatewayTypeOK, OthersStay
  <2>3. Draft(g)' = Draft(g) /\ Key(g)' = Key(g)
    BY <1>5 DEF Draft, Key
  <2>4. Covers(c, Draft(g), claim[g].carried)'
    BY <1>2, <1>3, <1>5, <2>3 DEF Covers, CommitRequests
  <2>5. DraftInHand(g)' /\ OutcomeInHand(g)' /\ LateInHand(g)'
    BY <1>1, <1>5, <2>2, <2>3 DEF GInv, DecidingInv, Deciding, DraftInHand,
       OutcomeInHand, LateInHand, InMemory
  <2>6. ClaimInHand(g)'
    <3>1. \A e \in DOMAIN performed' : Rivals(g, e)' => Rivals(g, e)
      BY <1>1, <1>5 DEF Rivals, InMemory
    <3>2. QED
      BY <1>1, <1>2, <1>3, <1>5, <2>2, <2>3, <2>4, <3>1 DEF GInv, DecidingInv, Deciding,
         ClaimInHand
  <2>7. QED
    BY <1>1, <1>4, <2>1, <2>2, <2>5, <2>6, QuietMove DEF Deciding
<1>6. CASE Release(g)
  <2>1. GatewayTypeOK' /\ Deciding(g)' /\ OthersStay(g)
    BY <1>1, <1>3, <1>6, ReleasedDeciding DEF GInv, GatewayTypeOK, OthersStay
  <2>2. QED
    BY <1>1, <1>4, <2>1, QuietMove
<1>7. QED
  BY <1>5, <1>6 DEF ConsumeApproval
LEMMA RequestApprovalStep ==
  ASSUME GInv, NEW g \in Gateways, RequestApproval(g)
  PROVE  GInv'
<1> DEFINE r == Request(Draft(g), "commit_effect", TRUE)
<1>1. /\ pc[g] = "lookup" /\ records[Key(g)] = 0
      /\ approvals' = Append(approvals, r) /\ pc' = [pc EXCEPT ![g] = "notify"]
      /\ UNCHANGED <<drafts, records, performed, loaded, claim, outcome, faults,
                     late, granted, acked>>
  BY DEF RequestApproval, AskHuman, Undecided, storeVars
<1>2. r \in Approvals /\ r.decision = "undecided"
  <2>1. Draft(g) \in Drafts /\ "commit_effect" \in Tools
    BY <1>1, InHand DEF Tools
  <2>2. QED
    BY <2>1, RequestShape
<1>3. ApprovalsAppended(r)
  BY <1>1, <1>2, AppendedApprovals
<1>4. ApprovalsGrow /\ ApprovedIsGranted' /\ RecordsGrow
  BY <1>1, <1>2, <1>3 DEF ApprovalsAppended, ApprovalsGrow, ApprovedIsGranted,
     RecordsGrow, GInv, History
<1>5. GatewayTypeOK'
  <2>1. pc' \in [Gateways -> PcStates]
    BY <1>1 DEF GInv, GatewayTypeOK, PcStates
  <2>2. QED
    BY <1>1, <1>3, <2>1, AppendedType
<1>6. OthersStay(g) /\ pc'[g] = "notify"
  BY <1>1 DEF GInv, GatewayTypeOK, OthersStay
<1>7. late[g] = FALSE
  BY <1>1 DEF GInv, GatewayTypeOK, DecidingInv, Deciding, LateInHand
<1>8. Deciding(g)'
  BY <1>1, <1>6, <1>7 DEF GInv, DecidingInv, Deciding, DraftInHand, ClaimInHand,
     OutcomeInHand, LateInHand, Draft, Key, InMemory
<1>9. QED
  BY <1>1, <1>4, <1>5, <1>6, <1>8, QuietMove

LEMMA PerformStep ==
  ASSUME GInv, NEW g \in Gateways, Perform(g)
  PROVE  GInv'
<1> DEFINE p == [draft |-> Draft(g), approval |-> claim[g].approval,
                 carried |-> claim[g].carried, by |-> g]
<1>0. PICK n \in Nat : n = Len(performed) + 1
  BY SequenceShapes DEF GInv
<1>1. /\ pc[g] = "execute" /\ performed' = Append(performed, p)
      /\ outcome' = [outcome EXCEPT ![g] = n] /\ pc' = [pc EXCEPT ![g] = "performed"]
      /\ UNCHANGED <<drafts, records, approvals, loaded, claim, faults, late,
                     granted, acked>>
  BY <1>0 DEF Perform, storeVars
<1>2. Draft(g) \in Drafts /\ drafts[Draft(g)].status # "unborn"
      /\ drafts[Draft(g)].store = StoreOf[g]
  BY <1>1, InHand
<1>3. p \in Performances
  BY <1>2, SequenceShapes DEF GInv, GatewayTypeOK, Performances
<1>4. /\ performed' \in Seq(Performances) /\ Len(performed') = n /\ n \in Nat
      /\ DOMAIN performed' = 1 .. n /\ DOMAIN performed = 1 .. n - 1
      /\ performed'[n] = p
      /\ \A e \in DOMAIN performed : performed'[e] = performed[e]
  <2>1. performed \in Seq(Performances)
    BY DEF GInv, GatewayTypeOK
  <2>2. QED
    BY <1>0, <1>1, <1>3, <2>1, AppendProperties
<1>5. GatewayTypeOK'
  <2>1. 0 .. Len(performed) \subseteq 0 .. n /\ n \in 0 .. n
    BY <1>4, SequenceShapes DEF GInv
  <2>2. records' \in [Keys -> 0 .. n] /\ outcome' \in [Gateways -> 0 .. n]
    BY <1>1, <2>1 DEF GInv, GatewayTypeOK
  <2>3. QED
    BY <1>1, <1>4, <2>2 DEF GInv, GatewayTypeOK, PcStates
<1>6. OthersStay(g) /\ pc'[g] = "performed" /\ outcome'[g] = n
  BY <1>1, <1>4 DEF GInv, GatewayTypeOK, OthersStay
<1>7. ClaimInHand(g) /\ DraftInHand(g) /\ claim[g].carried \in BOOLEAN
  BY DEF GInv, DecidingInv, Deciding, GatewayTypeOK
\* Nobody else in memory acts on an approval found by the hash of this commit.
<1>8. ASSUME NEW h \in Gateways \ {g}, pc[h] \in {"claim", "execute"}, InMemory(h),
             claim[h].approval = claim[g].approval, claim[h].approval # 0,
             claim[h].carried = FALSE, claim[g].carried = FALSE
      PROVE  FALSE
  <2>1. Draft(h) = Draft(g)
    BY <1>1, <1>7, <1>8 DEF GInv, DecidingInv, Deciding, ClaimInHand, Covers,
       CommitRequests
  <2>2. drafts[Draft(h)].store = StoreOf[h]
    BY <1>8, InHand
  <2>3. StoreOf[h] = StoreOf[g]
    BY <1>2, <2>1, <2>2
  <2>4. QED
    BY <1>8, <2>3, MemoryStoreAssumption DEF InMemory
<1>9. ASSUME NEW h \in Gateways \ {g} PROVE Deciding(h)'
  <2>1. Undisturbed(h)
    <3>1. /\ pc[h] # "idle" => drafts[Draft(h)].status # "unborn"
          /\ UNCHANGED <<drafts, records>>
      BY <1>1, InHand
    <3>2. ASSUME pc[h] \in {"claim", "execute"}, NEW e \in DOMAIN performed',
                 Rivals(h, e)', claim[h].approval # 0, claim[h].carried = FALSE
          PROVE  e \in DOMAIN performed
      <4>1. CASE e # n
        BY <1>4, <4>1
      <4>2. CASE e = n
        <5>1. performed'[e] = p /\ claim'[h] = claim[h] /\ p.by # h
          BY <1>1, <1>4, <1>9, <4>2
        <5>2. claim[h].approval = claim[g].approval /\ InMemory(h)
              /\ claim[g].carried = FALSE
          BY <3>2, <5>1 DEF Rivals, InMemory
        <5>3. QED
          BY <1>8, <1>9, <3>2, <5>2
      <4>3. QED
        BY <4>1, <4>2
    <3>3. \A e \in DOMAIN performed : e \in DOMAIN performed'
      BY <1>4
    <3>4. QED
      BY <1>4, <1>6, <1>9, <3>1, <3>2, <3>3 DEF Undisturbed, OthersStay
  <2>2. ApprovalsGrow
    BY <1>1 DEF ApprovalsGrow
  <2>3. QED
    BY <1>9, <2>1, <2>2, DecidingFrame DEF GInv, DecidingInv
<1>10. Deciding(g)'
  <2>1. DraftInHand(g)' /\ ClaimInHand(g)'
    BY <1>1, <1>6, <1>7 DEF DraftInHand, ClaimInHand, Draft, InMemory
  <2>2. OutcomeInHand(g)'
    BY <1>1, <1>4, <1>6 DEF OutcomeInHand, Draft
  <2>3. late[g] = FALSE
    BY <1>1 DEF GInv, GatewayTypeOK, DecidingInv, Deciding, LateInHand
  <2>4. QED
    BY <1>1, <2>1, <2>2, <2>3 DEF Deciding, LateInHand
<1>11. AllBacked'
  <2>1. ASSUME NEW e \in DOMAIN performed PROVE Backed(e)'
    BY <1>1, <1>4, <2>1 DEF GInv, History, AllBacked, Backed, Covers, CommitRequests
  <2>2. Backed(n)'
    BY <1>1, <1>2, <1>4, <1>7 DEF Backed, ClaimInHand, Covers, CommitRequests
  <2>3. \A e \in DOMAIN performed' : e \in DOMAIN performed \/ e = n
    BY <1>4
  <2>4. QED
    BY <2>1, <2>2, <2>3 DEF AllBacked
<1>12. ApprovalSpentOnce'
  <2>1. ASSUME NEW e \in DOMAIN performed, performed[e].approval = p.approval,
               p.approval # 0, performed[e].carried = FALSE, p.carried = FALSE
        PROVE  /\ performed[e].draft = Draft(g) /\ performed[e].by # g
               /\ drafts[Draft(g)].store \in Persistent
    <3>1. ~InMemory(g) /\ performed[e].by # g
      BY <1>1, <1>7, <2>1 DEF ClaimInHand, Rivals
    <3>2. performed[e].draft = Draft(g)
      BY <1>1, <1>7, <2>1 DEF ClaimInHand, Covers, CommitRequests, GInv, History,
         AllBacked, Backed
    <3>3. QED
      BY <1>2, <3>1, <3>2 DEF InMemory
  <2>2. \A e \in DOMAIN performed' :
          /\ e \in DOMAIN performed \/ e = n
          /\ performed'[e].carried \in BOOLEAN
    BY <1>4, SequenceShapes, <1>3 DEF GInv, Performances
  <2>3. SUFFICES ASSUME NEW e \in DOMAIN performed', NEW f \in DOMAIN performed',
                        performed'[e].approval = performed'[f].approval,
                        performed'[e].approval # 0, performed'[e].carried = FALSE,
                        performed'[f].carried = FALSE, e # f
                 PROVE  /\ performed'[e].by # performed'[f].by
                        /\ drafts[performed'[e].draft].store \in Persistent
    BY <1>1, <2>2 DEF ApprovalSpentOnce
  <2>4. CASE e = n
    <3>1. f \in DOMAIN performed /\ performed'[f] = performed[f] /\ performed'[e] = p
      BY <1>4, <2>2, <2>3, <2>4
    <3>2. /\ performed[f].draft = Draft(g) /\ performed[f].by # g
          /\ drafts[Draft(g)].store \in Persistent
      BY <2>1, <2>3, <3>1
    <3>3. QED
      BY <3>1, <3>2
  <2>5. CASE f = n
    <3>1. e \in DOMAIN performed /\ performed'[e] = performed[e] /\ performed'[f] = p
      BY <1>4, <2>2, <2>3, <2>5
    <3>2. /\ performed[e].draft = Draft(g) /\ performed[e].by # g
          /\ drafts[Draft(g)].store \in Persistent
      BY <2>1, <2>3, <3>1
    <3>3. QED
      BY <3>1, <3>2
  <2>6. CASE e \in DOMAIN performed /\ f \in DOMAIN performed
    BY <1>4, <2>3, <2>6 DEF GInv, History, ApprovalSpentOnce
  <2>7. QED
    BY <2>2, <2>4, <2>5, <2>6
<1>13. ApprovedIsGranted'
  BY <1>1 DEF GInv, History, ApprovedIsGranted
<1>14. QED
  BY <1>5, <1>9, <1>10, <1>11, <1>12, <1>13 DEF GInv, DecidingInv, History
-------------------------------------------------------------------------------
(***************************************************************************)
(* The steps that write drafts.                                            *)
(***************************************************************************)

\* What a step that writes drafts must leave of the draft another gateway has
\* in hand.
HandKept(h) ==
  pc[h] # "idle" =>
    /\ drafts'[Draft(h)].store = drafts[Draft(h)].store
    /\ drafts'[Draft(h)].status # "unborn"
    /\ InMemory(h) /\ drafts[Draft(h)].status = "draft" =>
         drafts'[Draft(h)].status = "draft"

\* A step of g that writes drafts, and nothing else but what g has in hand.
LEMMA DraftsMove ==
  ASSUME GInv, NEW g \in Gateways, GatewayTypeOK', DraftsKept, OthersStay(g),
         UNCHANGED <<records, approvals, performed, granted>>,
         \A h \in Gateways \ {g} : HandKept(h),
         \/ Deciding(g)'
         \/ HandKept(g) /\ UNCHANGED <<pc, loaded, claim, outcome, late>>
  PROVE  GInv'
<1>1. ApprovalsGrow /\ ApprovedIsGranted'
  BY DEF ApprovalsGrow, ApprovedIsGranted, GInv, History
<1>2. ASSUME NEW h \in Gateways, HandKept(h),
             h # g \/ UNCHANGED <<pc, loaded, claim, outcome, late>>
      PROVE  Undisturbed(h)
  BY <1>2 DEF Undisturbed, OthersStay, HandKept
<1>3. QED
  BY <1>1, <1>2, GatewayMoves

\* The draft another gateway has in hand is not one of this memory store.
LEMMA MemoryIsOwn ==
  ASSUME GInv, NEW g \in Gateways, NEW h \in Gateways, NEW d \in Held(g),
         pc[h] # "idle", Draft(h) = d, InMemory(g) \/ InMemory(h)
  PROVE  g = h
<1>1. drafts[d].store = StoreOf[g] /\ drafts[d].store = StoreOf[h]
  BY InHand DEF Held
<1>2. QED
  BY <1>1, MemoryStoreAssumption DEF InMemory

LEMMA DraftEffectStep ==
  ASSUME GInv, NEW g \in Gateways, NEW d \in Drafts, DraftEffect(g, d)
  PROVE  GInv'
<1>1. /\ drafts[d].status = "unborn"
      /\ drafts' = [drafts EXCEPT ![d].status = "draft", ![d].store = StoreOf[g]]
      /\ UNCHANGED <<records, approvals, performed, pc, loaded, claim, outcome,
                     faults, late, granted, acked>>
  BY DEF DraftEffect, decisionVars
<1>2. GatewayTypeOK'
  BY <1>1, GatewayAssumption DEF GInv, GatewayTypeOK, DraftRows
<1>3. \A b \in Drafts : drafts[b].status # "unborn" => drafts'[b] = drafts[b]
  BY <1>1 DEF GInv, GatewayTypeOK
<1>4. DraftsKept
  BY <1>3 DEF DraftsKept
<1>5. ASSUME NEW h \in Gateways PROVE HandKept(h)
  BY <1>3, InHand DEF HandKept
<1>6. OthersStay(g)
  BY <1>1 DEF OthersStay
<1>7. QED
  BY <1>1, <1>2, <1>4, <1>5, <1>6, DraftsMove

LEMMA DiscardEffectStep ==
  ASSUME GInv, NEW g \in Gateways, NEW d \in Drafts, DiscardEffect(g, d)
  PROVE  GInv'
<1>1. /\ pc[g] = "idle" /\ d \in Held(g) /\ drafts[d].status = "draft"
      /\ drafts' = [drafts EXCEPT ![d].status = "discarded"]
      /\ UNCHANGED <<records, approvals, performed, pc, loaded, claim, outcome,
                     faults, late, granted, acked>>
  BY DEF DiscardEffect, DiscardRow, decisionVars
<1>2. GatewayTypeOK'
  BY <1>1 DEF GInv, GatewayTypeOK, DraftRows
<1>3. /\ drafts'[d].store = drafts[d].store /\ drafts'[d].status = "discarded"
      /\ \A b \in Drafts \ {d} : drafts'[b] = drafts[b]
  BY <1>1 DEF GInv, GatewayTypeOK, DraftRows
<1>4. DraftsKept
  BY <1>3 DEF DraftsKept
<1>5. ASSUME NEW h \in Gateways PROVE HandKept(h)
  <2>1. SUFFICES ASSUME pc[h] # "idle" PROVE HandKept(h)
    BY DEF HandKept
  <2>2. CASE Draft(h) = d
    <3>1. ~InMemory(h)
      BY <1>1, <2>1, <2>2, MemoryIsOwn
    <3>2. QED
      BY <1>3, <2>2, <3>1 DEF HandKept
  <2>3. CASE Draft(h) # d
    BY <1>3, <2>1, <2>3, InHand DEF HandKept
  <2>4. QED
    BY <2>2, <2>3
<1>6. OthersStay(g)
  BY <1>1 DEF OthersStay
<1>7. QED
  BY <1>1, <1>2, <1>4, <1>5, <1>6, DraftsMove

LEMMA RecordDecisionStep ==
  ASSUME GInv, NEW g \in Gateways, RecordDecision(g)
  PROVE  GInv'
<1> DEFINE d == Draft(g)
<1>1. /\ pc[g] = "performed" /\ d \in Drafts /\ Key(g) \in Keys
      /\ d \in Held(g)
      /\ UNCHANGED <<records, approvals, performed, faults, granted>>
  BY InHand DEF RecordDecision, Held
<1>2. CASE /\ drafts[d].status = "draft"
           /\ drafts' = [drafts EXCEPT ![d].status = "committed",
                                       ![d].outcome = outcome[g]]
           /\ pc' = [pc EXCEPT ![g] = "put"]
           /\ UNCHANGED <<loaded, claim, outcome, late, acked>>
  <2>1. outcome[g] \in Nat
    BY SequenceShapes DEF GInv, GatewayTypeOK
  <2>2. GatewayTypeOK'
    <3>1. drafts \in [Drafts -> DraftRows] /\ drafts[d] \in DraftRows
      BY <1>1 DEF GInv, GatewayTypeOK
    <3>2. [drafts[d] EXCEPT !.status = "committed", !.outcome = outcome[g]] \in DraftRows
      BY <2>1, <3>1 DEF DraftRows
    <3>3. drafts' \in [Drafts -> DraftRows]
      BY <1>2, <3>1, <3>2
    <3>4. QED
      BY <1>1, <1>2, <3>3 DEF GInv, GatewayTypeOK, PcStates
  <2>3. /\ drafts'[d].store = drafts[d].store /\ drafts'[d].status = "committed"
        /\ \A b \in Drafts \ {d} : drafts'[b] = drafts[b]
    BY <1>1, <1>2 DEF GInv, GatewayTypeOK, DraftRows
  <2>4. DraftsKept
    BY <2>3 DEF DraftsKept
  <2>5. OthersStay(g) /\ pc'[g] = "put"
    BY <1>2 DEF GInv, GatewayTypeOK, OthersStay
  <2>6. ASSUME NEW h \in Gateways \ {g} PROVE HandKept(h)
    <3>1. SUFFICES ASSUME pc[h] # "idle" PROVE HandKept(h)
      BY DEF HandKept
    <3>2. CASE Draft(h) = d
      <4>1. ~InMemory(h)
        BY <1>1, <2>6, <3>1, <3>2, MemoryIsOwn
      <4>2. QED
        BY <2>3, <3>2, <4>1 DEF HandKept
    <3>3. CASE Draft(h) # d
      BY <2>3, <3>1, <3>3, InHand DEF HandKept
    <3>4. QED
      BY <3>2, <3>3
  <2>7. Deciding(g)'
    <3>1. Draft(g)' = d /\ late[g] = FALSE
      BY <1>1, <1>2 DEF GInv, GatewayTypeOK, DecidingInv, Deciding, LateInHand, Draft
    <3>2. DraftInHand(g)' /\ ClaimInHand(g)' /\ LateInHand(g)'
      BY <1>1, <1>2, <2>3, <2>5, <3>1, InHand DEF DraftInHand, ClaimInHand, LateInHand
    <3>3. OutcomeInHand(g)'
      BY <1>1, <1>2, <2>5, <3>1 DEF GInv, DecidingInv, Deciding, OutcomeInHand
    <3>4. QED
      BY <3>2, <3>3 DEF Deciding
  <2>8. QED
    BY <1>1, <2>2, <2>4, <2>5, <2>6, <2>7, DraftsMove
<1>3. CASE /\ Release(g)
           /\ UNCHANGED drafts
           /\ UNCHANGED acked \/ Acknowledge(g)
  <2>1. acked' \subseteq Keys /\ faults' \in Nat /\ RecordsGrow
        /\ records' \in [Keys -> 0 .. Len(performed)]
    BY <1>1, <1>3 DEF GInv, GatewayTypeOK, Acknowledge, RecordsGrow
  <2>2. QED
    BY <1>1, <1>3, <2>1, ReleaseMove
<1>4. QED
  BY <1>2, <1>3 DEF RecordDecision

LEMMA CrashStep ==
  ASSUME GInv, NEW g \in Gateways, Crash(g)
  PROVE  GInv'
<1>1. /\ faults' = faults + 1 /\ Release(g)
      /\ drafts' = [d \in Drafts |->
                      IF d \in Held(g) /\ InMemory(g)
                        THEN [drafts[d] EXCEPT !.status = "lost", !.store = NoStore]
                        ELSE drafts[d]]
      /\ UNCHANGED <<records, approvals, performed, granted, acked>>
  BY DEF Crash, InMemory
<1>2. GatewayTypeOK' /\ Deciding(g)' /\ OthersStay(g)
  <2>1. drafts' \in [Drafts -> DraftRows]
    <3>1. ASSUME NEW d \in Drafts
          PROVE  [drafts[d] EXCEPT !.status = "lost", !.store = NoStore] \in DraftRows
      BY DEF GInv, GatewayTypeOK, DraftRows
    <3>2. drafts \in [Drafts -> DraftRows]
      BY DEF GInv, GatewayTypeOK
    <3>3. QED
      BY <1>1, <3>1, <3>2
  <2>2. faults' \in Nat
    <3>1. faults \in Nat /\ faults' = faults + 1
      BY <1>1 DEF GInv, GatewayTypeOK
    <3>2. QED
      BY <3>1
  <2>3. Deciding(g)' /\ OthersStay(g)
    BY <1>1, ReleasedDeciding DEF GInv, OthersStay
  <2>4. GatewayTypeOK'
    BY <1>1, <2>1, <2>2, ReleasedDeciding DEF GInv, GatewayTypeOK
  <2>5. QED
    BY <2>3, <2>4
<1>3. \A d \in Drafts : (d \in Held(g) /\ InMemory(g)) \/ drafts'[d] = drafts[d]
  BY <1>1
<1>4. DraftsKept
  <2>1. \A d \in Drafts : drafts'[d].status = "lost" \/ drafts'[d] = drafts[d]
    BY <1>1 DEF GInv, GatewayTypeOK, DraftRows
  <2>2. \A d \in Held(g) : InMemory(g) => drafts[d].store \notin Persistent
    BY DEF Held, InMemory
  <2>3. QED
    BY <1>3, <2>1, <2>2 DEF DraftsKept
<1>5. ASSUME NEW h \in Gateways \ {g} PROVE HandKept(h)
  <2>1. SUFFICES ASSUME pc[h] # "idle" PROVE HandKept(h)
    BY DEF HandKept
  <2>2. drafts'[Draft(h)] = drafts[Draft(h)]
    BY <1>3, <2>1, <1>5, InHand, MemoryIsOwn
  <2>3. QED
    BY <2>1, <2>2, InHand DEF HandKept
<1>6. QED
  BY <1>1, <1>2, <1>4, <1>5, DraftsMove

-------------------------------------------------------------------------------
(***************************************************************************)
(* The steps of the operators' surfaces.                                   *)
(***************************************************************************)

\* A step that only touches approvals.
LEMMA ApprovalsMove ==
  ASSUME GInv, GatewayTypeOK', ApprovalsGrow, ApprovedIsGranted',
         UNCHANGED <<drafts, records, performed, pc, loaded, claim, outcome, late>>
  PROVE  GInv'
<1>1. DraftsKept
  BY DEF DraftsKept
<1>2. ASSUME NEW h \in Gateways PROVE Undisturbed(h)
  BY InHand DEF Undisturbed
<1>3. QED
  BY <1>1, <1>2, GatewayMoves

LEMMA RequestElsewhereStep ==
  ASSUME GInv, NEW s \in SurfaceRequests, RequestElsewhere(s)
  PROVE  GInv'
<1> DEFINE r == Request(s.draft, s.tool, FALSE)
<1>1. /\ approvals' = Append(approvals, r)
      /\ UNCHANGED <<drafts, records, performed, pc, loaded, claim, outcome, faults,
                     late, granted, acked>>
  BY DEF RequestElsewhere, storeVars, decisionVars
<1>2. r \in Approvals /\ r.decision = "undecided"
  <2>1. s.draft \in Drafts \cup {NoDraft} /\ s.tool \in Tools
    BY GatewayAssumption
  <2>2. QED
    BY <2>1, RequestShape
<1>3. ApprovalsAppended(r)
  BY <1>1, <1>2, AppendedApprovals
<1>4. ApprovalsGrow /\ ApprovedIsGranted'
  BY <1>1, <1>2, <1>3 DEF ApprovalsAppended, ApprovalsGrow, ApprovedIsGranted,
     GInv, History
<1>5. GatewayTypeOK'
  <2>1. pc' \in [Gateways -> PcStates]
    BY <1>1 DEF GInv, GatewayTypeOK
  <2>2. QED
    BY <1>1, <1>3, <2>1, AppendedType
<1>6. QED
  BY <1>1, <1>4, <1>5, ApprovalsMove

LEMMA ResolveApprovalStep ==
  ASSUME GInv, NEW a \in DOMAIN approvals, NEW decision \in {"approved", "denied"},
         ResolveApproval(a, decision)
  PROVE  GInv'
<1> DEFINE r == [approvals[a] EXCEPT !.decision = decision]
<1>1. /\ approvals' = [approvals EXCEPT ![a] = r]
      /\ granted' = IF decision = "approved" THEN granted \cup {a} ELSE granted
      /\ UNCHANGED <<drafts, records, performed, pc, loaded, claim, outcome, faults,
                     late, acked>>
  BY DEF ResolveApproval, storeVars, decisionVars
<1>2. approvals \in Seq(Approvals) /\ approvals[a] \in Approvals
  BY SequenceShapes DEF GInv, GatewayTypeOK
<1>3. /\ r \in Approvals /\ r.draft = approvals[a].draft /\ r.tool = approvals[a].tool
      /\ r.own = approvals[a].own
      /\ r.consumed = approvals[a].consumed /\ r.decision = decision
  BY <1>2 DEF Approvals
<1>4. /\ approvals' \in Seq(Approvals) /\ Len(approvals') = Len(approvals)
      /\ DOMAIN approvals' = DOMAIN approvals
      /\ \A b \in DOMAIN approvals : approvals'[b] = IF b = a THEN r ELSE approvals[b]
  <2>1. approvals' \in Seq(Approvals) /\ Len(approvals') = Len(approvals)
    BY <1>1, <1>2, <1>3
  <2>2. QED
    BY <1>1, <2>1
<1>5. ApprovalsGrow /\ ApprovedIsGranted'
  BY <1>1, <1>3, <1>4 DEF ApprovalsGrow, ApprovedIsGranted, GInv, History
<1>6. GatewayTypeOK'
  BY <1>1, <1>4 DEF GInv, GatewayTypeOK
<1>7. QED
  BY <1>1, <1>5, <1>6, ApprovalsMove
-------------------------------------------------------------------------------
(***************************************************************************)
(* The invariant and what follows from it.                                 *)
(***************************************************************************)

LEMMA StepInv == GInv /\ [Next]_vars => GInv'
<1> SUFFICES ASSUME GInv, [Next]_vars PROVE GInv'
  OBVIOUS
<1>1. CASE UNCHANGED vars
  BY <1>1 DEF vars, GInv, GatewayTypeOK, DecidingInv, Deciding, DraftInHand,
     ClaimInHand, OutcomeInHand, LateInHand, History, AllBacked, Backed,
     ApprovalSpentOnce, ApprovedIsGranted, Covers, CommitRequests, Draft, Key, InMemory,
     Rivals
<1>2. ASSUME NEW g \in Gateways, NEW d \in Drafts,
             \/ DraftEffect(g, d) \/ ReplayLocally(g, d)
             \/ BeginCommit(g, d) \/ DiscardEffect(g, d)
      PROVE  GInv'
  BY <1>2, DraftEffectStep, ReplayLocallyStep, BeginCommitStep, DiscardEffectStep
<1>3. ASSUME NEW g \in Gateways, NEW a \in DOMAIN approvals,
             ActOnCarried(g, a) \/ FindApproval(g, a)
      PROVE  GInv'
  BY <1>3, ActOnCarriedStep, FindApprovalStep
<1>4. ASSUME NEW g \in Gateways,
             \/ ReplayRecord(g) \/ AgentCommits(g) \/ ConsumeApproval(g)
             \/ RequestApproval(g) \/ Refuse(g) \/ Perform(g) \/ RecordDecision(g)
             \/ PutRecord(g) \/ CallRejects(g) \/ Crash(g)
      PROVE  GInv'
  BY <1>4, ReplayRecordStep, AgentCommitsStep, ConsumeApprovalStep,
     RequestApprovalStep, RefuseStep, PerformStep, RecordDecisionStep,
     PutRecordStep, CallRejectsStep, CrashStep
<1>5. QED
  BY <1>1, <1>2, <1>3, <1>4, RequestElsewhereStep, ResolveApprovalStep
     DEF Next, GatewayStep

THEOREM GatewayInvariant == Spec => []GInv
BY InitInv, StepInv, PTL DEF Spec

\* The stores and the decisions in hand keep their shape.
THEOREM GatewayTypeCorrect == Spec => []GatewayTypeOK
<1>1. GInv => GatewayTypeOK
  BY DEF GInv
<1>2. QED
  BY <1>1, GatewayInvariant, PTL

\* However many processes share the commit records and however often they die, a
\* recorded key is never executed by a decision that begins after the record.
THEOREM RecordedIsNeverRerun == Spec => []RecordedNeverRerun
<1>1. GInv => RecordedNeverRerun
  BY DEF GInv, DecidingInv, Deciding, LateInHand, RecordedNeverRerun
<1>2. QED
  BY <1>1, GatewayInvariant, PTL

\* Every human-gated effect rests on an approval a human granted, of a commit: of
\* this draft's, or, where a caller carried it, of one that names no draft.
THEOREM HumansGateEffects == Spec => []HumanGate
<1>1. GInv => HumanGate
  <2> SUFFICES ASSUME GInv, NEW e \in DOMAIN performed,
                      performed[e].draft \in HumanDrafts
               PROVE  /\ performed[e].approval \in granted
                      /\ Covers(performed[e].approval, performed[e].draft,
                                performed[e].carried)
    BY DEF HumanGate, Covers
  <2>1. QED
    BY DEF GInv, History, AllBacked, Backed
<1>2. QED
  BY <1>1, GatewayInvariant, PTL

\* An approval found by its hash lets at most one execution of each process through,
\* and one in all where the draft store belongs to one process.
THEOREM ApprovalsAreSpentOnce == Spec => []ApprovalSpentOnce
<1>1. GInv => ApprovalSpentOnce
  BY DEF GInv, History
<1>2. QED
  BY <1>1, GatewayInvariant, PTL

\* The decision lock of such a process keeps the draft it executes open.
THEOREM LockHoldsAcrossAwaits == Spec => []OneDecisionAtATime
<1>1. GInv => OneDecisionAtATime
  BY DEF GInv, DecidingInv, Deciding, DraftInHand, OneDecisionAtATime, InMemory
<1>2. QED
  BY <1>1, GatewayInvariant, PTL

-------------------------------------------------------------------------------
(***************************************************************************)
(* EffectGateway implements EffectLedger.                                  *)
(***************************************************************************)

EffectsOf == [e \in DOMAIN performed |-> performed[e].draft]

DecisionOf(d) ==
  IF drafts[d].status \in {"committed", "discarded", "lost"}
    THEN drafts[d].status ELSE "open"

DecisionsOf == [d \in Drafts |-> DecisionOf(d)]

\* A step that leaves the refinement mapping's values alone is a stutter.
LEMMA InvisibleStep ==
  ASSUME performed' = performed, records' = records,
         \A d \in Drafts : DecisionOf(d)' = DecisionOf(d)
  PROVE  UNCHANGED Ledger!vars
<1>1. EffectsOf' = EffectsOf
  BY DEF EffectsOf
<1>2. DecisionsOf' = DecisionsOf
  BY DEF DecisionsOf
<1>3. QED
  BY <1>1, <1>2 DEF Ledger!vars, EffectsOf, DecisionsOf, DecisionOf

LEMMA PerformIsLedgerStep ==
  ASSUME GInv, GInv', NEW g \in Gateways, Perform(g)
  PROVE  Ledger!Next
<1>1. PICK d \in Drafts : d = Draft(g)
  BY InHand DEF Perform
<1>2. PICK n \in Nat : n = Len(performed)
  BY SequenceShapes DEF GInv
<1>3. /\ DOMAIN performed = 1 .. n /\ DOMAIN performed' = 1 .. n + 1
      /\ performed'[n + 1].draft = d
      /\ \A e \in 1 .. n : performed'[e] = performed[e]
      /\ \A e \in 1 .. n : performed[e].draft \in Drafts
  <2>1. performed \in Seq(Performances)
    BY DEF GInv, GatewayTypeOK
  <2>2. performed' \in Seq(Performances)
    BY DEF GInv, GatewayTypeOK
  <2>3. PICK p \in Performances : performed' = Append(performed, p) /\ p.draft = d
    <3>1. [draft |-> d, approval |-> claim[g].approval, carried |-> claim[g].carried,
           by |-> g] \in Performances
      BY SequenceShapes DEF GInv, GatewayTypeOK, Performances
    <3>2. QED
      BY <1>1, <3>1 DEF Perform
  <2>4. \A e \in 1 .. n : performed[e] \in Performances
    BY <1>2, <2>1
  <2>5. QED
    BY <1>2, <2>1, <2>3, <2>4, AppendProperties DEF Performances
<1>4. EffectsOf' = Append(EffectsOf, d)
  <2>1. EffectsOf = [e \in 1 .. n |-> performed[e].draft]
        /\ EffectsOf' = [e \in 1 .. n + 1 |-> performed'[e].draft]
    BY <1>3 DEF EffectsOf
  <2>2. EffectsOf \in Seq(Drafts) /\ Len(EffectsOf) = n
    BY <1>2, <1>3, <2>1
  <2>3. \A e \in 1 .. n + 1 : performed'[e].draft \in Drafts
    BY <1>2, <1>3
  <2>4. EffectsOf' \in Seq(Drafts) /\ Len(EffectsOf') = n + 1
    BY <1>2, <2>1, <2>3
  <2>5. /\ Append(EffectsOf, d) \in Seq(Drafts) /\ Len(Append(EffectsOf, d)) = n + 1
        /\ \A e \in 1 .. n : Append(EffectsOf, d)[e] = EffectsOf[e]
        /\ Append(EffectsOf, d)[n + 1] = d
    BY <1>1, <2>2, AppendProperties
  <2>6. \A e \in 1 .. n + 1 : EffectsOf'[e] = Append(EffectsOf, d)[e]
    BY <1>2, <1>3, <2>1, <2>5
  <2>7. QED
    BY <2>4, <2>5, <2>6, SeqEqual
<1>5. DecisionsOf' = DecisionsOf /\ records' = records
  BY DEF Perform, storeVars, DecisionsOf, DecisionOf
<1>6. Ledger!Perform(d)
  BY <1>4, <1>5 DEF Ledger!Perform, EffectsOf, DecisionsOf, DecisionOf
<1>7. QED
  BY <1>6 DEF Ledger!Next

\* One draft changes, to a status the ledger sees.
LEMMA DecidedDraft ==
  ASSUME GatewayTypeOK, NEW d \in Drafts, NEW s \in {"committed", "discarded"},
         drafts' \in [Drafts -> DraftRows], drafts[d].status = "draft",
         drafts'[d].status = s, \A b \in Drafts \ {d} : drafts'[b] = drafts[b]
  PROVE  /\ DecisionsOf[d] = "open"
         /\ DecisionsOf' = [DecisionsOf EXCEPT ![d] = s]
BY DEF DecisionsOf, DecisionOf

LEMMA CommitIsLedgerStep ==
  ASSUME GInv, GInv', NEW g \in Gateways, RecordDecision(g)
  PROVE  [Ledger!Next]_Ledger!vars
<1>1. PICK d \in Drafts : d = Draft(g)
  BY InHand DEF RecordDecision
<1>2. pc[g] = "performed" /\ performed' = performed /\ records' = records
  BY DEF RecordDecision
<1>3. CASE drafts' = drafts
  BY <1>2, <1>3, InvisibleStep DEF DecisionOf
<1>4. CASE /\ drafts[d].status = "draft"
           /\ drafts' = [drafts EXCEPT ![d].status = "committed",
                                       ![d].outcome = outcome[g]]
  <2>1. /\ drafts'[d].status = "committed" /\ drafts' \in [Drafts -> DraftRows]
        /\ \A b \in Drafts \ {d} : drafts'[b] = drafts[b]
    BY <1>4 DEF GInv, GatewayTypeOK, DraftRows
  <2>2. DecisionsOf[d] = "open" /\ DecisionsOf' = [DecisionsOf EXCEPT ![d] = "committed"]
    BY <1>4, <2>1, DecidedDraft DEF GInv
  <2>3. outcome[g] \in DOMAIN EffectsOf /\ EffectsOf[outcome[g]] = d
    BY <1>1, <1>2 DEF GInv, DecidingInv, Deciding, OutcomeInHand, EffectsOf
  <2>4. EffectsOf' = EffectsOf
    BY <1>2 DEF EffectsOf
  <2>5. Ledger!Commit(d)
    BY <1>2, <2>2, <2>3, <2>4 DEF Ledger!Commit, EffectsOf, DecisionsOf, DecisionOf
  <2>6. QED
    BY <2>5 DEF Ledger!Next
<1>5. QED
  BY <1>1, <1>3, <1>4 DEF RecordDecision

LEMMA DiscardIsLedgerStep ==
  ASSUME GInv, GInv', NEW g \in Gateways, NEW d \in Drafts, DiscardEffect(g, d)
  PROVE  Ledger!Next
<1>1. /\ drafts[d].status = "draft" /\ performed' = performed /\ records' = records
      /\ drafts' = [drafts EXCEPT ![d].status = "discarded"]
  BY DEF DiscardEffect, DiscardRow
<1>2. /\ drafts'[d].status = "discarded" /\ drafts' \in [Drafts -> DraftRows]
      /\ \A b \in Drafts \ {d} : drafts'[b] = drafts[b]
  BY <1>1 DEF GInv, GatewayTypeOK, DraftRows
<1>3. DecisionsOf[d] = "open" /\ DecisionsOf' = [DecisionsOf EXCEPT ![d] = "discarded"]
  BY <1>1, <1>2, DecidedDraft DEF GInv
<1>4. EffectsOf' = EffectsOf
  BY <1>1 DEF EffectsOf
<1>5. Ledger!Discard(d)
  BY <1>1, <1>3, <1>4 DEF Ledger!Discard, EffectsOf, DecisionsOf, DecisionOf
<1>6. QED
  BY <1>5 DEF Ledger!Next

LEMMA CrashIsLedgerStep ==
  ASSUME GInv, GInv', NEW g \in Gateways, Crash(g)
  PROVE  Ledger!Next
<1>1. PICK D \in SUBSET Drafts : D = {d \in Held(g) : InMemory(g)}
  BY DEF Held
<1>2. performed' = performed /\ records' = records
  BY DEF Crash
<1>3. ASSUME NEW d \in Drafts
      PROVE  DecisionOf(d)' = IF d \in D THEN "lost" ELSE DecisionOf(d)
  <2>1. drafts'[d] = IF d \in D
                       THEN [drafts[d] EXCEPT !.status = "lost", !.store = NoStore]
                       ELSE drafts[d]
    BY <1>1 DEF Crash, InMemory
  <2>2. d \in D => drafts'[d].status = "lost"
    BY <2>1 DEF GInv, GatewayTypeOK, DraftRows
  <2>3. QED
    BY <2>1, <2>2 DEF DecisionOf
<1>4. DecisionsOf' = [d \in Drafts |-> IF d \in D THEN "lost" ELSE DecisionsOf[d]]
  BY <1>3 DEF DecisionsOf
<1>5. EffectsOf' = EffectsOf
  BY <1>2 DEF EffectsOf
<1>6. Ledger!Lose(D)
  BY <1>2, <1>4, <1>5 DEF Ledger!Lose, EffectsOf, DecisionsOf, DecisionOf
<1>7. QED
  BY <1>6 DEF Ledger!Next
\* A commit record is written once, for an effect of its key.
LEMMA RecordIsLedgerStep ==
  ASSUME GInv, GInv', NEW g \in Gateways, pc[g] = "put", records[Key(g)] = 0,
         records' = [records EXCEPT ![Key(g)] = outcome[g]],
         UNCHANGED <<drafts, performed>>
  PROVE  Ledger!Next
<1>1. PICK k \in Keys : k = Key(g)
  BY InHand
<1>2. PICK e \in DOMAIN performed : e = outcome[g]
  BY DEF GInv, DecidingInv, Deciding, OutcomeInHand
<1>3. KeyOf[performed[e].draft] = k
  BY <1>1, <1>2 DEF GInv, DecidingInv, Deciding, OutcomeInHand, Key
<1>4. EffectsOf[e] = performed[e].draft /\ e \in DOMAIN EffectsOf
  BY <1>2 DEF EffectsOf
<1>5. EffectsOf' = EffectsOf /\ DecisionsOf' = DecisionsOf
  BY DEF EffectsOf, DecisionsOf, DecisionOf
<1>6. Ledger!Record(k)
  BY <1>1, <1>2, <1>3, <1>4, <1>5
     DEF Ledger!Record, EffectsOf, DecisionsOf, DecisionOf
<1>7. QED
  BY <1>6 DEF Ledger!Next

LEMMA LedgerStep ==
  ASSUME GInv, GInv', [Next]_vars
  PROVE  [Ledger!Next]_Ledger!vars
<1>1. CASE UNCHANGED <<drafts, records, performed>>
  BY <1>1, InvisibleStep DEF DecisionOf
<1>2. ASSUME NEW g \in Gateways, NEW d \in Drafts,
             DraftEffect(g, d) \/ DiscardEffect(g, d)
      PROVE  [Ledger!Next]_Ledger!vars
  <2>1. CASE DiscardEffect(g, d)
    BY <2>1, DiscardIsLedgerStep
  <2>2. CASE DraftEffect(g, d)
    <3>1. \A b \in Drafts : DecisionOf(b)' = DecisionOf(b)
      BY <2>2 DEF DraftEffect, DecisionOf, GInv, GatewayTypeOK, DraftRows
    <3>2. QED
      BY <2>2, <3>1, InvisibleStep DEF DraftEffect
  <2>3. QED
    BY <1>2, <2>1, <2>2
<1>3. ASSUME NEW g \in Gateways,
             \/ Perform(g) \/ RecordDecision(g) \/ Crash(g)
             \/ PutRecord(g) \/ CallRejects(g)
      PROVE  [Ledger!Next]_Ledger!vars
  <2>1. CASE PutRecord(g) \/ CallRejects(g)
    <3>1. \/ UNCHANGED <<drafts, records, performed>>
          \/ /\ pc[g] = "put" /\ records[Key(g)] = 0
             /\ records' = [records EXCEPT ![Key(g)] = outcome[g]]
             /\ UNCHANGED <<drafts, performed>>
      BY <2>1 DEF PutRecord, CallRejects
    <3>2. QED
      BY <1>1, <3>1, RecordIsLedgerStep
  <2>2. QED
    BY <1>3, <2>1, PerformIsLedgerStep, CommitIsLedgerStep, CrashIsLedgerStep
<1>4. ASSUME NEW g \in Gateways, GatewayStep(g)
      PROVE  [Ledger!Next]_Ledger!vars
  <2>1. ASSUME NEW d \in Drafts, ReplayLocally(g, d) \/ BeginCommit(g, d)
        PROVE  UNCHANGED <<drafts, records, performed>>
    BY <2>1 DEF ReplayLocally, BeginCommit, storeVars
  <2>2. ASSUME NEW a \in DOMAIN approvals, ActOnCarried(g, a) \/ FindApproval(g, a)
        PROVE  UNCHANGED <<drafts, records, performed>>
    BY <2>2 DEF ActOnCarried, FindApproval, ActAs, storeVars
  <2>3. ASSUME \/ ReplayRecord(g) \/ AgentCommits(g) \/ ConsumeApproval(g)
               \/ RequestApproval(g) \/ Refuse(g)
        PROVE  UNCHANGED <<drafts, records, performed>>
    BY <2>3 DEF ReplayRecord, AgentCommits, ActAs, ConsumeApproval, RequestApproval,
       Refuse, storeVars
  <2>4. QED
    BY <1>1, <1>2, <1>3, <1>4, <2>1, <2>2, <2>3 DEF GatewayStep
<1>5. ASSUME \/ \E r \in SurfaceRequests : RequestElsewhere(r)
             \/ \E a \in DOMAIN approvals, decision \in {"approved", "denied"} :
                  ResolveApproval(a, decision)
      PROVE  UNCHANGED <<drafts, records, performed>>
  BY <1>5 DEF RequestElsewhere, ResolveApproval, storeVars
<1>6. QED
  BY <1>1, <1>4, <1>5 DEF Next, vars

\* The gateways together implement the ledger: an effect is never taken back, a
\* draft is decided once and on the strength of its own effect, and a key's
\* commit record is final.
THEOREM GatewaysImplementLedger == Spec => EffectLedgerSpec
<1>1. Init => Ledger!Init
  <2> SUFFICES ASSUME Init PROVE Ledger!Init
    OBVIOUS
  <2>1. EffectsOf = <<>>
    BY DEF Init, EffectsOf
  <2>2. DecisionsOf = [d \in Drafts |-> "open"] /\ records = [k \in Keys |-> 0]
    BY DEF Init, DecisionsOf, DecisionOf
  <2>3. QED
    BY <2>1, <2>2 DEF Ledger!Init, EffectsOf, DecisionsOf, DecisionOf
<1>2. GInv /\ GInv' /\ [Next]_vars => [Ledger!Next]_Ledger!vars
  BY LedgerStep
<1>3. QED
  BY <1>1, <1>2, GatewayInvariant, PTL DEF Spec, EffectLedgerSpec, Ledger!Spec
===============================================================================
