-------------------------------- MODULE Oversight --------------------------------
(***************************************************************************)
(* What people see and do: the operators' HTTP surface (operator-http.ts)  *)
(* and the dashboard that proxies it (dashboard.ts), its event feed, and   *)
(* the sampling QA loop (sampling-qa.ts with the effect gateway's          *)
(* routePostHocReview and recordReviewVerdict).                            *)
(*                                                                         *)
(* The dashboard is a process of its own, on the database of the others:   *)
(* a verdict, recorded by the toolshed, and a reset, done by the dashboard, *)
(* are each several SQLite statements, and those interleave.  Both exist   *)
(* where a deployment constructs SamplingQa and injects it: no index.ts    *)
(* does, and the shipped dashboard answers a reset with 404, so that what  *)
(* is shipped takes a subset of these steps.                               *)
(*                                                                         *)
(* How a commit proceeds once it is gated is EffectGateway's; here it is a *)
(* call that succeeds or not.  The drafts are of approval class auto.      *)
(***************************************************************************)
EXTENDS Integers, Sequences, FiniteSets

CONSTANTS
  Items,       \* drafts that are submitted for commit
  Types,       \* effect types
  TypeOf,      \* [Items -> Types]
  Policy,      \* [some types -> percent, threshold (a percentage), window]
  Users, Approvers,  \* chat users, and those in MINIONS_APPROVERS
  Viewers,     \* event feed connections
  MaxVerdicts, MaxResets, MaxConnects  \* bounds

Managed == DOMAIN Policy

\* makeSamplingQaPolicy throws on any other.
ValidPolicies == [percent : 0..100, threshold : 0..100, window : Nat \ {0}]

NoType == "no type"

ASSUME OversightAssumption ==
  /\ TypeOf \in [Items -> Types] /\ NoType \notin Types
  /\ Managed \subseteq Types
  /\ \A t \in Managed : Policy[t] \in ValidPolicies
  /\ Approvers \subseteq Users
  /\ MaxVerdicts \in Nat /\ MaxResets \in Nat /\ MaxConnects \in Nat

VARIABLES
  item,       \* [Items -> where its commit is, and who acts]
  approvals,  \* table pending_approvals: [Approvals -> a decision or its absence]
  verdicts,   \* table sampling_qa_verdicts, in its order
  tripped,    \* table sampling_qa_tripped
  recording,  \* the recordVerdict under way: its type, whether it is to trip
  resetting,  \* the type whose verdicts are deleted but whose trip is not yet
  feed,       \* [Viewers -> the connection's state, see Closed]
  recorded, resets, connects,  \* bounded by MaxVerdicts, MaxResets, MaxConnects
  caused,     \* history: the types that met their threshold since their reset
  raced       \* history: the types recorded and reset at the same time

qaVars == <<verdicts, tripped, recording, resetting, recorded, resets, caused, raced>>
vars == <<item, approvals, qaVars, feed, connects>>

-------------------------------------------------------------------------------
NoRecording == [type |-> NoType, over |-> FALSE]
Decisions == {"approved", "denied"}
Stages == {"draft", "executing", "committed"}
Actors == {"nobody", "agent", "human"}

\* A commit_effect approval gates a commit, a review_commit one follows it.
Approvals == {"commit_effect", "review_commit"} \X Items

Created == {a \in Approvals : approvals[a] # "absent"}
Pending == {a \in Approvals : approvals[a] = "pending"}

\* `seen` is the set of ids the connection knows, `pushed` how often it was
\* sent each; history: `known` what there was when it was opened, `fresh` what
\* was created since its last poll.
Closed ==
  [open |-> FALSE, seen |-> {}, pushed |-> [a \in Approvals |-> 0],
   known |-> {}, fresh |-> {}]

Init ==
  /\ item = [i \in Items |-> [stage |-> "draft", actor |-> "nobody"]]
  /\ approvals = [a \in Approvals |-> "absent"]
  /\ verdicts = <<>>
  /\ tripped = {}
  /\ recording = NoRecording /\ resetting = NoType
  /\ feed = [v \in Viewers |-> Closed]
  /\ recorded = 0 /\ resets = 0 /\ connects = 0
  /\ caused = {} /\ raced = {}

\* createApproval
Create(a) ==
  /\ approvals' = [approvals EXCEPT ![a] = "pending"]
  /\ feed' = [v \in Viewers |->
       IF feed[v].open THEN [feed[v] EXCEPT !.fresh = @ \cup {a}] ELSE feed[v]]

-------------------------------------------------------------------------------
(***************************************************************************)
(* The gateway: a tripped type is not committed by an agent.               *)
(***************************************************************************)
Execute(i, actor) ==
  item' = [item EXCEPT ![i] = [stage |-> "executing", actor |-> actor]]

AgentCommits(i) ==
  /\ item[i].stage = "draft"
  /\ TypeOf[i] \notin tripped
  /\ Execute(i, "agent")
  /\ UNCHANGED <<approvals, qaVars, feed, connects>>

AskHuman(i) ==
  /\ item[i].stage = "draft"
  /\ TypeOf[i] \in tripped
  /\ approvals[<<"commit_effect", i>>] = "absent"
  /\ Create(<<"commit_effect", i>>)
  /\ UNCHANGED <<item, qaVars, connects>>

HumanCommits(i) ==
  /\ item[i].stage = "draft"
  /\ TypeOf[i] \in tripped
  /\ approvals[<<"commit_effect", i>>] = "approved"
  /\ Execute(i, "human")
  /\ UNCHANGED <<approvals, qaVars, feed, connects>>

CommitFails(i) ==
  /\ item[i].stage = "executing"
  /\ item' = [item EXCEPT ![i] = [stage |-> "draft", actor |-> "nobody"]]
  /\ UNCHANGED <<approvals, qaVars, feed, connects>>

\* shouldReview: Math.random() * 100 is less than the percentage.
MayReview(t) == t \in Managed /\ Policy[t].percent > 0
MaySkip(t) == t \in Managed => Policy[t].percent < 100

\* Mutant: every commit is a candidate, a human's too.
Routed_AnyActor(i) == MayReview(TypeOf[i])

\* routePostHocReview is for the commits of agents.
Routed(i) == item[i].actor = "agent" /\ MayReview(TypeOf[i])

Commit(i) ==
  /\ item[i].stage = "executing"
  /\ item' = [item EXCEPT ![i].stage = "committed"]
  /\ \/ Routed(i) /\ Create(<<"review_commit", i>>)
     \/ /\ Routed(i) => MaySkip(TypeOf[i])
        /\ UNCHANGED <<approvals, feed>>
  /\ UNCHANGED <<qaVars, connects>>

-------------------------------------------------------------------------------
(***************************************************************************)
(* Operators: any decision on an existing approval is written, also over   *)
(* an earlier one.                                                         *)
(***************************************************************************)
\* resolveApprovalRecord; an unknown approval is answered with an error.
ResolveApproval(a, decision) ==
  /\ a \in Created
  /\ approvals' = [approvals EXCEPT ![a] = decision]
  /\ UNCHANGED <<item, qaVars, feed, connects>>

\* What is asked of an operator surface: by its token's holder or not, naming
\* the approver or not.
Requests ==
  [token : {"right", "wrong"}, approver : BOOLEAN, decision : Decisions \cup {"other"}]

Valid(request) ==
  request.token = "right" /\ request.approver /\ request.decision \in Decisions

\* POST /approvals/:id/resolve; an unknown surface is refused too.
OperatorResolves(a, request, kind) ==
  /\ Valid(request)
  /\ kind \in {"slack", "teams", "dashboard"}
  /\ ResolveApproval(a, request.decision)

\* The dashboard's proxy: it checks the same, and speaks for the dashboard only.
DashboardResolves(a, request) ==
  /\ Valid(request)
  /\ OperatorResolves(a, request, "dashboard")

\* A click on a chat button: only by a member of MINIONS_APPROVERS.
SlackResolves(a, user, decision) ==
  /\ user \in Approvers
  /\ OperatorResolves(a, [token |-> "right", approver |-> TRUE, decision |-> decision], "slack")

(***************************************************************************)
(* The QA loop.  recordReviewVerdict is for the surface that resolved a    *)
(* review; nothing keeps it from being called again for the same review.   *)
(***************************************************************************)
Verdicts == [item : Items, decision : {"agreed", "disagreed"}]

VerdictsOn(t) == {x \in Verdicts : TypeOf[x.item] = t}

\* The elements of s that are in S, in their order.
Selected(s, S) ==
  LET upTo[n \in 0..Len(s)] ==
        IF n = 0 THEN <<>>
        ELSE IF s[n] \in S THEN Append(upTo[n - 1], s[n]) ELSE upTo[n - 1]
  IN  upTo[Len(s)]

OfType(t) == Selected(verdicts, VerdictsOn(t))

LastOf(s, n) == IF Len(s) <= n THEN s ELSE SubSeq(s, Len(s) - n + 1, Len(s))

\* Mutant: slice(0, windowSize), the oldest verdicts.
Window_Oldest(t) ==
  SubSeq(OfType(t), 1, IF Len(OfType(t)) <= Policy[t].window THEN Len(OfType(t))
                       ELSE Policy[t].window)

Window(t) == LastOf(OfType(t), Policy[t].window)

Disagreed(s) == Cardinality({n \in DOMAIN s : s[n].decision = "disagreed"})

\* disagreed / reviewed >= disagreementThreshold
AtThreshold(s, t) == s # <<>> /\ 100 * Disagreed(s) >= Policy[t].threshold * Len(s)

\* Mutant: the approval's decision is recorded as it is.
VerdictOf_Raw(decision) == decision

VerdictOf(decision) == IF decision = "approved" THEN "agreed" ELSE "disagreed"

RecordVerdict(i) ==
  /\ recording = NoRecording
  /\ recorded < MaxVerdicts
  /\ approvals[<<"review_commit", i>>] \in Decisions
  /\ verdicts' = Append(verdicts,
       [item |-> i, decision |-> VerdictOf(approvals[<<"review_commit", i>>])])
  /\ recording' = [type |-> TypeOf[i], over |-> FALSE]
  /\ recorded' = recorded + 1
  /\ raced' = IF resetting = TypeOf[i] THEN raced \cup {TypeOf[i]} ELSE raced
  /\ UNCHANGED <<item, approvals, tripped, resetting, feed, resets, connects, caused>>

\* The rest of SamplingQa.recordVerdict: the window is read, then the trip set.
WeighVerdicts ==
  /\ recording # NoRecording /\ ~recording.over
  /\ LET t == recording.type
         over == t \in Managed /\ AtThreshold(Window(t), t)
     IN  IF over
           THEN /\ recording' = [recording EXCEPT !.over = TRUE]
                /\ caused' = caused \cup {t}
           ELSE recording' = NoRecording /\ UNCHANGED caused
  /\ UNCHANGED <<item, approvals, verdicts, tripped, resetting, feed, recorded, resets,
                 connects, raced>>

SetTripped ==
  /\ recording.over
  /\ tripped' = tripped \cup {recording.type}
  /\ recording' = NoRecording
  /\ UNCHANGED <<item, approvals, verdicts, resetting, feed, recorded, resets,
                 connects, caused, raced>>

\* POST /api/sampling-qa/:effectType/reset, where a resetSamplingQa is injected:
\* reset deletes the verdicts, then the trip.
Reset(t) ==
  /\ resetting = NoType
  /\ resets < MaxResets
  /\ verdicts' = Selected(verdicts, Verdicts \ VerdictsOn(t))
  /\ resetting' = t
  /\ resets' = resets + 1
  /\ raced' = IF recording.type = t THEN raced \cup {t} ELSE raced
  /\ UNCHANGED <<item, approvals, tripped, recording, feed, recorded, connects, caused>>

FinishReset ==
  /\ resetting # NoType
  /\ tripped' = tripped \ {resetting}
  /\ caused' = caused \ {resetting}
  /\ resetting' = NoType
  /\ UNCHANGED <<item, approvals, verdicts, recording, feed, recorded, resets,
                 connects, raced>>

-------------------------------------------------------------------------------
(***************************************************************************)
(* GET /api/events: only what is new to the connection is pushed, by a     *)
(* poll.  An approval that was created and decided between two polls is    *)
(* not pending any more and is never pushed.                               *)
(***************************************************************************)
Connect(v) ==
  /\ ~feed[v].open
  /\ connects < MaxConnects
  /\ connects' = connects + 1
  /\ feed' = [feed EXCEPT ![v] =
       [Closed EXCEPT !.open = TRUE, !.seen = Pending, !.known = Created]]
  /\ UNCHANGED <<item, approvals, qaVars>>

\* Mutant: the ids pushed are not remembered.
SeenAfter_Forgotten(v, new) == feed[v].seen

SeenAfter(v, new) == feed[v].seen \cup new

Poll(v) ==
  /\ feed[v].open
  /\ LET new == Pending \ feed[v].seen
         pushed == feed[v].pushed
     IN  feed' = [feed EXCEPT ![v] =
           [open |-> TRUE, seen |-> SeenAfter(v, new),
            pushed |-> [a \in Approvals |-> IF a \in new THEN pushed[a] + 1 ELSE pushed[a]],
            known |-> feed[v].known, fresh |-> {}]]
  /\ UNCHANGED <<item, approvals, qaVars, connects>>

Disconnect(v) ==
  /\ feed[v].open
  /\ feed' = [feed EXCEPT ![v] = Closed]
  /\ UNCHANGED <<item, approvals, qaVars, connects>>

-------------------------------------------------------------------------------
Next ==
  \/ \E i \in Items :
       \/ AgentCommits(i) \/ AskHuman(i) \/ HumanCommits(i)
       \/ CommitFails(i) \/ Commit(i) \/ RecordVerdict(i)
  \/ \E a \in Approvals, request \in Requests : DashboardResolves(a, request)
  \/ \E a \in Approvals, user \in Users, decision \in Decisions :
       SlackResolves(a, user, decision)
  \/ \E t \in Types : Reset(t)
  \/ \E v \in Viewers : Connect(v) \/ Poll(v) \/ Disconnect(v)
  \/ WeighVerdicts \/ SetTripped \/ FinishReset

Spec == Init /\ [][Next]_vars

-------------------------------------------------------------------------------
Connections ==
  [open : BOOLEAN, seen : SUBSET Approvals, pushed : [Approvals -> Nat],
   known : SUBSET Approvals, fresh : SUBSET Approvals]

\* The type of every variable.
TypeOK ==
  /\ item \in [Items -> [stage : Stages, actor : Actors]]
  /\ approvals \in [Approvals -> Decisions \cup {"absent", "pending"}]
  /\ verdicts \in Seq(Verdicts)
  /\ tripped \subseteq Types /\ caused \subseteq Types /\ raced \subseteq Types
  /\ resetting \in Types \cup {NoType}
  /\ recording \in [type : Types \cup {NoType}, over : BOOLEAN]
  /\ feed \in [Viewers -> Connections]
  /\ recorded \in 0..MaxVerdicts /\ resets \in 0..MaxResets
  /\ connects \in 0..MaxConnects

\* The latest verdicts on a type, at most a window of them.
Latest(t) ==
  LET of == {n \in DOMAIN verdicts : TypeOf[verdicts[n].item] = t}
  IN  {n \in of : Cardinality({m \in of : m > n}) < Policy[t].window}

\* A type whose latest reviews disagree often enough is tripped, whatever older
\* reviews said, and stays so until its reset, and no other type ever is; only a
\* reset that overlaps the recording of a verdict can undo this.  A reset from
\* another process exists only where a deployment injects resetSamplingQa.
TripFollowsTheWindow ==
  \A t \in Types \ raced :
    recording.type # t /\ resetting # t =>
      /\ t \in tripped => t \in caused /\ t \in Managed
      /\ t \in Managed =>
           LET no == {n \in Latest(t) : verdicts[n].decision = "disagreed"} IN
             /\ Latest(t) # {}
             /\ 100 * Cardinality(no) >= Policy[t].threshold * Cardinality(Latest(t))
             => t \in tripped

\* Reviews are held after the fact, of what no human had looked at: none of a
\* commit that a human approved, none of one that did not take place.
ReviewsAreOfAgentCommits ==
  \A i \in Items :
    approvals[<<"review_commit", i>>] # "absent" =>
      item[i] = [stage |-> "committed", actor |-> "agent"]

\* A viewer is told of every approval at most once, of none that was there
\* before it connected, and after a poll of each that still is undecided.
FeedTellsWhatIsNew ==
  \A v \in Viewers : feed[v].open =>
    /\ \A a \in Approvals : feed[v].pushed[a] <= (IF a \in feed[v].known THEN 0 ELSE 1)
    /\ \A a \in Pending \ (feed[v].known \cup feed[v].fresh) : feed[v].pushed[a] = 1
===============================================================================
