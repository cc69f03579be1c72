------------------------------ MODULE Conversation ------------------------------
(***************************************************************************)
(* From a chat message or a webhook delivery to its reply: the bots and    *)
(* the webhook server (slack-bot.ts, teams-bot.ts, webhook-ingress.ts),    *)
(* the session lookup (framework-core: ingress.ts, store.ts) and the       *)
(* orchestrator's chain of minions (runner.ts, output-contract.ts,         *)
(* token-accounting.ts, token-budget.ts).                                  *)
(*                                                                         *)
(* Messages are handled concurrently and are suspended while Goose or the  *)
(* chat platform works; an action is the answer of the awaited call and    *)
(* the synchronous code up to the next await.  Every container mounts the  *)
(* same SQLite file, which outlives the processes; the statements of one   *)
(* synchronous stretch are taken as one.                                   *)
(***************************************************************************)
EXTENDS Integers, Sequences, FiniteSets

CONSTANTS
  Messages,      \* chat messages and webhook deliveries
  FromWebhook,   \* those that arrive at the webhook server
  Secrets,       \* the webhook senders whose secret is configured
  Processes,     \* the bot and webhook processes
  ProcessOf,     \* [Messages -> Processes]
  Threads,       \* conversations: (team, platform, thread) triples
  ThreadOf,      \* [Messages -> Threads]
  Intents,       \* what messages can be classified as
  IntentsOf,     \* [Messages -> the intents that a message's text allows]
  Dags,          \* rules/intents.yaml: [some intents -> sequences of minion types]
  BudgetOf,      \* agents/*.md: [its minion types -> token_budget, or 0 without one]
  TurnTokens,    \* [Intents -> what a turn of its minions may cost]
  Ttl,           \* SESSION_TTL_HOURS, in ticks
  MaxClock       \* bound

ASSUME ConversationAssumption ==
  /\ FromWebhook \subseteq Messages /\ "none" \notin Messages
  /\ ProcessOf \in [Messages -> Processes]
  /\ ThreadOf \in [Messages -> Threads]
  /\ IntentsOf \in [Messages -> SUBSET Intents]
  /\ DOMAIN Dags \subseteq Intents /\ \A i \in DOMAIN Dags : Dags[i] \in Seq(STRING)
  /\ BudgetOf \in [DOMAIN BudgetOf -> Nat]
  /\ TurnTokens \in [Intents -> SUBSET Nat]
  /\ Ttl \in Nat /\ MaxClock \in Nat

VARIABLES
  clock,
  sessions,   \* table sessions: [Threads -> a session, or NoSession]
  archived,   \* table sessions_archive: the ids in it, its primary key
  rows,       \* table minion_runs: a function from run ids
  handler,    \* how far each message is, see NotArrived
  refused     \* history: the messages whose session lookup threw

storeVars == <<sessions, archived, rows>>
vars == <<clock, storeVars, handler, refused>>

-------------------------------------------------------------------------------
NoSession == [root |-> "none", updatedAt |-> -1]

\* A correlation root is named by the message that drew it.
Sessions == [root : Messages, updatedAt : 0..MaxClock]

Waiting == {"classify", "minion", "reply", "error reply"}
Replies ==
  {"answer", "rephrase", "unconfigured", "token_budget_exceeded",
   "waiting_approval", "contract_violation", "error", "turned away"}

NotArrived ==
  [stage |-> "none", root |-> "none", at |-> -1, intent |-> "none", step |-> 0,
   attempt |-> 0, used |-> 0, pending |-> FALSE, run |-> <<>>, reply |-> "none"]

Finished ==
  {"completed", "token_budget_exceeded", "waiting_approval", "contract_violation"}

\* run_<session>_<index>_<now>
RunId(m, step) == <<ThreadOf[m], step, clock>>

\* Mutant: the row is updated, not inserted.
Extend_UpdateOnly(f, k, v) == [x \in DOMAIN f |-> IF x = k THEN v ELSE f[x]]

Extend(f, k, v) == [x \in DOMAIN f \cup {k} |-> IF x = k THEN v ELSE f[x]]

Init ==
  /\ clock = 0
  /\ sessions = [t \in Threads |-> NoSession]
  /\ archived = {}
  /\ rows = <<>>
  /\ handler = [m \in Messages |-> NotArrived]
  /\ refused = {}

-------------------------------------------------------------------------------
(***************************************************************************)
(* A handler that throws: a bot posts an error reply, the webhook server   *)
(* logs.  One whose runner answered posts the answer.                      *)
(***************************************************************************)
Leave(h, stage, reply) ==
  [h EXCEPT !.stage = stage, !.reply = reply,
            !.attempt = 0, !.used = 0, !.pending = FALSE, !.run = <<>>]

Throw(h, m) == Leave(h, IF m \in FromWebhook THEN "ended" ELSE "error reply", "error")

Answer(h, reply) == Leave(h, "reply", reply)

(***************************************************************************)
(* handleIngressMessage up to the classification call.                     *)
(***************************************************************************)
\* Mutant: idle from the TTL on, instead of past it.
Idle_AtTtl(t) == sessions[t] # NoSession /\ clock - sessions[t].updatedAt >= Ttl

Idle(t) == sessions[t] # NoSession /\ clock - sessions[t].updatedAt > Ttl

\* createSession or updateSession, in the sessions left by expireSessions.
Enter(m, left) ==
  LET t == ThreadOf[m]
      root == IF left[t] = NoSession THEN m ELSE left[t].root
  IN  /\ sessions' = [left EXCEPT ![t] = [root |-> root, updatedAt |-> clock]]
      /\ handler' = [handler EXCEPT
           ![m] = [@ EXCEPT !.stage = "classify", !.root = root, !.at = clock]]

Removed(ts) == [t \in Threads |-> IF t \in ts THEN NoSession ELSE sessions[t]]

Resume(m) ==
  /\ ~Idle(ThreadOf[m])
  /\ Enter(m, sessions)
  /\ UNCHANGED <<archived, refused>>

\* expireSessions archives every idle session, not only this thread's.
Restart(m) ==
  LET idle == {t \in Threads : Idle(t)} IN
    /\ ThreadOf[m] \in idle
    /\ idle \cap archived = {}
    /\ Enter(m, Removed(idle))
    /\ archived' = archived \cup idle
    /\ UNCHANGED refused

\* INSERT INTO sessions_archive of an id it already holds throws; the rows
\* before it in the unordered SELECT have moved by then.
Refuse(m) ==
  LET idle == {t \in Threads : Idle(t)} IN
    /\ ThreadOf[m] \in idle
    /\ idle \cap archived # {}
    /\ \E moved \in SUBSET (idle \ archived) :
         /\ sessions' = Removed(moved)
         /\ archived' = archived \cup moved
    /\ handler' = [handler EXCEPT ![m] = Throw(@, m)]
    /\ refused' = refused \cup {m}

TurnAway(m) ==
  /\ handler' = [handler EXCEPT ![m] = Leave(@, "ended", "turned away")]
  /\ UNCHANGED <<sessions, archived, refused>>

\* A bot acknowledges first.  An empty text is not handled, nor one whose
\* acknowledgement is rejected.
Chat(m) == m \notin FromWebhook /\ (Resume(m) \/ Restart(m) \/ Refuse(m) \/ TurnAway(m))

\* What a delivery can be: its sender and the sender's proof, whether its body
\* parses, its event and whether that names the pull request to reply to.
Deliveries ==
  [sender : {"github", "ado"}, signature : {"absent", "wrong", "right"}, json : BOOLEAN,
   event : {"pull request opened", "check suite failed", "other"}, addressable : BOOLEAN]

\* The HMAC of the raw body, or Basic auth; without a secret nothing verifies.
SenderVerified(d) == d.sender \in Secrets /\ d.signature = "right"

\* mapGitHubEventToIngressRequest, mapAdoEventToIngressRequest
StartsWork(d) ==
  /\ d.event \in IF d.sender = "github" THEN {"pull request opened", "check suite failed"}
                                       ELSE {"pull request opened"}
  /\ d.addressable

\* 401, 400, or 202 before any work is done, if there is any.
Deliver(m, d) ==
  /\ m \in FromWebhook
  /\ IF SenderVerified(d) /\ d.json /\ StartsWork(d)
       THEN Resume(m) \/ Restart(m) \/ Refuse(m)
       ELSE TurnAway(m)

Arrive(m) ==
  /\ handler[m].stage = "none"
  /\ Chat(m) \/ \E d \in Deliveries : Deliver(m, d)
  /\ UNCHANGED <<clock, rows>>

-------------------------------------------------------------------------------
(***************************************************************************)
(* The runner: classifyIntent, then one minion run per step of the DAG.    *)
(***************************************************************************)
\* loadIntentDag: an intent without an entry has no minions.
Dag(intent) == IF intent \in DOMAIN Dags THEN Dags[intent] ELSE <<>>

\* An agent's file is found by its minion type; without one the run throws.
HasAgent(minion) == minion \in DOMAIN BudgetOf

\* loadAgentTokenBudget: without a positive token_budget nothing is too much.
WithinBudget(minion, tokens) == BudgetOf[minion] > 0 => tokens < BudgetOf[minion]

\* The agent is not there, or createMinionRun of a taken id throws; otherwise
\* the first turn is sent.
StartStep(m, h, step, table) ==
  LET id == RunId(m, step) IN
    IF ~HasAgent(Dag(h.intent)[step]) \/ id \in DOMAIN table
      THEN /\ rows' = table
           /\ handler' = [handler EXCEPT ![m] = Throw(h, m)]
      ELSE /\ rows' = Extend(table, id, [by |-> m, status |-> "running", tokensUsed |-> 0])
           /\ handler' = [handler EXCEPT
                ![m] = [h EXCEPT !.stage = "minion", !.step = step, !.attempt = 1,
                                 !.used = 0, !.pending = FALSE, !.run = id]]

Reply(m, reply) ==
  /\ handler' = [handler EXCEPT ![m] = Answer(@, reply)]
  /\ UNCHANGED rows

Classify(m) ==
  /\ handler[m].stage = "classify"
  /\ \/ Reply(m, "rephrase")     \* not an intent by its schema
     \/ \E i \in IntentsOf[m] :
          IF Dag(i) = <<>>
            THEN Reply(m, "unconfigured")
            ELSE StartStep(m, [handler[m] EXCEPT !.intent = i], 1, rows)
  /\ UNCHANGED <<clock, sessions, archived, refused>>

\* Mutant: each turn is held to the budget by itself.
Exceeded_PerTurn(minion, before, cost) == ~WithinBudget(minion, cost)

\* enforceTokenBudget: the tracker adds up what the turns of a run cost.
Exceeded(minion, before, cost) == ~WithinBudget(minion, before + cost)

\* What updateMinionRun records of a run that ends like this.
StatusOf(exceeded, pending, valid) ==
  CASE exceeded -> "token_budget_exceeded"
    [] ~exceeded /\ pending -> "waiting_approval"
    [] ~exceeded /\ ~pending /\ ~valid -> "contract_violation"
    [] OTHER -> "completed"

\* Mutant: the early returns of run are missing.
ChainContinues_Regardless(h, status) == h.step < Len(Dag(h.intent))

ChainContinues(h, status) == status = "completed" /\ h.step < Len(Dag(h.intent))

\* A turn's answer: its cost, and whether it fits the minion's schema, does
\* not, or says that a tool call awaits approval.  A turn over budget or
\* awaiting approval has no output, so it is invalid and retried too.
Turn(m, cost, response) ==
  LET h == handler[m]
      used == h.used + cost
      exceeded == Exceeded(Dag(h.intent)[h.step], h.used, cost)
      pending == h.pending \/ (response = "approval" /\ ~exceeded)
      valid == response = "valid" /\ ~exceeded
      status == StatusOf(exceeded, pending, valid)
      table == [rows EXCEPT ![h.run] = [@ EXCEPT !.tokensUsed = used, !.status = status]]
  IN  /\ h.stage = "minion"
      /\ IF ~valid /\ h.attempt = 1
           THEN /\ handler' = [handler EXCEPT
                     ![m] = [@ EXCEPT !.attempt = 2, !.used = used, !.pending = pending]]
                /\ UNCHANGED rows
           ELSE IF ChainContinues(h, status)
             THEN StartStep(m, h, h.step + 1, table)
             ELSE /\ rows' = table
                  /\ handler' = [handler EXCEPT
                       ![m] = Answer(@, IF status = "completed" THEN "answer" ELSE status)]
      /\ UNCHANGED <<clock, sessions, archived, refused>>

\* Goose is unreachable, answers with an error or in an unknown shape: the
\* handler throws, a minion run's row stays as it is.
GooseFails(m) ==
  /\ handler[m].stage \in {"classify", "minion"}
  /\ handler' = [handler EXCEPT ![m] = Throw(@, m)]
  /\ UNCHANGED <<clock, storeVars, refused>>

-------------------------------------------------------------------------------
(***************************************************************************)
(* The reply.  A bot's rejected post is reported by another post; when     *)
(* that is rejected too nothing catches it and the process ends.  The      *)
(* webhook server's comment goes through the toolshed, and what becomes of *)
(* it is only logged.                                                      *)
(***************************************************************************)
End(m) ==
  /\ handler' = [handler EXCEPT ![m].stage = "ended"]
  /\ UNCHANGED <<clock, storeVars, refused>>

Posted(m) == m \notin FromWebhook /\ handler[m].stage = "reply" /\ End(m)

ReplyRejected(m) ==
  /\ m \notin FromWebhook /\ handler[m].stage = "reply"
  /\ handler' = [handler EXCEPT ![m] = Throw(@, m)]
  /\ UNCHANGED <<clock, storeVars, refused>>

ErrorPosted(m) == handler[m].stage = "error reply" /\ End(m)

\* postGovernedReplyComment succeeded, was refused or threw.
CommentEnds(m) == m \in FromWebhook /\ handler[m].stage = "reply" /\ End(m)

\* A process that ends takes the messages it is handling with it.
ProcessEnds(p) ==
  /\ handler' = [m \in Messages |->
       IF ProcessOf[m] = p /\ handler[m].stage \in Waiting
         THEN Leave(handler[m], "ended", handler[m].reply) ELSE handler[m]]
  /\ UNCHANGED <<clock, storeVars, refused>>

ErrorReplyRejected(m) ==
  /\ handler[m].stage = "error reply"
  /\ ProcessEnds(ProcessOf[m])

\* Killed, in the middle of at least one message.
Crash(p) ==
  /\ \E m \in Messages : ProcessOf[m] = p /\ handler[m].stage \in Waiting
  /\ ProcessEnds(p)

Tick ==
  /\ clock < MaxClock
  /\ clock' = clock + 1
  /\ UNCHANGED <<storeVars, handler, refused>>

-------------------------------------------------------------------------------
Responses == {"valid", "invalid", "approval"}

\* What Goose or the chat platform brings about for a message.
Proceed(m) ==
  \/ Classify(m)
  \/ \E i \in Intents : \E cost \in TurnTokens[i], response \in Responses :
       handler[m].intent = i /\ Turn(m, cost, response)
  \/ GooseFails(m)
  \/ Posted(m) \/ ReplyRejected(m) \/ CommentEnds(m)
  \/ ErrorPosted(m) \/ ErrorReplyRejected(m)

Next ==
  \/ \E m \in Messages : Arrive(m) \/ Proceed(m)
  \/ \E p \in Processes : Crash(p)
  \/ Tick

Spec == Init /\ [][Next]_vars

-------------------------------------------------------------------------------
RunIds == Threads \X Nat \X (0..MaxClock)

Runs == [by : Messages, status : Finished \cup {"running"}, tokensUsed : Nat]

Handlers ==
  [stage : Waiting \cup {"none", "ended"}, root : Messages \cup {"none"}, at : Int,
   intent : Intents \cup {"none"}, step : Nat, attempt : {0, 1, 2}, used : Nat,
   pending : BOOLEAN, run : RunIds \cup {<<>>}, reply : Replies \cup {"none"}]

\* The type of every variable.
TypeOK ==
  /\ clock \in 0..MaxClock
  /\ sessions \in [Threads -> Sessions \cup {NoSession}]
  /\ archived \subseteq Threads
  /\ DOMAIN rows \subseteq RunIds
  /\ rows \in [DOMAIN rows -> Runs]
  /\ handler \in [Messages -> Handlers]
  /\ \A m \in Messages : handler[m].stage = "minion" => handler[m].run \in DOMAIN rows
  /\ refused \subseteq Messages

Accepted(m) == handler[m].root # "none"

\* A thread's consecutive messages belong to one conversation, with one
\* correlation root, exactly when they are no more than the TTL apart: however
\* long the conversation, whoever's message expired the sessions in between.
ConversationsSplitAtTtl ==
  \A m, n \in Messages :
    /\ Accepted(m) /\ Accepted(n) /\ ThreadOf[m] = ThreadOf[n]
    /\ handler[m].at <= handler[n].at
    /\ ~\E k \in Messages :
          /\ Accepted(k) /\ ThreadOf[k] = ThreadOf[m]
          /\ handler[m].at < handler[k].at /\ handler[k].at < handler[n].at
    => (handler[m].root = handler[n].root) = (handler[n].at - handler[m].at <= Ttl)

RowsOf(m) == {id \in DOMAIN rows : rows[id].by = m}

\* The rows of minion_runs account for what the user was told: the chain's
\* steps were run in order, one row each, every step before the last
\* completed, and where the runner gave a reply the last row says the same, so
\* that none of the message's rows is left running (runner.ts:156-172).  What
\* becomes of the rows of a run that threw is no part of it.
RowsAccountForReply ==
  /\ \A id \in DOMAIN rows :
       LET m == rows[id].by
           h == handler[m]
       IN  /\ id[2] > 1 => \E x \in RowsOf(m) : x[2] = id[2] - 1 /\ rows[x].status = "completed"
           /\ \A x \in RowsOf(m) : x[2] = id[2] => x = id
           /\ h.reply \notin {"rephrase", "unconfigured", "turned away"}
  /\ \A m \in Messages :
       LET h == handler[m] IN
         /\ h.reply = "answer" => Cardinality(RowsOf(m)) = Len(Dag(h.intent))
         /\ h.reply \in Finished \cup {"answer"} =>
              \E id \in RowsOf(m) :
                /\ id[2] = Cardinality(RowsOf(m))
                /\ rows[id].status = IF h.reply = "answer" THEN "completed" ELSE h.reply

\* A minion's budget covers its run, not each turn: a run whose turns used it
\* up ends as token_budget_exceeded whichever turn's output was valid, and
\* none that stayed under it, or has none, does.
BudgetCoversTheRun ==
  \A id \in DOMAIN rows :
    LET minion == Dag(handler[rows[id].by].intent)[id[2]] IN
      rows[id].status \in Finished =>
        (rows[id].status = "token_budget_exceeded")
          = ~WithinBudget(minion, rows[id].tokensUsed)

\* "Archiving ... is what makes the deterministic id safe to reuse"
\* (ingress.ts): a thread can fall idle any number of times.
IdleThreadsRestart == refused = {}
===============================================================================
