------------------------------- MODULE Toolshed -------------------------------
(***************************************************************************)
(* The governed tool-call pipeline of one toolshed process                 *)
(* (extensions/mcp-toolshed: toolshed.ts with hot-reload.ts,               *)
(* operator-http.ts and the approval and cache tables of store.ts).  What  *)
(* an edition of the rules files permits is defined in Rules.              *)
(*                                                                         *)
(* Calls run concurrently and are suspended in an await between any two    *)
(* steps; in between, other calls proceed, operators decide approvals, and *)
(* an edit of the rules files is swapped in.  A step is the effect of the  *)
(* awaited operation followed by the synchronous code up to the next       *)
(* await.  Consecutive awaits of which only the last touches the state     *)
(* kept here are one step: the earlier ones only make the call slower.     *)
(*                                                                         *)
(* There is a breaker (Governance's) per server.  Whether a token bucket   *)
(* has a token is left open: SharedGovernance says what buckets promise.   *)
(***************************************************************************)
EXTENDS Rules, Integers, FiniteSets

CONSTANTS
  Calls,           \* concurrent callers
  Adapters,        \* the aliases an adapter is registered under
  FirstEdition,    \* the edition the process was started with
  RemoteState,     \* TRUE: governance state is remote and may reject
  ApprovalTimeout, \* approval_timeout_minutes, in ticks
  CacheTtl,        \* ttl_seconds, in ticks
  FailureThreshold, SuccessThreshold, Timeout, HalfOpenMax,  \* the breaker's
  MaxClock, MaxCalls, MaxDecisions, MaxEdits                 \* bounds

ASSUME ToolshedAssumption ==
  /\ IsFiniteSet(Calls)
  /\ Adapters \subseteq Servers
  /\ FirstEdition \in Editions /\ Valid(FirstEdition)
  /\ RemoteState \in BOOLEAN
  /\ FailureThreshold \in Nat \ {0} /\ SuccessThreshold \in Nat \ {0}
  /\ Timeout \in Nat \ {0} /\ HalfOpenMax \in Nat \ {0}
  /\ ApprovalTimeout \in Nat /\ CacheTtl \in Nat
  /\ MaxClock \in Nat /\ MaxCalls \in Nat /\ MaxDecisions \in Nat /\ MaxEdits \in Nat

VARIABLES
  clock,      \* state.now()
  rules,      \* the edition state.allowlists and state.governance came from
  disk,       \* the edition in the rules files
  reload,     \* a debounce timer is running
  call,       \* what each caller's call is at, see NoCall
  breaker,    \* [Servers -> its circuit breaker]
  approvals,  \* [Requests -> the approvals of that request hash, oldest first]
  cache,      \* [Requests -> when the cached answer expires, or NotCached]
  audit,      \* the audit_log rows of calls: [id, status]
  started, decisions, edits,  \* bounded by MaxCalls, MaxDecisions, MaxEdits
  performed,  \* history: the downstream calls that were made
  rejected,   \* history: the calls that ended without an answer
  faults      \* history: [Servers -> calls that threw, reports that rejected]

rulesVars == <<rules, disk, reload, edits>>
storeVars == <<approvals, cache, decisions>>
historyVars == <<performed, rejected, faults>>
vars == <<clock, rulesVars, call, breaker, storeVars, audit, started, historyVars>>

-------------------------------------------------------------------------------
Governance == INSTANCE Governance WITH
  Capacity <- 1, Cost <- 1, RefillRate <- 1, bucket <- <<>>, made <- {}

NotCached == -1
NoApproval == 0

Statuses ==
  {"success", "error", "blocked_by_allowlist", "throttled", "approval_pending",
   "approval_denied", "approval_timeout"}

\* The await a call is suspended in.
Awaits == {"governance", "notifier", "cache report", "adapter", "failure report"}

\* No call; `under` is the edition whose allowlist admitted it, `approval` the
\* approval it was gated by, `gatedBy` the edition that said whether it is
\* destructive, `caches` whether its answer will be cached.
NoCall ==
  [await |-> "none", id |-> 0, request |-> "none", under |-> FirstEdition,
   gatedBy |-> FirstEdition, approval |-> NoApproval, caches |-> FALSE]

-------------------------------------------------------------------------------
Init ==
  /\ clock = 0
  /\ rules = FirstEdition
  /\ disk = FirstEdition
  /\ reload = FALSE
  /\ call = [c \in Calls |-> NoCall]
  /\ breaker = [s \in Servers |-> Governance!FreshBreaker]
  /\ approvals = [r \in Requests |-> <<>>]
  /\ cache = [r \in Requests |-> NotCached]
  /\ audit = {}
  /\ started = 0 /\ decisions = 0 /\ edits = 0
  /\ performed = {} /\ rejected = {}
  /\ faults = [s \in Servers |-> 0]

\* Mutant: gateDestructiveCall's answers are returned without emit.
Respond_Gate(c, status) ==
  /\ audit' = IF status = "approval_denied" THEN audit
              ELSE audit \cup {[id |-> call[c].id, status |-> status]}
  /\ call' = [call EXCEPT ![c] = NoCall]
  /\ UNCHANGED rejected

\* emit: the audit row, then the answer.
Respond(c, status) ==
  /\ audit' = audit \cup {[id |-> call[c].id, status |-> status]}
  /\ call' = [call EXCEPT ![c] = NoCall]
  /\ UNCHANGED rejected

\* A rejected governance operation rejects the call past every emit.
RejectCall(c) ==
  /\ RemoteState
  /\ rejected' = rejected \cup {call[c].id}
  /\ call' = [call EXCEPT ![c] = NoCall]
  /\ UNCHANGED audit

Await(c, where) ==
  /\ call' = [call EXCEPT ![c].await = where]
  /\ UNCHANGED <<audit, rejected>>

In(c, where) == call[c].await = where

Server(c) == ServerOf[call[c].request]

\* verifyAndExecuteTool up to the first await: a token that does not verify
\* and a request the rules do not permit are answered at once.
Start(c) ==
  /\ In(c, "none")
  /\ started < MaxCalls
  /\ started' = started + 1
  /\ \/ /\ audit' = audit \cup {[id |-> started + 1, status |-> "error"]}
        /\ UNCHANGED call
     \/ \E r \in Requests :
          \/ /\ ~Permitted(rules, r)
             /\ audit' = audit \cup
                  {[id |-> started + 1, status |-> "blocked_by_allowlist"]}
             /\ UNCHANGED call
          \/ /\ Permitted(rules, r)
             /\ call' = [call EXCEPT ![c] =
                  [await |-> "governance", id |-> started + 1, request |-> r,
                   under |-> rules, gatedBy |-> FirstEdition,
                   approval |-> NoApproval, caches |-> FALSE]]
             /\ UNCHANGED audit
  /\ UNCHANGED <<clock, rulesVars, breaker, storeVars, historyVars>>

\* Either of the two token buckets is empty, or remote state rejects.
Throttled(c) ==
  /\ In(c, "governance")
  /\ Respond(c, "throttled") \/ RejectCall(c)
  /\ UNCHANGED <<clock, rulesVars, breaker, storeVars, started, performed, faults>>

(***************************************************************************)
(* doExecuteTool, entered with the approval that was just spent, if any.   *)
(***************************************************************************)
Cached(r) == cache[r] # NotCached /\ cache[r] > clock

Perform(c, approval) ==
  /\ performed' = performed \cup
       {[id |-> call[c].id, request |-> call[c].request, under |-> call[c].under,
         gatedBy |-> rules, approval |-> approval]}
  /\ call' = [call EXCEPT ![c].await = "adapter", ![c].approval = approval,
                          ![c].gatedBy = rules,
                          ![c].caches = IsCacheable(rules, call[c].request)]
  /\ UNCHANGED <<audit, rejected>>

\* Mutant: an unknown alias is reported as a failure.
Execute_Report(c, approval) ==
  IF Server(c) \in Adapters
    THEN Perform(c, approval)
    ELSE Await(c, "failure report") /\ UNCHANGED performed

\* A cached answer first reports a success; an unknown alias is an error that
\* reports nothing; otherwise the adapter is called.
Execute(c, approval) ==
  LET hit == IsCacheable(rules, call[c].request) /\ Cached(call[c].request)
  IN  \/ hit /\ Await(c, "cache report") /\ UNCHANGED performed
      \/ ~hit /\ Server(c) \notin Adapters /\ Respond(c, "error") /\ UNCHANGED performed
      \/ ~hit /\ Server(c) \in Adapters /\ Perform(c, approval)

(***************************************************************************)
(* gateDestructiveCall: the newest approval of the request decides, and    *)
(* among those of one instant the first.                                   *)
(***************************************************************************)
IsNewest(list, n) ==
  \A j \in DOMAIN list :
    \/ list[j].timeoutAt < list[n].timeoutAt
    \/ list[j].timeoutAt = list[n].timeoutAt /\ n <= j

\* Mutant: the timeout is subtracted.
Fresh_Past ==
  [decision |-> "none", consumed |-> FALSE, timeoutAt |-> clock - ApprovalTimeout,
   spentAt |-> 0]

Fresh ==
  [decision |-> "none", consumed |-> FALSE, timeoutAt |-> clock + ApprovalTimeout,
   spentAt |-> 0]

\* Mutant: an approval is marked as consumed only when the call is over.
Spent_Later(list, n) == list

Spent(list, n) ==
  [list EXCEPT ![n] = [decision |-> @.decision, consumed |-> TRUE,
                       timeoutAt |-> @.timeoutAt, spentAt |-> clock]]

TimedOut(a) == a.timeoutAt < clock

\* Mutant: a denied one is asked for again.
Used_OrDenied(a) ==
  \/ a.decision = "approved" /\ a.consumed
  \/ a.decision = "denied"

Used(a) == a.decision = "approved" /\ a.consumed

Gate(c) ==
  LET r == call[c].request
      list == approvals[r]
  IN  \/ \E n \in DOMAIN list :
           /\ IsNewest(list, n)
           /\ \/ /\ list[n].decision = "approved" /\ ~list[n].consumed
                 /\ \/ /\ TimedOut(list[n])
                       /\ Respond(c, "approval_timeout")
                       /\ UNCHANGED <<approvals, performed>>
                    \/ /\ ~TimedOut(list[n])
                       /\ approvals' = [approvals EXCEPT ![r] = Spent(list, n)]
                       /\ Execute(c, n)
              \/ /\ list[n].decision = "denied"
                 /\ Respond(c, "approval_denied")
                 /\ UNCHANGED <<approvals, performed>>
              \/ /\ list[n].decision = "none"
                 /\ Respond(c, IF TimedOut(list[n]) THEN "approval_timeout"
                                                   ELSE "approval_pending")
                 /\ UNCHANGED <<approvals, performed>>
      \/ /\ \A n \in DOMAIN list : IsNewest(list, n) => Used(list[n])
         /\ approvals' = [approvals EXCEPT ![r] = Append(list, Fresh)]
         /\ Await(c, "notifier") \/ Respond(c, "approval_pending")
         /\ UNCHANGED performed

\* Both buckets had a token: canExecuteBreaker, and what follows an admission.
\* Whether the call is destructive is read from the rules of this moment.
Admission(c) ==
  /\ In(c, "governance")
  /\ \/ /\ Governance!CanExecute(breaker[Server(c)], clock)
        /\ breaker' = [breaker EXCEPT ![Server(c)] = Governance!Admitted(@, clock)]
        /\ \/ IsDestructive(rules, call[c].request) /\ Gate(c)
           \/ /\ ~IsDestructive(rules, call[c].request)
              /\ Execute(c, NoApproval)
              /\ UNCHANGED approvals
     \/ /\ ~Governance!CanExecute(breaker[Server(c)], clock)
        /\ Respond(c, "throttled")
        /\ UNCHANGED <<breaker, approvals, performed>>
  /\ UNCHANGED <<clock, rulesVars, cache, decisions, started, faults>>

\* The notifier returns or throws; the approval is stored either way.
Notified(c) ==
  /\ In(c, "notifier")
  /\ Respond(c, "approval_pending")
  /\ UNCHANGED <<clock, rulesVars, breaker, storeVars, started, performed, faults>>

CacheReport(c) ==
  /\ In(c, "cache report")
  /\ \/ Respond(c, "success") /\ breaker' = [breaker EXCEPT ![Server(c)] = Governance!Succeeded(@)]
     \/ RejectCall(c) /\ UNCHANGED breaker
  /\ UNCHANGED <<clock, rulesVars, storeVars, started, performed, faults>>

\* The adapter answers and the success is reported.  A report that rejects is
\* caught like a throw of the adapter: the answer becomes an error.
AdapterReturns(c) ==
  /\ In(c, "adapter")
  /\ \/ /\ breaker' = [breaker EXCEPT ![Server(c)] = Governance!Succeeded(@)]
        /\ cache' = IF call[c].caches
                      THEN [cache EXCEPT ![call[c].request] = clock + CacheTtl]
                      ELSE cache
        /\ Respond(c, "success")
        /\ UNCHANGED faults
     \/ /\ RemoteState
        /\ Await(c, "failure report")
        /\ faults' = [faults EXCEPT ![Server(c)] = @ + 1]
        /\ UNCHANGED <<breaker, cache>>
  /\ UNCHANGED <<clock, rulesVars, approvals, decisions, started, performed>>

ReportFailure(c) ==
  /\ \/ /\ breaker' = [breaker EXCEPT ![Server(c)] = Governance!Failed(@, clock)]
        /\ Respond(c, "error")
     \/ /\ RejectCall(c)
        /\ UNCHANGED breaker
  /\ UNCHANGED <<clock, rulesVars, storeVars, started, performed>>

AdapterThrows(c) ==
  /\ In(c, "adapter")
  /\ faults' = [faults EXCEPT ![Server(c)] = @ + 1]
  /\ ReportFailure(c)

FailureReport(c) ==
  /\ In(c, "failure report")
  /\ ReportFailure(c)
  /\ UNCHANGED faults

-------------------------------------------------------------------------------
\* POST /approvals/:id/resolve from Slack, Teams or the dashboard: any stored
\* approval, in any state, and the last writer wins.
ResolveApproval(r, i, decision) ==
  /\ i \in 1 .. Len(approvals[r])
  /\ decisions < MaxDecisions
  /\ decisions' = decisions + 1
  /\ approvals' = [approvals EXCEPT ![r][i].decision = decision]
  /\ UNCHANGED <<clock, rulesVars, call, breaker, cache, audit, started, historyVars>>

\* The rules files are rewritten; the watcher (re)starts the debounce timer.
EditRules(e) ==
  /\ edits < MaxEdits
  /\ edits' = edits + 1
  /\ disk' = e
  /\ reload' = TRUE
  /\ UNCHANGED <<clock, rules, call, breaker, storeVars, audit, started, historyVars>>

\* Mutant: the validator's errors are logged and ignored.
PerformReload_Unvalidated ==
  /\ reload
  /\ reload' = FALSE
  /\ rules' = disk
  /\ UNCHANGED <<clock, disk, edits, call, breaker, storeVars, audit, started, historyVars>>

\* The timer fires: load, validate, and swap unless the edition is invalid.
PerformReload ==
  /\ reload
  /\ reload' = FALSE
  /\ rules' = IF Valid(disk) THEN disk ELSE rules
  /\ UNCHANGED <<clock, disk, edits, call, breaker, storeVars, audit, started, historyVars>>

Tick ==
  /\ clock < MaxClock
  /\ clock' = clock + 1
  /\ UNCHANGED <<rulesVars, call, breaker, storeVars, audit, started, historyVars>>

\* The steps of a call that is under way.
CallStep(c) ==
  \/ Throttled(c) \/ Admission(c) \/ Notified(c) \/ CacheReport(c)
  \/ AdapterReturns(c) \/ AdapterThrows(c) \/ FailureReport(c)

Next ==
  \/ Tick
  \/ PerformReload
  \/ \E c \in Calls : Start(c) \/ CallStep(c)
  \/ \E r \in Requests, d \in {"approved", "denied"}, i \in 1 .. MaxCalls :
       ResolveApproval(r, i, d)
  \/ \E e \in Editions : EditRules(e)

Spec == Init /\ [][Next]_vars

-------------------------------------------------------------------------------
(***************************************************************************)
(* Properties.                                                             *)
(***************************************************************************)
Approval == [decision : {"none", "approved", "denied"}, consumed : BOOLEAN,
             timeoutAt : Nat, spentAt : Nat]

CallRecords ==
  [await : Awaits \cup {"none"}, id : 0 .. MaxCalls,
   request : Requests \cup {"none"}, under : Editions, gatedBy : Editions,
   approval : Nat, caches : BOOLEAN]

Breakers ==
  [state : Governance!BreakerStates, failures : Nat, successes : Nat,
   openedAt : Nat, halfOpenRequests : Nat]

\* The shape of the process's state.
TypeOK ==
  /\ clock \in 0 .. MaxClock
  /\ rules \in Editions /\ disk \in Editions /\ reload \in BOOLEAN
  /\ call \in [Calls -> CallRecords]
  /\ approvals \in [Requests -> Seq(Approval)]
  /\ breaker \in [Servers -> Breakers]
  /\ cache \in [Requests -> Nat \cup {NotCached}]
  /\ audit \subseteq [id : 1 .. MaxCalls, status : Statuses]
  /\ performed \subseteq
       [id : 1 .. MaxCalls, request : Requests, under : Editions, gatedBy : Editions,
        approval : Nat]
  /\ started \in 0 .. MaxCalls /\ decisions \in 0 .. MaxDecisions
  /\ edits \in 0 .. MaxEdits
  /\ rejected \subseteq 1 .. MaxCalls /\ faults \in [Servers -> Nat]

\* A downstream call the rules called destructive when it was gated was paid
\* for by an approval of that very request that had not timed out, and no
\* approval pays twice, however many calls were submitted at once and whatever
\* the operators clicked meanwhile (toolshed.ts:580-590).
ApprovalPaysOnce ==
  \A p \in performed :
    IsDestructive(p.gatedBy, p.request) =>
      /\ p.approval \in 1 .. Len(approvals[p.request])
      /\ LET a == approvals[p.request][p.approval]
         IN  a.consumed /\ a.spentAt <= a.timeoutAt
      /\ \A q \in performed :
           q.request = p.request /\ q.approval = p.approval => q = p

\* Humans are not asked for a request again while the approval they were asked
\* for before stands: not yet spent, and within its time when the second is
\* created.  A denial does not end it, nor do resubmissions, however many race:
\* the one that stands answers them (toolshed.ts:580-609).  Whether one that
\* timed out is asked for again is no part of it.  Approvals created within one
\* instant are told apart by their order: the gate sees the first.
NotAskedTwice ==
  \A r \in Requests :
    LET list == approvals[r]
        created(j) == list[j].timeoutAt - ApprovalTimeout
    IN  \A i, j \in DOMAIN list :
          /\ list[i].timeoutAt < list[j].timeoutAt
          /\ \A k \in DOMAIN list : list[k].timeoutAt = list[i].timeoutAt => i <= k
          => list[i].consumed \/ list[i].timeoutAt < created(j)

\* No call is answered twice or answered without its row, and no downstream
\* call is forgotten by the trail: once its caller is gone there is a row for
\* it, unless the remote governance state rejected: that call leaves no row,
\* where toolshed.ts:247 has "an audit entry on every exit path".
AuditTrail ==
  /\ \A x, y \in audit : x.id = y.id => x = y
  /\ \A id \in 1 .. started :
       \/ \E c \in Calls : call[c].id = id
       \/ \E x \in audit : x.id = id
       \/ id \in rejected
  /\ \A c \in Calls : \A x \in audit : x.id # call[c].id
  /\ ~RemoteState => rejected = {}

\* The breaker is tripped by downstream failures (or reports of success that
\* got lost), never by approvals, throttled calls or an unknown alias, however
\* they interleave with the failures (toolshed.ts:682-690).
TripsOnFailuresOnly ==
  \A s \in Servers :
    breaker[s].state # "closed" => faults[s] >= FailureThreshold

\* Whatever the rules files went through, no downstream call is made that the
\* allowlists in force when it started did not permit, or of a tool that is in
\* no server's registry, and no edition is in force that caches by name what it
\* calls destructive, or grants what no server has (hot-reload.ts:152-170,
\* toolshed.ts:464-485).
PermittedWhenStarted ==
  /\ NoDestructiveCached(Rulebook[rules]) /\ GrantsRegistered(Rulebook[rules])
  /\ \A p \in performed :
       Permitted(p.under, p.request) /\ ToolPair(p.request) \in Registry
===============================================================================
