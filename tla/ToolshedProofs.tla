------------------------------ MODULE ToolshedProofs ------------------------------
(***************************************************************************)
(* What holds of Toolshed for any callers, requests, servers, editions of  *)
(* the rules, thresholds, timeouts and bounds.                             *)
(*                                                                         *)
(* A step of a call does one of three things to the call itself: it goes   *)
(* on to another await, it is answered with an audit row, or it is         *)
(* rejected (CallOutcomes); and it makes at most one downstream call       *)
(* (Performs).  The invariants are about those, not about single actions.  *)
(***************************************************************************)
EXTENDS Toolshed, SequenceTheorems, FiniteSetTheorems, TLAPS

Busy(c) == call[c].await # "none"

\* What a call that is under way knows of itself.
CallOK(c) ==
  /\ Busy(c) => call[c].request \in Requests /\ call[c].id \in 1 .. MaxCalls
  /\ ~Busy(c) => call[c] = NoCall

TInv == TypeOK /\ \A c \in Calls : CallOK(c)

-------------------------------------------------------------------------------
(***************************************************************************)
(* The steps of a call.                                                    *)
(***************************************************************************)
\* The call goes on to another await.
GoesOn(c) ==
  /\ \E k \in CallRecords :
       /\ k.await # "none" /\ k.id = call[c].id /\ k.request = call[c].request
       /\ k.under = call[c].under
       /\ call' = [call EXCEPT ![c] = k]
  /\ UNCHANGED <<audit, rejected>>

Answered(c) ==
  /\ call' = [call EXCEPT ![c] = NoCall]
  /\ \E status \in Statuses : audit' = audit \cup {[id |-> call[c].id, status |-> status]}
  /\ UNCHANGED rejected

\* A step that performs nothing, or the downstream call of c with approval n.
PerformsNothing == UNCHANGED performed

Performed(c, n) ==
  /\ performed' = performed \cup
       {[id |-> call[c].id, request |-> call[c].request, under |-> call[c].under,
         gatedBy |-> rules, approval |-> n]}
  /\ Server(c) \in Adapters

\* Whether an approval of r has been paid with.
Fees(c, n) ==
  LET list == approvals[call[c].request] IN
    /\ n \in DOMAIN list
    /\ ~list[n].consumed /\ ~TimedOut(list[n])
    /\ approvals' = [approvals EXCEPT ![call[c].request] = Spent(list, n)]

LEMMA NoCallType == NoCall \in CallRecords
BY ToolshedAssumption DEF NoCall, CallRecords, NoApproval

LEMMA AwaitOutcome ==
  ASSUME TInv, NEW c \in Calls, Busy(c), NEW where \in Awaits, Await(c, where)
  PROVE  GoesOn(c)
<1> DEFINE k == [call[c] EXCEPT !.await = where]
<1>1. call[c] \in CallRecords BY DEF TInv, TypeOK
<1>2. where # "none" BY DEF Awaits
<1>3. /\ k \in CallRecords /\ k.await # "none" /\ k.id = call[c].id
      /\ k.request = call[c].request /\ k.under = call[c].under
  BY <1>1, <1>2 DEF CallRecords
<1>4. call' = [call EXCEPT ![c] = k]
  BY DEF Await
<1> HIDE DEF k
<1> QED BY <1>3, <1>4 DEF GoesOn, Await

\* What becomes of the approvals table in a step of c.
Appended(c) ==
  LET list == approvals[call[c].request] IN
    /\ \A n \in DOMAIN list : IsNewest(list, n) => Used(list[n])
    /\ approvals' = [approvals EXCEPT ![call[c].request] = Append(list, Fresh)]

Pays(c) ==
  \/ PerformsNothing /\ (UNCHANGED approvals \/ Appended(c) \/ \E n \in Nat : Fees(c, n))
  \/ /\ ~IsDestructive(rules, call[c].request)
     /\ Performed(c, NoApproval) /\ UNCHANGED approvals
  \/ \E n \in Nat : Fees(c, n) /\ Performed(c, n)

LEMMA CacheableType ==
  ASSUME NEW e \in Editions, NEW r \in Requests
  PROVE  IsCacheable(e, r) \in BOOLEAN
BY RulesAssumption DEF IsCacheable

LEMMA RespondOutcome ==
  ASSUME NEW c \in Calls, NEW status \in Statuses, Respond(c, status)
  PROVE  Answered(c)
BY DEF Respond, Answered

LEMMA PerformOutcome ==
  ASSUME TInv, NEW c \in Calls, Busy(c), NEW n \in Nat, Perform(c, n)
  PROVE  GoesOn(c)
<1> DEFINE one == [call[c] EXCEPT !.await = "adapter"]
           two == [one EXCEPT !.approval = n]
           three == [two EXCEPT !.gatedBy = rules]
           b == IsCacheable(rules, call[c].request)
           k == [three EXCEPT !.caches = b]
<1>1. call[c] \in CallRecords /\ rules \in Editions BY DEF TInv, TypeOK
<1>2. one \in CallRecords /\ one.await = "adapter" /\ one.id = call[c].id
      /\ one.request = call[c].request /\ one.under = call[c].under
  BY <1>1 DEF CallRecords, Awaits
<1> HIDE DEF one
<1>3. two \in CallRecords /\ two.await = "adapter" /\ two.id = call[c].id
      /\ two.request = call[c].request /\ two.under = call[c].under
  BY <1>2 DEF CallRecords
<1> HIDE DEF two
<1>4. three \in CallRecords /\ three.await = "adapter" /\ three.id = call[c].id
      /\ three.request = call[c].request /\ three.under = call[c].under
  BY <1>1, <1>3 DEF CallRecords
<1> HIDE DEF three
<1>5. k \in CallRecords /\ k.await = "adapter" /\ k.id = call[c].id
      /\ k.request = call[c].request /\ k.under = call[c].under
  <2>1. b \in BOOLEAN
    BY <1>1, CacheableType DEF TInv, CallOK
  <2> QED BY <1>4, <2>1 DEF CallRecords
<1>6. call' = [call EXCEPT ![c] = k]
  BY DEF Perform, one, two, three
<1> HIDE DEF k
<1> QED BY <1>5, <1>6 DEF GoesOn, Perform

LEMMA ExecuteOutcome ==
  ASSUME TInv, NEW c \in Calls, Busy(c), NEW n \in Nat, Execute(c, n)
  PROVE  /\ GoesOn(c) \/ Answered(c)
         /\ PerformsNothing \/ Performed(c, n)
<1> DEFINE hit == IsCacheable(rules, call[c].request) /\ Cached(call[c].request)
<1>1. CASE hit /\ Await(c, "cache report") /\ UNCHANGED performed
  <2>1. GoesOn(c)
    BY <1>1, AwaitOutcome DEF Awaits
  <2> QED BY <1>1, <2>1 DEF PerformsNothing
<1>2. CASE Respond(c, "error") /\ UNCHANGED performed
  BY <1>2, RespondOutcome DEF Statuses, PerformsNothing
<1>3. CASE Server(c) \in Adapters /\ Perform(c, n)
  BY <1>3, PerformOutcome DEF Perform, Performed
<1> QED BY <1>1, <1>2, <1>3 DEF Execute

\* The gate answers, asks for an approval, or spends one and goes on.
LEMMA GateOutcome ==
  ASSUME TInv, NEW c \in Calls, Busy(c), Gate(c)
  PROVE  (GoesOn(c) \/ Answered(c)) /\ Pays(c)
<1> DEFINE r == call[c].request
           list == approvals[r]
<1>0. r \in Requests /\ list \in Seq(Approval) /\ DOMAIN list \subseteq Nat
  BY DEF TInv, TypeOK, CallOK
<1>1. ASSUME NEW n \in DOMAIN list, list[n].decision = "approved", ~list[n].consumed,
             \/ /\ TimedOut(list[n])
                /\ Respond(c, "approval_timeout")
                /\ UNCHANGED <<approvals, performed>>
             \/ /\ ~TimedOut(list[n])
                /\ approvals' = [approvals EXCEPT ![r] = Spent(list, n)]
                /\ Execute(c, n)
      PROVE  (GoesOn(c) \/ Answered(c)) /\ Pays(c)
  <2>1. CASE Respond(c, "approval_timeout") /\ UNCHANGED <<approvals, performed>>
    BY <2>1, RespondOutcome DEF Statuses, Pays, PerformsNothing
  <2>2. CASE /\ ~TimedOut(list[n])
             /\ approvals' = [approvals EXCEPT ![r] = Spent(list, n)]
             /\ Execute(c, n)
    <3>1. n \in Nat BY <1>0
    <3>2. Fees(c, n) BY <1>1, <2>2 DEF Fees
    <3>3. (GoesOn(c) \/ Answered(c)) /\ (PerformsNothing \/ Performed(c, n))
      BY <2>2, <3>1, ExecuteOutcome
    <3> QED BY <3>1, <3>2, <3>3 DEF Pays
  <2> QED BY <1>1, <2>1, <2>2
<1>2. ASSUME UNCHANGED <<approvals, performed>>,
             NEW status \in {"approval_denied", "approval_timeout", "approval_pending"},
             Respond(c, status)
      PROVE  (GoesOn(c) \/ Answered(c)) /\ Pays(c)
  BY <1>2, RespondOutcome DEF Statuses, Pays, PerformsNothing
<1>3. ASSUME \A n \in DOMAIN list : IsNewest(list, n) => Used(list[n]),
             approvals' = [approvals EXCEPT ![r] = Append(list, Fresh)],
             Await(c, "notifier") \/ Respond(c, "approval_pending"),
             UNCHANGED performed
      PROVE  (GoesOn(c) \/ Answered(c)) /\ Pays(c)
  BY <1>3, AwaitOutcome, RespondOutcome DEF Statuses, Awaits, Pays, PerformsNothing, Appended
<1> QED BY <1>1, <1>2, <1>3 DEF Gate

\* The call is rejected: it leaves no row.
Lost(c) ==
  /\ RemoteState
  /\ call' = [call EXCEPT ![c] = NoCall]
  /\ rejected' = rejected \cup {call[c].id}
  /\ UNCHANGED audit

LEMMA CallOutcomes ==
  ASSUME TInv, NEW c \in Calls, CallStep(c)
  PROVE  /\ Busy(c)
         /\ GoesOn(c) \/ Answered(c) \/ Lost(c)
         /\ Pays(c)
         /\ UNCHANGED <<clock, rulesVars, decisions, started>>
<1>1. CASE Throttled(c)
  BY <1>1, RespondOutcome
     DEF Throttled, In, Busy, Statuses, RejectCall, Lost, Pays, PerformsNothing, storeVars
<1>2. CASE Admission(c)
  <2>1. Busy(c) /\ UNCHANGED <<clock, rulesVars, decisions, started>>
    BY <1>2 DEF Admission, In, Busy
  <2>2. CASE IsDestructive(rules, call[c].request) /\ Gate(c)
    BY <2>1, <2>2, GateOutcome
  <2>3. CASE /\ ~IsDestructive(rules, call[c].request)
             /\ Execute(c, NoApproval) /\ UNCHANGED approvals
    BY <2>1, <2>3, ExecuteOutcome DEF NoApproval, Pays
  <2>4. CASE Respond(c, "throttled") /\ UNCHANGED <<approvals, performed>>
    BY <2>1, <2>4, RespondOutcome DEF Statuses, Pays, PerformsNothing
  <2> QED BY <1>2, <2>1, <2>2, <2>3, <2>4 DEF Admission
<1>3. CASE Notified(c)
  BY <1>3, RespondOutcome
     DEF Notified, In, Busy, Statuses, Pays, PerformsNothing, storeVars
<1>4. CASE CacheReport(c)
  BY <1>4, RespondOutcome
     DEF CacheReport, In, Busy, Statuses, RejectCall, Lost, Pays, PerformsNothing, storeVars
<1>5. CASE AdapterReturns(c)
  <2>1. Busy(c) /\ UNCHANGED <<clock, rulesVars, approvals, decisions, started, performed>>
    BY <1>5 DEF AdapterReturns, In, Busy
  <2>2. GoesOn(c) \/ Answered(c)
    BY <1>5, <2>1, AwaitOutcome, RespondOutcome DEF AdapterReturns, Statuses, Awaits
  <2> QED BY <2>1, <2>2 DEF Pays, PerformsNothing
<1>6. CASE AdapterThrows(c) \/ FailureReport(c)
  <2>1. Busy(c) /\ ReportFailure(c)
    BY <1>6 DEF AdapterThrows, FailureReport, In, Busy
  <2>2. Answered(c) \/ Lost(c)
    BY <2>1, RespondOutcome DEF ReportFailure, Statuses, RejectCall, Lost
  <2> QED BY <2>1, <2>2 DEF ReportFailure, Pays, PerformsNothing, storeVars
<1> QED BY <1>1, <1>2, <1>3, <1>4, <1>5, <1>6 DEF CallStep

-------------------------------------------------------------------------------
(***************************************************************************)
(* Types.                                                                  *)
(***************************************************************************)
\* What every step of a call, and Start, leaves of the calls.
LEMMA CallsKept ==
  ASSUME TInv, NEW c \in Calls, NEW k \in CallRecords, call' = [call EXCEPT ![c] = k],
         k.await # "none" => k.request \in Requests /\ k.id \in 1 .. MaxCalls,
         k.await = "none" => k = NoCall
  PROVE  call' \in [Calls -> CallRecords] /\ \A d \in Calls : CallOK(d)'
<1>1. call' \in [Calls -> CallRecords] BY DEF TInv, TypeOK
<1>2. ASSUME NEW d \in Calls PROVE CallOK(d)'
  <2>1. CASE d = c
    <3>1. call'[d] = k BY <2>1 DEF TInv, TypeOK
    <3> QED BY <3>1 DEF CallOK, Busy
  <2>2. CASE d # c
    <3>1. call'[d] = call[d] BY <2>2 DEF TInv, TypeOK
    <3> QED BY <3>1 DEF TInv, CallOK, Busy
  <2> QED BY <2>1, <2>2
<1> QED BY <1>1, <1>2

LEMMA CallOutcomeKeeps ==
  ASSUME TInv, NEW c \in Calls, Busy(c), GoesOn(c) \/ Answered(c) \/ Lost(c)
  PROVE  /\ call' \in [Calls -> CallRecords] /\ \A d \in Calls : CallOK(d)'
         /\ audit' \subseteq [id : 1 .. MaxCalls, status : Statuses]
         /\ rejected' \subseteq 1 .. MaxCalls
<1>1. call[c].request \in Requests /\ call[c].id \in 1 .. MaxCalls
  BY DEF TInv, CallOK
<1>2. CASE GoesOn(c)
  BY <1>1, <1>2, CallsKept DEF GoesOn, TInv, TypeOK
<1>3. CASE Answered(c) \/ Lost(c)
  <2>1. NoCall \in CallRecords /\ NoCall.await = "none"
    BY NoCallType DEF NoCall
  <2>2. call' = [call EXCEPT ![c] = NoCall]
    BY <1>3 DEF Answered, Lost
  <2>3. call' \in [Calls -> CallRecords] /\ \A d \in Calls : CallOK(d)'
    BY <2>1, <2>2, CallsKept
  <2>4. audit' \subseteq [id : 1 .. MaxCalls, status : Statuses]
    BY <1>1, <1>3 DEF Answered, Lost, TInv, TypeOK
  <2>5. rejected' \subseteq 1 .. MaxCalls
    BY <1>1, <1>3 DEF Answered, Lost, TInv, TypeOK
  <2> QED BY <2>3, <2>4, <2>5
<1> QED BY <1>2, <1>3

LEMMA FreshType == TInv => Fresh \in Approval
BY ToolshedAssumption DEF TInv, TypeOK, Fresh, Approval

\* A payment marks one approval of one request, and otherwise keeps the table.
LEMMA PaymentTypes ==
  ASSUME TInv, NEW c \in Calls, Busy(c), Pays(c)
  PROVE  /\ approvals' \in [Requests -> Seq(Approval)]
         /\ performed' \subseteq
              [id : 1 .. MaxCalls, request : Requests, under : Editions,
               gatedBy : Editions, approval : Nat]
<1> DEFINE r == call[c].request
<1>1. r \in Requests /\ call[c].id \in 1 .. MaxCalls /\ approvals[r] \in Seq(Approval)
  BY DEF TInv, CallOK, TypeOK
<1>2. call[c].under \in Editions /\ rules \in Editions
  BY DEF TInv, TypeOK, CallRecords
<1>3. ASSUME NEW n \in Nat, Fees(c, n)
      PROVE  approvals' \in [Requests -> Seq(Approval)]
  <2>1. n \in DOMAIN approvals[r] BY <1>3 DEF Fees
  <2>2. approvals[r][n] \in Approval
    BY <1>1, <2>1
  <2>3. [decision |-> approvals[r][n].decision, consumed |-> TRUE,
         timeoutAt |-> approvals[r][n].timeoutAt, spentAt |-> clock] \in Approval
    BY <2>2, ToolshedAssumption DEF Approval, TInv, TypeOK
  <2>4. Spent(approvals[r], n) \in Seq(Approval)
    BY <1>1, <2>1, <2>3 DEF Spent
  <2> QED BY <1>1, <1>3, <2>4 DEF Fees, TInv, TypeOK
<1>4. ASSUME Appended(c) PROVE approvals' \in [Requests -> Seq(Approval)]
  BY <1>1, <1>4, FreshType DEF Appended, TInv, TypeOK
<1>5. approvals' \in [Requests -> Seq(Approval)]
  BY <1>3, <1>4 DEF Pays, TInv, TypeOK
<1>6. ASSUME NEW n \in Nat, Performed(c, n)
      PROVE  performed' \subseteq
               [id : 1 .. MaxCalls, request : Requests, under : Editions,
                gatedBy : Editions, approval : Nat]
  BY <1>1, <1>2, <1>6 DEF Performed, TInv, TypeOK
<1>7. CASE PerformsNothing
  BY <1>5, <1>7 DEF PerformsNothing, TInv, TypeOK
<1> QED BY <1>5, <1>6, <1>7 DEF Pays, NoApproval

(***************************************************************************)
(* The breaker's operations.                                               *)
(***************************************************************************)
LEMMA BreakerStatesAre == Governance!BreakerStates = {"closed", "open", "half-open"}
BY DEF Governance!BreakerStates

LEMMA FreshBreakerType ==
  /\ Governance!FreshBreaker \in Breakers
  /\ Governance!FreshBreaker.state = "closed" /\ Governance!FreshBreaker.failures = 0
BY BreakerStatesAre DEF Governance!FreshBreaker, Breakers

\* An admission closes nothing, and opens nothing that is closed.
LEMMA AdmittedType ==
  ASSUME NEW b \in Breakers, NEW now \in Nat
  PROVE  /\ Governance!Admitted(b, now) \in Breakers
         /\ Governance!Admitted(b, now).failures = b.failures
         /\ (Governance!Admitted(b, now).state = "closed") = (b.state = "closed")
<1> DEFINE seen == Governance!Observed(b, now)
<1>1. /\ seen \in Breakers /\ seen.failures = b.failures
      /\ (seen.state = "closed") = (b.state = "closed")
  BY BreakerStatesAre DEF Governance!Observed, Breakers
<1>2. Governance!Admitted(b, now) =
        IF seen.state = "half-open" THEN [seen EXCEPT !.halfOpenRequests = @ + 1] ELSE seen
  BY DEF Governance!Admitted
<1> HIDE DEF seen
<1> QED BY <1>1, <1>2 DEF Breakers

\* A success never trips; it forgets the failures where it leaves a closed breaker.
LEMMA SucceededType ==
  ASSUME NEW b \in Breakers
  PROVE  /\ Governance!Succeeded(b) \in Breakers
         /\ Governance!Succeeded(b).state = "closed" => Governance!Succeeded(b).failures = 0
         /\ b.state = "closed" => Governance!Succeeded(b).state = "closed"
<1>1. CASE b.state # "half-open"
  <2>1. Governance!Succeeded(b) = [b EXCEPT !.failures = 0]
    BY <1>1 DEF Governance!Succeeded
  <2> QED BY <2>1 DEF Breakers
<1>2. CASE b.state = "half-open" /\ b.successes + 1 < SuccessThreshold
  <2>1. Governance!Succeeded(b) = [b EXCEPT !.successes = @ + 1]
    BY <1>2 DEF Governance!Succeeded
  <2> QED BY <1>2, <2>1 DEF Breakers
<1>3. CASE b.state = "half-open" /\ ~(b.successes + 1 < SuccessThreshold)
  BY <1>3, BreakerStatesAre DEF Governance!Succeeded, Breakers
<1> QED BY <1>1, <1>2, <1>3

\* A failure closes nothing, and leaves closed only what is below the threshold.
LEMMA FailedType ==
  ASSUME NEW b \in Breakers, NEW now \in Nat
  PROVE  /\ Governance!Failed(b, now) \in Breakers
         /\ Governance!Failed(b, now).state = "closed" =>
              b.state = "closed" /\ Governance!Failed(b, now).failures = b.failures + 1
         /\ b.state = "closed" /\ Governance!Failed(b, now).state # "closed" =>
              b.failures + 1 >= FailureThreshold
<1>1. CASE b.state = "half-open" \/ b.failures + 1 >= FailureThreshold
  BY <1>1, BreakerStatesAre DEF Governance!Failed, Governance!Tripped, Breakers
<1>2. CASE ~(b.state = "half-open" \/ b.failures + 1 >= FailureThreshold)
  <2>1. Governance!Failed(b, now) = [b EXCEPT !.failures = @ + 1]
    BY <1>2 DEF Governance!Failed
  <2> QED BY <1>2, <2>1 DEF Breakers
<1> QED BY <1>1, <1>2

\* What a step of a call does to its server's breaker.
LEMMA BreakerTypes ==
  ASSUME TInv, NEW c \in Calls, CallStep(c)
  PROVE  breaker' \in [Servers -> Breakers]
<1>1. Busy(c) /\ Server(c) \in Servers
  BY CallOutcomes, RulesAssumption DEF TInv, CallOK, Server
<1>2. breaker[Server(c)] \in Breakers /\ clock \in Nat
  BY <1>1, ToolshedAssumption DEF TInv, TypeOK
<1>3. \/ breaker' = breaker
      \/ breaker' = [breaker EXCEPT ![Server(c)] = Governance!Admitted(@, clock)]
      \/ breaker' = [breaker EXCEPT ![Server(c)] = Governance!Succeeded(@)]
      \/ breaker' = [breaker EXCEPT ![Server(c)] = Governance!Failed(@, clock)]
  BY DEF CallStep, Throttled, Admission, Notified, CacheReport, AdapterReturns,
         AdapterThrows, FailureReport, ReportFailure
<1>4. /\ Governance!Admitted(breaker[Server(c)], clock) \in Breakers
      /\ Governance!Succeeded(breaker[Server(c)]) \in Breakers
      /\ Governance!Failed(breaker[Server(c)], clock) \in Breakers
  BY <1>2, AdmittedType, SucceededType, FailedType
<1>5. breaker \in [Servers -> Breakers] BY DEF TInv, TypeOK
<1> QED BY <1>1, <1>3, <1>4, <1>5

LEMMA RestTypes ==
  ASSUME TInv, NEW c \in Calls, CallStep(c)
  PROVE  /\ cache' \in [Requests -> Nat \cup {NotCached}]
         /\ faults' \in [Servers -> Nat]
<1>1. /\ cache \in [Requests -> Nat \cup {NotCached}] /\ faults \in [Servers -> Nat]
      /\ clock + CacheTtl \in Nat /\ \A s \in Servers : faults[s] + 1 \in Nat
  BY ToolshedAssumption DEF TInv, TypeOK
<1>2. cache' = cache \/ cache' = [cache EXCEPT ![call[c].request] = clock + CacheTtl]
  BY DEF CallStep, Throttled, Admission, Notified, CacheReport, AdapterReturns,
         AdapterThrows, FailureReport, ReportFailure, storeVars
<1>3. faults' = faults \/ faults' = [faults EXCEPT ![Server(c)] = @ + 1]
  BY DEF CallStep, Throttled, Admission, Notified, CacheReport, AdapterReturns,
         AdapterThrows, FailureReport
<1> QED BY <1>1, <1>2, <1>3

LEMMA CallStepTypes ==
  ASSUME TInv, NEW c \in Calls, CallStep(c)
  PROVE  TInv'
<1>1. /\ Busy(c) /\ (GoesOn(c) \/ Answered(c) \/ Lost(c)) /\ Pays(c)
      /\ UNCHANGED <<clock, rulesVars, decisions, started>>
  BY CallOutcomes
<1>2. /\ call' \in [Calls -> CallRecords] /\ \A d \in Calls : CallOK(d)'
      /\ audit' \subseteq [id : 1 .. MaxCalls, status : Statuses]
      /\ rejected' \subseteq 1 .. MaxCalls
  BY <1>1, CallOutcomeKeeps
<1>3. /\ approvals' \in [Requests -> Seq(Approval)]
      /\ performed' \subseteq
           [id : 1 .. MaxCalls, request : Requests, under : Editions,
            gatedBy : Editions, approval : Nat]
  BY <1>1, PaymentTypes
<1> QED
  BY <1>1, <1>2, <1>3, BreakerTypes, RestTypes DEF TInv, TypeOK, rulesVars

\* Start's three ways: no token, not permitted, admitted.
LEMMA StartOutcome ==
  ASSUME TInv, NEW c \in Calls, Start(c)
  PROVE  /\ ~Busy(c) /\ started < MaxCalls /\ started' = started + 1
         /\ UNCHANGED <<clock, rulesVars, breaker, storeVars, historyVars>>
         /\ \/ /\ UNCHANGED call
               /\ \E status \in Statuses :
                    audit' = audit \cup {[id |-> started + 1, status |-> status]}
            \/ /\ UNCHANGED audit
               /\ \E r \in Requests :
                    /\ Permitted(rules, r)
                    /\ call' = [call EXCEPT ![c] =
                         [await |-> "governance", id |-> started + 1, request |-> r,
                          under |-> rules, gatedBy |-> FirstEdition,
                          approval |-> NoApproval, caches |-> FALSE]]
BY DEF Start, In, Busy, Statuses

LEMMA StartTypes ==
  ASSUME TInv, NEW c \in Calls, Start(c)
  PROVE  TInv'
<1>1. /\ started + 1 \in 1 .. MaxCalls /\ started' \in 0 .. MaxCalls
      /\ rules \in Editions
  BY StartOutcome, ToolshedAssumption DEF TInv, TypeOK
<1>2. audit' \subseteq [id : 1 .. MaxCalls, status : Statuses]
  BY <1>1, StartOutcome DEF TInv, TypeOK
<1>3. call' \in [Calls -> CallRecords] /\ \A d \in Calls : CallOK(d)'
  <2>1. CASE UNCHANGED call
    BY <2>1 DEF TInv, TypeOK, CallOK, Busy
  <2>2. ASSUME NEW r \in Requests,
               call' = [call EXCEPT ![c] =
                 [await |-> "governance", id |-> started + 1, request |-> r,
                  under |-> rules, gatedBy |-> FirstEdition,
                  approval |-> NoApproval, caches |-> FALSE]]
        PROVE  call' \in [Calls -> CallRecords] /\ \A d \in Calls : CallOK(d)'
    <3> DEFINE k == [await |-> "governance", id |-> started + 1, request |-> r,
                     under |-> rules, gatedBy |-> FirstEdition,
                     approval |-> NoApproval, caches |-> FALSE]
    <3>1. k \in CallRecords /\ k.await # "none" /\ k.request \in Requests
          /\ k.id \in 1 .. MaxCalls
      BY <1>1, ToolshedAssumption DEF CallRecords, Awaits, NoApproval
    <3>2. call' = [call EXCEPT ![c] = k] BY <2>2
    <3> HIDE DEF k
    <3> QED BY <3>1, <3>2, CallsKept
  <2> QED BY <2>1, <2>2, StartOutcome
<1> QED
  BY <1>1, <1>2, <1>3, StartOutcome DEF TInv, TypeOK, rulesVars, storeVars, historyVars

\* A decision changes one approval's decision and nothing else of it.
LEMMA ResolveOutcome ==
  ASSUME TInv, NEW r \in Requests, NEW i \in 1 .. MaxCalls,
         NEW d \in {"approved", "denied"}, ResolveApproval(r, i, d)
  PROVE  /\ approvals' \in [Requests -> Seq(Approval)]
         /\ \A q \in Requests :
              /\ DOMAIN approvals'[q] = DOMAIN approvals[q]
              /\ \A n \in DOMAIN approvals[q] :
                   /\ approvals'[q][n].consumed = approvals[q][n].consumed
                   /\ approvals'[q][n].spentAt = approvals[q][n].spentAt
                   /\ approvals'[q][n].timeoutAt = approvals[q][n].timeoutAt
<1> DEFINE list == approvals[r]
           b == [list[i] EXCEPT !.decision = d]
           after == [list EXCEPT ![i] = b]
<1>1. list \in Seq(Approval) /\ i \in DOMAIN list
  BY DEF TInv, TypeOK, ResolveApproval
<1>2. list[i] \in Approval BY <1>1
<1>3. /\ b \in Approval /\ b.consumed = list[i].consumed /\ b.spentAt = list[i].spentAt
      /\ b.timeoutAt = list[i].timeoutAt
  BY <1>2 DEF Approval
<1>4. approvals' = [approvals EXCEPT ![r] = after]
  BY DEF ResolveApproval
<1> HIDE DEF b
<1>5. after \in Seq(Approval) /\ DOMAIN after = DOMAIN list
  BY <1>1, <1>3
<1>6. \A n \in DOMAIN list : after[n] = IF n = i THEN b ELSE list[n]
  BY <1>1
<1> HIDE DEF after
<1>7. approvals \in [Requests -> Seq(Approval)] BY DEF TInv, TypeOK
<1>8. approvals' \in [Requests -> Seq(Approval)]
  BY <1>4, <1>5, <1>7
<1>9. \A q \in Requests : approvals'[q] = IF q = r THEN after ELSE approvals[q]
  BY <1>4, <1>7
<1> QED BY <1>3, <1>5, <1>6, <1>8, <1>9

\* The steps of the environment leave calls, trail and downstream alone.
Environment ==
  \/ Tick \/ PerformReload \/ \E e \in Editions : EditRules(e)
  \/ \E r \in Requests, d \in {"approved", "denied"}, i \in 1 .. MaxCalls :
       ResolveApproval(r, i, d)

LEMMA EnvironmentTypes ==
  ASSUME TInv, Environment \/ UNCHANGED vars
  PROVE  /\ TInv'
         /\ UNCHANGED <<call, breaker, audit, started, historyVars>>
<1>1. UNCHANGED <<call, breaker, audit, started, historyVars>>
  BY DEF Environment, Tick, PerformReload, EditRules, ResolveApproval, vars
<1>2. UNCHANGED cache
  BY DEF Environment, Tick, PerformReload, EditRules, ResolveApproval, vars, storeVars
<1>3. approvals' \in [Requests -> Seq(Approval)] /\ decisions' \in 0 .. MaxDecisions
  <2>1. ASSUME NEW r \in Requests, NEW d \in {"approved", "denied"},
               NEW i \in 1 .. MaxCalls, ResolveApproval(r, i, d)
        PROVE  approvals' \in [Requests -> Seq(Approval)] /\ decisions' \in 0 .. MaxDecisions
    <3>1. decisions' \in 0 .. MaxDecisions
      BY <2>1, ToolshedAssumption DEF ResolveApproval, TInv, TypeOK
    <3> QED BY <2>1, <3>1, ResolveOutcome
  <2>2. CASE UNCHANGED <<approvals, decisions>>
    BY <2>2 DEF TInv, TypeOK
  <2> QED
    BY <2>1, <2>2 DEF Environment, Tick, PerformReload, EditRules, vars, storeVars
<1>4. clock' \in 0 .. MaxClock
  <2>1. CASE Tick
    BY <2>1, ToolshedAssumption DEF Tick, TInv, TypeOK
  <2>2. CASE UNCHANGED clock
    BY <2>2 DEF TInv, TypeOK
  <2> QED
    BY <2>1, <2>2 DEF Environment, PerformReload, EditRules, ResolveApproval, vars
<1>5. /\ rules' \in Editions /\ disk' \in Editions /\ reload' \in BOOLEAN
      /\ edits' \in 0 .. MaxEdits
  <2>1. CASE UNCHANGED rulesVars
    BY <2>1 DEF rulesVars, TInv, TypeOK
  <2>2. CASE PerformReload
    BY <2>2 DEF PerformReload, TInv, TypeOK
  <2>3. ASSUME NEW e \in Editions, EditRules(e)
        PROVE  /\ rules' \in Editions /\ disk' \in Editions /\ reload' \in BOOLEAN
               /\ edits' \in 0 .. MaxEdits
    BY <2>3, ToolshedAssumption DEF EditRules, TInv, TypeOK
  <2> QED BY <2>1, <2>2, <2>3 DEF Environment, Tick, ResolveApproval, vars
<1> QED
  BY <1>1, <1>2, <1>3, <1>4, <1>5 DEF TInv, TypeOK, CallOK, Busy, historyVars

\* Every step of the specification is one of three kinds.
LEMMA StepKinds ==
  ASSUME [Next]_vars
  PROVE  \/ \E c \in Calls : Start(c) \/ CallStep(c)
         \/ Environment \/ UNCHANGED vars
BY DEF Next, Environment

LEMMA TInit == Init => TInv
<1> SUFFICES ASSUME Init PROVE TInv
  OBVIOUS
<1>1. NoCall \in CallRecords /\ NoCall.await = "none"
  BY NoCallType DEF NoCall
<1>2. <<>> \in Seq(Approval)
  BY EmptySeq
<1>3. approvals \in [Requests -> Seq(Approval)]
  BY <1>2 DEF Init
<1>4. call \in [Calls -> CallRecords] /\ \A c \in Calls : CallOK(c)
  BY <1>1 DEF Init, CallOK, Busy
<1>5. breaker \in [Servers -> Breakers]
  BY FreshBreakerType DEF Init
<1>6. /\ cache \in [Requests -> Nat \cup {NotCached}] /\ faults \in [Servers -> Nat]
  BY DEF Init
<1>8. /\ audit \subseteq [id : 1 .. MaxCalls, status : Statuses]
      /\ performed \subseteq
           [id : 1 .. MaxCalls, request : Requests, under : Editions,
            gatedBy : Editions, approval : Nat]
      /\ rejected \subseteq 1 .. MaxCalls
  BY DEF Init
<1>7. /\ clock \in 0 .. MaxClock /\ started \in 0 .. MaxCalls
      /\ decisions \in 0 .. MaxDecisions /\ edits \in 0 .. MaxEdits
  <2>1. /\ MaxClock \in Nat /\ MaxCalls \in Nat /\ MaxDecisions \in Nat /\ MaxEdits \in Nat
    BY ToolshedAssumption
  <2>2. clock = 0 /\ started = 0 /\ decisions = 0 /\ edits = 0
    BY DEF Init
  <2> QED BY <2>1, <2>2
<1>9. rules \in Editions /\ disk \in Editions /\ reload \in BOOLEAN
  BY ToolshedAssumption DEF Init
<1> QED
  BY <1>3, <1>4, <1>5, <1>6, <1>7, <1>8, <1>9 DEF TInv, TypeOK

LEMMA TStep == TInv /\ [Next]_vars => TInv'
BY StepKinds, StartTypes, CallStepTypes, EnvironmentTypes

LEMMA TypeInvariant == Spec => []TInv
BY TInit, TStep, PTL DEF Spec

\* The shape of the toolshed's state.
THEOREM TypeCorrect == Spec => []TypeOK
BY TypeInvariant, PTL DEF TInv

-------------------------------------------------------------------------------
(***************************************************************************)
(* Permission: every call under way was permitted by a validated edition,  *)
(* which it still carries.                                                 *)
(***************************************************************************)
PermittedCall(c) ==
  Busy(c) => Valid(call[c].under) /\ Permitted(call[c].under, call[c].request)

PermitInv ==
  /\ Valid(rules)
  /\ \A c \in Calls : PermittedCall(c)
  /\ \A p \in performed :
       Permitted(p.under, p.request) /\ ToolPair(p.request) \in Registry

\* Whom a validated edition permits a tool, to him it grants a registered one.
LEMMA PermittedIsRegistered ==
  ASSUME NEW e \in Editions, NEW r \in Requests, Valid(e), Permitted(e, r)
  PROVE  ToolPair(r) \in Registry
BY DEF Valid, GrantsRegistered, Permitted, IsToolAllowed

LEMMA CallPermits ==
  ASSUME TInv, PermitInv, NEW c \in Calls, CallStep(c)
  PROVE  PermitInv'
<1>1. /\ Busy(c) /\ (GoesOn(c) \/ Answered(c) \/ Lost(c)) /\ Pays(c)
      /\ UNCHANGED rules
  BY CallOutcomes DEF rulesVars
<1>2. ASSUME NEW d \in Calls PROVE PermittedCall(d)'
  <2>1. CASE d # c
    <3>1. call'[d] = call[d]
      BY <1>1, <2>1 DEF GoesOn, Answered, Lost, TInv, TypeOK
    <3> QED BY <3>1 DEF PermitInv, PermittedCall, Busy
  <2>2. CASE d = c /\ GoesOn(c)
    <3>1. call'[c].under = call[c].under /\ call'[c].request = call[c].request
      BY <2>2 DEF GoesOn, TInv, TypeOK
    <3> QED BY <1>1, <2>2, <3>1 DEF PermitInv, PermittedCall, Busy
  <2>3. CASE d = c /\ (Answered(c) \/ Lost(c))
    <3>1. call'[c] = NoCall
      BY <2>3 DEF Answered, Lost, TInv, TypeOK
    <3> QED BY <2>3, <3>1 DEF PermittedCall, Busy, NoCall
  <2> QED BY <1>1, <2>1, <2>2, <2>3
<1>3. ASSUME NEW p \in performed'
      PROVE  Permitted(p.under, p.request) /\ ToolPair(p.request) \in Registry
  <2>1. CASE p \in performed
    BY <2>1 DEF PermitInv
  <2>2. CASE p \notin performed
    <3>1. p.request = call[c].request /\ p.under = call[c].under
      BY <1>1, <1>3, <2>2 DEF Pays, PerformsNothing, Performed
    <3>2. call[c].request \in Requests /\ call[c].under \in Editions
      BY <1>1 DEF TInv, CallOK, TypeOK, CallRecords
    <3>3. Valid(call[c].under) /\ Permitted(call[c].under, call[c].request)
      BY <1>1 DEF PermitInv, PermittedCall
    <3> QED BY <3>1, <3>2, <3>3, PermittedIsRegistered
  <2> QED BY <2>1, <2>2
<1> QED BY <1>1, <1>2, <1>3 DEF PermitInv

LEMMA StartPermits ==
  ASSUME TInv, PermitInv, NEW c \in Calls, Start(c)
  PROVE  PermitInv'
<1>1. UNCHANGED <<rules, performed>>
  BY StartOutcome DEF rulesVars, historyVars
<1>2. ASSUME NEW d \in Calls PROVE PermittedCall(d)'
  <2>1. CASE call'[d] = call[d]
    BY <2>1 DEF PermitInv, PermittedCall, Busy
  <2>2. CASE call'[d] # call[d]
    <3>1. PICK r \in Requests :
            /\ Permitted(rules, r)
            /\ call' = [call EXCEPT ![c] =
                 [await |-> "governance", id |-> started + 1, request |-> r,
                  under |-> rules, gatedBy |-> FirstEdition,
                  approval |-> NoApproval, caches |-> FALSE]]
      BY <2>2, StartOutcome
    <3>2. call'[d].under = rules /\ call'[d].request = r
      BY <2>2, <3>1 DEF TInv, TypeOK
    <3> QED BY <3>1, <3>2 DEF PermitInv, PermittedCall
  <2> QED BY <2>1, <2>2
<1> QED BY <1>1, <1>2 DEF PermitInv

LEMMA EnvironmentPermits ==
  ASSUME TInv, PermitInv, Environment \/ UNCHANGED vars
  PROVE  PermitInv'
<1>1. UNCHANGED <<call, performed>>
  BY EnvironmentTypes DEF historyVars
<1>2. Valid(rules')
  BY DEF PermitInv, Environment, Tick, PerformReload, EditRules, ResolveApproval, vars,
         rulesVars
<1> QED BY <1>1, <1>2 DEF PermitInv, PermittedCall, Busy

LEMMA PermitInvariant == Spec => []PermitInv
<1>1. Init => PermitInv
  BY ToolshedAssumption DEF Init, PermitInv, PermittedCall, Busy, NoCall
<1>2. TInv /\ PermitInv /\ [Next]_vars => PermitInv'
  BY StepKinds, StartPermits, CallPermits, EnvironmentPermits
<1> QED BY <1>1, <1>2, TypeInvariant, PTL DEF Spec

\* No downstream call that the allowlists in force at its start did not permit,
\* nor of a tool in no server's registry, whatever the rules files go through
\* (hot-reload.ts:152-170, toolshed.ts:464-485).
THEOREM PermittedOnly == Spec => []PermittedWhenStarted
<1>1. PermitInv => PermittedWhenStarted
  BY DEF PermitInv, PermittedWhenStarted, Valid
<1> QED BY <1>1, PermitInvariant, PTL

-------------------------------------------------------------------------------
(***************************************************************************)
(* The trail: a call has its number to itself, and until it ends, no row.  *)
(***************************************************************************)
AuditInv ==
  /\ AuditTrail
  /\ \A c \in Calls : Busy(c) => call[c].id \in 1 .. started
  /\ \A c, d \in Calls : Busy(c) /\ Busy(d) /\ call[c].id = call[d].id => c = d
  /\ \A x \in audit : x.id \in 1 .. started

LEMMA CallAudits ==
  ASSUME TInv, AuditInv, NEW c \in Calls, CallStep(c)
  PROVE  AuditInv'
<1> DEFINE id == call[c].id
<1>1. /\ Busy(c) /\ (GoesOn(c) \/ Answered(c) \/ Lost(c))
      /\ UNCHANGED started
  BY CallOutcomes
<1>2. id \in 1 .. started /\ started \in Nat /\ \A x \in audit : x.id # id
  BY <1>1, ToolshedAssumption DEF AuditInv, AuditTrail, TInv, TypeOK
<1>3. \A d \in Calls : d # c => call'[d] = call[d]
  BY <1>1 DEF GoesOn, Answered, Lost, TInv, TypeOK
<1>4. \A d \in Calls : d # c => call[d].id # id
  BY <1>1, <1>2 DEF AuditInv, TInv, CallOK, Busy, NoCall
<1>5. CASE GoesOn(c)
  <2>1. /\ call'[c].id = id /\ call'[c].await # "none"
        /\ UNCHANGED <<audit, rejected>>
    BY <1>5 DEF GoesOn, TInv, TypeOK
  <2>2. AuditTrail'
    BY <1>1, <1>3, <2>1 DEF AuditInv, AuditTrail
  <2> QED BY <1>1, <1>3, <2>1, <2>2 DEF AuditInv, Busy
<1>6. CASE Answered(c) \/ Lost(c)
  <2>1. call'[c] = NoCall /\ NoCall.id = 0 /\ NoCall.await = "none"
    BY <1>6 DEF Answered, Lost, TInv, TypeOK, NoCall
  <2>2. CASE Answered(c)
    <3>1. PICK status \in Statuses : audit' = audit \cup {[id |-> id, status |-> status]}
      BY <2>2 DEF Answered
    <3>2. \A x, y \in audit' : x.id = y.id => x = y
      BY <1>2, <3>1 DEF AuditInv, AuditTrail
    <3>3. \A n \in 1 .. started' :
            \/ \E d \in Calls : call'[d].id = n
            \/ \E x \in audit' : x.id = n
            \/ n \in rejected'
      <4> SUFFICES ASSUME NEW n \in 1 .. started, n # id
                   PROVE  \/ \E d \in Calls : call'[d].id = n
                          \/ \E x \in audit' : x.id = n
                          \/ n \in rejected'
        BY <1>1, <3>1
      <4> QED BY <1>3, <2>2, <3>1 DEF AuditInv, AuditTrail, Answered
    <3>4. \A d \in Calls : \A x \in audit' : x.id # call'[d].id
      BY <1>2, <1>3, <1>4, <2>1, <3>1 DEF AuditInv, AuditTrail
    <3>5. \A x \in audit' : x.id \in 1 .. started'
      BY <1>1, <1>2, <3>1 DEF AuditInv
    <3>6. AuditTrail'
      BY <2>2, <3>2, <3>3, <3>4 DEF AuditInv, AuditTrail, Answered
    <3> QED BY <1>1, <1>3, <2>1, <3>5, <3>6 DEF AuditInv, Busy
  <2>3. CASE Lost(c)
    <3>1. RemoteState /\ rejected' = rejected \cup {id} /\ audit' = audit
      BY <2>3 DEF Lost
    <3>2. \A n \in 1 .. started' :
            \/ \E d \in Calls : call'[d].id = n
            \/ \E x \in audit' : x.id = n
            \/ n \in rejected'
      <4> SUFFICES ASSUME NEW n \in 1 .. started, n # id
                   PROVE  \/ \E d \in Calls : call'[d].id = n
                          \/ \E x \in audit' : x.id = n
                          \/ n \in rejected'
        BY <1>1, <3>1
      <4> QED BY <1>3, <3>1 DEF AuditInv, AuditTrail
    <3>3. \A d \in Calls : \A x \in audit' : x.id # call'[d].id
      BY <1>2, <1>3, <2>1, <3>1 DEF AuditInv, AuditTrail
    <3>4. AuditTrail'
      BY <3>1, <3>2, <3>3 DEF AuditInv, AuditTrail
    <3> QED BY <1>1, <1>3, <2>1, <3>1, <3>4 DEF AuditInv, Busy
  <2> QED BY <1>6, <2>2, <2>3
<1> QED BY <1>1, <1>5, <1>6

LEMMA StartAudits ==
  ASSUME TInv, AuditInv, NEW c \in Calls, Start(c)
  PROVE  AuditInv'
<1> DEFINE id == started + 1
<1>1. ~Busy(c) /\ started' = id /\ UNCHANGED rejected /\ started \in Nat
  BY StartOutcome, ToolshedAssumption DEF historyVars, TInv, TypeOK
<1>2. 1 .. started' = (1 .. started) \cup {id} /\ id \notin 1 .. started
  BY <1>1
<1>3. \A d \in Calls : call[d].id # id /\ (Busy(d) => call[d].id \in 1 .. started)
  BY <1>1, <1>2 DEF AuditInv, TInv, CallOK, NoCall
<1>4. CASE /\ UNCHANGED call
           /\ \E status \in Statuses : audit' = audit \cup {[id |-> id, status |-> status]}
  <2>1. PICK status \in Statuses : audit' = audit \cup {[id |-> id, status |-> status]}
    BY <1>4
  <2>2. \A x \in audit : x.id # id
    BY <1>2 DEF AuditInv
  <2>3. \A x, y \in audit' : x.id = y.id => x = y
    BY <2>1, <2>2 DEF AuditInv, AuditTrail
  <2>4. \A n \in 1 .. started' :
          \/ \E d \in Calls : call'[d].id = n
          \/ \E x \in audit' : x.id = n
          \/ n \in rejected'
    <3>1. \E x \in audit' : x.id = id
      <4>1. [id |-> id, status |-> status] \in audit' /\ [id |-> id, status |-> status].id = id
        BY <2>1
      <4> QED BY <4>1
    <3>2. ASSUME NEW n \in 1 .. started
          PROVE  \/ \E d \in Calls : call'[d].id = n
                 \/ \E x \in audit' : x.id = n
                 \/ n \in rejected'
      BY <1>1, <1>4, <2>1, <3>2 DEF AuditInv, AuditTrail
    <3> QED BY <1>2, <3>1, <3>2
  <2>5. \A d \in Calls : \A x \in audit' : x.id # call'[d].id
    BY <1>3, <1>4, <2>1 DEF AuditInv, AuditTrail
  <2>6. AuditTrail'
    BY <1>1, <2>3, <2>4, <2>5 DEF AuditInv, AuditTrail
  <2>7. \A x \in audit' : x.id \in 1 .. started'
    BY <1>2, <2>1 DEF AuditInv
  <2> QED BY <1>2, <1>3, <1>4, <2>6, <2>7 DEF AuditInv, Busy
<1>5. ASSUME NEW r \in Requests, UNCHANGED audit,
             call' = [call EXCEPT ![c] =
               [await |-> "governance", id |-> id, request |-> r,
                under |-> rules, gatedBy |-> FirstEdition,
                approval |-> NoApproval, caches |-> FALSE]]
      PROVE  AuditInv'
  <2>1. call'[c].id = id /\ \A d \in Calls : d # c => call'[d] = call[d]
    BY <1>5 DEF TInv, TypeOK
  <2>2. \A x \in audit : x.id # id /\ x.id \in 1 .. started'
    BY <1>2 DEF AuditInv
  <2>3. AuditTrail'
    <3>1. \A n \in 1 .. started' :
            \/ \E d \in Calls : call'[d].id = n
            \/ \E x \in audit' : x.id = n
            \/ n \in rejected'
      <4> SUFFICES ASSUME NEW n \in 1 .. started
                   PROVE  \/ \E d \in Calls : call'[d].id = n
                          \/ \E x \in audit' : x.id = n
                          \/ n \in rejected'
        BY <1>2, <2>1
      <4>1. ASSUME NEW d \in Calls, call[d].id = n PROVE call'[d].id = n
        <5>1. call[c].id = 0 BY <1>1 DEF TInv, CallOK, NoCall
        <5> QED BY <2>1, <4>1, <5>1
      <4> QED BY <1>1, <1>5, <4>1 DEF AuditInv, AuditTrail
    <3>2. \A d \in Calls : \A x \in audit' : x.id # call'[d].id
      BY <1>5, <2>1, <2>2 DEF AuditInv, AuditTrail
    <3> QED BY <1>1, <1>5, <3>1, <3>2 DEF AuditInv, AuditTrail
  <2>4. \A d \in Calls : Busy(d)' => call'[d].id \in 1 .. started'
    BY <1>2, <1>3, <2>1 DEF Busy
  <2>5. \A d, e \in Calls : Busy(d)' /\ Busy(e)' /\ call'[d].id = call'[e].id => d = e
    BY <1>2, <1>3, <2>1 DEF AuditInv, Busy
  <2> QED BY <1>5, <2>2, <2>3, <2>4, <2>5 DEF AuditInv
<1> QED BY <1>4, <1>5, StartOutcome

LEMMA EnvironmentAudits ==
  ASSUME TInv, AuditInv, Environment \/ UNCHANGED vars
  PROVE  AuditInv'
BY EnvironmentTypes DEF AuditInv, AuditTrail, Busy, historyVars

LEMMA AuditInvariant == Spec => []AuditInv
<1>1. Init => AuditInv
  <2> SUFFICES ASSUME Init PROVE AuditInv
    OBVIOUS
  <2>1. /\ audit = {} /\ started = 0 /\ rejected = {}
        /\ \A c \in Calls : call[c].id = 0 /\ ~Busy(c)
    BY DEF Init, Busy, NoCall
  <2> QED BY <2>1 DEF AuditInv, AuditTrail
<1>2. TInv /\ AuditInv /\ [Next]_vars => AuditInv'
  BY StepKinds, StartAudits, CallAudits, EnvironmentAudits
<1> QED BY <1>1, <1>2, TypeInvariant, PTL DEF Spec

\* Every call leaves exactly one row, unless the remote governance state
\* rejected one of its operations (toolshed.ts:247-248).
THEOREM TrailIsComplete == Spec => []AuditTrail
BY AuditInvariant, PTL DEF AuditInv

-------------------------------------------------------------------------------
(***************************************************************************)
(* Payment: an approval that a downstream call names was spent for it, in  *)
(* time, and for nothing else.                                             *)
(***************************************************************************)
Settled(r, n) ==
  /\ n \in DOMAIN approvals[r]
  /\ approvals[r][n].consumed
  /\ approvals[r][n].spentAt <= approvals[r][n].timeoutAt

PayInv ==
  \A p \in performed :
    /\ IsDestructive(p.gatedBy, p.request) => p.approval # NoApproval
    /\ p.approval # NoApproval =>
         /\ Settled(p.request, p.approval)
         /\ \A q \in performed :
              q.request = p.request /\ q.approval = p.approval => q = p

\* What is settled stays so.
LEMMA StaysSettled ==
  ASSUME TInv, NEW c \in Calls, Busy(c), Pays(c),
         NEW r \in Requests, NEW n, Settled(r, n)
  PROVE  Settled(r, n)'
<1> DEFINE own == call[c].request
<1>1. /\ own \in Requests /\ approvals[own] \in Seq(Approval)
      /\ approvals[r] \in Seq(Approval) /\ n \in DOMAIN approvals[r]
  BY DEF TInv, CallOK, TypeOK, Settled
<1>2. CASE UNCHANGED approvals
  BY <1>2 DEF Settled
<1>3. CASE Appended(c)
  <2>1. approvals'[r] = IF r = own THEN Append(approvals[r], Fresh) ELSE approvals[r]
    BY <1>3 DEF Appended, TInv, TypeOK
  <2>2. n \in DOMAIN approvals'[r] /\ approvals'[r][n] = approvals[r][n]
    BY <1>1, <2>1
  <2> QED BY <2>2 DEF Settled
<1>4. ASSUME NEW k \in Nat, Fees(c, k) PROVE Settled(r, n)'
  <2>1. CASE r # own
    <3>1. approvals'[r] = approvals[r] BY <1>4, <2>1 DEF Fees, TInv, TypeOK
    <3> QED BY <3>1 DEF Settled
  <2>2. CASE r = own
    <3>1. approvals'[r] = Spent(approvals[r], k) /\ n # k
      BY <1>4, <2>2 DEF Fees, TInv, TypeOK, Settled
    <3>2. n \in DOMAIN approvals'[r] /\ approvals'[r][n] = approvals[r][n]
      BY <1>1, <3>1 DEF Spent
    <3> QED BY <3>2 DEF Settled
  <2> QED BY <2>1, <2>2
<1> QED BY <1>2, <1>3, <1>4 DEF Pays

\* What is paid with is settled by the payment, and was not before.
LEMMA PaymentSettles ==
  ASSUME TInv, NEW c \in Calls, Busy(c), NEW n \in Nat, Fees(c, n),
         NEW r, r = call[c].request
  PROVE  /\ Settled(r, n)'
         /\ ~Settled(r, n)
         /\ n # NoApproval
<1>1. /\ r \in Requests /\ approvals[r] \in Seq(Approval) /\ n \in DOMAIN approvals[r]
      /\ ~approvals[r][n].consumed /\ ~TimedOut(approvals[r][n])
  BY DEF TInv, CallOK, TypeOK, Fees
<1>2. approvals'[r] = Spent(approvals[r], n)
  BY <1>1 DEF Fees, TInv, TypeOK
<1>3. /\ n \in DOMAIN approvals'[r]
      /\ approvals'[r][n] = [decision |-> approvals[r][n].decision, consumed |-> TRUE,
                             timeoutAt |-> approvals[r][n].timeoutAt, spentAt |-> clock]
  BY <1>1, <1>2 DEF Spent
<1>4. approvals[r][n].timeoutAt \in Nat /\ clock \in Nat
  <2>1. approvals[r][n] \in Approval
    BY <1>1
  <2> QED BY <2>1, ToolshedAssumption DEF TInv, TypeOK, Approval
<1>5. clock <= approvals[r][n].timeoutAt
  BY <1>1, <1>4 DEF TimedOut
<1>6. n # NoApproval
  <2>1. DOMAIN approvals[r] = 1 .. Len(approvals[r])
    BY <1>1
  <2> QED BY <1>1, <2>1 DEF NoApproval
<1> QED BY <1>1, <1>3, <1>5, <1>6 DEF Settled

LEMMA CallPays ==
  ASSUME TInv, PayInv, NEW c \in Calls, CallStep(c)
  PROVE  PayInv'
<1>1. Busy(c) /\ Pays(c)
  BY CallOutcomes
<1> DEFINE new(n) == [id |-> call[c].id, request |-> call[c].request,
                      under |-> call[c].under, gatedBy |-> rules, approval |-> n]
<1>2. \A p \in performed : p.approval # NoApproval => Settled(p.request, p.approval)'
  <2> SUFFICES ASSUME NEW p \in performed, p.approval # NoApproval
               PROVE  Settled(p.request, p.approval)'
    OBVIOUS
  <2>1. p.request \in Requests /\ Settled(p.request, p.approval)
    BY DEF PayInv, TInv, TypeOK
  <2> QED BY <1>1, <2>1, StaysSettled
<1>3. CASE UNCHANGED performed
  BY <1>2, <1>3 DEF PayInv
<1>4. CASE ~IsDestructive(rules, call[c].request) /\ performed' = performed \cup {new(NoApproval)}
  BY <1>2, <1>4 DEF PayInv
<1>5. ASSUME NEW n \in Nat, Fees(c, n), performed' = performed \cup {new(n)}
      PROVE  PayInv'
  <2>1. PICK r : r = call[c].request
    OBVIOUS
  <2>2. Settled(r, n)' /\ ~Settled(r, n) /\ n # NoApproval
    BY <1>1, <1>5, <2>1, PaymentSettles
  <2>3. \A p \in performed : p.request = r => p.approval # n
    BY <2>2 DEF PayInv
  <2>4. new(n).request = r /\ new(n).approval = n
    BY <2>1
  <2> HIDE DEF new
  <2>5. ASSUME NEW p \in performed', p.approval # NoApproval
        PROVE  /\ Settled(p.request, p.approval)'
               /\ \A q \in performed' :
                    q.request = p.request /\ q.approval = p.approval => q = p
    <3>1. CASE p = new(n)
      BY <1>5, <2>2, <2>3, <2>4, <3>1
    <3>2. CASE p \in performed
      <4>1. Settled(p.request, p.approval)'
        BY <1>2, <2>5, <3>2
      <4>2. ~(new(n).request = p.request /\ new(n).approval = p.approval)
        BY <2>3, <2>4, <3>2
      <4> QED BY <1>5, <2>5, <3>2, <4>1, <4>2 DEF PayInv
    <3> QED BY <1>5, <2>5, <3>1, <3>2
  <2>6. ASSUME NEW p \in performed', IsDestructive(p.gatedBy, p.request)
        PROVE  p.approval # NoApproval
    BY <1>5, <2>2, <2>4, <2>6 DEF PayInv
  <2> QED BY <2>5, <2>6 DEF PayInv
<1> QED BY <1>1, <1>3, <1>4, <1>5 DEF Pays, PerformsNothing, Performed

LEMMA EnvironmentPays ==
  ASSUME TInv, PayInv, Environment \/ UNCHANGED vars
  PROVE  PayInv'
<1>1. UNCHANGED performed
  BY EnvironmentTypes DEF historyVars
<1>2. ASSUME NEW r \in Requests, NEW n, Settled(r, n) PROVE Settled(r, n)'
  <2>1. CASE UNCHANGED approvals
    BY <1>2, <2>1 DEF Settled
  <2>2. ASSUME NEW q \in Requests, NEW i \in 1 .. MaxCalls,
               NEW d \in {"approved", "denied"}, ResolveApproval(q, i, d)
        PROVE  Settled(r, n)'
    BY <1>2, <2>2, ResolveOutcome DEF Settled
  <2> QED
    BY <2>1, <2>2 DEF Environment, Tick, PerformReload, EditRules, vars, storeVars
<1>3. \A p \in performed : p.request \in Requests
  BY DEF TInv, TypeOK
<1> QED BY <1>1, <1>2, <1>3 DEF PayInv

LEMMA StartPays ==
  ASSUME TInv, PayInv, NEW c \in Calls, Start(c)
  PROVE  PayInv'
BY StartOutcome DEF PayInv, Settled, storeVars, historyVars

LEMMA PayInvariant == Spec => []PayInv
<1>1. Init => PayInv
  BY DEF Init, PayInv
<1>2. TInv /\ PayInv /\ [Next]_vars => PayInv'
  BY StepKinds, StartPays, CallPays, EnvironmentPays
<1> QED BY <1>1, <1>2, TypeInvariant, PTL DEF Spec

\* Every downstream call that the rules called destructive was paid for by an
\* approval of that very request that had not timed out, and no approval pays
\* twice (toolshed.ts:580-590).
THEOREM ApprovalsPayOnce == Spec => []ApprovalPaysOnce
<1>1. TInv /\ PayInv => ApprovalPaysOnce
  <2> SUFFICES ASSUME TInv, PayInv, NEW p \in performed,
                      IsDestructive(p.gatedBy, p.request)
               PROVE  /\ p.approval \in 1 .. Len(approvals[p.request])
                      /\ LET a == approvals[p.request][p.approval]
                         IN  a.consumed /\ a.spentAt <= a.timeoutAt
                      /\ \A q \in performed :
                           q.request = p.request /\ q.approval = p.approval => q = p
    BY DEF ApprovalPaysOnce
  <2>1. p.request \in Requests /\ approvals[p.request] \in Seq(Approval)
    BY DEF TInv, TypeOK
  <2>2. DOMAIN approvals[p.request] = 1 .. Len(approvals[p.request])
    BY <2>1
  <2> QED BY <2>2 DEF PayInv, Settled
<1> QED BY <1>1, TypeInvariant, PayInvariant, PTL
-------------------------------------------------------------------------------
(***************************************************************************)
(* Asking: what is created last times out last, and a request is asked for *)
(* anew only behind one that was spent.                                    *)
(***************************************************************************)
\* The first of its instant, which the gate takes for it.
Leads(list, i) ==
  \A k \in DOMAIN list : list[k].timeoutAt = list[i].timeoutAt => i <= k

AskedInOrder(list) ==
  \A i, j \in DOMAIN list :
    list[i].timeoutAt < list[j].timeoutAt /\ Leads(list, i) => list[i].consumed

AskInv ==
  \A r \in Requests :
    /\ AskedInOrder(approvals[r])
    /\ \A n \in DOMAIN approvals[r] : approvals[r][n].timeoutAt <= clock + ApprovalTimeout

\* A list whose approvals keep their time, and their consumption, stays in order.
LEMMA KeepsOrder ==
  ASSUME NEW list \in Seq(Approval), NEW after \in Seq(Approval), AskedInOrder(list),
         DOMAIN after = DOMAIN list,
         \A n \in DOMAIN list :
           /\ after[n].timeoutAt = list[n].timeoutAt
           /\ list[n].consumed => after[n].consumed
  PROVE  AskedInOrder(after)
BY DEF AskedInOrder, Leads

\* A fresh approval is put behind others only if the newest of them was spent:
\* one that leads its instant is the newest, or has been followed before.
LEMMA AppendKeepsOrder ==
  ASSUME TInv, AskInv, NEW r \in Requests,
         \A n \in DOMAIN approvals[r] : IsNewest(approvals[r], n) => Used(approvals[r][n])
  PROVE  AskedInOrder(Append(approvals[r], Fresh))
<1> DEFINE list == approvals[r]
           after == Append(list, Fresh)
<1>1. list \in Seq(Approval) /\ Fresh \in Approval
  BY FreshType DEF TInv, TypeOK
<1>2. /\ DOMAIN list = 1 .. Len(list) /\ DOMAIN after = 1 .. (Len(list) + 1)
      /\ after[Len(list) + 1] = Fresh /\ Len(list) \in Nat
      /\ \A n \in DOMAIN list : after[n] = list[n]
  BY <1>1
<1>3. \A n \in DOMAIN list :
        list[n].timeoutAt \in Nat /\ list[n].timeoutAt <= Fresh.timeoutAt
  <2> SUFFICES ASSUME NEW n \in DOMAIN list
               PROVE  list[n].timeoutAt \in Nat /\ list[n].timeoutAt <= Fresh.timeoutAt
    OBVIOUS
  <2>1. list[n] \in Approval
    BY <1>1
  <2>2. list[n].timeoutAt <= clock + ApprovalTimeout
    BY DEF AskInv
  <2>3. Fresh.timeoutAt = clock + ApprovalTimeout
    BY DEF Fresh
  <2> QED BY <2>1, <2>2, <2>3 DEF Approval
<1>4. Fresh.timeoutAt \in Nat
  BY <1>1 DEF Approval
<1>5. AskedInOrder(list) /\ \A n \in DOMAIN list : IsNewest(list, n) => Used(list[n])
  BY DEF AskInv
<1> HIDE DEF list, after
<1> SUFFICES ASSUME NEW i \in DOMAIN after, NEW j \in DOMAIN after,
                    after[i].timeoutAt < after[j].timeoutAt, Leads(after, i)
             PROVE  after[i].consumed
  BY DEF AskedInOrder, after, list
<1>6. i \in DOMAIN list /\ after[i] = list[i]
  <2>1. \A n \in DOMAIN after : after[n].timeoutAt <= Fresh.timeoutAt
    BY <1>2, <1>3, <1>4
  <2>2. i # Len(list) + 1
    <3>1. \A n \in DOMAIN after : after[n].timeoutAt \in Nat
      BY <1>2, <1>3, <1>4
    <3> QED BY <1>2, <1>4, <2>1, <3>1
  <2> QED BY <1>2, <2>2
<1>7. Leads(list, i)
  BY <1>2, <1>6 DEF Leads
<1>8. CASE \E k \in DOMAIN list : list[i].timeoutAt < list[k].timeoutAt
  BY <1>5, <1>6, <1>7, <1>8 DEF AskedInOrder
<1>9. CASE \A k \in DOMAIN list : ~(list[i].timeoutAt < list[k].timeoutAt)
  <2>1. IsNewest(list, i)
    BY <1>3, <1>6, <1>7, <1>9 DEF IsNewest, Leads
  <2> QED BY <1>5, <1>6, <2>1 DEF Used
<1> QED BY <1>8, <1>9

LEMMA CallAsks ==
  ASSUME TInv, AskInv, NEW c \in Calls, CallStep(c)
  PROVE  AskInv'
<1> DEFINE own == call[c].request
<1>1. Busy(c) /\ Pays(c) /\ UNCHANGED clock
  BY CallOutcomes
<1>2. own \in Requests /\ approvals \in [Requests -> Seq(Approval)]
  BY <1>1 DEF TInv, CallOK, TypeOK
<1>3. approvals' \in [Requests -> Seq(Approval)]
  BY <1>1, PaymentTypes
<1>4. CASE UNCHANGED approvals
  BY <1>1, <1>4 DEF AskInv
<1>5. ASSUME Appended(c), NEW r \in Requests
      PROVE  /\ AskedInOrder(approvals'[r])
             /\ \A n \in DOMAIN approvals'[r] :
                  approvals'[r][n].timeoutAt <= clock + ApprovalTimeout
  <2>1. CASE r # own
    <3>1. approvals'[r] = approvals[r] BY <1>2, <1>5, <2>1 DEF Appended
    <3> QED BY <3>1 DEF AskInv
  <2>2. CASE r = own
    <3>1. approvals'[r] = Append(approvals[r], Fresh)
      BY <1>2, <1>5, <2>2 DEF Appended
    <3>2. AskedInOrder(approvals'[r])
      BY <1>2, <1>5, <2>2, <3>1, AppendKeepsOrder DEF Appended
    <3>3. ASSUME NEW n \in DOMAIN approvals'[r]
          PROVE  approvals'[r][n].timeoutAt <= clock + ApprovalTimeout
      <4>1. approvals[r] \in Seq(Approval) /\ clock \in Nat /\ ApprovalTimeout \in Nat
        BY <1>2, ToolshedAssumption DEF TInv, TypeOK
      <4>2. CASE n \in DOMAIN approvals[r]
        <5>1. approvals'[r][n] = approvals[r][n] BY <3>1, <4>1, <4>2
        <5> QED BY <4>2, <5>1 DEF AskInv
      <4>3. CASE n = Len(approvals[r]) + 1
        <5>1. approvals'[r][n] = Fresh BY <3>1, <4>1, <4>3
        <5> QED BY <4>1, <5>1 DEF Fresh
      <4> QED BY <3>1, <3>3, <4>1, <4>2, <4>3
    <3> QED BY <3>2, <3>3
  <2> QED BY <2>1, <2>2
<1>6. ASSUME NEW k \in Nat, Fees(c, k), NEW r \in Requests
      PROVE  /\ DOMAIN approvals'[r] = DOMAIN approvals[r]
             /\ \A n \in DOMAIN approvals[r] :
                  /\ approvals'[r][n].timeoutAt = approvals[r][n].timeoutAt
                  /\ approvals[r][n].consumed => approvals'[r][n].consumed
  <2>1. approvals'[r] = IF r = own THEN Spent(approvals[r], k) ELSE approvals[r]
    BY <1>2, <1>6 DEF Fees
  <2> QED BY <1>2, <2>1 DEF Spent
<1>7. ASSUME NEW k \in Nat, Fees(c, k) PROVE AskInv'
  <2> SUFFICES ASSUME NEW r \in Requests
               PROVE  /\ AskedInOrder(approvals'[r])
                      /\ \A n \in DOMAIN approvals'[r] :
                           approvals'[r][n].timeoutAt <= clock + ApprovalTimeout
    BY <1>1 DEF AskInv
  <2>1. /\ DOMAIN approvals'[r] = DOMAIN approvals[r]
        /\ \A n \in DOMAIN approvals[r] :
             /\ approvals'[r][n].timeoutAt = approvals[r][n].timeoutAt
             /\ approvals[r][n].consumed => approvals'[r][n].consumed
    BY <1>6, <1>7
  <2>2. approvals[r] \in Seq(Approval) /\ approvals'[r] \in Seq(Approval)
    BY <1>2, <1>3
  <2>3. AskedInOrder(approvals'[r])
    BY <2>1, <2>2, KeepsOrder DEF AskInv
  <2> QED BY <2>1, <2>3 DEF AskInv
<1>8. ASSUME Appended(c) PROVE AskInv'
  BY <1>1, <1>5, <1>8 DEF AskInv
<1> QED BY <1>1, <1>4, <1>7, <1>8 DEF Pays

LEMMA EnvironmentAsks ==
  ASSUME TInv, AskInv, Environment \/ UNCHANGED vars
  PROVE  AskInv'
<1>1. /\ clock \in Nat /\ clock' \in Nat /\ clock <= clock' /\ ApprovalTimeout \in Nat
      /\ approvals \in [Requests -> Seq(Approval)]
      /\ approvals' \in [Requests -> Seq(Approval)]
  <2>1. TInv' BY EnvironmentTypes
  <2>2. clock' = clock + 1 \/ UNCHANGED clock
    BY DEF Environment, Tick, PerformReload, EditRules, ResolveApproval, vars
  <2> QED BY <2>1, <2>2, ToolshedAssumption DEF TInv, TypeOK
<1>2. ASSUME NEW r \in Requests
      PROVE  /\ DOMAIN approvals'[r] = DOMAIN approvals[r]
             /\ \A n \in DOMAIN approvals[r] :
                  /\ approvals'[r][n].timeoutAt = approvals[r][n].timeoutAt
                  /\ approvals'[r][n].consumed = approvals[r][n].consumed
  <2>1. CASE UNCHANGED approvals
    BY <2>1
  <2>2. ASSUME NEW q \in Requests, NEW i \in 1 .. MaxCalls,
               NEW d \in {"approved", "denied"}, ResolveApproval(q, i, d)
        PROVE  /\ DOMAIN approvals'[r] = DOMAIN approvals[r]
               /\ \A n \in DOMAIN approvals[r] :
                    /\ approvals'[r][n].timeoutAt = approvals[r][n].timeoutAt
                    /\ approvals'[r][n].consumed = approvals[r][n].consumed
    BY <2>2, ResolveOutcome
  <2> QED
    BY <2>1, <2>2 DEF Environment, Tick, PerformReload, EditRules, vars, storeVars
<1> SUFFICES ASSUME NEW r \in Requests
             PROVE  /\ AskedInOrder(approvals'[r])
                    /\ \A n \in DOMAIN approvals'[r] :
                         approvals'[r][n].timeoutAt <= clock' + ApprovalTimeout
  BY DEF AskInv
<1>3. AskedInOrder(approvals'[r])
  <2>1. approvals[r] \in Seq(Approval) /\ approvals'[r] \in Seq(Approval)
    BY <1>1
  <2> QED BY <1>2, <2>1, KeepsOrder DEF AskInv
<1>4. ASSUME NEW n \in DOMAIN approvals'[r]
      PROVE  approvals'[r][n].timeoutAt <= clock' + ApprovalTimeout
  <2>1. n \in DOMAIN approvals[r] /\ approvals'[r][n].timeoutAt = approvals[r][n].timeoutAt
    BY <1>2
  <2>2. approvals[r][n] \in Approval
    BY <1>1, <2>1
  <2>3. approvals[r][n].timeoutAt \in Nat
    BY <2>2 DEF Approval
  <2>4. approvals[r][n].timeoutAt <= clock + ApprovalTimeout
    BY <2>1 DEF AskInv
  <2> QED BY <1>1, <2>1, <2>3, <2>4
<1> QED BY <1>3, <1>4

LEMMA StartAsks ==
  ASSUME TInv, AskInv, NEW c \in Calls, Start(c)
  PROVE  AskInv'
BY StartOutcome DEF AskInv, storeVars

LEMMA AskInvariant == Spec => []AskInv
<1>1. Init => AskInv
  <2> SUFFICES ASSUME Init, NEW r \in Requests, NEW n \in DOMAIN approvals[r]
               PROVE  FALSE
    BY DEF AskInv, AskedInOrder
  <2>1. approvals[r] = <<>>
    BY DEF Init
  <2>2. DOMAIN <<>> = {}
    OBVIOUS
  <2> QED BY <2>1, <2>2
<1>2. TInv /\ AskInv /\ [Next]_vars => AskInv'
  BY StepKinds, StartAsks, CallAsks, EnvironmentAsks
<1> QED BY <1>1, <1>2, TypeInvariant, PTL DEF Spec

\* Humans are not asked for a request again while the approval they were asked
\* for before stands, unspent and within its time: no denial or resubmission,
\* however many calls race, creates another (toolshed.ts:580-609).
THEOREM NotAskedWhileItStands == Spec => []NotAskedTwice
<1>1. AskInv => NotAskedTwice
  BY DEF AskInv, AskedInOrder, Leads, NotAskedTwice
<1> QED BY <1>1, AskInvariant, PTL
-------------------------------------------------------------------------------
(***************************************************************************)
(* Trips: every failure a breaker has counted, and every report that is    *)
(* under way, stands for a fault of its own.                               *)
(***************************************************************************)
Reporting(s) == {c \in Calls : In(c, "failure report") /\ Server(c) = s}

Pending(s) == Cardinality(Reporting(s))

TripOK(s) ==
  /\ Pending(s) <= faults[s]
  /\ breaker[s].state = "closed" => breaker[s].failures + Pending(s) <= faults[s]
  /\ breaker[s].state # "closed" => faults[s] >= FailureThreshold

TripInv == \A s \in Servers : TripOK(s)

LEMMA PendingType ==
  ASSUME NEW s
  PROVE  IsFiniteSet(Reporting(s)) /\ Pending(s) \in Nat
<1>1. Reporting(s) \subseteq Calls BY DEF Reporting
<1>2. IsFiniteSet(Calls) BY ToolshedAssumption
<1>3. IsFiniteSet(Reporting(s)) BY <1>1, <1>2, FS_Subset
<1> QED BY <1>3, FS_CardinalityType DEF Pending

LEMMA PendingTypeNext ==
  ASSUME NEW s
  PROVE  Pending(s)' \in Nat
<1>1. Reporting(s)' \subseteq Calls BY DEF Reporting
<1>2. IsFiniteSet(Calls) BY ToolshedAssumption
<1>3. IsFiniteSet(Reporting(s)') BY <1>1, <1>2, FS_Subset
<1> QED BY <1>3, FS_CardinalityType DEF Pending

\* What a step of c does to the reports that are under way.
LEMMA ReportingKept ==
  ASSUME TInv, NEW c \in Calls, \A d \in Calls : d # c => call'[d] = call[d],
         ~In(c, "failure report"), ~In(c, "failure report")', NEW s
  PROVE  Pending(s)' = Pending(s)
<1>1. Reporting(s)' = Reporting(s)
  BY DEF Reporting, In, Server
<1> QED BY <1>1 DEF Pending

LEMMA ReportingElsewhere ==
  ASSUME TInv, NEW c \in Calls, \A d \in Calls : d # c => call'[d] = call[d],
         In(c, "failure report")' => call'[c].request = call[c].request,
         NEW s, s # Server(c)
  PROVE  Pending(s)' = Pending(s)
<1>1. Reporting(s)' = Reporting(s)
  BY DEF Reporting, In, Server
<1> QED BY <1>1 DEF Pending

LEMMA ReportingEnters ==
  ASSUME TInv, NEW c \in Calls, \A d \in Calls : d # c => call'[d] = call[d],
         ~In(c, "failure report"), In(c, "failure report")',
         call'[c].request = call[c].request, NEW s, s = Server(c)
  PROVE  Pending(s)' = Pending(s) + 1
<1>1. Reporting(s)' = Reporting(s) \cup {c} /\ c \notin Reporting(s)
  BY DEF Reporting, In, Server
<1> QED BY <1>1, PendingType, FS_AddElement DEF Pending

LEMMA ReportingLeaves ==
  ASSUME TInv, NEW c \in Calls, \A d \in Calls : d # c => call'[d] = call[d],
         In(c, "failure report"), ~In(c, "failure report")', NEW s, s = Server(c)
  PROVE  Pending(s)' = Pending(s) - 1
<1>1. Reporting(s)' = Reporting(s) \ {c} /\ c \in Reporting(s)
  BY DEF Reporting, In, Server
<1> QED BY <1>1, PendingType, FS_RemoveElement DEF Pending

\* What a step may do to one server's breaker, faults and pending reports.
Tripless(s) ==
  /\ Pending(s)' = Pending(s) /\ faults'[s] = faults[s]
  /\ \/ breaker'[s] = breaker[s]
     \/ breaker'[s] = Governance!Admitted(breaker[s], clock)
     \/ breaker'[s] = Governance!Succeeded(breaker[s])

Reports(s) ==
  breaker'[s] = breaker[s] \/ breaker'[s] = Governance!Failed(breaker[s], clock)

FaultReports(s) ==
  /\ Pending(s)' = Pending(s) /\ faults'[s] = faults[s] + 1 /\ Reports(s)

FaultPends(s) ==
  /\ Pending(s)' = Pending(s) + 1 /\ faults'[s] = faults[s] + 1
  /\ breaker'[s] = breaker[s]

PendingReports(s) ==
  /\ Pending(s)' = Pending(s) - 1 /\ faults'[s] = faults[s] /\ Reports(s)

LEMMA TripKept ==
  ASSUME TInv, NEW s \in Servers, TripOK(s),
         Tripless(s) \/ FaultReports(s) \/ FaultPends(s) \/ PendingReports(s)
  PROVE  TripOK(s)'
<1>1. /\ breaker[s] \in Breakers /\ clock \in Nat /\ faults[s] \in Nat
      /\ FailureThreshold \in Nat
  BY ToolshedAssumption DEF TInv, TypeOK
<1>2. breaker[s].failures \in Nat
  BY <1>1 DEF Breakers
<1>3. Pending(s) \in Nat /\ Pending(s)' \in Nat
  BY PendingType, PendingTypeNext
<1>4. CASE Tripless(s)
  <2>1. /\ Pending(s)' <= faults'[s]
        /\ breaker[s].state # "closed" => faults'[s] >= FailureThreshold
    BY <1>4 DEF TripOK, Tripless
  <2>2. CASE breaker'[s] = breaker[s]
    BY <1>4, <2>2 DEF TripOK, Tripless
  <2>3. CASE breaker'[s] = Governance!Admitted(breaker[s], clock)
    <3>1. /\ breaker'[s].failures = breaker[s].failures
          /\ (breaker'[s].state = "closed") = (breaker[s].state = "closed")
      BY <1>1, <2>3, AdmittedType
    <3> QED BY <1>4, <3>1 DEF TripOK, Tripless
  <2>4. CASE breaker'[s] = Governance!Succeeded(breaker[s])
    <3>1. /\ breaker'[s].state = "closed" => breaker'[s].failures = 0
          /\ breaker[s].state = "closed" => breaker'[s].state = "closed"
      BY <1>1, <2>4, SucceededType
    <3> QED BY <1>3, <2>1, <3>1 DEF TripOK
  <2> QED BY <1>4, <2>2, <2>3, <2>4 DEF Tripless
<1>5. CASE FaultPends(s)
  BY <1>1, <1>2, <1>3, <1>5 DEF TripOK, FaultPends
<1>6. CASE FaultReports(s) \/ PendingReports(s)
  <2>1. /\ Pending(s)' <= faults'[s]
        /\ breaker[s].state = "closed" => breaker[s].failures + 1 + Pending(s)' <= faults'[s]
        /\ breaker[s].state # "closed" => faults'[s] >= FailureThreshold
    BY <1>1, <1>2, <1>3, <1>6 DEF TripOK, FaultReports, PendingReports
  <2>2. CASE breaker'[s] = breaker[s]
    <3>1. faults'[s] \in Nat
      BY <1>1, <1>6 DEF FaultReports, PendingReports
    <3> QED BY <1>1, <1>2, <1>3, <2>1, <2>2, <3>1 DEF TripOK
  <2>3. CASE breaker'[s] = Governance!Failed(breaker[s], clock)
    <3>1. /\ breaker'[s].state = "closed" =>
               breaker[s].state = "closed" /\ breaker'[s].failures = breaker[s].failures + 1
          /\ breaker[s].state = "closed" /\ breaker'[s].state # "closed" =>
               breaker[s].failures + 1 >= FailureThreshold
      BY <1>1, <2>3, FailedType
    <3>2. faults'[s] \in Nat
      BY <1>1, <1>6 DEF FaultReports, PendingReports
    <3> QED BY <1>1, <1>2, <1>3, <2>1, <3>1, <3>2 DEF TripOK
  <2> QED BY <1>6, <2>2, <2>3 DEF FaultReports, PendingReports, Reports
<1> QED BY <1>4, <1>5, <1>6

\* Neither the gate nor the execution of a call reports a failure.
LEMMA ExecuteReportsNone ==
  ASSUME TInv, NEW c \in Calls, NEW n, Execute(c, n)
  PROVE  ~In(c, "failure report")'
<1>1. call \in [Calls -> CallRecords] BY DEF TInv, TypeOK
<1>2. CASE Await(c, "cache report")
  BY <1>1, <1>2 DEF Await, In, CallRecords
<1>3. CASE Respond(c, "error")
  BY <1>1, <1>3 DEF Respond, NoCall, In
<1>4. CASE Perform(c, n)
  <2>1. PICK b : b = IsCacheable(rules, call[c].request)
    OBVIOUS
  <2>2. call'[c] = [call[c] EXCEPT !.await = "adapter", !.approval = n,
                                   !.gatedBy = rules, !.caches = b]
    BY <1>1, <1>4, <2>1 DEF Perform
  <2>3. call'[c].await = "adapter"
    BY <1>1, <2>2 DEF CallRecords
  <2> QED BY <2>3 DEF In
<1> QED BY <1>2, <1>3, <1>4 DEF Execute

LEMMA GateReportsNone ==
  ASSUME TInv, NEW c \in Calls, Gate(c)
  PROVE  ~In(c, "failure report")'
<1>1. call \in [Calls -> CallRecords] BY DEF TInv, TypeOK
<1>2. ASSUME NEW status, Respond(c, status) PROVE ~In(c, "failure report")'
  BY <1>1, <1>2 DEF Respond, NoCall, In
<1>3. ASSUME Await(c, "notifier") PROVE ~In(c, "failure report")'
  BY <1>1, <1>3 DEF Await, In, CallRecords
<1> QED BY <1>2, <1>3, ExecuteReportsNone DEF Gate

LEMMA CallTrips ==
  ASSUME TInv, TripInv, NEW c \in Calls, CallStep(c)
  PROVE  TripInv'
<1>1. Busy(c) /\ (GoesOn(c) \/ Answered(c) \/ Lost(c))
  BY CallOutcomes
<1>2. PICK v : v = Server(c)
  OBVIOUS
<1>3. /\ v \in Servers /\ breaker \in [Servers -> Breakers] /\ faults \in [Servers -> Nat]
      /\ call \in [Calls -> CallRecords]
  BY <1>1, <1>2, RulesAssumption DEF TInv, CallOK, TypeOK, Server
<1>4. \A d \in Calls : d # c => call'[d] = call[d]
  BY <1>1 DEF GoesOn, Answered, Lost, TInv, TypeOK
<1>5. ASSUME Answered(c) \/ Lost(c) PROVE ~In(c, "failure report")'
  <2>1. call'[c] = NoCall
    BY <1>3, <1>5 DEF Answered, Lost
  <2> QED BY <2>1 DEF In, NoCall
<1>6. In(c, "failure report")' => call'[c].request = call[c].request
  BY <1>1, <1>3, <1>5 DEF GoesOn
<1>7. \A s \in Servers : s # v => breaker'[s] = breaker[s] /\ faults'[s] = faults[s]
  BY <1>2, <1>3
     DEF CallStep, Throttled, Admission, Notified, CacheReport, AdapterReturns,
         AdapterThrows, FailureReport, ReportFailure
<1>8. Tripless(v) \/ FaultReports(v) \/ FaultPends(v) \/ PendingReports(v)
  <2>1. CASE Throttled(c) \/ Notified(c) \/ CacheReport(c)
    <3>1. ~In(c, "failure report") /\ (Answered(c) \/ Lost(c)) /\ UNCHANGED faults
      BY <2>1, RespondOutcome
         DEF Throttled, Notified, CacheReport, In, Statuses, RejectCall, Lost
    <3>2. breaker'[v] = breaker[v] \/ breaker'[v] = Governance!Succeeded(breaker[v])
      BY <1>2, <1>3, <2>1 DEF Throttled, Notified, CacheReport
    <3> QED BY <1>4, <1>5, <3>1, <3>2, ReportingKept DEF Tripless
  <2>2. CASE Admission(c)
    <3>1. ~In(c, "failure report") /\ UNCHANGED faults
      BY <2>2 DEF Admission, In
    <3>2. ~In(c, "failure report")'
      <4>1. ASSUME Respond(c, "throttled") PROVE ~In(c, "failure report")'
        BY <1>5, <4>1, RespondOutcome DEF Statuses
      <4> QED BY <2>2, <4>1, GateReportsNone, ExecuteReportsNone DEF Admission
    <3>3. breaker'[v] = breaker[v] \/ breaker'[v] = Governance!Admitted(breaker[v], clock)
      BY <1>2, <1>3, <2>2 DEF Admission
    <3> QED BY <1>4, <3>1, <3>2, <3>3, ReportingKept DEF Tripless
  <2>3. CASE AdapterReturns(c)
    <3>1. ~In(c, "failure report")
      BY <2>3 DEF AdapterReturns, In
    <3>2. CASE Respond(c, "success") /\ UNCHANGED faults
      <4>1. ~In(c, "failure report")'
        BY <1>5, <3>2, RespondOutcome DEF Statuses
      <4>2. breaker'[v] = breaker[v] \/ breaker'[v] = Governance!Succeeded(breaker[v])
        BY <1>2, <1>3, <2>3 DEF AdapterReturns
      <4> QED BY <1>4, <3>1, <3>2, <4>1, <4>2, ReportingKept DEF Tripless
    <3>3. CASE /\ Await(c, "failure report") /\ UNCHANGED breaker
               /\ faults' = [faults EXCEPT ![Server(c)] = @ + 1]
      <4>1. In(c, "failure report")'
        BY <1>3, <3>3 DEF Await, In, CallRecords
      <4> QED BY <1>2, <1>3, <1>4, <1>6, <3>1, <3>3, <4>1, ReportingEnters DEF FaultPends
    <3> QED BY <2>3, <3>2, <3>3 DEF AdapterReturns
  <2>4. CASE AdapterThrows(c) \/ FailureReport(c)
    <3>1. ReportFailure(c)
      BY <2>4 DEF AdapterThrows, FailureReport
    <3>2. ~In(c, "failure report")'
      BY <1>5, <3>1, RespondOutcome DEF ReportFailure, Statuses, RejectCall, Lost
    <3>3. Reports(v)
      BY <1>2, <1>3, <3>1 DEF ReportFailure, Reports
    <3>4. CASE AdapterThrows(c)
      BY <1>2, <1>3, <1>4, <3>2, <3>3, <3>4, ReportingKept
         DEF AdapterThrows, In, FaultReports
    <3>5. CASE FailureReport(c)
      BY <1>2, <1>4, <3>2, <3>3, <3>5, ReportingLeaves DEF FailureReport, PendingReports
    <3> QED BY <2>4, <3>4, <3>5
  <2> QED BY <2>1, <2>2, <2>3, <2>4 DEF CallStep
<1>9. ASSUME NEW s \in Servers, s # v PROVE Tripless(s)
  BY <1>2, <1>4, <1>6, <1>7, <1>9, ReportingElsewhere DEF Tripless
<1> QED BY <1>8, <1>9, TripKept DEF TripInv

LEMMA StartTrips ==
  ASSUME TInv, TripInv, NEW c \in Calls, Start(c)
  PROVE  TripInv'
<1>1. ~Busy(c) /\ UNCHANGED <<breaker, faults>> /\ call \in [Calls -> CallRecords]
  BY StartOutcome DEF historyVars, TInv, TypeOK
<1>2. ~In(c, "failure report")
  BY <1>1 DEF In, Busy
<1>3. ~In(c, "failure report")' /\ \A d \in Calls : d # c => call'[d] = call[d]
  <2>1. CASE UNCHANGED call
    BY <1>2, <2>1 DEF In
  <2>2. ASSUME NEW r \in Requests,
               call' = [call EXCEPT ![c] =
                         [await |-> "governance", id |-> started + 1, request |-> r,
                          under |-> rules, gatedBy |-> FirstEdition,
                          approval |-> NoApproval, caches |-> FALSE]]
        PROVE  ~In(c, "failure report")' /\ \A d \in Calls : d # c => call'[d] = call[d]
    BY <1>1, <2>2 DEF In
  <2> QED BY <2>1, <2>2, StartOutcome
<1>4. \A s \in Servers : Tripless(s)
  BY <1>1, <1>2, <1>3, ReportingKept DEF Tripless
<1> QED BY <1>4, TripKept DEF TripInv

LEMMA EnvironmentTrips ==
  ASSUME TripInv, Environment \/ UNCHANGED vars
  PROVE  TripInv'
<1>1. UNCHANGED <<call, breaker, faults>>
  BY DEF Environment, Tick, PerformReload, EditRules, ResolveApproval, vars, historyVars
<1> QED BY <1>1 DEF TripInv, TripOK, Pending, Reporting, In, Server

LEMMA TripInvariant == Spec => []TripInv
<1>1. Init => TripInv
  <2> SUFFICES ASSUME Init, NEW s \in Servers PROVE TripOK(s)
    BY DEF TripInv
  <2>1. Reporting(s) = {}
    BY DEF Init, Reporting, In, NoCall
  <2>2. Pending(s) = 0
    BY <2>1, FS_EmptySet DEF Pending
  <2>3. /\ breaker[s].state = "closed" /\ breaker[s].failures = 0 /\ faults[s] = 0
    BY FreshBreakerType DEF Init
  <2> QED BY <2>2, <2>3 DEF TripOK
<1>2. TInv /\ TripInv /\ [Next]_vars => TripInv'
  BY StepKinds, StartTrips, CallTrips, EnvironmentTrips
<1> QED BY <1>1, <1>2, TypeInvariant, PTL DEF Spec

\* A breaker trips on downstream failures only, never on approvals, throttled
\* calls or unknown aliases, however they interleave with the failures
\* (toolshed.ts:682-690).
THEOREM FailuresTrip == Spec => []TripsOnFailuresOnly
<1>1. TripInv => TripsOnFailuresOnly
  BY DEF TripInv, TripOK, TripsOnFailuresOnly
<1> QED BY <1>1, TripInvariant, PTL
===============================================================================
