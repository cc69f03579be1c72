------------------------------ MODULE Governance ------------------------------
(***************************************************************************)
(* What the toolshed's governance state promises the calls that pass it    *)
(* (extensions/mcp-toolshed: governance-state.ts over circuit-breaker.ts   *)
(* and rate-limiter.ts): one server's circuit breaker and one token        *)
(* bucket, whose operations take effect one at a time.                     *)
(*                                                                         *)
(* Every operation reads the clock when it begins and takes effect at some *)
(* later instant, with that reading.  In process the two instants are the  *)
(* same JavaScript turn; in the shared store (SharedGovernance, which      *)
(* implements this module) other replicas' operations may fall between.    *)
(*                                                                         *)
(* The documented exception is the row that does not exist yet: operations *)
(* that begin before the first one is stored start from a fresh record and *)
(* the last writer wins (shared-governance-state.ts:32-35).  Such          *)
(* operations are `early`.                                                 *)
(***************************************************************************)
EXTENDS Integers

CONSTANTS
  Calls,             \* tool calls in flight, on any replica
  FailureThreshold,  \* failures in a row that trip the breaker
  SuccessThreshold,  \* successes that close a half-open breaker
  Timeout,           \* ticks an open breaker stays open
  HalfOpenMax,       \* calls a half-open breaker admits
  Capacity,          \* burst, in units of 1/Cost token
  Cost,              \* units one call takes
  RefillRate,        \* units that flow back per tick
  MaxClock           \* bound: the clock stops here

\* What is assumed of the constants stands where they get values: in
\* SharedGovernance and in Toolshed, which instantiate this module.

VARIABLES
  clock,    \* the wall clock all replicas share
  breaker,  \* the server's circuit breaker
  bucket,   \* the token bucket
  call,     \* [Calls -> [phase, at, early]]
  made      \* the rows that an operation has stored

vars == <<clock, breaker, bucket, call, made>>

NotBegun == -1
Operations == {"take", "admit", "success", "failure"}
Phases == Operations \cup {"idle", "calling"}
BreakerStates == {"closed", "open", "half-open"}
Rows == {"bucket", "breaker"}

RowOf(phase) == IF phase = "take" THEN "bucket" ELSE "breaker"

Smaller(a, b) == IF a <= b THEN a ELSE b

-------------------------------------------------------------------------------
(***************************************************************************)
(* The circuit breaker.  halfOpenRequests means nothing outside half-open  *)
(* (the transition resets it), and is kept at zero there.                  *)
(***************************************************************************)
FreshBreaker ==
  [state |-> "closed", failures |-> 0, successes |-> 0, openedAt |-> 0,
   halfOpenRequests |-> 0]

\* The `state` getter: open turns half-open when the timeout has elapsed.
Observed(b, now) ==
  IF b.state = "open" /\ now - b.openedAt >= Timeout
    THEN [b EXCEPT !.state = "half-open", !.halfOpenRequests = 0, !.successes = 0]
    ELSE b

CanExecute(b, now) ==
  LET seen == Observed(b, now)
  IN  /\ seen.state # "open"
      /\ seen.state = "half-open" => seen.halfOpenRequests < HalfOpenMax

Admitted(b, now) ==
  LET seen == Observed(b, now)
  IN  IF seen.state = "half-open"
        THEN [seen EXCEPT !.halfOpenRequests = @ + 1] ELSE seen

\* recordSuccess reads the stored state: an open breaker does not move.
Succeeded(b) ==
  IF b.state # "half-open" THEN [b EXCEPT !.failures = 0]
  ELSE IF b.successes + 1 < SuccessThreshold THEN [b EXCEPT !.successes = @ + 1]
  ELSE [b EXCEPT !.state = "closed", !.failures = 0, !.successes = 0,
                 !.halfOpenRequests = 0]

Tripped(now) ==
  [state |-> "open", failures |-> 0, successes |-> 0, openedAt |-> now,
   halfOpenRequests |-> 0]

Failed(b, now) ==
  IF b.state = "half-open" \/ b.failures + 1 >= FailureThreshold
    THEN Tripped(now) ELSE [b EXCEPT !.failures = @ + 1]

(***************************************************************************)
(* The token bucket.                                                       *)
(***************************************************************************)
FullBucket(now) == [tokens |-> Capacity, lastRefill |-> now]

Refilled(b, now) ==
  Smaller(Capacity, b.tokens + (now - b.lastRefill) * RefillRate)

MayTake(b, now) == Refilled(b, now) >= Cost

Taken(b, now) ==
  [tokens |-> IF MayTake(b, now) THEN Refilled(b, now) - Cost
              ELSE Refilled(b, now),
   lastRefill |-> now]

-------------------------------------------------------------------------------
(***************************************************************************)
(* The operations, in the order a governed call makes them.                *)
(***************************************************************************)
Init ==
  /\ clock = 0
  /\ breaker = FreshBreaker
  /\ bucket = FullBucket(0)
  /\ call = [c \in Calls |-> [phase |-> "idle", at |-> NotBegun, early |-> FALSE]]
  /\ made \in SUBSET Rows

GoTo(c, phase) ==
  call' = [call EXCEPT ![c] = [phase |-> phase, at |-> NotBegun, early |-> FALSE]]

Begun(c, operation) == call[c].phase = operation /\ call[c].at # NotBegun

\* A new call, or the result of the downstream call: a call that ends as
\* approval_pending or with an unknown alias reports nothing to the breaker.
Proceed(c) ==
  /\ \/ /\ call[c].phase = "idle"
        /\ GoTo(c, "take")
     \/ /\ call[c].phase = "calling"
        /\ \E next \in {"success", "failure", "idle"} : GoTo(c, next)
  /\ UNCHANGED <<clock, breaker, bucket, made>>

Begin(c) ==
  /\ call[c].phase \in Operations
  /\ call[c].at = NotBegun
  /\ call' = [call EXCEPT ![c].at = clock,
                          ![c].early = RowOf(call[c].phase) \notin made]
  /\ UNCHANGED <<clock, breaker, bucket, made>>

\* The record an operation may start from: the current one or, for an early
\* one, a fresh one.
Current(c) == {breaker} \cup (IF call[c].early THEN {FreshBreaker} ELSE {})
CurrentBucket(c) ==
  {bucket} \cup (IF call[c].early THEN {FullBucket(call[c].at)} ELSE {})

Stored(row) == made' = made \cup {row}

\* The caller may be told that the operation failed although it took effect.
Take(c) ==
  /\ Begun(c, "take")
  /\ \E b \in CurrentBucket(c) :
       /\ bucket' = Taken(b, call[c].at)
       /\ \/ MayTake(b, call[c].at) /\ GoTo(c, "admit")
          \/ GoTo(c, "idle")
  /\ Stored("bucket")
  /\ UNCHANGED <<clock, breaker>>

\* A call the breaker does not admit is over; the refusal changes nothing.
Refuse(c) ==
  /\ Begun(c, "admit")
  /\ ~CanExecute(breaker, call[c].at)
  /\ GoTo(c, "idle")
  /\ UNCHANGED <<clock, breaker, bucket, made>>

Admit(c) ==
  /\ Begun(c, "admit")
  /\ \E b \in Current(c) :
       /\ CanExecute(b, call[c].at)
       /\ breaker' = Admitted(b, call[c].at)
  /\ \E next \in {"calling", "idle"} : GoTo(c, next)
  /\ Stored("breaker")
  /\ UNCHANGED <<clock, bucket>>

\* A report that rejects inside the call's try block is followed by a report
\* of failure.
ReportSuccess(c) ==
  /\ Begun(c, "success")
  /\ \E b \in Current(c) : breaker' = Succeeded(b)
  /\ \E next \in {"idle", "failure"} : GoTo(c, next)
  /\ Stored("breaker")
  /\ UNCHANGED <<clock, bucket>>

ReportFailure(c) ==
  /\ Begun(c, "failure")
  /\ \E b \in Current(c) : breaker' = Failed(b, call[c].at)
  /\ GoTo(c, "idle")
  /\ Stored("breaker")
  /\ UNCHANGED <<clock, bucket>>

\* An operation is given up without having taken effect.
Reject(c) ==
  /\ call[c].phase \in Operations
  /\ call[c].at # NotBegun
  /\ \/ GoTo(c, "idle")
     \/ call[c].phase = "success" /\ GoTo(c, "failure")
  /\ UNCHANGED <<clock, breaker, bucket, made>>

Tick ==
  /\ clock < MaxClock
  /\ clock' = clock + 1
  /\ UNCHANGED <<breaker, bucket, call, made>>

Next ==
  \/ Tick
  \/ \E c \in Calls :
       \/ Proceed(c) \/ Begin(c) \/ Take(c) \/ Refuse(c) \/ Admit(c)
       \/ ReportSuccess(c) \/ ReportFailure(c) \/ Reject(c)

Spec == Init /\ [][Next]_vars
===============================================================================
