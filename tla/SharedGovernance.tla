--------------------------- MODULE SharedGovernance ---------------------------
(***************************************************************************)
(* The governance state on Azure Table Storage that toolshed replicas      *)
(* share (extensions/mcp-toolshed/src/shared-governance-state.ts): every   *)
(* mutation reads a row, computes its successor and writes it back under   *)
(* the ETag it was read with, again from the start when another replica    *)
(* was faster, at most MaxCasAttempts times.  A row that was absent when   *)
(* it was read is written with an upsert that checks nothing.              *)
(*                                                                         *)
(* One bucket row and one breaker row; each call makes the operations in   *)
(* toolshed.ts's order.  A step is one table request, because any other    *)
(* call's request may fall between two of them.                            *)
(***************************************************************************)
EXTENDS Integers

CONSTANTS
  Calls, FailureThreshold, SuccessThreshold, Timeout, HalfOpenMax,
  Capacity, Cost, RefillRate, MaxClock,  \* as in Governance
  MaxCasAttempts,                        \* MAX_CAS_ATTEMPTS (5)
  Absent,                                \* what reading a missing row gives
  MaxCalls                               \* bound: calls that are started

VARIABLES
  clock,
  rows,     \* the governance table: [Rows -> record or Absent]
  op,       \* each call's operation, see Idle
  started,  \* bounded by MaxCalls
  stored,   \* history: the rows that were written, or there from the start
  granted,  \* history: tokens the bucket gave out
  erased,   \* history: upserts that replaced a row made since the read
  probes    \* history: calls admitted since the breaker turned half-open

vars == <<clock, rows, op, started, stored, granted, erased, probes>>

-------------------------------------------------------------------------------
NotBegun == -1
Operations == {"take", "admit", "success", "failure"}
Phases == Operations \cup {"idle", "calling"}
Rows == {"bucket", "breaker"}

Breakers ==
  [state : {"closed", "open", "half-open"}, failures : Nat, successes : Nat,
   openedAt : Nat, halfOpenRequests : Nat]
Buckets == [tokens : Int, lastRefill : Nat]

ASSUME SharedAssumption ==
  /\ FailureThreshold \in Nat \ {0}
  /\ SuccessThreshold \in Nat \ {0}
  /\ Timeout \in Nat \ {0}
  /\ HalfOpenMax \in Nat \ {0}
  /\ Cost \in Nat \ {0}
  /\ Capacity \in Nat /\ Capacity >= Cost
  /\ RefillRate \in Nat \ {0}
  /\ MaxClock \in Nat
  /\ MaxCasAttempts \in Nat \ {0}
  /\ MaxCalls \in Nat
  /\ Absent \notin Breakers \cup Buckets

RowOf(phase) == IF phase = "take" THEN "bucket" ELSE "breaker"

\* An operation: the clock reading it began with, the attempt it is at, the
\* request it waits for, what it read, and whether the row still has the ETag
\* it was read with.  `early` is history: the row was absent at the beginning.
Idle(phase) ==
  [phase |-> phase, at |-> NotBegun, attempt |-> 0, request |-> "none",
   snapshot |-> Absent, current |-> FALSE, early |-> FALSE]

-------------------------------------------------------------------------------
(***************************************************************************)
(* The pure transitions on the records read from the table.                *)
(***************************************************************************)

\* recordFromEntity: an absent row reads as a closed breaker.
RecordFromEntity(row) ==
  IF row = Absent
    THEN [state |-> "closed", failures |-> 0, successes |-> 0, openedAt |-> 0,
          halfOpenRequests |-> 0]
    ELSE row

\* Mutant: an open breaker is half-open at once.
ResolveState_Early(record, now) ==
  IF record.state = "open"
    THEN [record EXCEPT !.state = "half-open", !.halfOpenRequests = 0,
                        !.successes = 0]
    ELSE record

ResolveState(record, now) ==
  IF record.state = "open" /\ now - record.openedAt >= Timeout
    THEN [record EXCEPT !.state = "half-open", !.halfOpenRequests = 0,
                        !.successes = 0]
    ELSE record

\* Mutant: one success more than the threshold.
RecordSuccess_OffByOne(record) ==
  IF record.state = "half-open" /\ record.successes >= SuccessThreshold
    THEN [record EXCEPT !.state = "closed", !.failures = 0, !.successes = 0]
  ELSE IF record.state = "half-open" THEN [record EXCEPT !.successes = @ + 1]
  ELSE [record EXCEPT !.failures = 0]

RecordSuccess(record) ==
  LET n == record.successes + 1
      closed == [record EXCEPT !.state = "closed", !.failures = 0, !.successes = 0]
  IN  CASE record.state # "half-open" -> [record EXCEPT !.failures = 0]
        [] record.state = "half-open" /\ n >= SuccessThreshold -> closed
        [] OTHER -> [record EXCEPT !.successes = n]

RecordFailure(record, now) ==
  LET n == record.failures + 1
  IN  IF record.state # "half-open" /\ n < FailureThreshold
        THEN [record EXCEPT !.failures = n]
        ELSE [state |-> "open", failures |-> 0, successes |-> 0,
              openedAt |-> now, halfOpenRequests |-> 0]

\* The bucket an operation sees at `now`: an absent row is a full bucket, and
\* a clock reading older than lastRefill takes tokens back.
Seen(row, now) ==
  LET b == IF row = Absent THEN [tokens |-> Capacity, lastRefill |-> now] ELSE row
      refilled == b.tokens + (now - b.lastRefill) * RefillRate
  IN  [tokens |-> IF refilled < Capacity THEN refilled ELSE Capacity,
       lastRefill |-> now]

Allowed(row, now) == Seen(row, now).tokens >= Cost

TakeToken(row, now) ==
  [Seen(row, now) EXCEPT !.tokens = IF @ >= Cost THEN @ - Cost ELSE @]

\* Mutant: the deficit's ticks are rounded down.
RetryAfter_Floor(b) ==
  LET ticks == (Cost - b.tokens) \div RefillRate
  IN  IF ticks < 1 THEN 1 ELSE ticks

\* What a throttled caller is told to wait, at least one tick, rounded up.
RetryAfter(b) ==
  LET ticks == (Cost - b.tokens + RefillRate - 1) \div RefillRate
  IN  IF ticks < 1 THEN 1 ELSE ticks

\* canExecuteBreaker's test, on a resolved record.
MayExecute(record) ==
  /\ record.state # "open"
  /\ record.state = "half-open" => record.halfOpenRequests < HalfOpenMax

\* The record an operation writes.
Successor(phase, row, now) ==
  CASE phase = "take" -> TakeToken(row, now)
    [] phase = "admit" ->
         [ResolveState(RecordFromEntity(row), now) EXCEPT !.halfOpenRequests = @ + 1]
    [] phase = "success" -> RecordSuccess(RecordFromEntity(row))
    [] phase = "failure" -> RecordFailure(RecordFromEntity(row), now)

-------------------------------------------------------------------------------
Init ==
  /\ clock = 0
  /\ \E b \in {Absent, [tokens |-> Capacity, lastRefill |-> 0]},
        k \in {Absent, RecordFromEntity(Absent)} :
       rows = [r \in Rows |-> IF r = "bucket" THEN b ELSE k]
  /\ op = [c \in Calls |-> Idle("idle")]
  /\ started = 0
  /\ stored = {r \in Rows : rows[r] # Absent}
  /\ granted = 0
  /\ erased = 0
  /\ probes = 0

Enter(c, phase) == op' = [op EXCEPT ![c] = Idle(phase)]

\* executeTool starts a call's first operation.
StartCall(c) ==
  /\ op[c].phase = "idle"
  /\ started < MaxCalls
  /\ started' = started + 1
  /\ Enter(c, "take")
  /\ UNCHANGED <<clock, rows, stored, granted, erased, probes>>

\* The downstream call ends; pending approvals and unknown aliases end the
\* call without a report.
CallEnds(c) ==
  /\ op[c].phase = "calling"
  /\ \E next \in {"success", "failure", "idle"} : Enter(c, next)
  /\ UNCHANGED <<clock, rows, started, stored, granted, erased, probes>>

\* An operation reads the clock once, before its first attempt.
Begin(c) ==
  /\ op[c].phase \in Operations
  /\ op[c].at = NotBegun
  /\ op' = [op EXCEPT ![c].at = clock, ![c].request = "read",
                      ![c].early = RowOf(op[c].phase) \notin stored]
  /\ UNCHANGED <<clock, rows, started, stored, granted, erased, probes>>

Refused(c, row) ==
  /\ op[c].phase = "admit"
  /\ ~MayExecute(ResolveState(RecordFromEntity(row), op[c].at))

\* getEntity answers; canExecuteBreaker may refuse without a write.
Read(c) ==
  LET row == rows[RowOf(op[c].phase)]
  IN  /\ op[c].request = "read"
      /\ \/ /\ ~Refused(c, row)
            /\ op' = [op EXCEPT ![c].request = "write", ![c].snapshot = row,
                                ![c].current = TRUE]
         \/ /\ Refused(c, row)
            /\ Enter(c, "idle")
      /\ UNCHANGED <<clock, rows, started, stored, granted, erased, probes>>

\* Where a call goes on when its operation has answered.
Answered(c) ==
  CASE op[c].phase = "take" ->
         IF Allowed(op[c].snapshot, op[c].at) THEN "admit" ELSE "idle"
    [] op[c].phase = "admit" -> "calling"
    [] OTHER -> "idle"

\* Where it goes on when the operation rejects: a report of success that
\* rejects inside the try block is followed by a report of failure.
Rejections(c) ==
  IF op[c].phase = "success" THEN {"idle", "failure"} ELSE {"idle"}

\* Mutant: the write is not conditional on the ETag.
WriteApplies_Unconditional(c) == TRUE

\* updateEntity needs the ETag; upsertEntity, for a row read as absent, not.
WriteApplies(c) == op[c].snapshot = Absent \/ op[c].current

\* The table takes the write; its answer may be lost on the way back, and then
\* the operation rejects although it took effect.
Write(c) ==
  LET r == RowOf(op[c].phase)
      new == Successor(op[c].phase, op[c].snapshot, op[c].at)
      others == [d \in Calls |->
                   IF RowOf(op[d].phase) = r THEN [op[d] EXCEPT !.current = FALSE]
                   ELSE op[d]]
  IN  /\ op[c].request = "write"
      /\ WriteApplies(c)
      /\ rows' = [rows EXCEPT ![r] = new]
      /\ stored' = stored \cup {r}
      /\ \E next \in {Answered(c)} \cup Rejections(c) :
           op' = [others EXCEPT ![c] = Idle(next)]
      /\ granted' = IF r = "bucket" /\ Allowed(op[c].snapshot, op[c].at)
                      THEN granted + 1 ELSE granted
      /\ erased' = IF r \in stored /\ op[c].snapshot = Absent
                     THEN erased + 1 ELSE erased
      /\ probes' = IF r = "bucket" THEN probes
                   ELSE IF new.state # "half-open" THEN 0
                   ELSE IF op[c].phase = "admit" THEN
                     IF rows[r] # Absent /\ rows[r].state = "half-open"
                       THEN probes + 1 ELSE 1
                   ELSE probes
      /\ UNCHANGED <<clock, started>>

\* Mutant: the last attempt is followed by one more.
Conflict_OffByOne(c) ==
  /\ op[c].request = "write"
  /\ ~WriteApplies(c)
  /\ op' = [op EXCEPT ![c].attempt = @ + 1, ![c].request = "read",
                      ![c].snapshot = Absent]
  /\ UNCHANGED <<clock, rows, started, stored, granted, erased, probes>>

\* 412: another write came first.  Read again, unless it was the last attempt.
Conflict(c) ==
  /\ op[c].request = "write"
  /\ ~WriteApplies(c)
  /\ \/ /\ op[c].attempt + 1 < MaxCasAttempts
        /\ op' = [op EXCEPT ![c].attempt = @ + 1, ![c].request = "read",
                            ![c].snapshot = Absent]
     \/ /\ op[c].attempt + 1 = MaxCasAttempts
        /\ \E next \in Rejections(c) : Enter(c, next)
  /\ UNCHANGED <<clock, rows, started, stored, granted, erased, probes>>

\* A request that never reached the table, or a replica that died.
Fail(c) ==
  /\ op[c].request # "none"
  /\ \E next \in Rejections(c) : Enter(c, next)
  /\ UNCHANGED <<clock, rows, started, stored, granted, erased, probes>>

Tick ==
  /\ clock < MaxClock
  /\ clock' = clock + 1
  /\ UNCHANGED <<rows, op, started, stored, granted, erased, probes>>

CallStep(c) ==
  \/ StartCall(c) \/ CallEnds(c) \/ Begin(c) \/ Read(c) \/ Write(c)
  \/ Conflict(c) \/ Fail(c)

Next == Tick \/ \E c \in Calls : CallStep(c)

Spec == Init /\ [][Next]_vars

-------------------------------------------------------------------------------
(***************************************************************************)
(* Properties.                                                             *)
(***************************************************************************)

\* The shape of the table and of the operations in flight.
TypeOK ==
  /\ clock \in 0 .. MaxClock
  /\ rows["bucket"] \in Buckets \cup {Absent}
  /\ rows["breaker"] \in Breakers \cup {Absent}
  /\ op \in [Calls ->
       [phase : Phases, at : Nat \cup {NotBegun}, attempt : 0 .. MaxCasAttempts - 1,
        request : {"none", "read", "write"},
        snapshot : Buckets \cup Breakers \cup {Absent},
        current : BOOLEAN, early : BOOLEAN]]
  /\ started \in 0 .. MaxCalls
  /\ stored = {r \in Rows : rows[r] # Absent}
  /\ granted \in Nat /\ erased \in Nat /\ probes \in Nat

\* The shared store "mirrors the CircuitBreaker and TokenBucketRateLimiter
\* state machines exactly" (shared-governance-state.ts:32-38) but for the
\* create race: every stored write is one operation of the in-process state
\* machine, and retries, refusals and lost requests are none.
Canonical(row) ==
  LET b == RecordFromEntity(row)
  IN  IF b.state = "half-open" THEN b ELSE [b EXCEPT !.halfOpenRequests = 0]

InProcess == INSTANCE Governance WITH
  breaker <- Canonical(rows["breaker"]),
  bucket <- IF rows["bucket"] = Absent
              THEN [tokens |-> Capacity, lastRefill |-> 0] ELSE rows["bucket"],
  call <- [c \in Calls |-> [phase |-> op[c].phase, at |-> op[c].at,
                            early |-> op[c].early]],
  made <- stored

MirrorsInProcess == InProcess!Spec

\* However many replicas look at the breaker at once, no more than HalfOpenMax
\* calls get through between two transitions (canExecuteBreaker, 268-284).
ProbeBudget ==
  /\ probes <= HalfOpenMax
  /\ (rows["breaker"] # Absent /\ rows["breaker"].state = "half-open")
       => probes = rows["breaker"].halfOpenRequests

\* The calls the bucket lets through never exceed the burst and what has
\* flowed back since, whatever clock readings the operations carry and in
\* whatever order they are stored; only an upsert that replaced a bucket can
\* replay an allowance (takeToken, 152-170; readModifyWrite, 225-245).
RateBound ==
  granted * Cost <= (Capacity + RefillRate * clock) * (1 + erased)

\* A throttled caller that waits as long as it is told finds a token, unless
\* another call took it (takeToken, 164-168).
WaitIsEnough ==
  LET b == rows["bucket"]
  IN  b # Absent /\ b.tokens < Cost
        => Allowed(b, b.lastRefill + RetryAfter(b))

\* An open breaker leaves that state only when its timeout has elapsed, and
\* then only for half-open; a first write that was under way when the row was
\* made is the one exception (canExecuteBreaker, writeEntity).
OpenIsHeld ==
  [][LET b == rows["breaker"]
         b2 == rows'["breaker"]
     IN  (b # Absent /\ b.state = "open" /\ b2.state # "open" /\ erased' = erased)
           => b2.state = "half-open" /\ clock - b.openedAt >= Timeout]_vars
===============================================================================
