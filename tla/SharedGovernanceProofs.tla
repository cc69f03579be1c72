----------------------- MODULE SharedGovernanceProofs -----------------------
(***************************************************************************)
(* What holds of SharedGovernance for any number of calls, any thresholds, *)
(* buckets and retry bounds.                                               *)
(*                                                                         *)
(* A write is decided by what was read one request earlier.  OpOK says     *)
(* what such a request still knows: that its snapshot is the row as long   *)
(* as the ETag is current, and that a row it read as absent was absent     *)
(* when the operation began.  Allowance bounds the bucket by a potential   *)
(* that a write under a current ETag can only decrease.                    *)
(***************************************************************************)
EXTENDS SharedGovernance, TLAPS

\* What the arithmetic needs of the constants.
LEMMA Parameters ==
  /\ FailureThreshold \in Nat \ {0} /\ SuccessThreshold \in Nat \ {0}
  /\ Timeout \in Nat \ {0} /\ HalfOpenMax \in Nat \ {0}
  /\ Cost \in Nat \ {0} /\ Capacity \in Nat /\ Capacity >= Cost
  /\ RefillRate \in Nat \ {0}
  /\ MaxClock \in Nat /\ MaxCasAttempts \in Nat \ {0} /\ MaxCalls \in Nat
BY SharedAssumption

LEMMA AbsentIsNoRow == Absent \notin Breakers /\ Absent \notin Buckets
BY SharedAssumption

USE Parameters

OpTypes ==
  [phase : Phases, at : Nat \cup {NotBegun}, attempt : 0 .. MaxCasAttempts - 1,
   request : {"none", "read", "write"},
   snapshot : Buckets \cup Breakers \cup {Absent},
   current : BOOLEAN, early : BOOLEAN]

Shape(phase) == IF phase = "take" THEN Buckets ELSE Breakers

\* What is known of a write that is under way.
WriteOK(o) ==
  /\ o.snapshot \in Shape(o.phase) \cup {Absent}
  /\ o.current = TRUE => o.snapshot = rows[RowOf(o.phase)]
  /\ o.snapshot = Absent => o.early = TRUE
  /\ o.phase = "admit" => MayExecute(ResolveState(RecordFromEntity(o.snapshot), o.at))

OpOK(o) ==
  /\ o \in OpTypes
  /\ o.at <= clock
  /\ o.request # "none" =>
       /\ o.phase \in Operations
       /\ o.at \in Nat
       /\ o.early = TRUE \/ RowOf(o.phase) \in stored
  /\ o.request = "write" => WriteOK(o)

OpsOK == op \in [Calls -> OpTypes] /\ \A c \in Calls : OpOK(op[c])

TableOK ==
  /\ rows \in [Rows -> Buckets \cup Breakers \cup {Absent}]
  /\ rows["bucket"] \in Buckets \cup {Absent}
  /\ rows["breaker"] \in Breakers \cup {Absent}
  /\ stored = {r \in Rows : rows[r] # Absent}

Counters ==
  /\ clock \in 0 .. MaxClock /\ started \in 0 .. MaxCalls
  /\ granted \in Nat /\ erased \in Nat /\ probes \in Nat

\* The probes that were let through are those the half-open row has counted.
Probing ==
  /\ probes <= HalfOpenMax
  /\ IF rows["breaker"] # Absent /\ rows["breaker"].state = "half-open"
       THEN probes = rows["breaker"].halfOpenRequests ELSE probes = 0

\* What one bucket may give out up to now.
Burst == Capacity + RefillRate * clock

Allowance ==
  /\ rows["bucket"] = Absent => granted = 0
  /\ LET b == rows["bucket"] IN
       b # Absent =>
         /\ b.tokens <= Capacity
         /\ b.lastRefill <= clock
         /\ b.tokens - RefillRate * b.lastRefill + Cost * granted
              <= Capacity + Burst * erased
  /\ Cost * granted <= Burst + Burst * erased

SInv == Counters /\ TableOK /\ OpsOK /\ Probing /\ Allowance

-------------------------------------------------------------------------------
(***************************************************************************)
(* The transitions.                                                        *)
(***************************************************************************)

LEMMA RecordType ==
  ASSUME NEW row \in Breakers \cup {Absent}
  PROVE  RecordFromEntity(row) \in Breakers
BY DEF RecordFromEntity, Breakers

LEMMA ResolvedType ==
  ASSUME NEW b \in Breakers, NEW now \in Nat
  PROVE  /\ ResolveState(b, now) \in Breakers
         /\ ResolveState(b, now) = b
              \/ /\ b.state = "open" /\ now - b.openedAt >= Timeout
                 /\ ResolveState(b, now).state = "half-open"
                 /\ ResolveState(b, now).halfOpenRequests = 0
BY DEF ResolveState, Breakers

LEMMA AdmittedType ==
  ASSUME NEW row \in Breakers \cup {Absent}, NEW now \in Nat
  PROVE  LET b == ResolveState(RecordFromEntity(row), now)
         IN  /\ Successor("admit", row, now) \in Breakers
             /\ Successor("admit", row, now).state = b.state
             /\ Successor("admit", row, now).halfOpenRequests = b.halfOpenRequests + 1
<1> DEFINE b == ResolveState(RecordFromEntity(row), now)
<1>1. b \in Breakers
  BY RecordType, ResolvedType
<1>2. Successor("admit", row, now) = [b EXCEPT !.halfOpenRequests = @ + 1]
  BY DEF Successor
<1> QED
  BY <1>1, <1>2 DEF Breakers

LEMMA SuccessType ==
  ASSUME NEW b \in Breakers
  PROVE  /\ RecordSuccess(b) \in Breakers
         /\ \/ RecordSuccess(b).state = b.state
            \/ b.state = "half-open" /\ RecordSuccess(b).state = "closed"
         /\ RecordSuccess(b).halfOpenRequests = b.halfOpenRequests
<1>1. CASE b.state # "half-open"
  <2>1. RecordSuccess(b) = [b EXCEPT !.failures = 0]
    BY <1>1 DEF RecordSuccess
  <2> QED
    BY <1>1, <2>1 DEF Breakers
<1>2. CASE b.state = "half-open" /\ b.successes + 1 >= SuccessThreshold
  BY <1>2 DEF RecordSuccess, Breakers
<1>3. CASE b.state = "half-open" /\ ~(b.successes + 1 >= SuccessThreshold)
  <2>1. RecordSuccess(b) = [b EXCEPT !.successes = @ + 1]
    BY <1>3 DEF RecordSuccess
  <2> QED
    BY <1>3, <2>1 DEF Breakers
<1> QED
  BY <1>1, <1>2, <1>3

LEMMA FailureType ==
  ASSUME NEW b \in Breakers, NEW now \in Nat
  PROVE  /\ RecordFailure(b, now) \in Breakers
         /\ RecordFailure(b, now).state # "half-open"
         /\ b.state = "open" => RecordFailure(b, now).state = "open"
BY DEF RecordFailure, Breakers

LEMMA TakenType ==
  ASSUME NEW row \in Buckets \cup {Absent}, NEW now \in Nat
  PROVE  /\ Seen(row, now) \in Buckets
         /\ Seen(row, now).tokens <= Capacity
         /\ Seen(row, now).lastRefill = now
         /\ TakeToken(row, now) \in Buckets
         /\ TakeToken(row, now).lastRefill = now
         /\ TakeToken(row, now).tokens =
              IF Allowed(row, now) THEN Seen(row, now).tokens - Cost
                                   ELSE Seen(row, now).tokens
<1> DEFINE b == IF row = Absent THEN [tokens |-> Capacity, lastRefill |-> now] ELSE row
           refilled == b.tokens + (now - b.lastRefill) * RefillRate
<1>1. b \in Buckets
  BY DEF Buckets
<1>2. refilled \in Int
  BY <1>1 DEF Buckets
<1>3. Seen(row, now) =
        [tokens |-> IF refilled < Capacity THEN refilled ELSE Capacity, lastRefill |-> now]
  BY DEF Seen
<1> HIDE DEF refilled
<1>4. /\ Seen(row, now) \in Buckets
      /\ Seen(row, now).tokens <= Capacity
      /\ Seen(row, now).lastRefill = now
  BY <1>2, <1>3 DEF Buckets
<1> QED
  BY <1>4 DEF TakeToken, Allowed, Buckets

LEMMA SuccessorType ==
  ASSUME NEW phase \in Operations, NEW row \in Shape(phase) \cup {Absent}, NEW now \in Nat
  PROVE  Successor(phase, row, now) \in Shape(phase)
<1>1. CASE phase = "take"
  BY <1>1, TakenType DEF Shape, Successor
<1>2. CASE phase = "admit"
  BY <1>2, AdmittedType DEF Shape
<1>3. CASE phase = "success"
  BY <1>3, RecordType, SuccessType DEF Shape, Successor
<1>4. CASE phase = "failure"
  BY <1>4, RecordType, FailureType DEF Shape, Successor
<1> QED
  BY <1>1, <1>2, <1>3, <1>4 DEF Operations

-------------------------------------------------------------------------------
(***************************************************************************)
(* The invariant is inductive.                                             *)
(***************************************************************************)

tableVars == <<rows, stored, granted, erased, probes>>

LEMMA InitInv == Init => SInv
<1> SUFFICES ASSUME Init PROVE SInv
  OBVIOUS
<1>1. PICK b \in {Absent, [tokens |-> Capacity, lastRefill |-> 0]},
           k \in {Absent, RecordFromEntity(Absent)} :
        rows = [r \in Rows |-> IF r = "bucket" THEN b ELSE k]
  BY DEF Init
<1>2. b \in Buckets \cup {Absent} /\ k \in Breakers \cup {Absent}
  BY RecordType DEF Buckets
<1>3. /\ rows["bucket"] = b /\ rows["breaker"] = k
      /\ rows \in [Rows -> Buckets \cup Breakers \cup {Absent}]
  BY <1>1, <1>2 DEF Rows
<1>4. TableOK
  BY <1>2, <1>3 DEF Init, TableOK
<1>5. Counters /\ clock = 0 /\ granted = 0 /\ erased = 0 /\ probes = 0
  BY DEF Init, Counters
<1>6. Idle("idle") \in OpTypes
  BY DEF Idle, OpTypes, Phases, NotBegun
<1>7. OpOK(Idle("idle"))
  BY <1>5, <1>6 DEF OpOK, Idle, NotBegun
<1>10. OpsOK
  BY <1>6, <1>7 DEF Init, OpsOK
<1>8. Probing
  BY <1>3, <1>5 DEF Probing, RecordFromEntity
<1>9. Allowance
  <2>1. b # Absent => b.tokens = Capacity /\ b.lastRefill = 0
    BY <1>1
  <2>2. Burst = Capacity
    BY <1>5 DEF Burst
  <2> QED
    BY <1>3, <1>5, <2>1, <2>2 DEF Allowance
<1> QED
  BY <1>4, <1>5, <1>8, <1>9, <1>10 DEF SInv

\* A request or a call that does not touch the table.
LEMMA LocalStep ==
  ASSUME SInv, NEW c \in Calls, NEW o, OpOK(o),
         op' = [op EXCEPT ![c] = o], started' \in 0 .. MaxCalls,
         UNCHANGED <<clock, tableVars>>
  PROVE  SInv'
<1>1. \A x : OpOK(x)' <=> OpOK(x)
  BY DEF OpOK, WriteOK, tableVars
<1>2. OpsOK'
  <2>1. o \in OpTypes
    BY DEF OpOK
  <2>2. op' \in [Calls -> OpTypes]
    BY <2>1 DEF SInv, OpsOK
  <2>3. \A d \in Calls : OpOK(op'[d])
    BY DEF SInv, OpsOK
  <2> QED
    BY <1>1, <2>2, <2>3 DEF OpsOK
<1>3. Counters' /\ TableOK'
  BY DEF SInv, Counters, TableOK, tableVars
<1>4. Probing' /\ Allowance'
  BY DEF SInv, Probing, Allowance, Burst, tableVars
<1> QED
  BY <1>2, <1>3, <1>4 DEF SInv

LEMMA IdleOK ==
  ASSUME SInv, NEW phase \in Phases
  PROVE  OpOK(Idle(phase))
BY DEF SInv, Counters, OpOK, OpTypes, Idle, NotBegun

LEMMA StartCallStep ==
  ASSUME SInv, NEW c \in Calls, StartCall(c)
  PROVE  SInv'
<1>1. OpOK(Idle("take"))
  BY IdleOK DEF Phases, Operations
<1>2. started' \in 0 .. MaxCalls
  BY DEF SInv, Counters, StartCall
<1> QED
  BY <1>1, <1>2, LocalStep DEF StartCall, Enter, tableVars

LEMMA CallEndsStep ==
  ASSUME SInv, NEW c \in Calls, CallEnds(c)
  PROVE  SInv'
<1>1. PICK next \in {"success", "failure", "idle"} : Enter(c, next)
  BY DEF CallEnds
<1>2. OpOK(Idle(next))
  BY IdleOK DEF Phases, Operations
<1>3. started' \in 0 .. MaxCalls
  BY DEF SInv, Counters, CallEnds
<1> QED
  BY <1>1, <1>2, <1>3, LocalStep DEF CallEnds, Enter, tableVars

LEMMA BeginStep ==
  ASSUME SInv, NEW c \in Calls, Begin(c)
  PROVE  SInv'
<1> DEFINE o == [op[c] EXCEPT !.at = clock, !.request = "read",
                              !.early = RowOf(op[c].phase) \notin stored]
<1>1. op[c] \in OpTypes /\ op[c].phase \in Operations /\ clock \in Nat
  BY DEF SInv, OpsOK, Counters, Begin
<1>2. o \in OpTypes
  BY <1>1 DEF OpTypes
<1>3. /\ o.at = clock /\ o.phase = op[c].phase /\ o.request = "read"
      /\ o.early = (RowOf(op[c].phase) \notin stored)
  BY <1>1 DEF OpTypes
<1>4. o.early = TRUE \/ RowOf(o.phase) \in stored
  BY <1>3
<1>7. OpOK(o)
  BY <1>1, <1>2, <1>3, <1>4 DEF OpOK
<1>5. op' = [op EXCEPT ![c] = o]
  BY DEF Begin, SInv, OpsOK
<1>6. started' \in 0 .. MaxCalls
  BY DEF SInv, Counters, Begin
<1> QED
  BY <1>5, <1>6, <1>7, LocalStep DEF Begin, tableVars

LEMMA RowShape ==
  ASSUME SInv, NEW phase \in Operations
  PROVE  rows[RowOf(phase)] \in Shape(phase) \cup {Absent}
BY DEF SInv, TableOK, RowOf, Shape, Operations

LEMMA ReadStep ==
  ASSUME SInv, NEW c \in Calls, Read(c)
  PROVE  SInv'
<1> DEFINE row == rows[RowOf(op[c].phase)]
           o == [op[c] EXCEPT !.request = "write", !.snapshot = row, !.current = TRUE]
<1>0. started' \in 0 .. MaxCalls /\ UNCHANGED <<clock, tableVars>>
  BY DEF SInv, Counters, Read, tableVars
<1>1. OpOK(op[c]) /\ op[c] \in OpTypes /\ op[c].request = "read"
  BY DEF SInv, OpsOK, Read
<1>2. CASE ~Refused(c, row) /\ op' = [op EXCEPT ![c] = o]
  <2>1. row \in Shape(op[c].phase) \cup {Absent}
    BY <1>1, RowShape DEF OpOK
  <2>2. o \in OpTypes
    BY <1>1, <2>1 DEF OpTypes, Shape
  <2>3. /\ o.phase = op[c].phase /\ o.at = op[c].at /\ o.early = op[c].early
        /\ o.request = "write" /\ o.snapshot = row
    BY <1>1 DEF OpTypes
  <2>4. row = Absent => op[c].early = TRUE
    BY <1>1 DEF OpOK, SInv, TableOK
  <2>5. WriteOK(o)
    BY <1>2, <2>1, <2>3, <2>4 DEF WriteOK, Refused
  <2>6. OpOK(o)
    BY <1>1, <2>2, <2>3, <2>5 DEF OpOK
  <2> QED
    BY <1>0, <1>2, <2>6, LocalStep
<1>3. CASE Refused(c, row) /\ Enter(c, "idle")
  BY <1>0, <1>3, IdleOK, LocalStep DEF Enter, Phases
<1>4. \/ ~Refused(c, row) /\ op' = [op EXCEPT ![c] = o]
      \/ Refused(c, row) /\ Enter(c, "idle")
  BY DEF Read, SInv, OpsOK
<1> QED
  BY <1>2, <1>3, <1>4

LEMMA RejectionsArePhases ==
  ASSUME NEW c \in Calls, NEW next \in Rejections(c)
  PROVE  next \in {"idle", "failure"} /\ next \in Phases
BY DEF Rejections, Phases, Operations

LEMMA FailStep ==
  ASSUME SInv, NEW c \in Calls, Fail(c)
  PROVE  SInv'
<1>1. PICK next \in Rejections(c) : Enter(c, next)
  BY DEF Fail
<1>2. OpOK(Idle(next))
  BY <1>1, IdleOK, RejectionsArePhases
<1>3. started' \in 0 .. MaxCalls
  BY DEF SInv, Counters, Fail
<1> QED
  BY <1>1, <1>2, <1>3, LocalStep DEF Fail, Enter, tableVars

LEMMA ConflictStep ==
  ASSUME SInv, NEW c \in Calls, Conflict(c)
  PROVE  SInv'
<1> DEFINE o == [op[c] EXCEPT !.attempt = @ + 1, !.request = "read", !.snapshot = Absent]
<1>0. started' \in 0 .. MaxCalls /\ UNCHANGED <<clock, tableVars>>
  BY DEF SInv, Counters, Conflict, tableVars
<1>1. OpOK(op[c]) /\ op[c] \in OpTypes /\ op[c].request = "write"
  BY DEF SInv, OpsOK, Conflict
<1>2. CASE op[c].attempt + 1 < MaxCasAttempts /\ op' = [op EXCEPT ![c] = o]
  <2>3. op[c].attempt + 1 \in 0 .. MaxCasAttempts - 1
    BY <1>1, <1>2 DEF OpTypes
  <2>1. o \in OpTypes
    BY <1>1, <2>3 DEF OpTypes
  <2>2. /\ o.phase = op[c].phase /\ o.at = op[c].at /\ o.early = op[c].early
        /\ o.request = "read"
    BY <1>1 DEF OpTypes
  <2>4. OpOK(o)
    BY <1>1, <2>1, <2>2 DEF OpOK
  <2> QED
    BY <1>0, <1>2, <2>4, LocalStep
<1>3. ASSUME NEW next \in Rejections(c), Enter(c, next)
      PROVE  SInv'
  BY <1>0, <1>3, IdleOK, RejectionsArePhases, LocalStep DEF Enter
<1>4. \/ op[c].attempt + 1 < MaxCasAttempts /\ op' = [op EXCEPT ![c] = o]
      \/ \E next \in Rejections(c) : Enter(c, next)
  BY DEF Conflict, SInv, OpsOK
<1> QED
  BY <1>2, <1>3, <1>4

LEMMA TickStep ==
  ASSUME SInv, Tick
  PROVE  SInv'
<1>1. clock \in Nat /\ clock' = clock + 1 /\ clock' \in 0 .. MaxClock
  BY DEF SInv, Counters, Tick
<1>2. \A c \in Calls : OpOK(op[c])'
  <2> SUFFICES ASSUME NEW c \in Calls PROVE OpOK(op[c])'
    OBVIOUS
  <2>1. OpOK(op[c]) /\ op[c].at <= clock /\ op[c].at \in Int
    BY DEF SInv, OpsOK, OpOK, OpTypes, NotBegun
  <2> QED
    BY <1>1, <2>1 DEF OpOK, WriteOK, Tick
<1>3. OpsOK' /\ Counters' /\ TableOK' /\ Probing'
  BY <1>1, <1>2 DEF SInv, OpsOK, Counters, TableOK, Probing, Tick
<1>4. Burst \in Nat /\ Burst' = Burst + RefillRate
  BY <1>1 DEF Burst
<1>5. Burst' * erased = Burst * erased + RefillRate * erased /\ RefillRate * erased \in Nat
  BY <1>4 DEF SInv, Counters
<1>6. Allowance'
  <2> DEFINE extra == RefillRate * erased
             was == Burst * erased
             is == Burst' * erased
  <2>1. extra \in Nat /\ was \in Nat /\ is = was + extra
    BY <1>4, <1>5 DEF SInv, Counters
  <2> HIDE DEF extra, was, is
  <2>2. Cost * granted <= Burst' + is
    BY <1>4, <2>1 DEF SInv, Counters, Allowance, was
  <2>3. ASSUME rows["bucket"] # Absent
        PROVE  /\ rows["bucket"].tokens <= Capacity
               /\ rows["bucket"].lastRefill <= clock'
               /\ rows["bucket"].tokens - RefillRate * rows["bucket"].lastRefill
                    + Cost * granted <= Capacity + is
    <3>1. rows["bucket"] \in Buckets
      BY <2>3 DEF SInv, TableOK
    <3>2. RefillRate * rows["bucket"].lastRefill \in Int /\ Cost * granted \in Int
      BY <3>1 DEF Buckets, SInv, Counters
    <3>3. rows["bucket"].tokens - RefillRate * rows["bucket"].lastRefill
            + Cost * granted <= Capacity + was
      BY <2>3 DEF SInv, Allowance, was
    <3> QED
      BY <1>1, <2>1, <2>3, <3>1, <3>2, <3>3 DEF SInv, Allowance, Buckets
  <2> QED
    BY <2>2, <2>3 DEF Allowance, Tick, is, SInv
<1> QED
  BY <1>3, <1>6 DEF SInv

-------------------------------------------------------------------------------
(***************************************************************************)
(* The one step that writes.                                               *)
(***************************************************************************)

Target(c) == RowOf(op[c].phase)
Written(c) == Successor(op[c].phase, op[c].snapshot, op[c].at)

\* What a write stands on: the row as it is, or none.
LEMMA WriteContext ==
  ASSUME SInv, NEW c \in Calls, Write(c)
  PROVE  /\ op[c].phase \in Operations /\ op[c].at \in Nat /\ op[c].at <= clock
         /\ Target(c) \in Rows
         /\ op[c].snapshot \in Shape(op[c].phase) \cup {Absent}
         /\ op[c].snapshot = Absent \/ op[c].snapshot = rows[Target(c)]
         /\ op[c].snapshot = Absent => op[c].early = TRUE
         /\ op[c].phase = "admit" =>
              MayExecute(ResolveState(RecordFromEntity(op[c].snapshot), op[c].at))
         /\ Written(c) \in Shape(op[c].phase) /\ Written(c) # Absent
         /\ rows'[Target(c)] = Written(c)
         /\ \A r \in Rows : r # Target(c) => rows'[r] = rows[r]
<1>1. op[c] \in OpTypes /\ OpOK(op[c]) /\ op[c].request = "write"
  BY DEF SInv, OpsOK, Write
<1>2. WriteOK(op[c]) /\ op[c].phase \in Operations /\ op[c].at \in Nat /\ op[c].at <= clock
  BY <1>1 DEF OpOK
<1>3. Target(c) \in Rows
  BY DEF Target, RowOf, Rows
<1>4. op[c].snapshot = Absent \/ op[c].snapshot = rows[Target(c)]
  <2>1. op[c].snapshot = Absent \/ op[c].current = TRUE
    BY <1>1 DEF Write, WriteApplies, OpTypes
  <2> QED
    BY <1>2, <2>1 DEF WriteOK, Target
<1>5. Written(c) \in Shape(op[c].phase)
  BY <1>2, SuccessorType DEF WriteOK, Written
<1>6. Written(c) # Absent
  BY <1>5, AbsentIsNoRow DEF Shape
<1>7. rows' = [rows EXCEPT ![Target(c)] = Written(c)]
  BY DEF Write, Target, Written
<1>8. /\ rows'[Target(c)] = Written(c)
      /\ \A r \in Rows : r # Target(c) => rows'[r] = rows[r]
  BY <1>3, <1>7 DEF SInv, TableOK
<1> QED
  BY <1>2, <1>3, <1>4, <1>5, <1>6, <1>8 DEF WriteOK

LEMMA WriteTable ==
  ASSUME SInv, NEW c \in Calls, Write(c)
  PROVE  TableOK' /\ Counters'
<1>1. rows' = [rows EXCEPT ![Target(c)] = Written(c)] /\ stored' = stored \cup {Target(c)}
  BY DEF Write, Target, Written
<1>2. Written(c) \in Buckets \cup Breakers \cup {Absent}
  BY WriteContext DEF Shape
<1>3. rows' \in [Rows -> Buckets \cup Breakers \cup {Absent}]
  BY <1>1, <1>2 DEF SInv, TableOK
<1>4. rows'["bucket"] \in Buckets \cup {Absent} /\ rows'["breaker"] \in Breakers \cup {Absent}
  <2>1. op[c].phase = "take" => Target(c) = "bucket" /\ Written(c) \in Buckets
    BY WriteContext DEF Shape, Target, RowOf
  <2>2. op[c].phase # "take" => Target(c) = "breaker" /\ Written(c) \in Breakers
    BY WriteContext DEF Shape, Target, RowOf
  <2> QED
    BY <2>1, <2>2, WriteContext DEF SInv, TableOK, Rows
<1>5. stored' = {r \in Rows : rows'[r] # Absent}
  BY <1>1, WriteContext DEF SInv, TableOK
<1>6. Counters'
  <2>1. granted' \in Nat /\ erased' \in Nat
    BY DEF Write, SInv, Counters
  <2>2. probes' \in Nat
    BY DEF Write, SInv, Counters
  <2> QED
    BY <2>1, <2>2 DEF Write, SInv, Counters
<1> QED
  BY <1>3, <1>4, <1>5, <1>6 DEF TableOK

LEMMA AnsweredIsPhase ==
  ASSUME NEW c \in Calls
  PROVE  Answered(c) \in Phases
BY DEF Answered, Phases, Operations

LEMMA WriteOps ==
  ASSUME SInv, NEW c \in Calls, Write(c)
  PROVE  OpsOK'
<1> DEFINE r == Target(c)
           others == [d \in Calls |->
                        IF RowOf(op[d].phase) = r THEN [op[d] EXCEPT !.current = FALSE]
                        ELSE op[d]]
<1>1. PICK next \in {Answered(c)} \cup Rejections(c) :
        op' = [others EXCEPT ![c] = Idle(next)]
  BY DEF Write, Target
<1>2. next \in Phases
  BY AnsweredIsPhase, RejectionsArePhases
<1>3. stored \subseteq stored' /\ clock' = clock
  BY DEF Write
<1>4. ASSUME NEW o, o = Idle(next)
      PROVE  o \in OpTypes /\ OpOK(o)'
  BY <1>2, <1>3, <1>4 DEF SInv, Counters, OpOK, OpTypes, Idle, NotBegun
<1>5. ASSUME NEW d \in Calls, d # c, NEW o, o = others[d]
      PROVE  o \in OpTypes /\ OpOK(o)'
  <2>1. op[d] \in OpTypes /\ OpOK(op[d])
    BY DEF SInv, OpsOK
  <2>2. o \in OpTypes
    BY <1>5, <2>1 DEF OpTypes
  <2>3. /\ o.phase = op[d].phase /\ o.at = op[d].at /\ o.request = op[d].request
        /\ o.snapshot = op[d].snapshot /\ o.early = op[d].early
    BY <1>5, <2>1 DEF OpTypes
  <2>4. o.current = TRUE => op[d].current = TRUE /\ RowOf(op[d].phase) # r
    BY <1>5, <2>1 DEF OpTypes
  <2>5. RowOf(op[d].phase) \in Rows
    BY DEF RowOf, Rows
  <2> HIDE DEF r, others
  <2>6. o.request = "write" => WriteOK(o)'
    BY <2>1, <2>3, <2>4, <2>5, WriteContext DEF OpOK, WriteOK, r
  <2> QED
    BY <1>3, <2>1, <2>2, <2>3, <2>6 DEF OpOK
<1>6. \A d \in Calls : op'[d] = IF d = c THEN Idle(next) ELSE others[d]
  BY <1>1
<1>7. DOMAIN op' = Calls /\ op' = [d \in Calls |-> op'[d]]
  BY <1>1
<1> HIDE DEF others, r
<1>8. \A d \in Calls : \A o : o = op'[d] => o \in OpTypes /\ OpOK(o)'
  BY <1>4, <1>5, <1>6
<1>9. op' \in [Calls -> OpTypes]
  BY <1>7, <1>8
<1> QED
  BY <1>8, <1>9 DEF OpsOK

LEMMA WriteProbing ==
  ASSUME SInv, NEW c \in Calls, Write(c)
  PROVE  Probing'
<1> DEFINE b == rows["breaker"]
           new == Written(c)
           old == RecordFromEntity(op[c].snapshot)
<1>1. CASE op[c].phase = "take"
  <2>1. Target(c) = "bucket" /\ probes' = probes
    BY <1>1 DEF Target, RowOf, Write
  <2>2. rows'["breaker"] = b
    BY <2>1, WriteContext DEF Rows
  <2> QED
    BY <2>1, <2>2 DEF SInv, Probing
<1>2. CASE op[c].phase # "take"
  <2>1. /\ Target(c) = "breaker" /\ rows'["breaker"] = new
        /\ new # Absent /\ new \in Breakers
        /\ op[c].snapshot \in Breakers \cup {Absent} /\ op[c].at \in Nat
        /\ op[c].snapshot = Absent \/ op[c].snapshot = b
    BY <1>2, WriteContext DEF Target, RowOf, Shape
  <2>2. old \in Breakers /\ (old.state = "half-open" => b # Absent /\ old = b)
    BY <2>1, RecordType DEF RecordFromEntity
  <2>3. probes' = IF new.state # "half-open" THEN 0
                  ELSE IF op[c].phase = "admit" THEN
                    IF b # Absent /\ b.state = "half-open" THEN probes + 1 ELSE 1
                  ELSE probes
    BY <1>2 DEF Write, RowOf, Written
  <2>4. CASE op[c].phase = "admit"
    <3> DEFINE seen == ResolveState(old, op[c].at)
    <3>1. MayExecute(seen)
      BY <2>4, WriteContext
    <3>2. new.state = seen.state /\ new.halfOpenRequests = seen.halfOpenRequests + 1
      BY <2>1, <2>4, AdmittedType DEF Written
    <3>3. \/ seen = old
          \/ seen.state = "half-open" /\ seen.halfOpenRequests = 0 /\ old.state = "open"
      BY <2>1, <2>2, ResolvedType
    <3>4. CASE seen.state = "half-open" /\ seen = old
      <4>1. b # Absent /\ b.state = "half-open" /\ seen = b
        BY <2>2, <3>4
      <4>2. probes = b.halfOpenRequests /\ b.halfOpenRequests < HalfOpenMax
        BY <3>1, <4>1 DEF SInv, Probing, MayExecute
      <4>3. probes' = probes + 1 /\ probes \in Nat
        BY <2>3, <2>4, <3>2, <4>1 DEF SInv, Counters
      <4> QED
        BY <2>1, <3>2, <4>1, <4>2, <4>3 DEF Probing
    <3>5. CASE seen.state = "half-open" /\ seen # old
      <4>1. b # Absent /\ b.state = "open"
        BY <2>1, <3>3, <3>5 DEF RecordFromEntity
      <4>2. probes' = 1 /\ new.halfOpenRequests = 1
        BY <2>3, <2>4, <3>2, <3>3, <3>5, <4>1
      <4> QED
        BY <2>1, <4>2, <3>2, <3>5 DEF Probing
    <3>6. CASE seen.state # "half-open"
      BY <2>1, <2>3, <3>2, <3>6 DEF Probing
    <3> QED
      BY <3>4, <3>5, <3>6
  <2>5. CASE op[c].phase = "success"
    <3>1. new = RecordSuccess(old)
      BY <2>5 DEF Written, Successor
    <3>2. new.state = "half-open" =>
            old.state = "half-open" /\ new.halfOpenRequests = old.halfOpenRequests
      BY <2>2, <3>1, SuccessType
    <3> QED
      BY <2>1, <2>2, <2>3, <2>5, <3>2 DEF SInv, Probing
  <2>6. CASE op[c].phase = "failure"
    <3>1. new = RecordFailure(old, op[c].at)
      BY <2>6 DEF Written, Successor
    <3>2. new.state # "half-open"
      BY <2>1, <2>2, <3>1, FailureType
    <3> QED
      BY <2>1, <2>3, <3>2 DEF SInv, Probing
  <2> QED
    BY <1>2, <2>4, <2>5, <2>6, WriteContext DEF Operations
<1> QED
  BY <1>1, <1>2

\* Arithmetic: one more bucket, one more burst.
LEMMA OneMoreBurst ==
  ASSUME NEW x \in Nat, NEW e \in Nat
  PROVE  x * e \in Nat /\ x * (e + 1) = x * e + x
OBVIOUS

LEMMA WriteAllowance ==
  ASSUME SInv, NEW c \in Calls, Write(c)
  PROVE  Allowance'
<1> DEFINE b == rows["bucket"]
           o == op[c]
           seen == Seen(o.snapshot, o.at)
           new == Written(c)
           given == Cost * granted
           earlier == Burst * erased
           back == RefillRate * o.at
<1>1. CASE o.phase # "take"
  <2>1. Target(c) = "breaker" /\ granted' = granted /\ clock' = clock
    BY <1>1 DEF Target, RowOf, Write
  <2>2. rows'["bucket"] = b
    BY <2>1, WriteContext DEF Rows
  <2>3. /\ erased \in Nat /\ Burst \in Nat /\ Burst' = Burst
        /\ erased' = erased \/ erased' = erased + 1
    BY <2>1 DEF Write, SInv, Counters, Burst
  <2>4. Burst * erased <= Burst * erased' /\ Burst * erased \in Int /\ Burst * erased' \in Int
    <3>1. /\ Burst * erased \in Nat
          /\ Burst * (erased + 1) = Burst * erased + Burst
      BY <2>3, OneMoreBurst
    <3> QED
      BY <2>3, <3>1
  <2>5. Cost * granted \in Int /\ (b # Absent => RefillRate * b.lastRefill \in Int /\ b \in Buckets)
    BY DEF SInv, Counters, TableOK, Buckets
  <2> DEFINE was == Burst * erased
             is == Burst * erased'
             flow == RefillRate * b.lastRefill
  <2> HIDE DEF was, is, given, flow
  <2>6. /\ was <= is /\ was \in Int /\ is \in Int /\ given \in Int
        /\ b # Absent => flow \in Int /\ b \in Buckets
    BY <2>4, <2>5 DEF was, is, given, flow
  <2>7. /\ b = Absent => granted = 0
        /\ b # Absent =>
             /\ b.tokens <= Capacity /\ b.lastRefill <= clock
             /\ b.tokens - flow + given <= Capacity + was
        /\ given <= Burst + was
    BY DEF SInv, Allowance, was, given, flow
  <2>8. /\ b # Absent => b.tokens - flow + given <= Capacity + is
        /\ given <= Burst + is
    BY <2>3, <2>6, <2>7 DEF Buckets
  <2> QED
    BY <2>1, <2>2, <2>3, <2>7, <2>8 DEF Allowance, is, given, flow
<1>2. CASE o.phase = "take"
  <2>1. /\ Target(c) = "bucket" /\ rows'["bucket"] = new /\ new # Absent
        /\ o.snapshot \in Buckets \cup {Absent} /\ o.at \in Nat /\ o.at <= clock
        /\ o.snapshot = Absent \/ o.snapshot = b
    BY <1>2, WriteContext DEF Target, RowOf, Shape
  <2>2. new = TakeToken(o.snapshot, o.at)
    BY <1>2 DEF Written, Successor
  <2>3. /\ new \in Buckets /\ new.lastRefill = o.at
        /\ seen \in Buckets /\ seen.tokens <= Capacity
        /\ new.tokens = IF Allowed(o.snapshot, o.at) THEN seen.tokens - Cost
                        ELSE seen.tokens
        /\ Allowed(o.snapshot, o.at) => seen.tokens >= Cost
    <3>1. Allowed(o.snapshot, o.at) => seen.tokens >= Cost
      BY DEF Allowed
    <3> DEFINE now == o.at
               row == o.snapshot
    <3>2. row \in Buckets \cup {Absent} /\ now \in Nat
      BY <2>1
    <3> HIDE DEF row, now
    <3>3. /\ Seen(row, now) \in Buckets /\ Seen(row, now).tokens <= Capacity
          /\ TakeToken(row, now) \in Buckets /\ TakeToken(row, now).lastRefill = now
          /\ TakeToken(row, now).tokens =
               IF Allowed(row, now) THEN Seen(row, now).tokens - Cost
                                    ELSE Seen(row, now).tokens
      BY <3>2, TakenType
    <3> HIDE DEF new
    <3> QED
      BY <2>2, <3>1, <3>3, Zenon DEF row, now
  <2>4. /\ granted' = IF Allowed(o.snapshot, o.at) THEN granted + 1 ELSE granted
        /\ clock' = clock
        /\ erased' = IF "bucket" \in stored /\ o.snapshot = Absent
                       THEN erased + 1 ELSE erased
    BY <1>2 DEF Write, RowOf
  <2>5. /\ granted \in Nat /\ erased \in Nat /\ clock \in Nat
        /\ Burst \in Nat /\ Burst' = Burst /\ earlier \in Nat
        /\ given \in Nat /\ back \in Nat /\ Capacity + back <= Burst
    <3>1. granted \in Nat /\ erased \in Nat /\ clock \in Nat
      BY DEF SInv, Counters
    <3>2. Burst \in Nat /\ Burst' = Burst
      BY <2>4, <3>1 DEF Burst
    <3>3. RefillRate * o.at <= RefillRate * clock
      BY <2>1, <3>1
    <3> QED
      BY <2>1, <3>1, <3>2, <3>3 DEF Burst
  <2>6. Cost * granted' = IF Allowed(o.snapshot, o.at) THEN given + Cost ELSE given
    BY <2>4, <2>5
  <2>7. Burst' * erased' = IF "bucket" \in stored /\ o.snapshot = Absent
                             THEN earlier + Burst ELSE earlier
    BY <2>4, <2>5, OneMoreBurst
  <2>8. RefillRate * new.lastRefill = back
    BY <2>3
  \* The potential of what the operation starts from.
  <2>9. seen.tokens - back + given <= Capacity + Burst' * erased'
    <3>1. CASE o.snapshot = Absent /\ b = Absent
      <4>1. given = 0
        BY <2>5, <3>1 DEF SInv, Allowance
      <4> HIDE DEF back, given, earlier, seen
      <4>2. Burst' * erased' \in Nat
        BY <2>5, <2>7
      <4> QED
        BY <2>3, <2>5, <4>1, <4>2 DEF Buckets
    <3>2. CASE o.snapshot = Absent /\ b # Absent
      <4>1. Burst' * erased' = earlier + Burst
        BY <2>7, <3>2 DEF SInv, TableOK, Rows
      <4>2. given <= Burst + earlier
        BY DEF SInv, Allowance
      <4> HIDE DEF back, given, earlier, seen
      <4> QED
        BY <2>3, <2>5, <4>1, <4>2 DEF Buckets
    <3>3. CASE o.snapshot = b /\ b # Absent
      <4> DEFINE flow == RefillRate * b.lastRefill
      <4>1. b \in Buckets
        BY <3>3 DEF SInv, TableOK
      <4>2. /\ b.tokens \in Int /\ flow \in Nat
            /\ (o.at - b.lastRefill) * RefillRate = back - flow
        BY <2>1, <4>1 DEF Buckets
      <4>3. b.tokens - flow + given <= Capacity + earlier
        BY <3>3 DEF SInv, Allowance
      <4>4. seen.tokens <= b.tokens + (o.at - b.lastRefill) * RefillRate
        <5> DEFINE refilled == b.tokens + (o.at - b.lastRefill) * RefillRate
        <5>1. refilled \in Int
          BY <2>1, <4>1 DEF Buckets
        <5>2. seen.tokens = IF refilled < Capacity THEN refilled ELSE Capacity
          BY <3>3 DEF Seen
        <5> HIDE DEF refilled, seen
        <5>3. seen.tokens <= refilled
          BY <5>1, <5>2
        <5> QED
          BY <5>3 DEF refilled
      <4>5. Burst' * erased' = earlier
        BY <2>7, <3>3
      <4> HIDE DEF back, given, earlier, seen, flow
      <4> QED
        BY <2>3, <2>5, <4>2, <4>3, <4>4, <4>5 DEF Buckets
    <3> QED
      BY <2>1, <3>1, <3>2, <3>3
  <2> DEFINE is == Burst' * erased'
             then == Cost * granted'
  <2>10. given <= Burst + is
    <3>1. given <= Burst + earlier
      BY DEF SInv, Allowance
    <3> HIDE DEF given, earlier
    <3> QED
      BY <2>5, <2>7, <3>1
  <2>11. is \in Nat /\ then \in Nat
    <3> HIDE DEF given, earlier
    <3> QED
      BY <2>5, <2>6, <2>7
  <2>12. new.tokens <= Capacity /\ new.tokens - back + then <= Capacity + is
    <3> HIDE DEF given, earlier, back, seen, is, then
    <3>1. then = IF Allowed(o.snapshot, o.at) THEN given + Cost ELSE given
      BY <2>6 DEF then
    <3>2. seen.tokens - back + given <= Capacity + is
      BY <2>9 DEF is
    <3> QED
      BY <2>3, <2>5, <2>11, <3>1, <3>2 DEF Buckets
  <2>13. then <= Burst + is
    <3> HIDE DEF given, earlier, back, seen, is, then
    <3>1. then = IF Allowed(o.snapshot, o.at) THEN given + Cost ELSE given
      BY <2>6 DEF then
    <3>2. seen.tokens - back + given <= Capacity + is
      BY <2>9 DEF is
    <3> QED
      BY <2>3, <2>5, <2>10, <2>11, <3>1, <3>2 DEF Buckets
  <2>14. new.lastRefill <= clock'
    BY <2>1, <2>3, <2>4
  <2> HIDE DEF new
  <2> QED
    BY <2>1, <2>8, <2>12, <2>13, <2>14, <2>5 DEF Allowance
<1> QED
  BY <1>1, <1>2


LEMMA StepInv == SInv /\ [Next]_vars => SInv'
<1> SUFFICES ASSUME SInv, [Next]_vars PROVE SInv'
  OBVIOUS
<1>1. CASE Tick
  BY <1>1, TickStep
<1>2. ASSUME NEW c \in Calls, CallStep(c)
      PROVE  SInv'
  <2>1. CASE StartCall(c)
    BY <2>1, StartCallStep
  <2>2. CASE CallEnds(c)
    BY <2>2, CallEndsStep
  <2>3. CASE Begin(c)
    BY <2>3, BeginStep
  <2>4. CASE Read(c)
    BY <2>4, ReadStep
  <2>5. CASE Write(c)
    BY <2>5, WriteTable, WriteOps, WriteProbing, WriteAllowance DEF SInv
  <2>6. CASE Conflict(c)
    BY <2>6, ConflictStep
  <2>7. CASE Fail(c)
    BY <2>7, FailStep
  <2> QED
    BY <1>2, <2>1, <2>2, <2>3, <2>4, <2>5, <2>6, <2>7 DEF CallStep
<1>3. CASE UNCHANGED vars
  <2>1. \A o : OpOK(o)' <=> OpOK(o)
    BY <1>3 DEF OpOK, WriteOK, vars
  <2>2. OpsOK'
    BY <1>3, <2>1 DEF SInv, OpsOK, vars
  <2>3. Counters' /\ TableOK' /\ Probing' /\ Allowance'
    BY <1>3 DEF SInv, Counters, TableOK, Probing, Allowance, Burst, vars
  <2> QED
    BY <2>2, <2>3 DEF SInv
<1> QED
  BY <1>1, <1>2, <1>3 DEF Next

LEMMA InductiveInvariant == Spec => []SInv
<1> QED
  BY InitInv, StepInv, PTL DEF Spec

-------------------------------------------------------------------------------
(***************************************************************************)
(* The theorems.                                                           *)
(***************************************************************************)

\* The table and the operations in flight keep their shape.
THEOREM TypeCorrect == Spec => []TypeOK
<1>1. SInv => TypeOK
  BY DEF SInv, Counters, TableOK, OpsOK, OpTypes, TypeOK
<1> QED
  BY <1>1, InductiveInvariant, PTL

\* No half-open breaker lets more calls through than it may, whatever the
\* replicas read before and however their writes fall between each other
\* (canExecuteBreaker, 268-284).
THEOREM ProbesInBudget == Spec => []ProbeBudget
<1>1. SInv => ProbeBudget
  BY DEF SInv, Probing, ProbeBudget
<1> QED
  BY <1>1, InductiveInvariant, PTL

\* The bucket gives out no more than its capacity and what has flowed back,
\* once more for every bucket an unchecked first write replaced (takeToken,
\* 152-170; writeEntity, 211-223).
THEOREM RateIsBounded == Spec => []RateBound
<1>1. SInv => RateBound
  <2> SUFFICES ASSUME SInv PROVE RateBound
    OBVIOUS
  <2>1. granted \in Nat /\ erased \in Nat /\ clock \in Nat
    BY DEF SInv, Counters
  <2>2. Burst \in Nat
    BY <2>1 DEF Burst
  <2>3. /\ granted * Cost = Cost * granted
        /\ Burst * (1 + erased) = Burst + Burst * erased
    BY <2>1, <2>2
  <2>4. Cost * granted <= Burst + Burst * erased
    BY DEF SInv, Allowance
  <2>5. granted * Cost <= Burst * (1 + erased)
    BY <2>3, <2>4
  <2> QED
    BY <2>5 DEF RateBound, Burst
<1> QED
  BY <1>1, InductiveInvariant, PTL

\* Only its timeout gets a breaker out of the open state, and then only to
\* half-open (canExecuteBreaker, 268-284; recordBreakerSuccess, 286-300).
THEOREM OpenIsHeldOpen == Spec => OpenIsHeld
<1> DEFINE b == rows["breaker"]
           Held == (b # Absent /\ b.state = "open" /\ rows'["breaker"].state # "open"
                      /\ erased' = erased)
                     => rows'["breaker"].state = "half-open" /\ clock - b.openedAt >= Timeout
<1>1. SInv /\ [Next]_vars => [Held]_vars
  <2> SUFFICES ASSUME SInv, [Next]_vars, b # Absent, b.state = "open",
                      rows'["breaker"].state # "open", erased' = erased
               PROVE  rows'["breaker"].state = "half-open" /\ clock - b.openedAt >= Timeout
    OBVIOUS
  <2>1. rows'["breaker"] # b
    OBVIOUS
  <2>2. PICK c \in Calls : Write(c)
    BY <2>1 DEF Next, Tick, CallStep, StartCall, CallEnds, Begin, Read, Conflict, Fail, vars
  <2> DEFINE o == op[c]
             old == RecordFromEntity(o.snapshot)
             new == Written(c)
  <2>3. /\ Target(c) = "breaker" /\ o.phase \in Operations \ {"take"}
        /\ rows'["breaker"] = new
    BY <2>1, <2>2, WriteContext DEF Target, RowOf, Rows
  <2>4. o.snapshot # Absent
    <3>1. "breaker" \in stored
      BY DEF SInv, TableOK, Rows
    <3> QED
      BY <2>2, <2>3, <3>1 DEF Write, Target, SInv, Counters
  <2>5. old = b /\ b \in Breakers /\ o.at \in Nat /\ o.at <= clock /\ clock \in Nat
    <3>1. /\ o.snapshot = Absent \/ o.snapshot = rows[Target(c)]
          /\ o.at \in Nat /\ o.at <= clock
      BY <2>2, WriteContext
    <3>2. b \in Breakers /\ clock \in Nat
      BY DEF SInv, TableOK, Counters
    <3>3. o.snapshot = b
      BY <2>3, <2>4, <3>1
    <3> QED
      BY <3>1, <3>2, <3>3 DEF RecordFromEntity
  <2>6. CASE o.phase = "admit"
    <3>1. new.state = ResolveState(b, o.at).state
      <4>1. new = Successor("admit", o.snapshot, o.at)
        BY <2>6 DEF Written
      <4>2. o.snapshot \in Breakers \cup {Absent}
        BY <2>2, <2>6, WriteContext DEF Shape
      <4> QED
        BY <2>5, <4>1, <4>2, AdmittedType
    <3>2. ResolveState(b, o.at).state = "half-open" /\ o.at - b.openedAt >= Timeout
      BY <2>3, <2>5, <3>1, ResolvedType
    <3> QED
      BY <2>3, <2>5, <3>1, <3>2 DEF Breakers
  <2>7. CASE o.phase = "success"
    <3>1. new = RecordSuccess(old)
      BY <2>7 DEF Written, Successor
    <3>2. RecordSuccess(b).state = "open"
      BY <2>5, SuccessType
    <3> QED
      BY <2>3, <2>5, <3>1, <3>2
  <2>8. CASE o.phase = "failure"
    <3>1. new = RecordFailure(old, o.at)
      BY <2>8 DEF Written, Successor
    <3>2. RecordFailure(b, o.at).state = "open"
      BY <2>5, FailureType
    <3> QED
      BY <2>3, <2>5, <3>1, <3>2
  <2> QED
    BY <2>3, <2>6, <2>7, <2>8 DEF Operations
<1>2. (Spec => [][Held]_vars) <=> (Spec => OpenIsHeld)
  BY DEF OpenIsHeld
<1> QED
  BY <1>1, <1>2, InductiveInvariant, PTL DEF Spec


-------------------------------------------------------------------------------
(***************************************************************************)
(* The shared store implements the in-process state machine.  Its breaker  *)
(* transitions commute with Canonical, which forgets halfOpenRequests      *)
(* outside half-open; a stored write is the abstract operation on the row  *)
(* or, for an early one, on a fresh record.                                *)
(***************************************************************************)

Forget(b) == IF b.state = "half-open" THEN b ELSE [b EXCEPT !.halfOpenRequests = 0]

LEMMA CanonicalForgets ==
  ASSUME NEW row \in Breakers \cup {Absent}
  PROVE  Canonical(row) = Forget(RecordFromEntity(row))
BY DEF Canonical, Forget

LEMMA FreshIsAbsent == Canonical(Absent) = InProcess!FreshBreaker
BY DEF Canonical, RecordFromEntity, InProcess!FreshBreaker

LEMMA ObservedForgets ==
  ASSUME NEW b \in Breakers, NEW now \in Nat
  PROVE  /\ InProcess!Observed(Forget(b), now) = Forget(ResolveState(b, now))
         /\ InProcess!CanExecute(Forget(b), now) <=> MayExecute(ResolveState(b, now))
<1>1. Forget(b) \in Breakers /\ Forget(b).state = b.state /\ Forget(b).openedAt = b.openedAt
  BY DEF Forget, Breakers
<1>2. InProcess!Observed(Forget(b), now) = Forget(ResolveState(b, now))
  <2>1. CASE b.state = "open" /\ now - b.openedAt >= Timeout
    BY <1>1, <2>1 DEF InProcess!Observed, ResolveState, Forget, Breakers
  <2>2. CASE ~(b.state = "open" /\ now - b.openedAt >= Timeout)
    BY <1>1, <2>2 DEF InProcess!Observed, ResolveState
  <2> QED
    BY <2>1, <2>2
<1>3. ASSUME NEW seen \in Breakers
      PROVE  /\ Forget(seen).state = seen.state
             /\ seen.state = "half-open" => Forget(seen) = seen
  BY DEF Forget, Breakers
<1>4. ResolveState(b, now) \in Breakers
  BY ResolvedType
<1> QED
  BY <1>2, <1>3, <1>4 DEF InProcess!CanExecute, MayExecute

LEMMA AdmittedForgets ==
  ASSUME NEW row \in Breakers \cup {Absent}, NEW now \in Nat
  PROVE  InProcess!Admitted(Canonical(row), now) = Canonical(Successor("admit", row, now))
<1> DEFINE b == RecordFromEntity(row)
           seen == ResolveState(b, now)
           more == [seen EXCEPT !.halfOpenRequests = @ + 1]
<1>1. b \in Breakers /\ seen \in Breakers
  BY RecordType, ResolvedType
<1>2. InProcess!Observed(Canonical(row), now) = Forget(seen)
  BY <1>1, CanonicalForgets, ObservedForgets
<1>3. Successor("admit", row, now) = more
  BY DEF Successor
<1>4. more \in Breakers
  BY <1>1 DEF Breakers
<1>5. Canonical(more) = Forget(more)
  BY <1>4, AbsentIsNoRow DEF Canonical, Forget, RecordFromEntity
<1> HIDE DEF seen
<1>6. Forget(more) = IF Forget(seen).state = "half-open"
                       THEN [Forget(seen) EXCEPT !.halfOpenRequests = @ + 1] ELSE Forget(seen)
  BY <1>1 DEF Forget, Breakers
<1> QED
  BY <1>2, <1>3, <1>5, <1>6 DEF InProcess!Admitted

LEMMA SucceededForgets ==
  ASSUME NEW row \in Breakers \cup {Absent}, NEW now
  PROVE  InProcess!Succeeded(Canonical(row)) = Canonical(Successor("success", row, now))
<1> DEFINE b == RecordFromEntity(row)
           next == RecordSuccess(b)
<1>1. b \in Breakers /\ next \in Breakers
  BY RecordType, SuccessType
<1>2. Canonical(row) = Forget(b)
  BY CanonicalForgets
<1>3. Successor("success", row, now) = next /\ Canonical(next) = Forget(next)
  BY <1>1, AbsentIsNoRow DEF Successor, Canonical, Forget, RecordFromEntity
<1> HIDE DEF b
<1>4. InProcess!Succeeded(Forget(b)) = Forget(next)
  <2>1. CASE b.state # "half-open"
    <3>1. next = [b EXCEPT !.failures = 0]
      BY <2>1 DEF RecordSuccess
    <3> QED
      BY <1>1, <2>1, <3>1 DEF InProcess!Succeeded, Forget, Breakers
  <2>2. CASE b.state = "half-open" /\ b.successes + 1 >= SuccessThreshold
    <3>1. next = [b EXCEPT !.state = "closed", !.failures = 0, !.successes = 0]
      BY <2>2 DEF RecordSuccess
    <3> QED
      BY <1>1, <2>2, <3>1 DEF InProcess!Succeeded, Forget, Breakers
  <2>3. CASE b.state = "half-open" /\ ~(b.successes + 1 >= SuccessThreshold)
    <3>1. next = [b EXCEPT !.successes = @ + 1]
      BY <2>3 DEF RecordSuccess
    <3> QED
      BY <1>1, <2>3, <3>1 DEF InProcess!Succeeded, Forget, Breakers
  <2> QED
    BY <2>1, <2>2, <2>3
<1> QED
  BY <1>2, <1>3, <1>4

LEMMA FailedForgets ==
  ASSUME NEW row \in Breakers \cup {Absent}, NEW now \in Nat
  PROVE  InProcess!Failed(Canonical(row), now) = Canonical(Successor("failure", row, now))
<1> DEFINE b == RecordFromEntity(row)
           next == RecordFailure(b, now)
<1>1. b \in Breakers /\ next \in Breakers
  BY RecordType, FailureType
<1>2. Canonical(row) = Forget(b)
  BY CanonicalForgets
<1>3. Successor("failure", row, now) = next /\ Canonical(next) = Forget(next)
  BY <1>1, AbsentIsNoRow DEF Successor, Canonical, Forget, RecordFromEntity
<1> HIDE DEF b
<1>4. InProcess!Failed(Forget(b), now) = Forget(next)
  <2>1. CASE b.state # "half-open" /\ b.failures + 1 < FailureThreshold
    <3>1. next = [b EXCEPT !.failures = @ + 1]
      BY <2>1 DEF RecordFailure
    <3> QED
      <4>1. Forget(b).state # "half-open" /\ ~(Forget(b).failures + 1 >= FailureThreshold)
        BY <1>1, <2>1 DEF Forget, Breakers
      <4>2. InProcess!Failed(Forget(b), now) = [Forget(b) EXCEPT !.failures = @ + 1]
        BY <4>1 DEF InProcess!Failed
      <4> QED
        BY <1>1, <2>1, <3>1, <4>2 DEF Forget, Breakers
  <2>2. CASE ~(b.state # "half-open" /\ b.failures + 1 < FailureThreshold)
    <3>1. next = InProcess!Tripped(now)
      BY <2>2 DEF RecordFailure, InProcess!Tripped
    <3>2. Forget(next) = InProcess!Tripped(now)
      BY <3>1 DEF Forget, InProcess!Tripped
    <3>3. Forget(b).state = b.state /\ Forget(b).failures = b.failures
      BY <1>1 DEF Forget, Breakers
    <3> QED
      BY <1>1, <2>2, <3>2, <3>3 DEF InProcess!Failed, Breakers
  <2> QED
    BY <2>1, <2>2
<1> QED
  BY <1>2, <1>3, <1>4

\* Taking a token, from the row or from a fresh bucket.
LEMMA TakenAgrees ==
  ASSUME NEW row \in Buckets \cup {Absent}, NEW now \in Nat, NEW b,
         b = IF row = Absent THEN InProcess!FullBucket(now) ELSE row
  PROVE  /\ InProcess!MayTake(b, now) <=> Allowed(row, now)
         /\ InProcess!Taken(b, now) = TakeToken(row, now)
<1>1. b \in Buckets
  BY DEF InProcess!FullBucket, Buckets
<1> DEFINE refilled == b.tokens + (now - b.lastRefill) * RefillRate
           least == IF refilled < Capacity THEN refilled ELSE Capacity
<1>2. refilled \in Int
  BY <1>1 DEF Buckets
<1>3. Seen(row, now) = [tokens |-> least, lastRefill |-> now]
  BY DEF Seen, InProcess!FullBucket
<1>4. InProcess!Refilled(b, now) = InProcess!Smaller(Capacity, refilled)
  BY DEF InProcess!Refilled
<1> HIDE DEF refilled
<1>5. InProcess!Refilled(b, now) = least /\ least \in Int
  BY <1>2, <1>4 DEF InProcess!Smaller
<1> HIDE DEF least
<1>6. InProcess!MayTake(b, now) <=> least >= Cost
  BY <1>5 DEF InProcess!MayTake
<1>7. Allowed(row, now) <=> least >= Cost
  BY <1>3 DEF Allowed
<1>8. TakeToken(row, now) =
        [tokens |-> IF least >= Cost THEN least - Cost ELSE least, lastRefill |-> now]
  BY <1>3 DEF TakeToken
<1> QED
  BY <1>5, <1>6, <1>7, <1>8 DEF InProcess!Taken


\* What the abstract module sees of an operation, of the calls and the bucket.
CallOf(o) == [phase |-> o.phase, at |-> o.at, early |-> o.early]
CallsOf == [c \in Calls |-> CallOf(op[c])]
BucketOf(row) == IF row = Absent THEN InProcess!FullBucket(0) ELSE row

LEMMA CallsMove ==
  ASSUME SInv, NEW c \in Calls, NEW o,
         DOMAIN op' = Calls, op'[c] = o,
         \A d \in Calls : d # c => CallOf(op'[d]) = CallOf(op[d])
  PROVE  CallsOf' = [CallsOf EXCEPT ![c] = CallOf(o)]
BY DEF CallsOf

LEMMA CallsEnter ==
  ASSUME SInv, NEW c \in Calls, NEW phase,
         DOMAIN op' = Calls, op'[c] = Idle(phase),
         \A d \in Calls : d # c => CallOf(op'[d]) = CallOf(op[d])
  PROVE  InProcess!GoTo(c, phase)
<1>1. CallsOf' = [CallsOf EXCEPT ![c] = CallOf(Idle(phase))]
  BY CallsMove
<1>2. CallOf(Idle(phase)) = [phase |-> phase, at |-> NotBegun, early |-> FALSE]
  BY DEF CallOf, Idle
<1> QED
  BY <1>1, <1>2 DEF InProcess!GoTo, CallsOf, CallOf, NotBegun, InProcess!NotBegun

LEMMA EnterGoes ==
  ASSUME SInv, NEW c \in Calls, NEW phase, Enter(c, phase)
  PROVE  InProcess!GoTo(c, phase)
<1>1. /\ DOMAIN op' = Calls /\ op'[c] = Idle(phase)
      /\ \A d \in Calls : d # c => op'[d] = op[d]
  BY DEF Enter, SInv, OpsOK
<1> QED
  BY <1>1, CallsEnter

\* An operation that has begun and is given up.
LEMMA GivenUp ==
  ASSUME SInv, NEW c \in Calls, op[c].request # "none",
         NEW next \in Rejections(c), Enter(c, next), UNCHANGED <<clock, rows, stored>>
  PROVE  InProcess!Reject(c)
<1>1. op[c].phase \in Operations /\ op[c].at \in Nat
  BY DEF SInv, OpsOK, OpOK
<1>2. InProcess!GoTo(c, next)
  BY EnterGoes
<1>3. next = "idle" \/ (next = "failure" /\ op[c].phase = "success")
  BY DEF Rejections
<1> QED
  BY <1>1, <1>2, <1>3
     DEF InProcess!Reject, InProcess!Operations, InProcess!NotBegun, Operations

LEMMA BegunCall ==
  ASSUME NEW o, NEW at, NEW early
  PROVE  [CallOf(o) EXCEPT !.at = at, !.early = early] =
           [phase |-> o.phase, at |-> at, early |-> early]
<1> DEFINE s == [CallOf(o) EXCEPT !.at = at]
<1>1. s = [phase |-> o.phase, at |-> at, early |-> o.early]
  BY DEF CallOf
<1>2. [s EXCEPT !.early = early] = [phase |-> o.phase, at |-> at, early |-> early]
  <2> HIDE DEF s
  <2> QED
    BY <1>1
<1> QED
  BY <1>2

LEMMA RefinesBegin ==
  ASSUME SInv, NEW c \in Calls, Begin(c)
  PROVE  InProcess!Begin(c)
<1> DEFINE o == [op[c] EXCEPT !.at = clock, !.request = "read",
                              !.early = RowOf(op[c].phase) \notin stored]
<1>1. op[c] \in OpTypes /\ op \in [Calls -> OpTypes]
  BY DEF SInv, OpsOK
<1>2. op' = [op EXCEPT ![c] = o]
  BY <1>1 DEF Begin
<1>3. CallsOf' = [CallsOf EXCEPT ![c] = CallOf(o)]
  BY <1>1, <1>2, CallsMove
<1>4. /\ o.phase = op[c].phase /\ o.at = clock
      /\ o.early = (RowOf(op[c].phase) \notin stored)
  BY <1>1 DEF OpTypes
<1>5. CallsOf[c] = CallOf(op[c])
  BY DEF CallsOf
<1>6. CallOf(o) = [CallsOf[c] EXCEPT !.at = clock, !.early = RowOf(op[c].phase) \notin stored]
  <2> DEFINE early == RowOf(op[c].phase) \notin stored
  <2>1. CallOf(o) = [phase |-> op[c].phase, at |-> clock, early |-> early]
    BY <1>4 DEF CallOf
  <2> HIDE DEF early, o
  <2>2. [CallOf(op[c]) EXCEPT !.at = clock, !.early = early] =
          [phase |-> op[c].phase, at |-> clock, early |-> early]
    BY BegunCall
  <2> QED
    BY <1>5, <2>1, <2>2 DEF early
<1>7. CallsOf' = [CallsOf EXCEPT ![c].at = clock, ![c].early = RowOf(op[c].phase) \notin stored]
  BY <1>3, <1>6 DEF CallsOf
<1> QED
  BY <1>7 DEF Begin, InProcess!Begin, InProcess!Operations, InProcess!NotBegun,
              InProcess!RowOf, Operations, NotBegun, RowOf, CallsOf, CallOf

\* A read that is not refused is invisible.
LEMMA RefinesRead ==
  ASSUME SInv, NEW c \in Calls, Read(c)
  PROVE  [InProcess!Next]_InProcess!vars
<1> DEFINE row == rows[RowOf(op[c].phase)]
           o == [op[c] EXCEPT !.request = "write", !.snapshot = row, !.current = TRUE]
<1>1. op[c] \in OpTypes /\ op \in [Calls -> OpTypes] /\ OpOK(op[c]) /\ op[c].request = "read"
  BY DEF SInv, OpsOK, Read
<1>2. op[c].phase \in Operations /\ op[c].at \in Nat
  BY <1>1 DEF OpOK
<1>3. CASE ~Refused(c, row) /\ op' = [op EXCEPT ![c] = o]
  <2>1. CallsOf' = [CallsOf EXCEPT ![c] = CallOf(o)]
    BY <1>1, <1>3, CallsMove
  <2>2. CallOf(o) = CallOf(op[c])
    BY <1>1 DEF OpTypes, CallOf
  <2>3. CallsOf' = CallsOf
    BY <2>1, <2>2 DEF CallsOf
  <2> QED
    BY <2>3 DEF InProcess!vars, CallsOf, CallOf, Read
<1>4. CASE Refused(c, row) /\ Enter(c, "idle")
  <2>1. op[c].phase = "admit" /\ row = rows["breaker"] /\ row \in Breakers \cup {Absent}
    BY <1>4 DEF Refused, RowOf, SInv, TableOK
  <2>2. ~InProcess!CanExecute(Canonical(rows["breaker"]), op[c].at)
    BY <1>2, <1>4, <2>1, RecordType, CanonicalForgets, ObservedForgets DEF Refused
  <2>3. InProcess!GoTo(c, "idle")
    BY <1>4, EnterGoes
  <2>4. InProcess!Refuse(c)
    BY <1>2, <2>1, <2>2, <2>3
       DEF InProcess!Refuse, InProcess!Begun, InProcess!NotBegun, Read
  <2> QED
    BY <2>4 DEF InProcess!Next
<1> QED
  BY <1>1, <1>3, <1>4 DEF Read


\* Where a write leaves the calls: its own goes on, no other is seen to move.
LEMMA WriteCalls ==
  ASSUME SInv, NEW c \in Calls, Write(c)
  PROVE  \E next \in {Answered(c)} \cup Rejections(c) : InProcess!GoTo(c, next)
<1> DEFINE others == [d \in Calls |->
                        IF RowOf(op[d].phase) = Target(c)
                          THEN [op[d] EXCEPT !.current = FALSE] ELSE op[d]]
<1>1. PICK next \in {Answered(c)} \cup Rejections(c) :
        op' = [others EXCEPT ![c] = Idle(next)]
  BY DEF Write, Target
<1>2. \A d \in Calls : CallOf(others[d]) = CallOf(op[d])
  BY DEF SInv, OpsOK, OpTypes, CallOf
<1>3. /\ DOMAIN op' = Calls /\ op'[c] = Idle(next)
      /\ \A d \in Calls : d # c => op'[d] = others[d]
  BY <1>1
<1> HIDE DEF others
<1> QED
  BY <1>2, <1>3, CallsEnter

LEMMA RefinesTake ==
  ASSUME SInv, NEW c \in Calls, Write(c), op[c].phase = "take"
  PROVE  InProcess!Take(c)
<1> DEFINE row == op[c].snapshot
           now == op[c].at
           b == IF row = Absent THEN InProcess!FullBucket(now) ELSE row
<1>1. /\ Target(c) = "bucket" /\ now \in Nat /\ row \in Buckets \cup {Absent}
      /\ row = Absent \/ row = rows["bucket"]
      /\ row = Absent => op[c].early = TRUE
      /\ rows'["bucket"] = Written(c) /\ Written(c) # Absent
      /\ rows'["breaker"] = rows["breaker"]
  BY WriteContext DEF Target, RowOf, Shape, Rows
<1>2. Written(c) = TakeToken(row, now)
  BY DEF Written, Successor
<1>3. /\ InProcess!MayTake(b, now) <=> Allowed(row, now)
      /\ InProcess!Taken(b, now) = TakeToken(row, now)
  BY <1>1, TakenAgrees
<1>4. PICK next \in {Answered(c)} \cup Rejections(c) : InProcess!GoTo(c, next)
  BY WriteCalls
<1>5. next = "idle" \/ (next = "admit" /\ Allowed(row, now))
  BY DEF Answered, Rejections
<1>6. b = BucketOf(rows["bucket"]) \/ (b = InProcess!FullBucket(now) /\ op[c].early = TRUE)
  BY <1>1 DEF BucketOf
<1>7. BucketOf(rows'["bucket"]) = TakeToken(row, now)
  BY <1>1, <1>2 DEF BucketOf
<1>8. /\ CallsOf[c].phase = "take" /\ CallsOf[c].at = now /\ CallsOf[c].early = op[c].early
      /\ now # NotBegun
  BY <1>1 DEF CallsOf, CallOf, NotBegun
<1>9. stored' = stored \cup {"bucket"} /\ clock' = clock
  BY DEF Write, RowOf
<1>10. InProcess!Begun(c, "take")
  BY <1>8 DEF InProcess!Begun, CallsOf, CallOf, NotBegun, InProcess!NotBegun
<1> HIDE DEF b, row, now
<1>11. b \in InProcess!CurrentBucket(c)
  BY <1>6, <1>8 DEF InProcess!CurrentBucket, CallsOf, CallOf, BucketOf,
                    InProcess!FullBucket
<1>12. BucketOf(rows'["bucket"]) = InProcess!Taken(b, op[c].at)
  BY <1>3, <1>7 DEF now
<1>13. (InProcess!MayTake(b, op[c].at) /\ InProcess!GoTo(c, "admit"))
         \/ InProcess!GoTo(c, "idle")
  BY <1>3, <1>4, <1>5 DEF now
<1> QED
  BY <1>1, <1>9, <1>10, <1>11, <1>12, <1>13
     DEF InProcess!Take, InProcess!Stored, BucketOf, InProcess!FullBucket


\* A write of the breaker starts from the row or, an early one, from none.
LEMMA WriteBreaker ==
  ASSUME SInv, NEW c \in Calls, Write(c), op[c].phase # "take"
  PROVE  /\ op[c].at \in Nat /\ op[c].snapshot \in Breakers \cup {Absent}
         /\ Canonical(rows'["breaker"]) =
              Canonical(Successor(op[c].phase, op[c].snapshot, op[c].at))
         /\ Canonical(op[c].snapshot) \in InProcess!Current(c)
         /\ rows'["bucket"] = rows["bucket"]
         /\ stored' = stored \cup {"breaker"} /\ clock' = clock
         /\ InProcess!Begun(c, op[c].phase)
<1>1. /\ Target(c) = "breaker" /\ op[c].at \in Nat
      /\ op[c].snapshot \in Breakers \cup {Absent}
      /\ op[c].snapshot = Absent \/ op[c].snapshot = rows["breaker"]
      /\ op[c].snapshot = Absent => op[c].early = TRUE
      /\ rows'["breaker"] = Written(c)
      /\ rows'["bucket"] = rows["bucket"]
  BY WriteContext DEF Target, RowOf, Shape, Rows
<1>2. Canonical(op[c].snapshot) = Canonical(rows["breaker"])
        \/ (Canonical(op[c].snapshot) = InProcess!FreshBreaker /\ op[c].early = TRUE)
  BY <1>1, FreshIsAbsent
<1>3. Canonical(op[c].snapshot) \in InProcess!Current(c)
  BY <1>2 DEF InProcess!Current
<1>4. stored' = stored \cup {"breaker"} /\ clock' = clock
  BY DEF Write, RowOf
<1>5. InProcess!Begun(c, op[c].phase)
  BY <1>1 DEF InProcess!Begun, InProcess!NotBegun
<1> QED
  BY <1>1, <1>3, <1>4, <1>5 DEF Written

LEMMA RefinesAdmit ==
  ASSUME SInv, NEW c \in Calls, Write(c), op[c].phase = "admit"
  PROVE  InProcess!Admit(c)
<1> DEFINE row == op[c].snapshot
           now == op[c].at
<1>1. /\ now \in Nat /\ row \in Breakers \cup {Absent}
      /\ Canonical(row) \in InProcess!Current(c)
      /\ stored' = stored \cup {"breaker"} /\ UNCHANGED <<clock, rows["bucket"]>>
      /\ InProcess!Begun(c, "admit")
  BY WriteBreaker
<1>2. Canonical(rows'["breaker"]) = InProcess!Admitted(Canonical(row), now)
  BY <1>1, WriteBreaker, AdmittedForgets
<1>3. MayExecute(ResolveState(RecordFromEntity(row), now))
  BY WriteContext
<1>4. InProcess!CanExecute(Canonical(row), now)
  BY <1>1, <1>3, RecordType, CanonicalForgets, ObservedForgets
<1>5. PICK next \in {Answered(c)} \cup Rejections(c) : InProcess!GoTo(c, next)
  BY WriteCalls
<1>6. next = "idle" \/ next = "calling"
  BY DEF Answered, Rejections
<1> QED
  BY <1>1, <1>2, <1>4, <1>5, <1>6 DEF InProcess!Admit, InProcess!Stored

LEMMA RefinesReportSuccess ==
  ASSUME SInv, NEW c \in Calls, Write(c), op[c].phase = "success"
  PROVE  InProcess!ReportSuccess(c)
<1> DEFINE row == op[c].snapshot
<1>1. /\ row \in Breakers \cup {Absent}
      /\ Canonical(row) \in InProcess!Current(c)
      /\ stored' = stored \cup {"breaker"} /\ UNCHANGED <<clock, rows["bucket"]>>
      /\ InProcess!Begun(c, "success")
  BY WriteBreaker
<1>2. Canonical(rows'["breaker"]) = InProcess!Succeeded(Canonical(row))
  BY <1>1, WriteBreaker, SucceededForgets
<1>3. PICK next \in {Answered(c)} \cup Rejections(c) : InProcess!GoTo(c, next)
  BY WriteCalls
<1>4. next = "idle" \/ next = "failure"
  BY DEF Answered, Rejections
<1> QED
  BY <1>1, <1>2, <1>3, <1>4 DEF InProcess!ReportSuccess, InProcess!Stored

LEMMA RefinesReportFailure ==
  ASSUME SInv, NEW c \in Calls, Write(c), op[c].phase = "failure"
  PROVE  InProcess!ReportFailure(c)
<1> DEFINE row == op[c].snapshot
<1>1. /\ op[c].at \in Nat /\ row \in Breakers \cup {Absent}
      /\ Canonical(row) \in InProcess!Current(c)
      /\ stored' = stored \cup {"breaker"} /\ UNCHANGED <<clock, rows["bucket"]>>
      /\ InProcess!Begun(c, "failure")
  BY WriteBreaker
<1>2. Canonical(rows'["breaker"]) = InProcess!Failed(Canonical(row), op[c].at)
  BY <1>1, WriteBreaker, FailedForgets
<1>3. PICK next \in {Answered(c)} \cup Rejections(c) : InProcess!GoTo(c, next)
  BY WriteCalls
<1>4. next = "idle"
  BY DEF Answered, Rejections
<1> QED
  BY <1>1, <1>2, <1>3, <1>4 DEF InProcess!ReportFailure, InProcess!Stored

\* Losing the compare-and-set is invisible until the attempts are used up.
LEMMA RefinesConflict ==
  ASSUME SInv, NEW c \in Calls, Conflict(c)
  PROVE  [InProcess!Next]_InProcess!vars
<1> DEFINE o == [op[c] EXCEPT !.attempt = @ + 1, !.request = "read", !.snapshot = Absent]
<1>1. op[c] \in OpTypes /\ op \in [Calls -> OpTypes] /\ op[c].request = "write"
  BY DEF SInv, OpsOK, Conflict
<1>2. CASE op' = [op EXCEPT ![c] = o]
  <2>1. CallsOf' = [CallsOf EXCEPT ![c] = CallOf(o)]
    BY <1>1, <1>2, CallsMove
  <2>2. CallOf(o) = CallOf(op[c])
    BY <1>1 DEF OpTypes, CallOf
  <2>3. CallsOf' = CallsOf
    BY <2>1, <2>2 DEF CallsOf
  <2> QED
    BY <2>3 DEF InProcess!vars, CallsOf, CallOf, Conflict
<1>3. ASSUME NEW next \in Rejections(c), Enter(c, next)
      PROVE  InProcess!Reject(c)
  BY <1>1, <1>3, GivenUp DEF Conflict
<1>4. \/ op' = [op EXCEPT ![c] = o]
      \/ \E next \in Rejections(c) : Enter(c, next)
  BY <1>1 DEF Conflict
<1> QED
  BY <1>2, <1>3, <1>4 DEF InProcess!Next

LEMMA RefinesProceed ==
  ASSUME SInv, NEW c \in Calls, StartCall(c) \/ CallEnds(c)
  PROVE  InProcess!Proceed(c)
<1>1. CASE StartCall(c)
  <2>1. InProcess!GoTo(c, "take") /\ op[c].phase = "idle"
    BY <1>1, EnterGoes DEF StartCall
  <2> QED
    BY <1>1, <2>1 DEF StartCall, InProcess!Proceed
<1>2. CASE CallEnds(c)
  <2>1. PICK next \in {"success", "failure", "idle"} : Enter(c, next)
    BY <1>2 DEF CallEnds
  <2>2. InProcess!GoTo(c, next) /\ op[c].phase = "calling"
    BY <1>2, <2>1, EnterGoes DEF CallEnds
  <2> QED
    BY <1>2, <2>1, <2>2 DEF CallEnds, InProcess!Proceed
<1> QED
  BY <1>1, <1>2

\* Every run of the shared store is one of the in-process state machine,
\* whose operations take effect one at a time (shared-governance-state.ts:
\* 32-38).
THEOREM SharedMirrorsInProcess == Spec => MirrorsInProcess
<1>1. Init => InProcess!Init
  <2> SUFFICES ASSUME Init PROVE InProcess!Init
    OBVIOUS
  <2>1. Canonical(rows["breaker"]) = InProcess!FreshBreaker
    BY DEF Init, Canonical, RecordFromEntity, InProcess!FreshBreaker, Rows
  <2>2. BucketOf(rows["bucket"]) = InProcess!FullBucket(0)
    BY DEF Init, BucketOf, InProcess!FullBucket, Rows
  <2>3. CallsOf = [c \in Calls |-> [phase |-> "idle", at |-> NotBegun, early |-> FALSE]]
    BY DEF Init, CallsOf, CallOf, Idle
  <2>4. stored \in SUBSET Rows /\ clock = 0
    BY DEF Init
  <2> QED
    BY <2>1, <2>2, <2>3, <2>4
       DEF InProcess!Init, BucketOf, InProcess!FullBucket, CallsOf, CallOf,
           InProcess!NotBegun, NotBegun, InProcess!Rows, Rows
<1>2. SInv /\ [Next]_vars => [InProcess!Next]_InProcess!vars
  <2> SUFFICES ASSUME SInv, [Next]_vars PROVE [InProcess!Next]_InProcess!vars
    OBVIOUS
  <2>1. CASE Tick
    <3>1. InProcess!Tick
      BY <2>1 DEF Tick, InProcess!Tick
    <3> QED
      BY <3>1 DEF InProcess!Next
  <2>2. ASSUME NEW c \in Calls, CallStep(c)
        PROVE  [InProcess!Next]_InProcess!vars
    <3>1. CASE StartCall(c) \/ CallEnds(c)
      BY <3>1, RefinesProceed DEF InProcess!Next
    <3>2. CASE Begin(c)
      BY <3>2, RefinesBegin DEF InProcess!Next
    <3>3. CASE Read(c)
      BY <3>3, RefinesRead
    <3>4. CASE Write(c)
      <4>1. op[c].phase \in Operations
        BY <3>4, WriteContext
      <4>2. InProcess!Take(c) \/ InProcess!Admit(c) \/ InProcess!ReportSuccess(c)
              \/ InProcess!ReportFailure(c)
        BY <3>4, <4>1, RefinesTake, RefinesAdmit, RefinesReportSuccess,
           RefinesReportFailure DEF Operations
      <4> QED
        BY <4>2 DEF InProcess!Next
    <3>5. CASE Conflict(c)
      BY <3>5, RefinesConflict
    <3>6. CASE Fail(c)
      <4>1. InProcess!Reject(c)
        BY <3>6, GivenUp DEF Fail
      <4> QED
        BY <4>1 DEF InProcess!Next
    <3> QED
      BY <2>2, <3>1, <3>2, <3>3, <3>4, <3>5, <3>6 DEF CallStep
  <2>3. CASE UNCHANGED vars
    BY <2>3 DEF vars, InProcess!vars, Canonical
  <2> QED
    BY <2>1, <2>2, <2>3 DEF Next
<1> QED
  BY <1>1, <1>2, InductiveInvariant, PTL DEF Spec, MirrorsInProcess, InProcess!Spec


\* Arithmetic: what flows back in n \div r ticks, rounded up.
LEMMA RoundedUp ==
  ASSUME NEW n \in Nat, NEW r \in Nat \ {0}
  PROVE  /\ (n + r - 1) \div r \in Int
         /\ ((n + r - 1) \div r) * r >= n
OBVIOUS

LEMMA RefilledIsAllowed ==
  ASSUME NEW row \in Buckets, NEW now \in Nat,
         row.tokens + (now - row.lastRefill) * RefillRate >= Cost
  PROVE  Allowed(row, now)
<1> DEFINE refilled == row.tokens + (now - row.lastRefill) * RefillRate
           least == IF refilled < Capacity THEN refilled ELSE Capacity
<1>1. row # Absent
  BY AbsentIsNoRow
<1>2. Seen(row, now) = [tokens |-> least, lastRefill |-> now]
  BY <1>1 DEF Seen
<1>3. least >= Cost
  <2>1. refilled \in Int /\ refilled >= Cost
    BY DEF Buckets
  <2> HIDE DEF refilled
  <2> QED
    BY <2>1
<1> HIDE DEF least
<1> QED
  BY <1>2, <1>3 DEF Allowed

\* A throttled caller that waits as long as it is told finds a token (takeToken,
\* 164-168).
THEOREM WaitingSuffices == Spec => []WaitIsEnough
<1>1. TypeOK => WaitIsEnough
  <2> DEFINE b == rows["bucket"]
             wait == RetryAfter(b)
             ticks == (Cost - b.tokens + RefillRate - 1) \div RefillRate
             refilled == b.tokens + (b.lastRefill + wait - b.lastRefill) * RefillRate
  <2> SUFFICES ASSUME TypeOK, b # Absent, b.tokens < Cost
               PROVE  Allowed(b, b.lastRefill + wait)
    BY DEF WaitIsEnough
  <2>1. b \in Buckets /\ b.tokens \in Int /\ b.lastRefill \in Nat
    BY DEF TypeOK, Buckets
  <2>2. Cost - b.tokens \in Nat
    BY <2>1
  <2>3. ticks \in Int /\ ticks * RefillRate >= Cost - b.tokens
    BY <2>1, <2>2, RoundedUp
  <2>4. wait = IF ticks < 1 THEN 1 ELSE ticks
    BY DEF RetryAfter
  <2>5. wait \in Nat /\ wait * RefillRate >= Cost - b.tokens
    <3> HIDE DEF ticks
    <3>1. CASE ticks < 1
      <4>1. ticks * RefillRate <= 0
        BY <2>3, <3>1
      <4> QED
        BY <2>1, <2>3, <2>4, <3>1, <4>1
    <3>2. CASE ~(ticks < 1)
      BY <2>3, <2>4, <3>2
    <3> QED
      BY <3>1, <3>2
  <2> HIDE DEF wait
  <2>6. refilled >= Cost /\ refilled \in Int
    <3>1. b.lastRefill + wait - b.lastRefill = wait
      BY <2>1, <2>5
    <3>2. wait * RefillRate \in Int
      BY <2>5
    <3> HIDE DEF b
    <3> QED
      BY <2>1, <2>5, <3>1, <3>2
  <2> DEFINE now == b.lastRefill + wait
  <2>7. now \in Nat /\ b.tokens + (now - b.lastRefill) * RefillRate >= Cost
    BY <2>1, <2>5, <2>6
  <2> HIDE DEF now
  <2>8. Allowed(b, now)
    BY <2>1, <2>7, RefilledIsAllowed
  <2> QED
    BY <2>8 DEF now
<1> QED
  BY <1>1, TypeCorrect, PTL
===============================================================================
