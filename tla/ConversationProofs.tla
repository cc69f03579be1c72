------------------------- MODULE ConversationProofs -------------------------
(***************************************************************************)
(* What holds of Conversation for any messages, threads, chains, budgets   *)
(* and prices: its types, that a budget covers a run with its retry        *)
(* (BInv), that conversations split at the TTL (SInv) and that the rows of *)
(* minion_runs account for the replies (RInv).                             *)
(*                                                                         *)
(* A step moves one message's handler or those of a process that ends, and *)
(* leaves the runs alone, ends the run in hand, starts one, or does both   *)
(* in one stretch.                                                         *)
(***************************************************************************)
EXTENDS Conversation, TLAPS, FiniteSetTheorems

-------------------------------------------------------------------------------
(***************************************************************************)
(* Handlers.                                                               *)
(***************************************************************************)
LeaveStages == {"reply", "error reply", "ended"}

LeaveReplies == Replies \cup {"none"}

\* The conversation a message belongs to: no step of its chain changes it.
SameTalk(h, k) == k.root = h.root /\ k.at = h.at

LEMMA LeaveType ==
  ASSUME NEW h \in Handlers, NEW stage \in LeaveStages, NEW reply \in LeaveReplies
  PROVE  LET k == Leave(h, stage, reply)
         IN  /\ k \in Handlers /\ k.stage = stage /\ k.intent = h.intent
             /\ SameTalk(h, k) /\ k.step = h.step /\ k.reply = reply
<1> DEFINE Good(k) == /\ k \in Handlers /\ k.stage = stage /\ k.intent = h.intent
                      /\ k.root = h.root /\ k.at = h.at /\ k.step = h.step
           one == [h EXCEPT !.stage = stage]
           two == [one EXCEPT !.reply = reply]
           three == [two EXCEPT !.attempt = 0]
           four == [three EXCEPT !.used = 0]
           five == [four EXCEPT !.pending = FALSE]
           six == [five EXCEPT !.run = <<>>]
<1>1. Good(one)
  BY DEF Handlers, Waiting, LeaveStages
<1>2. Leave(h, stage, reply) = six
  BY DEF Leave
<1> HIDE DEF one
<1>3. Good(two) /\ two.reply = reply
  BY <1>1 DEF Handlers, LeaveReplies
<1> HIDE DEF two
<1>4. Good(three) /\ three.reply = reply
  BY <1>3 DEF Handlers
<1> HIDE DEF three
<1>5. Good(four) /\ four.reply = reply
  BY <1>4 DEF Handlers
<1> HIDE DEF four
<1>6. Good(five) /\ five.reply = reply
  <2>1. \A b \in BOOLEAN : LET k == [four EXCEPT !.pending = b]
                          IN  Good(k) /\ k.reply = reply
    BY <1>5 DEF Handlers
  <2>2. FALSE \in BOOLEAN
    OBVIOUS
  <2> QED BY <2>1, <2>2
<1> HIDE DEF five
<1>7. Good(six) /\ six.reply = reply
  BY <1>6 DEF Handlers
<1> HIDE DEF six
<1> QED BY <1>2, <1>7 DEF SameTalk

LEMMA ThrowType ==
  ASSUME NEW h \in Handlers, NEW m
  PROVE  LET k == Throw(h, m)
         IN  /\ k \in Handlers /\ k.intent = h.intent
             /\ k.stage \in {"ended", "error reply"}
             /\ SameTalk(h, k) /\ k.step = h.step /\ k.reply = "error"
<1>1. PICK stage : stage = IF m \in FromWebhook THEN "ended" ELSE "error reply"
  OBVIOUS
<1>2. /\ stage \in LeaveStages /\ stage \in {"ended", "error reply"}
      /\ "error" \in LeaveReplies
  BY <1>1 DEF LeaveStages, LeaveReplies, Replies
<1>3. PICK k : k = Leave(h, stage, "error")
  OBVIOUS
<1>4. k = Throw(h, m)
  BY <1>1, <1>3 DEF Throw
<1>5. /\ k \in Handlers /\ k.stage = stage /\ k.intent = h.intent
      /\ SameTalk(h, k) /\ k.step = h.step /\ k.reply = "error"
  BY <1>2, <1>3, LeaveType
<1> QED BY <1>2, <1>4, <1>5

LEMMA AnswerType ==
  ASSUME NEW h \in Handlers, NEW reply \in Replies
  PROVE  LET k == Answer(h, reply)
         IN  /\ k \in Handlers /\ k.intent = h.intent /\ k.stage = "reply"
             /\ SameTalk(h, k) /\ k.step = h.step /\ k.reply = reply
<1>1. "reply" \in LeaveStages /\ reply \in LeaveReplies
  BY DEF LeaveStages, LeaveReplies
<1>2. PICK k : k = Leave(h, "reply", reply)
  OBVIOUS
<1>3. /\ k \in Handlers /\ k.stage = "reply" /\ k.intent = h.intent
      /\ SameTalk(h, k) /\ k.step = h.step /\ k.reply = reply
  BY <1>1, <1>2, LeaveType
<1> QED BY <1>2, <1>3 DEF Answer

\* The handler that waits for its classification.
Entered(h, root, at) == [h EXCEPT !.stage = "classify", !.root = root, !.at = at]

LEMMA EnterType ==
  ASSUME NEW h \in Handlers, NEW root \in Messages, NEW at \in 0 .. MaxClock
  PROVE  LET k == Entered(h, root, at)
         IN  /\ k \in Handlers /\ k.stage = "classify" /\ k.intent = h.intent
             /\ k.root = root /\ k.at = at /\ k.step = h.step /\ k.reply = h.reply
<1> DEFINE Good(k) == /\ k \in Handlers /\ k.stage = "classify" /\ k.intent = h.intent
                      /\ k.step = h.step /\ k.reply = h.reply
           one == [h EXCEPT !.stage = "classify"]
           two == [one EXCEPT !.root = root]
           three == [two EXCEPT !.at = at]
<1>1. Good(one)
  BY DEF Handlers, Waiting
<1>2. Entered(h, root, at) = three
  BY DEF Entered
<1> HIDE DEF one
<1>3. Good(two) /\ two.root = root
  BY <1>1 DEF Handlers
<1> HIDE DEF two
<1>4. at \in Int
  BY ConversationAssumption
<1>5. Good(three) /\ three.root = root /\ three.at = at
  BY <1>3, <1>4 DEF Handlers
<1> HIDE DEF three
<1> QED BY <1>2, <1>5

\* The handler that sends the first turn of a step.
FirstTurn(h, step, id) ==
  [h EXCEPT !.stage = "minion", !.step = step, !.attempt = 1,
            !.used = 0, !.pending = FALSE, !.run = id]

LEMMA FirstTurnType ==
  ASSUME NEW h \in Handlers, NEW step \in Nat, NEW id \in RunIds
  PROVE  LET k == FirstTurn(h, step, id)
         IN  /\ k \in Handlers /\ k.stage = "minion" /\ k.intent = h.intent
             /\ k.step = step /\ k.run = id
             /\ SameTalk(h, k) /\ k.reply = h.reply
<1> DEFINE one == [h EXCEPT !.stage = "minion"]
           two == [one EXCEPT !.step = step]
           three == [two EXCEPT !.attempt = 1]
           four == [three EXCEPT !.used = 0]
           five == [four EXCEPT !.pending = FALSE]
           six == [five EXCEPT !.run = id]
           Good(k) == /\ k \in Handlers /\ k.stage = "minion" /\ k.intent = h.intent
                      /\ k.root = h.root /\ k.at = h.at /\ k.reply = h.reply
<1>1. Good(one)
  BY DEF Handlers, Waiting
<1>2. FirstTurn(h, step, id) = six
  BY DEF FirstTurn
<1> HIDE DEF one
<1>3. Good(two) /\ two.step = step
  BY <1>1 DEF Handlers
<1> HIDE DEF two
<1>4. Good(three) /\ three.step = step
  BY <1>3 DEF Handlers
<1> HIDE DEF three
<1>5. Good(four) /\ four.step = step
  BY <1>4 DEF Handlers
<1> HIDE DEF four
<1>6. Good(five) /\ five.step = step
  <2>1. \A b \in BOOLEAN : LET k == [four EXCEPT !.pending = b] IN Good(k) /\ k.step = step
    BY <1>5 DEF Handlers
  <2>2. FALSE \in BOOLEAN
    OBVIOUS
  <2> QED BY <2>1, <2>2
<1> HIDE DEF five
<1>7. Good(six) /\ six.step = step /\ six.run = id
  BY <1>6 DEF Handlers
<1> HIDE DEF six
<1> QED BY <1>2, <1>7 DEF SameTalk

\* The handler that sends the retry of a step.
Retried(h, used, pending) ==
  [h EXCEPT !.attempt = 2, !.used = used, !.pending = pending]

Flags == BOOLEAN

LEMMA RetryType ==
  ASSUME NEW h \in Handlers, NEW used \in Nat, NEW pending \in Flags
  PROVE  LET k == Retried(h, used, pending)
         IN  /\ k \in Handlers /\ k.stage = h.stage /\ k.intent = h.intent
             /\ k.step = h.step /\ k.run = h.run
             /\ SameTalk(h, k) /\ k.reply = h.reply
<1> DEFINE one == [h EXCEPT !.attempt = 2]
           two == [one EXCEPT !.used = used]
           three == [two EXCEPT !.pending = pending]
           Good(k) == /\ k \in Handlers /\ k.stage = h.stage /\ k.intent = h.intent
                      /\ k.step = h.step /\ k.run = h.run
                      /\ k.root = h.root /\ k.at = h.at /\ k.reply = h.reply
<1>1. Good(one)
  BY DEF Handlers
<1>2. Retried(h, used, pending) = three
  BY DEF Retried
<1> HIDE DEF one
<1>3. Good(two)
  BY <1>1 DEF Handlers
<1> HIDE DEF two
<1>4. Good(three)
  BY <1>3 DEF Handlers, Flags
<1> HIDE DEF three
<1> QED BY <1>2, <1>4 DEF SameTalk

\* The handler whose message was classified, and the one that has ended.
Classified(h, i) == [h EXCEPT !.intent = i]

Over(h) == [h EXCEPT !.stage = "ended"]

LEMMA ClassifiedType ==
  ASSUME NEW h \in Handlers, NEW i \in Intents
  PROVE  LET k == Classified(h, i)
         IN  /\ k \in Handlers /\ k.intent = i /\ k.stage = h.stage /\ SameTalk(h, k)
             /\ k.step = h.step /\ k.reply = h.reply
BY DEF Classified, Handlers, SameTalk

LEMMA OverType ==
  ASSUME NEW h \in Handlers
  PROVE  LET k == Over(h)
         IN  /\ k \in Handlers /\ k.intent = h.intent /\ k.stage = "ended"
             /\ SameTalk(h, k) /\ k.step = h.step /\ k.reply = h.reply
BY DEF Over, Handlers, SameTalk

-------------------------------------------------------------------------------
(***************************************************************************)
(* The invariant.                                                          *)
(***************************************************************************)
\* The other variables' types: no step of a run touches them.
RestOK ==
  /\ clock \in 0..MaxClock
  /\ sessions \in [Threads -> Sessions \cup {NoSession}]
  /\ archived \subseteq Threads
  /\ refused \subseteq Messages

Early == {"none", "classify"}

\* A run of step number `step` of an intent's chain has the status its tokens ask for.
Fits(run, step, intent) ==
  run.status \in Finished =>
    (run.status = "token_budget_exceeded")
      = ~WithinBudget(Dag(intent)[step], run.tokensUsed)

\* The table of runs, for handlers hs: whoever has a row has an intent.
TableOK(table, hs) ==
  /\ DOMAIN table \subseteq RunIds
  /\ table \in [DOMAIN table -> Runs]
  /\ \A id \in DOMAIN table :
       /\ hs[table[id].by].stage \notin Early
       /\ Fits(table[id], id[2], hs[table[id].by].intent)

\* A handler that waits for a turn holds its run's row.
Holds(m, h, table) ==
  h.stage = "minion" => h.run \in DOMAIN table /\ table[h.run].by = m /\ h.run[2] = h.step

BInv ==
  /\ RestOK
  /\ handler \in [Messages -> Handlers]
  /\ TableOK(rows, handler)
  /\ \A m \in Messages : Holds(m, handler[m], rows)

LEMMA BInvTypes == BInv => TypeOK /\ BudgetCoversTheRun
<1> SUFFICES ASSUME BInv PROVE TypeOK /\ BudgetCoversTheRun
  OBVIOUS
<1>1. TypeOK
  BY DEF BInv, RestOK, TableOK, Holds, TypeOK
<1>2. BudgetCoversTheRun
  BY DEF BInv, TableOK, Fits, BudgetCoversTheRun
<1> QED BY <1>1, <1>2

\* A handler that moves without a new run.
Keeps(h, k) ==
  /\ k \in Handlers
  /\ h.stage \notin Early => k.stage \notin Early /\ k.intent = h.intent
  /\ k.stage = "minion" => h.stage = "minion" /\ k.run = h.run /\ k.step = h.step

LEMMA KeepsAll ==
  ASSUME BInv, RestOK', handler' \in [Messages -> Handlers], UNCHANGED rows,
         \A m \in Messages : Keeps(handler[m], handler'[m])
  PROVE  BInv'
<1>1. \A id \in DOMAIN rows : rows[id].by \in Messages
  BY DEF BInv, TableOK, Runs
<1>2. TableOK(rows', handler')
  BY <1>1 DEF BInv, TableOK, Keeps
<1>3. \A m \in Messages : Holds(m, handler'[m], rows')
  BY DEF BInv, Holds, Keeps
<1> QED BY <1>2, <1>3 DEF BInv

LEMMA KeepsOne ==
  ASSUME BInv, RestOK', UNCHANGED rows, NEW m \in Messages, NEW k,
         Keeps(handler[m], k), handler' = [handler EXCEPT ![m] = k]
  PROVE  BInv'
<1>1. handler \in [Messages -> Handlers] BY DEF BInv
<1>2. \A n \in Messages : Keeps(handler[n], handler'[n])
  BY <1>1 DEF Keeps
<1>3. handler' \in [Messages -> Handlers]
  BY <1>1 DEF Keeps
<1> QED BY <1>2, <1>3, KeepsAll
-------------------------------------------------------------------------------
(***************************************************************************)
(* Runs that start and end.                                                *)
(***************************************************************************)
\* A table as it must be when m moves on as h.
TableFor(table, m, h) ==
  /\ DOMAIN table \subseteq RunIds
  /\ table \in [DOMAIN table -> Runs]
  /\ \A id \in DOMAIN table :
       IF table[id].by = m
         THEN Fits(table[id], id[2], h.intent)
         ELSE /\ handler[table[id].by].stage \notin Early
              /\ Fits(table[id], id[2], handler[table[id].by].intent)
  /\ \A n \in Messages : n # m => Holds(n, handler[n], table)

LEMMA MovesOn ==
  ASSUME handler \in [Messages -> Handlers], RestOK', NEW m \in Messages,
         NEW k \in Handlers, k.stage \notin Early, NEW table,
         TableFor(table, m, k), Holds(m, k, table),
         rows' = table, handler' = [handler EXCEPT ![m] = k]
  PROVE  BInv'
<1>1. \A n \in Messages : handler'[n] = IF n = m THEN k ELSE handler[n]
  OBVIOUS
<1>2. \A id \in DOMAIN table : table[id].by \in Messages
  BY DEF TableFor, Runs
<1>3. TableOK(rows', handler')
  BY <1>1, <1>2 DEF TableFor, TableOK
<1>4. \A n \in Messages : Holds(n, handler'[n], rows')
  BY <1>1 DEF TableFor
<1> QED BY <1>3, <1>4 DEF BInv

LEMMA StartStepKeeps ==
  ASSUME handler \in [Messages -> Handlers], RestOK, RestOK', NEW m \in Messages,
         NEW h \in Handlers, NEW step \in Nat, NEW table,
         TableFor(table, m, h), StartStep(m, h, step, table)
  PROVE  BInv'
<1> DEFINE id == RunId(m, step)
           new == [by |-> m, status |-> "running", tokensUsed |-> 0]
<1>1. CASE rows' = table /\ handler' = [handler EXCEPT ![m] = Throw(h, m)]
  <2>1. /\ Throw(h, m) \in Handlers /\ Throw(h, m).intent = h.intent
        /\ Throw(h, m).stage \in {"ended", "error reply"}
    BY ThrowType
  <2>2. Throw(h, m).stage \notin Early /\ Holds(m, Throw(h, m), table)
    BY <2>1 DEF Early, Holds
  <2>3. TableFor(table, m, Throw(h, m))
    BY <2>1 DEF TableFor
  <2> QED BY <1>1, <2>1, <2>2, <2>3, MovesOn
<1>2. CASE /\ id \notin DOMAIN table
           /\ rows' = Extend(table, id, new)
           /\ handler' = [handler EXCEPT ![m] = FirstTurn(h, step, id)]
  <2>1. id \in RunIds /\ id[2] = step
    <3>1. ThreadOf[m] \in Threads
      BY ConversationAssumption
    <3> QED BY <3>1 DEF RunId, RunIds, RestOK
  <2>2. new \in Runs /\ new.by = m /\ new.status \notin Finished
    BY DEF Runs, Finished
  <2> HIDE DEF id, new
  <2>3. PICK k : k = FirstTurn(h, step, id)
    OBVIOUS
  <2>4. /\ k \in Handlers /\ k.stage = "minion" /\ k.intent = h.intent
        /\ k.step = step /\ k.run = id
    <3>1. \A x \in RunIds : k = FirstTurn(h, step, x) =>
            /\ k \in Handlers /\ k.stage = "minion" /\ k.intent = h.intent
            /\ k.step = step /\ k.run = x
      BY FirstTurnType
    <3> QED BY <2>1, <2>3, <3>1
  <2>5. PICK grown : grown = Extend(table, id, new)
    OBVIOUS
  <2>6. /\ DOMAIN grown = DOMAIN table \cup {id} /\ grown[id] = new
        /\ \A x \in DOMAIN table : grown[x] = table[x]
        /\ grown \in [DOMAIN grown -> Runs]
    BY <1>2, <2>2, <2>5 DEF Extend, TableFor
  <2>7. Holds(m, k, grown)
    BY <2>1, <2>2, <2>4, <2>6 DEF Holds
  <2>8. TableFor(grown, m, k)
    <3>1. \A n \in Messages : n # m => Holds(n, handler[n], grown)
      BY <2>6 DEF TableFor, Holds
    <3>2. \A x \in DOMAIN grown :
            IF grown[x].by = m
              THEN Fits(grown[x], x[2], k.intent)
              ELSE /\ handler[grown[x].by].stage \notin Early
                   /\ Fits(grown[x], x[2], handler[grown[x].by].intent)
      BY <2>2, <2>4, <2>6 DEF TableFor, Fits
    <3> QED BY <2>1, <2>6, <3>1, <3>2 DEF TableFor
  <2>9. k.stage \notin Early
    BY <2>4 DEF Early
  <2> QED BY <1>2, <2>3, <2>4, <2>5, <2>7, <2>8, <2>9, MovesOn
<1> QED BY <1>1, <1>2 DEF StartStep, FirstTurn

LEMMA StatusOfType ==
  ASSUME NEW exceeded \in BOOLEAN, NEW pending \in BOOLEAN, NEW valid \in BOOLEAN
  PROVE  /\ StatusOf(exceeded, pending, valid) \in Finished
         /\ (StatusOf(exceeded, pending, valid) = "token_budget_exceeded") = exceeded
<1>1. CASE exceeded
  BY <1>1 DEF StatusOf, Finished
<1>2. CASE ~exceeded /\ pending
  BY <1>2 DEF StatusOf, Finished
<1>3. CASE ~exceeded /\ ~pending /\ ~valid
  BY <1>3 DEF StatusOf, Finished
<1>4. CASE ~exceeded /\ ~pending /\ valid
  BY <1>4 DEF StatusOf, Finished
<1> QED BY <1>1, <1>2, <1>3, <1>4

LEMMA ClassifyKeeps ==
  ASSUME BInv, NEW m \in Messages, Classify(m)
  PROVE  BInv'
<1>1. /\ handler \in [Messages -> Handlers] /\ handler[m] \in Handlers
      /\ handler[m].stage = "classify" /\ RestOK /\ RestOK'
  BY DEF BInv, Classify, RestOK
<1>2. ASSUME NEW reply \in Replies, Reply(m, reply) PROVE BInv'
  <2>1. Keeps(handler[m], Answer(handler[m], reply))
    BY <1>1, AnswerType DEF Keeps, Early
  <2> QED BY <1>1, <1>2, <2>1, KeepsOne DEF Reply
<1>3. ASSUME NEW i \in IntentsOf[m],
             StartStep(m, [handler[m] EXCEPT !.intent = i], 1, rows)
      PROVE  BInv'
  <2>1. i \in Intents
    BY ConversationAssumption
  <2>2. [handler[m] EXCEPT !.intent = i] \in Handlers
    BY <1>1, <2>1 DEF Handlers
  <2>3. \A id \in DOMAIN rows : rows[id].by # m
    BY <1>1 DEF BInv, TableOK, Early
  <2>4. TableFor(rows, m, [handler[m] EXCEPT !.intent = i])
    BY <2>3 DEF BInv, TableOK, TableFor
  <2> QED BY <1>1, <1>3, <2>2, <2>4, StartStepKeeps
<1> QED BY <1>2, <1>3 DEF Classify, Replies
LEMMA TurnKeeps ==
  ASSUME BInv, NEW m \in Messages, NEW i \in Intents, NEW cost \in TurnTokens[i],
         NEW response \in Responses, handler[m].intent = i, Turn(m, cost, response)
  PROVE  BInv'
<1> DEFINE h == handler[m]
           minion == Dag(h.intent)[h.step]
           exceeded == Exceeded(minion, h.used, cost)
           pending == h.pending \/ (response = "approval" /\ ~exceeded)
           valid == response = "valid" /\ ~exceeded
           status == StatusOf(exceeded, pending, valid)
           run == [rows[h.run] EXCEPT !.tokensUsed = h.used + cost, !.status = status]
           table == [rows EXCEPT ![h.run] = run]
<1>1. /\ handler \in [Messages -> Handlers] /\ h \in Handlers /\ h.stage = "minion"
      /\ RestOK /\ RestOK' /\ cost \in Nat
  BY ConversationAssumption DEF BInv, Turn, RestOK
<1>2. h.used + cost \in Nat /\ h.pending \in BOOLEAN /\ h.step + 1 \in Nat
  BY <1>1 DEF Handlers
<1>3. exceeded \in BOOLEAN /\ pending \in BOOLEAN /\ valid \in BOOLEAN
  BY DEF Exceeded, WithinBudget
<1>4. exceeded = ~WithinBudget(minion, h.used + cost)
  BY DEF Exceeded
<1>5. status \in Finished /\ (status = "token_budget_exceeded") = exceeded
  BY <1>3, StatusOfType
<1>6. CASE /\ handler' = [handler EXCEPT ![m] = Retried(h, h.used + cost, pending)]
           /\ UNCHANGED rows
  <2>1. PICK k : k = Retried(h, h.used + cost, pending)
    OBVIOUS
  <2>2. /\ k \in Handlers /\ k.stage = h.stage /\ k.intent = h.intent
        /\ k.step = h.step /\ k.run = h.run
    <3>1. PICK p : p = pending
      OBVIOUS
    <3>2. p \in Flags
      BY <1>3, <3>1 DEF Flags
    <3>3. k = Retried(h, h.used + cost, p)
      BY <2>1, <3>1
    <3> QED BY <1>1, <1>2, <3>2, <3>3, RetryType
  <2> QED BY <1>1, <1>6, <2>1, <2>2, KeepsOne DEF Keeps
<1>7. /\ h.run \in DOMAIN rows /\ rows[h.run].by = m /\ h.run[2] = h.step
      /\ rows[h.run] \in Runs
  BY <1>1 DEF BInv, Holds, TableOK
<1>8. /\ run \in Runs /\ run.by = m /\ run.status = status
      /\ run.tokensUsed = h.used + cost
  BY <1>2, <1>5, <1>7 DEF Runs
<1>9. Fits(run, h.step, h.intent)
  BY <1>4, <1>5, <1>8 DEF Fits
<1>10. CASE \/ StartStep(m, h, h.step + 1, table)
            \/ \E reply \in Replies :
                 rows' = table /\ handler' = [handler EXCEPT ![m] = Answer(h, reply)]
  <2>1. PICK t : t = table
    OBVIOUS
  <2> HIDE DEF run
  <2>2. /\ DOMAIN t = DOMAIN rows /\ t[h.run] = run
        /\ \A id \in DOMAIN rows : id # h.run => t[id] = rows[id]
        /\ t \in [DOMAIN t -> Runs]
    BY <1>7, <1>8, <2>1 DEF BInv, TableOK
  <2>3. TableFor(t, m, h)
    <3>1. \A n \in Messages : n # m => Holds(n, handler[n], t)
      BY <1>7, <1>8, <2>2 DEF BInv, Holds
    <3>2. \A id \in DOMAIN t :
            IF t[id].by = m
              THEN Fits(t[id], id[2], h.intent)
              ELSE /\ handler[t[id].by].stage \notin Early
                   /\ Fits(t[id], id[2], handler[t[id].by].intent)
      BY <1>7, <1>8, <1>9, <2>2 DEF BInv, TableOK
    <3> QED BY <2>2, <3>1, <3>2 DEF BInv, TableOK, TableFor
  <2>4. CASE StartStep(m, h, h.step + 1, table)
    BY <1>1, <1>2, <2>1, <2>3, <2>4, StartStepKeeps
  <2>5. ASSUME NEW reply \in Replies, rows' = t,
               handler' = [handler EXCEPT ![m] = Answer(h, reply)]
        PROVE  BInv'
    <3>1. PICK k : k = Answer(h, reply)
      OBVIOUS
    <3>2. k \in Handlers /\ k.intent = h.intent /\ k.stage = "reply"
      BY <1>1, <3>1, AnswerType
    <3>3. TableFor(t, m, k) /\ Holds(m, k, t) /\ k.stage \notin Early
      BY <2>3, <3>2 DEF TableFor, Holds, Early
    <3> QED BY <1>1, <2>5, <3>1, <3>2, <3>3, MovesOn
  <2> QED BY <1>10, <2>1, <2>4, <2>5
<1>11. Finished \ {"completed"} \subseteq Replies /\ "answer" \in Replies
  BY DEF Finished, Replies
<1>12. (IF status = "completed" THEN "answer" ELSE status) \in Replies
  BY <1>5, <1>11
<1> QED BY <1>6, <1>10, <1>12 DEF Turn, Retried

-------------------------------------------------------------------------------
(***************************************************************************)
(* Arrivals, replies and ends.                                             *)
(***************************************************************************)
LEMMA EnterKeeps ==
  ASSUME BInv, NEW m \in Messages, handler[m].stage = "none",
         NEW left \in [Threads -> Sessions \cup {NoSession}], Enter(m, left),
         UNCHANGED <<clock, rows, refused>>, archived' \subseteq Threads
  PROVE  BInv'
<1> DEFINE t == ThreadOf[m]
           root == IF left[t] = NoSession THEN m ELSE left[t].root
<1>1. t \in Threads /\ clock \in 0 .. MaxClock /\ handler[m] \in Handlers
  BY ConversationAssumption DEF BInv, RestOK
<1>2. root \in Messages
  BY <1>1 DEF Sessions
<1> HIDE DEF root
<1>3. sessions' = [left EXCEPT ![t] = [root |-> root, updatedAt |-> clock]]
  BY DEF Enter, root
<1>4. [root |-> root, updatedAt |-> clock] \in Sessions
  BY <1>1, <1>2 DEF Sessions
<1>5. RestOK'
  BY <1>1, <1>3, <1>4 DEF BInv, RestOK
<1>6. PICK k : k = Entered(handler[m], root, clock)
  OBVIOUS
<1>7. k \in Handlers /\ k.stage = "classify" /\ k.intent = handler[m].intent
  <2>1. handler \in [Messages -> Handlers]
    BY DEF BInv
  <2> QED BY <1>1, <1>2, <1>6, <2>1, EnterType
<1>8. Keeps(handler[m], k)
  BY <1>7 DEF Keeps, Early
<1>9. handler' = [handler EXCEPT ![m] = k]
  BY <1>6 DEF Enter, Entered, root
<1> QED BY <1>5, <1>8, <1>9, KeepsOne

LEMMA LeaveKeeps ==
  ASSUME BInv, RestOK', UNCHANGED rows, NEW m \in Messages,
         NEW stage \in LeaveStages, NEW reply \in LeaveReplies,
         handler' = [handler EXCEPT ![m] = Leave(handler[m], stage, reply)]
  PROVE  BInv'
<1>1. handler \in [Messages -> Handlers] /\ handler[m] \in Handlers BY DEF BInv
<1>2. PICK k : k = Leave(handler[m], stage, reply)
  OBVIOUS
<1>3. k \in Handlers /\ k.stage = stage /\ k.intent = handler[m].intent
  BY <1>1, <1>2, LeaveType
<1>4. Keeps(handler[m], k)
  BY <1>3 DEF Keeps, Early, LeaveStages
<1> QED BY <1>2, <1>4, KeepsOne

LEMMA ThrowKeeps ==
  ASSUME BInv, RestOK', UNCHANGED rows, NEW m \in Messages,
         handler' = [handler EXCEPT ![m] = Throw(handler[m], m)]
  PROVE  BInv'
BY LeaveKeeps DEF Throw, Replies, LeaveStages, LeaveReplies

LEMMA RemovedType ==
  ASSUME RestOK, NEW ts
  PROVE  Removed(ts) \in [Threads -> Sessions \cup {NoSession}]
BY DEF RestOK, Removed

LEMMA ArriveKeeps ==
  ASSUME BInv, NEW m \in Messages, Arrive(m)
  PROVE  BInv'
<1>1. handler[m].stage = "none" /\ UNCHANGED <<clock, rows>> /\ RestOK
  BY DEF Arrive, BInv
<1>2. CASE Resume(m)
  BY <1>1, <1>2, EnterKeeps DEF Resume, RestOK
<1>3. CASE Restart(m)
  <2> DEFINE idle == {t \in Threads : Idle(t)}
  <2>1. Enter(m, Removed(idle)) /\ archived' = archived \cup idle /\ UNCHANGED refused
    BY <1>3 DEF Restart
  <2>2. archived' \subseteq Threads
    BY <1>1, <2>1 DEF RestOK
  <2> QED BY <1>1, <2>1, <2>2, RemovedType, EnterKeeps
<1>4. CASE Refuse(m)
  <2>1. PICK moved \in SUBSET ({t \in Threads : Idle(t)} \ archived) :
          sessions' = Removed(moved) /\ archived' = archived \cup moved
    BY <1>4 DEF Refuse
  <2>2. RestOK'
    BY <1>1, <1>4, <2>1, RemovedType DEF RestOK, Refuse
  <2> QED BY <1>1, <1>4, <2>2, ThrowKeeps DEF Refuse
<1>5. CASE TurnAway(m)
  <2>1. RestOK'
    BY <1>1, <1>5 DEF RestOK, TurnAway
  <2> QED BY <1>1, <1>5, <2>1, LeaveKeeps DEF TurnAway, Replies, LeaveStages, LeaveReplies
<1> QED BY <1>2, <1>3, <1>4, <1>5 DEF Arrive, Chat, Deliver

LEMMA EndKeeps ==
  ASSUME BInv, NEW m \in Messages, handler[m].stage \notin Early, End(m)
  PROVE  BInv'
<1>1. handler[m] \in Handlers BY DEF BInv
<1>2. PICK k : k = [handler[m] EXCEPT !.stage = "ended"]
  OBVIOUS
<1>3. k \in Handlers /\ k.stage = "ended" /\ k.intent = handler[m].intent
  BY <1>1, <1>2 DEF Handlers
<1>4. Keeps(handler[m], k)
  BY <1>3 DEF Keeps, Early
<1>5. RestOK' /\ UNCHANGED rows /\ handler' = [handler EXCEPT ![m] = k]
  BY <1>1, <1>2 DEF End, storeVars, BInv, RestOK
<1> QED BY <1>4, <1>5, KeepsOne

LEMMA ProcessEndsKeeps ==
  ASSUME BInv, NEW p, ProcessEnds(p)
  PROVE  BInv'
<1>1. RestOK' /\ UNCHANGED rows /\ handler \in [Messages -> Handlers]
  BY DEF ProcessEnds, storeVars, BInv, RestOK
<1>2. ASSUME NEW m \in Messages PROVE Keeps(handler[m], handler'[m])
  <2>1. /\ handler[m] \in Handlers /\ handler[m].reply \in LeaveReplies
        /\ "ended" \in LeaveStages
    BY <1>1 DEF Handlers, LeaveReplies, LeaveStages
  <2>2. CASE handler'[m] = handler[m]
    BY <2>1, <2>2 DEF Keeps
  <2>3. CASE handler'[m] = Leave(handler[m], "ended", handler[m].reply)
    <3>1. /\ handler'[m] \in Handlers /\ handler'[m].stage = "ended"
          /\ handler'[m].intent = handler[m].intent
      BY <1>1, <2>1, <2>3, LeaveType
    <3> QED BY <3>1 DEF Keeps, Early
  <2> QED BY <2>2, <2>3 DEF ProcessEnds
<1>3. handler' \in [Messages -> Handlers]
  BY <1>2 DEF Keeps, ProcessEnds
<1> QED BY <1>1, <1>2, <1>3, KeepsAll

LEMMA ProceedKeeps ==
  ASSUME BInv, NEW m \in Messages, Proceed(m)
  PROVE  BInv'
<1>1. ASSUME GooseFails(m) \/ ReplyRejected(m) PROVE BInv'
  BY <1>1, ThrowKeeps DEF GooseFails, ReplyRejected, storeVars, BInv, RestOK
<1>2. ASSUME Posted(m) \/ CommentEnds(m) \/ ErrorPosted(m) PROVE BInv'
  BY <1>2, EndKeeps DEF Posted, CommentEnds, ErrorPosted, Early
<1>3. ASSUME ErrorReplyRejected(m) PROVE BInv'
  BY <1>3, ProcessEndsKeeps DEF ErrorReplyRejected
<1> QED BY <1>1, <1>2, <1>3, ClassifyKeeps, TurnKeeps DEF Proceed

LEMMA BInitial == Init => BInv
<1> SUFFICES ASSUME Init PROVE BInv
  OBVIOUS
<1>1. RestOK
  BY ConversationAssumption DEF Init, RestOK
<1>2. NotArrived \in Handlers /\ NotArrived.stage = "none"
  BY DEF NotArrived, Handlers
<1>3. handler \in [Messages -> Handlers] /\ \A m \in Messages : handler[m].stage = "none"
  BY <1>2 DEF Init
<1>4. DOMAIN rows = {}
  BY DEF Init
<1>5. TableOK(rows, handler)
  BY <1>4 DEF Init, TableOK
<1> QED BY <1>1, <1>3, <1>5 DEF BInv, Holds

LEMMA BStep == BInv /\ [Next]_vars => BInv'
<1> SUFFICES ASSUME BInv, [Next]_vars PROVE BInv'
  OBVIOUS
<1>1. ASSUME Tick PROVE BInv'
  <2>1. RestOK' /\ UNCHANGED <<rows, handler>>
    BY <1>1, ConversationAssumption DEF Tick, storeVars, BInv, RestOK
  <2> QED BY <2>1 DEF BInv, TableOK
<1>2. ASSUME UNCHANGED vars PROVE BInv'
  BY <1>2 DEF vars, storeVars, BInv, RestOK, TableOK
<1> QED BY <1>1, <1>2, ArriveKeeps, ProceedKeeps, ProcessEndsKeeps DEF Next, Crash

LEMMA BInvariant == Spec => []BInv
BY BInitial, BStep, PTL DEF Spec

\* The type of every variable; a handler that waits for a turn has its row.
THEOREM TypeCorrect == Spec => []TypeOK
BY BInvariant, BInvTypes, PTL

\* A minion's budget covers its run with its retry, whatever a turn costs,
\* whichever of them was valid and however the chains interleave
\* (token-accounting.ts, token-budget.ts, runner.ts).
THEOREM BudgetsCoverRuns == Spec => []BudgetCoversTheRun
BY BInvariant, BInvTypes, PTL

-------------------------------------------------------------------------------
(***************************************************************************)
(* Conversations.  A session that is there is as old as the latest message *)
(* of its thread and has that message's root; where none is there, every   *)
(* message of the thread is older than the TTL.                            *)
(***************************************************************************)
Members(t) == {m \in Messages : Accepted(m) /\ ThreadOf[m] = t}

SessionIsLatest(t) ==
  IF sessions[t] = NoSession
    THEN \A n \in Members(t) : clock - handler[n].at > Ttl
    ELSE /\ \E k \in Members(t) : /\ handler[k].at = sessions[t].updatedAt
                                  /\ handler[k].root = sessions[t].root
         /\ \A n \in Members(t) : handler[n].at <= sessions[t].updatedAt

\* A root is drawn by a message of its own, no later than now.
RootsDrawn ==
  \A m \in Messages :
    /\ handler[m].stage = "none" => ~Accepted(m)
    /\ Accepted(m) => /\ handler[m].at \in 0..clock
                      /\ handler[m].root \in Messages /\ Accepted(handler[m].root)

\* m and n are consecutive messages of a thread.
Consecutive(m, n) ==
  /\ Accepted(m) /\ Accepted(n) /\ ThreadOf[m] = ThreadOf[n]
  /\ handler[m].at <= handler[n].at
  /\ ~\E k \in Messages :
        /\ Accepted(k) /\ ThreadOf[k] = ThreadOf[m]
        /\ handler[m].at < handler[k].at /\ handler[k].at < handler[n].at

OneConversation(m, n) == handler[m].root = handler[n].root

SplitAtTtl ==
  \A m, n \in Messages :
    Consecutive(m, n) => (OneConversation(m, n) = (handler[n].at - handler[m].at <= Ttl))

SInv == RootsDrawn /\ (\A t \in Threads : SessionIsLatest(t)) /\ SplitAtTtl

LEMMA SplitIs == SplitAtTtl <=> ConversationsSplitAtTtl
BY DEF SplitAtTtl, ConversationsSplitAtTtl, Consecutive, OneConversation

\* What SMT needs of the types and the constants, whatever the other modules' terms.
Timed ==
  /\ clock \in 0..MaxClock
  /\ sessions \in [Threads -> Sessions \cup {NoSession}]
  /\ \A m \in Messages : handler[m].at \in Int /\ ThreadOf[m] \in Threads

LEMMA TimesAre == Ttl \in Nat /\ MaxClock \in Nat /\ "none" \notin Messages
BY ConversationAssumption

LEMMA BInvTimed == BInv => Timed
<1> SUFFICES ASSUME BInv PROVE Timed
  OBVIOUS
<1>1. \A m \in Messages : ThreadOf[m] \in Threads
  BY ConversationAssumption
<1>2. \A m \in Messages : handler[m].at \in Int
  BY DEF BInv, Handlers
<1> QED BY <1>1, <1>2 DEF Timed, BInv, RestOK

\* An idle thread's messages are all older than the TTL.
LEMMA IdleIsOld ==
  ASSUME Timed, SInv, NEW t \in Threads, sessions[t] = NoSession \/ Idle(t),
         NEW n \in Members(t)
  PROVE  clock - handler[n].at > Ttl
<1>1. CASE sessions[t] = NoSession
  BY <1>1 DEF SInv, SessionIsLatest
<1>2. CASE sessions[t] # NoSession /\ Idle(t)
  <2>1. /\ handler[n].at <= sessions[t].updatedAt
        /\ clock - sessions[t].updatedAt > Ttl
    BY <1>2 DEF SInv, SessionIsLatest, Idle
  <2>2. handler[n].at \in Int /\ clock \in Int /\ sessions[t].updatedAt \in Int
    BY <1>2, TimesAre DEF Timed, Members, Sessions
  <2> QED BY <2>1, <2>2, TimesAre
<1> QED BY <1>1, <1>2

\* The messages stay in their conversations, and idle sessions may go.
LEMMA SessionsStand ==
  ASSUME Timed, Timed', SInv, clock <= clock',
         \A t \in Threads :
           sessions'[t] = sessions[t] \/ (sessions'[t] = NoSession /\ Idle(t)),
         \A n \in Messages : /\ SameTalk(handler[n], handler'[n])
                             /\ handler'[n].stage = "none" => handler[n].stage = "none"
  PROVE  SInv'
<1>1. \A n \in Messages : /\ handler'[n].root = handler[n].root
                          /\ handler'[n].at = handler[n].at
  BY DEF SameTalk
<1>2. clock \in Int /\ clock' \in Int
  BY TimesAre DEF Timed
<1>3. RootsDrawn'
  BY <1>1, <1>2 DEF SInv, RootsDrawn, Accepted
<1>4. ASSUME NEW t \in Threads PROVE SessionIsLatest(t)'
  <2>1. Members(t)' = Members(t)
    BY <1>1 DEF Members, Accepted
  <2>2. CASE sessions'[t] = NoSession
    <3>1. sessions[t] = NoSession \/ Idle(t)
      BY <2>2
    <3>2. ASSUME NEW n \in Members(t) PROVE clock' - handler'[n].at > Ttl
      <4>1. clock - handler[n].at > Ttl
        BY <3>1, IdleIsOld
      <4>2. handler[n].at \in Int /\ handler'[n].at = handler[n].at
        BY <1>1 DEF Timed, Members
      <4> QED BY <1>2, <4>1, <4>2, TimesAre
    <3> QED BY <2>1, <2>2, <3>2 DEF SessionIsLatest
  <2>3. CASE sessions'[t] # NoSession
    <3>1. sessions'[t] = sessions[t]
      BY <2>3
    <3>2. \A n \in Members(t) : /\ handler'[n].root = handler[n].root
                                /\ handler'[n].at = handler[n].at
      BY <1>1 DEF Members
    <3> QED BY <2>1, <2>3, <3>1, <3>2 DEF SInv, SessionIsLatest
  <2> QED BY <2>2, <2>3
<1>5. SplitAtTtl'
  BY <1>1 DEF SInv, SplitAtTtl, Consecutive, OneConversation, Accepted
<1> QED BY <1>3, <1>4, <1>5 DEF SInv

\* A message is accepted into its thread's session, or into a new one.
LEMMA EnterSplits ==
  ASSUME Timed, Timed', SInv, NEW m \in Messages, handler[m].stage = "none",
         NEW left \in [Threads -> Sessions \cup {NoSession}],
         \A t \in Threads : left[t] = sessions[t] \/ (left[t] = NoSession /\ Idle(t)),
         left[ThreadOf[m]] # NoSession => ~Idle(ThreadOf[m]),
         NEW root, root = IF left[ThreadOf[m]] = NoSession THEN m ELSE left[ThreadOf[m]].root,
         clock' = clock,
         sessions' = [left EXCEPT ![ThreadOf[m]] = [root |-> root, updatedAt |-> clock]],
         handler'[m].root = root, handler'[m].at = clock, handler'[m].stage = "classify",
         \A n \in Messages : n # m => handler'[n] = handler[n]
  PROVE  SInv'
<1> DEFINE t == ThreadOf[m]
           now == [root |-> root, updatedAt |-> clock]
<1>1. t \in Threads /\ clock \in Int /\ \A n \in Messages : handler[n].at \in Int
  BY TimesAre DEF Timed
<1>2. /\ sessions'[t] = now /\ now # NoSession
      /\ \A u \in Threads : u # t => sessions'[u] = left[u]
  BY <1>1, TimesAre DEF NoSession, Timed
<1>3. /\ ~Accepted(m)
      /\ \A n \in Messages : Accepted(n) => handler[n].at <= clock /\ Accepted(handler[n].root)
  BY <1>1, TimesAre DEF SInv, RootsDrawn, Timed
\* The latest message of the thread, whose session m joins.
<1>4. ASSUME left[t] # NoSession
      PROVE  \E k \in Messages :
               /\ k # m /\ Accepted(k) /\ ThreadOf[k] = t /\ handler[k].root = root
               /\ handler[k].at = sessions[t].updatedAt /\ clock - handler[k].at <= Ttl
  <2>1. left[t] = sessions[t] /\ sessions[t] # NoSession /\ ~Idle(t)
    BY <1>1, <1>4
  <2>2. PICK k \in Members(t) : /\ handler[k].at = sessions[t].updatedAt
                                /\ handler[k].root = sessions[t].root
    BY <1>1, <2>1 DEF SInv, SessionIsLatest
  <2>3. root = sessions[t].root
    BY <1>4, <2>1
  <2>4. clock - sessions[t].updatedAt <= Ttl
    <3>1. sessions[t] \in Sessions
      BY <1>1, <2>1 DEF Timed
    <3>2. sessions[t].updatedAt \in Int
      BY <3>1, TimesAre DEF Sessions
    <3> QED BY <1>1, <2>1, <3>2, TimesAre DEF Idle
  <2> QED BY <1>3, <2>2, <2>3, <2>4 DEF Members
<1>5. ASSUME left[t] = NoSession, NEW n \in Messages, Accepted(n), ThreadOf[n] = t
      PROVE  clock - handler[n].at > Ttl
  <2>1. sessions[t] = NoSession \/ Idle(t)
    BY <1>1, <1>5
  <2> QED BY <1>1, <1>5, <2>1, IdleIsOld DEF Members
<1>6. ASSUME left[t] # NoSession, NEW n \in Messages, Accepted(n), ThreadOf[n] = t
      PROVE  handler[n].at <= sessions[t].updatedAt
  <2>1. sessions[t] # NoSession
    BY <1>1, <1>6
  <2> QED BY <1>1, <1>6, <2>1 DEF SInv, SessionIsLatest, Members
<1>7. root \in Messages /\ (root = m \/ Accepted(root))
  <2>1. CASE left[t] = NoSession
    BY <2>1
  <2>2. CASE left[t] # NoSession
    BY <1>4, <2>2 DEF SInv, RootsDrawn
  <2> QED BY <2>1, <2>2
<1>8. \A n \in Messages : Accepted(n)' <=> n = m \/ Accepted(n)
  BY <1>7, TimesAre DEF Accepted
<1>9. RootsDrawn'
  <2>1. ASSUME NEW n \in Messages
        PROVE  /\ handler'[n].stage = "none" => ~Accepted(n)'
               /\ Accepted(n)' => /\ handler'[n].at \in 0..clock'
                                  /\ handler'[n].root \in Messages
                                  /\ handler'[handler'[n].root].root # "none"
    <3>1. CASE n = m
      <4>1. clock \in 0..clock
        BY TimesAre DEF Timed
      <4>2. handler'[root].root # "none"
        BY <1>7, <1>8 DEF Accepted
      <4> QED BY <1>7, <3>1, <4>1, <4>2
    <3>2. CASE n # m
      BY <1>8, <3>2 DEF SInv, RootsDrawn, Accepted
    <3> QED BY <3>1, <3>2
  <2> QED BY <2>1 DEF RootsDrawn, Accepted
<1>10. ASSUME NEW u \in Threads PROVE SessionIsLatest(u)'
  <2>1. CASE u = t
    <3>1. m \in Members(t)'
      BY <1>8 DEF Members
    <3>2. \A n \in Members(t)' : handler'[n].at <= clock
      BY <1>1, <1>3, <1>8 DEF Members
    <3> QED BY <1>2, <2>1, <3>1, <3>2 DEF SessionIsLatest
  <2>2. CASE u # t
    <3>1. Members(u)' = Members(u) /\ \A n \in Members(u) : n # m
      BY <1>3, <1>8, <2>2 DEF Members
    <3>2. sessions'[u] = left[u] /\ \A n \in Members(u) : handler'[n] = handler[n]
      BY <1>2, <2>2, <3>1 DEF Members
    <3>3. CASE left[u] = NoSession
      <4>1. sessions[u] = NoSession \/ Idle(u)
        BY <3>3
      <4>2. \A n \in Members(u) : clock - handler[n].at > Ttl
        BY <4>1, IdleIsOld
      <4> QED BY <3>1, <3>2, <3>3, <4>2 DEF SessionIsLatest
    <3>4. CASE left[u] # NoSession
      BY <3>1, <3>2, <3>4 DEF SInv, SessionIsLatest
    <3> QED BY <3>3, <3>4
  <2> QED BY <2>1, <2>2
<1>11. ASSUME NEW a \in Messages, NEW b \in Messages, Consecutive(a, b)'
       PROVE  OneConversation(a, b)' = (handler'[b].at - handler'[a].at <= Ttl)
  <2>1. /\ ThreadOf[a] = ThreadOf[b] /\ handler'[a].at <= handler'[b].at
        /\ (a = m \/ Accepted(a)) /\ (b = m \/ Accepted(b))
    BY <1>8, <1>11 DEF Consecutive
  <2>2. CASE a # m /\ b # m
    <3>1. Accepted(a) /\ Accepted(b) /\ handler'[a] = handler[a] /\ handler'[b] = handler[b]
      BY <2>2, <1>8, <1>11 DEF Consecutive
    <3>2. \A k \in Messages : Accepted(k) => Accepted(k)' /\ handler'[k] = handler[k]
      BY <1>3, <1>8
    <3>3. Consecutive(a, b)
      BY <1>11, <3>1, <3>2 DEF Consecutive
    <3> QED BY <3>1, <3>3 DEF SInv, SplitAtTtl, OneConversation
  <2>3. CASE a # m /\ b = m
    <3>1. Accepted(a) /\ handler'[a] = handler[a] /\ ThreadOf[a] = t /\ handler'[b].at = clock
      BY <2>3, <1>8, <1>11, <2>1 DEF Consecutive
    <3>2. CASE left[t] = NoSession
      <4>1. clock - handler[a].at > Ttl
        BY <1>5, <3>1, <3>2
      <4>2. handler[a].root # m /\ root = m
        BY <1>3, <3>1, <3>2
      <4>3. ~(clock - handler[a].at <= Ttl)
        BY <1>1, <4>1, TimesAre
      <4> QED BY <2>3, <3>1, <4>2, <4>3 DEF OneConversation
    <3>3. CASE left[t] # NoSession
      <4>1. PICK k \in Messages :
               /\ k # m /\ Accepted(k) /\ ThreadOf[k] = t /\ handler[k].root = root
               /\ handler[k].at = sessions[t].updatedAt /\ clock - handler[k].at <= Ttl
        BY <1>4, <3>3
      <4>2. handler[a].at <= handler[k].at /\ handler[k].at <= clock
        BY <1>3, <1>6, <3>1, <3>3, <4>1
      <4>3. Accepted(k)' /\ handler'[k] = handler[k]
        BY <1>8, <4>1
      <4>4. handler[k].at = clock \/ handler[k].at = handler[a].at
        BY <1>1, <1>11, <2>3, <3>1, <4>1, <4>2, <4>3 DEF Consecutive
      <4>5. Consecutive(a, k)
        <5>1. ASSUME NEW x \in Messages, Accepted(x), ThreadOf[x] = t,
                     handler[a].at < handler[x].at, handler[x].at < handler[k].at
              PROVE  FALSE
          <6>1. x # m /\ Accepted(x)' /\ handler'[x] = handler[x]
            BY <1>3, <1>8, <5>1
          <6>2. handler[x].at < clock
            BY <1>1, <4>2, <5>1
          <6> QED BY <1>11, <2>3, <3>1, <5>1, <6>1, <6>2 DEF Consecutive
        <5> QED BY <3>1, <4>1, <4>2, <5>1 DEF Consecutive
      <4>6. (handler[a].root = root) = (handler[k].at - handler[a].at <= Ttl)
        BY <4>1, <4>5 DEF SInv, SplitAtTtl, OneConversation
      <4>7. (handler[k].at - handler[a].at <= Ttl) = (clock - handler[a].at <= Ttl)
        BY <1>1, <4>1, <4>4, TimesAre
      <4> QED BY <2>3, <3>1, <4>6, <4>7 DEF OneConversation
    <3> QED BY <3>2, <3>3
  <2>4. CASE a = m /\ b # m
    <3>1. Accepted(b) /\ handler'[b] = handler[b] /\ ThreadOf[b] = t /\ handler'[a].at = clock
      BY <2>4, <1>8, <1>11, <2>1 DEF Consecutive
    <3>2. handler[b].at = clock
      BY <1>1, <1>3, <2>1, <3>1
    <3>3. left[t] # NoSession
      <4>1. ~(clock - handler[b].at > Ttl)
        BY <1>1, <3>2, TimesAre
      <4> QED BY <1>5, <3>1, <4>1
    <3>4. PICK k \in Messages :
             /\ k # m /\ Accepted(k) /\ ThreadOf[k] = t /\ handler[k].root = root
             /\ handler[k].at = sessions[t].updatedAt /\ clock - handler[k].at <= Ttl
      BY <1>4, <3>3
    <3>5. handler[k].at = clock
      BY <1>1, <1>3, <1>6, <3>1, <3>2, <3>3, <3>4
    <3>6. Consecutive(b, k)
      BY <1>1, <3>1, <3>2, <3>4, <3>5 DEF Consecutive
    <3>7. (handler[b].root = root) = (handler[k].at - handler[b].at <= Ttl)
      BY <3>4, <3>6 DEF SInv, SplitAtTtl, OneConversation
    <3>8. handler[k].at - handler[b].at <= Ttl /\ handler[b].at - clock <= Ttl
      BY <1>1, <3>2, <3>5, TimesAre
    <3> QED BY <2>4, <3>1, <3>7, <3>8 DEF OneConversation
  <2>5. CASE a = m /\ b = m
    <3>1. clock - clock <= Ttl
      BY <1>1, TimesAre
    <3> QED BY <2>5, <3>1 DEF OneConversation
  <2> QED BY <2>2, <2>3, <2>4, <2>5
<1>12. SplitAtTtl'
  BY <1>11 DEF SplitAtTtl
<1> QED BY <1>9, <1>10, <1>12 DEF SInv

LEMMA EnterSplit ==
  ASSUME BInv, BInv', SInv, NEW m \in Messages, handler[m].stage = "none",
         NEW left \in [Threads -> Sessions \cup {NoSession}],
         \A t \in Threads : left[t] = sessions[t] \/ (left[t] = NoSession /\ Idle(t)),
         left[ThreadOf[m]] # NoSession => ~Idle(ThreadOf[m]),
         Enter(m, left), clock' = clock
  PROVE  SInv'
<1>1. PICK root : root = IF left[ThreadOf[m]] = NoSession THEN m ELSE left[ThreadOf[m]].root
  OBVIOUS
<1>2. ThreadOf[m] \in Threads /\ clock \in 0..MaxClock /\ handler[m] \in Handlers
      /\ handler \in [Messages -> Handlers]
  BY BInvTimed DEF Timed, BInv
<1>3. root \in Messages
  BY <1>1, <1>2 DEF Sessions
<1>4. /\ sessions' = [left EXCEPT ![ThreadOf[m]] = [root |-> root, updatedAt |-> clock]]
      /\ handler' = [handler EXCEPT ![m] = Entered(handler[m], root, clock)]
  BY <1>1 DEF Enter, Entered
<1>5. PICK k : k = Entered(handler[m], root, clock)
  OBVIOUS
<1>6. k.root = root /\ k.at = clock /\ k.stage = "classify"
  BY <1>2, <1>3, <1>5, EnterType
<1>7. /\ handler'[m].root = root /\ handler'[m].at = clock /\ handler'[m].stage = "classify"
      /\ \A n \in Messages : n # m => handler'[n] = handler[n]
  BY <1>2, <1>4, <1>5, <1>6
<1>8. Timed /\ Timed'
  BY BInvTimed, PTL
<1> QED BY <1>1, <1>4, <1>7, <1>8, EnterSplits

\* A step that leaves the sessions alone leaves the messages in their conversations.
Stays ==
  /\ clock' = clock
  /\ \A n \in Messages : /\ SameTalk(handler[n], handler'[n])
                         /\ handler'[n].stage = "none" => handler[n].stage = "none"

LEMMA StaysSplit ==
  ASSUME BInv, BInv', SInv, Stays,
         \A t \in Threads :
           sessions'[t] = sessions[t] \/ (sessions'[t] = NoSession /\ Idle(t))
  PROVE  SInv'
<1>1. clock <= clock'
  BY TimesAre, BInvTimed DEF Stays, Timed
<1>2. Timed /\ Timed'
  BY BInvTimed, PTL
<1> QED BY <1>1, <1>2, SessionsStand DEF Stays

LEMMA OneStays ==
  ASSUME BInv, clock' = clock, NEW m \in Messages, NEW k,
         SameTalk(handler[m], k), k.stage # "none", handler' = [handler EXCEPT ![m] = k]
  PROVE  Stays
<1>1. handler \in [Messages -> Handlers]
  BY DEF BInv
<1>2. ASSUME NEW n \in Messages
      PROVE  /\ SameTalk(handler[n], handler'[n])
             /\ handler'[n].stage = "none" => handler[n].stage = "none"
  <2>1. CASE n = m
    BY <1>1, <2>1
  <2>2. CASE n # m
    BY <1>1, <2>2 DEF SameTalk
  <2> QED BY <2>1, <2>2
<1> QED BY <1>2 DEF Stays

LEMMA LeaveStays ==
  ASSUME BInv, clock' = clock, NEW m \in Messages,
         NEW stage \in LeaveStages, NEW reply \in LeaveReplies,
         handler' = [handler EXCEPT ![m] = Leave(handler[m], stage, reply)]
  PROVE  Stays
<1>1. PICK k : k = Leave(handler[m], stage, reply)
  OBVIOUS
<1>2. handler[m] \in Handlers
  BY DEF BInv
<1>3. SameTalk(handler[m], k) /\ k.stage = stage
  BY <1>1, <1>2, LeaveType
<1> QED BY <1>1, <1>3, OneStays DEF LeaveStages

LEMMA ThrowStays ==
  ASSUME BInv, clock' = clock, NEW m \in Messages,
         NEW h \in Handlers, SameTalk(handler[m], h),
         handler' = [handler EXCEPT ![m] = Throw(h, m)]
  PROVE  Stays
<1>1. PICK k : k = Throw(h, m)
  OBVIOUS
<1>2. SameTalk(h, k) /\ k.stage # "none"
  BY <1>1, ThrowType
<1>3. SameTalk(handler[m], k)
  BY <1>2 DEF SameTalk
<1> QED BY <1>1, <1>2, <1>3, OneStays

LEMMA AnswerStays ==
  ASSUME BInv, clock' = clock, NEW m \in Messages, NEW reply \in Replies,
         handler' = [handler EXCEPT ![m] = Answer(handler[m], reply)]
  PROVE  Stays
BY LeaveStays DEF Answer, LeaveStages, LeaveReplies

LEMMA StartStepStays ==
  ASSUME BInv, clock' = clock, NEW m \in Messages,
         NEW h \in Handlers, SameTalk(handler[m], h), NEW step \in Nat, NEW table,
         StartStep(m, h, step, table)
  PROVE  Stays
<1>1. CASE handler' = [handler EXCEPT ![m] = Throw(h, m)]
  BY <1>1, ThrowStays
<1>2. CASE handler' = [handler EXCEPT ![m] = FirstTurn(h, step, RunId(m, step))]
  <2>1. RunId(m, step) \in RunIds
    BY BInvTimed DEF Timed, RunId, RunIds
  <2>2. PICK k : k = FirstTurn(h, step, RunId(m, step))
    OBVIOUS
  <2>3. \A x \in RunIds : k = FirstTurn(h, step, x) => SameTalk(h, k) /\ k.stage = "minion"
    BY FirstTurnType
  <2>4. SameTalk(handler[m], k) /\ k.stage # "none"
    BY <2>1, <2>2, <2>3 DEF SameTalk
  <2> QED BY <1>2, <2>2, <2>4, OneStays
<1> QED BY <1>1, <1>2 DEF StartStep, FirstTurn

LEMMA ClassifyStays ==
  ASSUME BInv, NEW m \in Messages, Classify(m)
  PROVE  Stays /\ UNCHANGED sessions
<1>1. clock' = clock /\ UNCHANGED sessions /\ handler[m] \in Handlers
  BY DEF Classify, BInv
<1>2. ASSUME NEW reply \in Replies, Reply(m, reply) PROVE Stays
  BY <1>1, <1>2, AnswerStays DEF Reply
<1>3. ASSUME NEW i \in IntentsOf[m],
             StartStep(m, [handler[m] EXCEPT !.intent = i], 1, rows)
      PROVE  Stays
  <2>1. i \in Intents
    BY ConversationAssumption
  <2>2. PICK h : h = Classified(handler[m], i)
    OBVIOUS
  <2>3. h \in Handlers /\ SameTalk(handler[m], h)
    BY <1>1, <2>1, <2>2, ClassifiedType
  <2> QED BY <1>1, <1>3, <2>2, <2>3, StartStepStays DEF Classified
<1> QED BY <1>1, <1>2, <1>3 DEF Classify, Replies

LEMMA TurnStays ==
  ASSUME BInv, NEW m \in Messages, NEW i \in Intents, NEW cost \in TurnTokens[i],
         NEW response \in Responses, Turn(m, cost, response)
  PROVE  Stays /\ UNCHANGED sessions
<1> DEFINE h == handler[m]
<1>1. /\ clock' = clock /\ UNCHANGED sessions /\ h \in Handlers /\ h.stage = "minion"
      /\ handler \in [Messages -> Handlers]
  BY DEF Turn, BInv
<1>2. cost \in Nat
  BY ConversationAssumption
<1>3. h.used + cost \in Nat /\ h.step + 1 \in Nat /\ SameTalk(h, h)
  BY <1>1, <1>2 DEF Handlers, SameTalk
<1>4. ASSUME NEW pending, pending \in BOOLEAN,
             handler' = [handler EXCEPT ![m] = Retried(h, h.used + cost, pending)]
      PROVE  Stays
  <2>1. PICK k : k = Retried(h, h.used + cost, pending)
    OBVIOUS
  <2>2. pending \in Flags
    BY <1>4 DEF Flags
  <2>3. SameTalk(h, k) /\ k.stage = h.stage
    BY <1>1, <1>3, <2>1, <2>2, RetryType
  <2> QED BY <1>1, <1>4, <2>1, <2>3, OneStays
<1>5. ASSUME NEW table, StartStep(m, h, h.step + 1, table) PROVE Stays
  BY <1>1, <1>3, <1>5, StartStepStays
<1>6. ASSUME NEW reply \in Replies, handler' = [handler EXCEPT ![m] = Answer(h, reply)]
      PROVE  Stays
  BY <1>1, <1>6, AnswerStays
<1> DEFINE exceeded == Exceeded(Dag(h.intent)[h.step], h.used, cost)
           pending == h.pending \/ (response = "approval" /\ ~exceeded)
           valid == response = "valid" /\ ~exceeded
           status == StatusOf(exceeded, pending, valid)
<1>7. exceeded \in BOOLEAN /\ pending \in BOOLEAN /\ valid \in BOOLEAN
  BY <1>1 DEF Exceeded, WithinBudget, Handlers
<1>8. status \in Finished
  BY <1>7, StatusOfType
<1>9. (IF status = "completed" THEN "answer" ELSE status) \in Replies
  BY <1>8 DEF Finished, Replies
<1>10. \/ handler' = [handler EXCEPT ![m] = Retried(h, h.used + cost, pending)]
       \/ \E table : StartStep(m, h, h.step + 1, table)
       \/ handler' = [handler EXCEPT
            ![m] = Answer(h, IF status = "completed" THEN "answer" ELSE status)]
  BY DEF Turn, Retried
<1> HIDE DEF exceeded, pending, valid, status
<1> QED BY <1>1, <1>4, <1>5, <1>6, <1>7, <1>9, <1>10

LEMMA ProcessEndsStays ==
  ASSUME BInv, NEW p, ProcessEnds(p)
  PROVE  Stays /\ UNCHANGED sessions
<1>1. clock' = clock /\ UNCHANGED sessions /\ handler \in [Messages -> Handlers]
  BY DEF ProcessEnds, storeVars, BInv
<1>2. ASSUME NEW n \in Messages
      PROVE  /\ SameTalk(handler[n], handler'[n])
             /\ handler'[n].stage = "none" => handler[n].stage = "none"
  <2>1. /\ handler[n] \in Handlers /\ handler[n].reply \in LeaveReplies
        /\ "ended" \in LeaveStages
    BY <1>1 DEF Handlers, LeaveReplies, LeaveStages
  <2>2. CASE handler'[n] = handler[n]
    BY <2>2 DEF SameTalk
  <2>3. CASE handler'[n] = Leave(handler[n], "ended", handler[n].reply)
    <3>1. SameTalk(handler[n], handler'[n]) /\ handler'[n].stage = "ended"
      BY <2>1, <2>3, LeaveType
    <3> QED BY <3>1
  <2> QED BY <2>2, <2>3 DEF ProcessEnds
<1> QED BY <1>1, <1>2 DEF Stays

LEMMA EndStays ==
  ASSUME BInv, NEW m \in Messages, End(m)
  PROVE  Stays /\ UNCHANGED sessions
<1>1. handler[m] \in Handlers /\ clock' = clock /\ UNCHANGED sessions
  BY DEF BInv, End, storeVars
<1>2. PICK k : k = Over(handler[m])
  OBVIOUS
<1>3. SameTalk(handler[m], k) /\ k.stage = "ended"
  BY <1>1, <1>2, OverType
<1>4. handler' = [handler EXCEPT ![m] = k]
  BY <1>2 DEF End, Over, BInv
<1> QED BY <1>1, <1>3, <1>4, OneStays

LEMMA ProceedStays ==
  ASSUME BInv, NEW m \in Messages, Proceed(m)
  PROVE  Stays /\ UNCHANGED sessions
<1>1. handler[m] \in Handlers /\ SameTalk(handler[m], handler[m])
  BY DEF BInv, SameTalk
<1>2. ASSUME GooseFails(m) \/ ReplyRejected(m) PROVE Stays /\ UNCHANGED sessions
  BY <1>1, <1>2, ThrowStays DEF GooseFails, ReplyRejected, storeVars
<1>3. ASSUME Posted(m) \/ CommentEnds(m) \/ ErrorPosted(m) PROVE Stays /\ UNCHANGED sessions
  BY <1>3, EndStays DEF Posted, CommentEnds, ErrorPosted
<1>4. ASSUME ErrorReplyRejected(m) PROVE Stays /\ UNCHANGED sessions
  BY <1>4, ProcessEndsStays DEF ErrorReplyRejected
<1> QED BY <1>2, <1>3, <1>4, ClassifyStays, TurnStays DEF Proceed

LEMMA ArriveSplits ==
  ASSUME BInv, BInv', SInv, NEW m \in Messages, Arrive(m)
  PROVE  SInv'
<1>1. /\ handler[m].stage = "none" /\ clock' = clock /\ RestOK
      /\ handler[m] \in Handlers /\ SameTalk(handler[m], handler[m])
      /\ sessions \in [Threads -> Sessions \cup {NoSession}] /\ ThreadOf[m] \in Threads
  BY BInvTimed DEF Arrive, BInv, RestOK, SameTalk, Timed
<1>2. ASSUME NEW ts, \A t \in ts : Idle(t)
      PROVE  \A t \in Threads :
               Removed(ts)[t] = sessions[t] \/ (Removed(ts)[t] = NoSession /\ Idle(t))
  BY <1>2 DEF Removed
<1>3. CASE Resume(m)
  BY <1>1, <1>3, EnterSplit DEF Resume
<1>4. CASE Restart(m)
  <2> DEFINE idle == {t \in Threads : Idle(t)}
  <2>1. ThreadOf[m] \in idle /\ Enter(m, Removed(idle))
    BY <1>4 DEF Restart
  <2>2. Removed(idle)[ThreadOf[m]] = NoSession
    BY <1>1, <2>1 DEF Removed
  <2>3. PICK left : left = Removed(idle)
    OBVIOUS
  <2>4. /\ left \in [Threads -> Sessions \cup {NoSession}] /\ left[ThreadOf[m]] = NoSession
        /\ \A t \in Threads : left[t] = sessions[t] \/ (left[t] = NoSession /\ Idle(t))
    BY <1>1, <1>2, <2>2, <2>3, RemovedType
  <2> QED BY <1>1, <2>1, <2>3, <2>4, EnterSplit
<1>5. CASE Refuse(m)
  <2>1. PICK moved \in SUBSET ({t \in Threads : Idle(t)} \ archived) :
          sessions' = Removed(moved)
    BY <1>5 DEF Refuse
  <2>2. \A t \in Threads :
          sessions'[t] = sessions[t] \/ (sessions'[t] = NoSession /\ Idle(t))
    BY <1>2, <2>1
  <2>3. Stays
    BY <1>1, <1>5, ThrowStays DEF Refuse
  <2> QED BY <2>2, <2>3, StaysSplit
<1>6. CASE TurnAway(m)
  <2>1. Stays
    BY <1>1, <1>6, LeaveStays DEF TurnAway, Replies, LeaveStages, LeaveReplies
  <2> QED BY <1>6, <2>1, StaysSplit DEF TurnAway
<1> QED BY <1>3, <1>4, <1>5, <1>6 DEF Arrive, Chat, Deliver

LEMMA SInitial == Init => SInv
<1> SUFFICES ASSUME Init PROVE SInv
  OBVIOUS
<1>1. \A m \in Messages : ~Accepted(m)
  BY DEF Init, NotArrived, Accepted
<1>2. \A t \in Threads : sessions[t] = NoSession
  BY DEF Init
<1> QED BY <1>1, <1>2 DEF SInv, RootsDrawn, SessionIsLatest, Members,
                          SplitAtTtl, Consecutive

LEMMA SStep == BInv /\ SInv /\ [Next]_vars => SInv'
<1> SUFFICES ASSUME BInv, SInv, [Next]_vars PROVE SInv'
  OBVIOUS
<1>1. BInv'
  BY BStep
<1>2. ASSUME Stays, UNCHANGED sessions PROVE SInv'
  BY <1>1, <1>2, StaysSplit
<1>3. ASSUME Tick PROVE SInv'
  <2>1. UNCHANGED <<sessions, handler>> /\ clock <= clock'
    <3>1. clock \in Nat /\ clock' = clock + 1
      BY <1>3, TimesAre, BInvTimed DEF Tick, Timed
    <3> QED BY <1>3, <3>1 DEF Tick, storeVars
  <2>2. \A n \in Messages : SameTalk(handler[n], handler'[n])
    BY <2>1 DEF SameTalk
  <2>3. Timed /\ Timed'
    BY <1>1, BInvTimed, PTL
  <2> QED BY <2>1, <2>2, <2>3, SessionsStand
<1>4. ASSUME UNCHANGED vars PROVE SInv'
  BY <1>1, <1>4, <1>2 DEF vars, storeVars, Stays, SameTalk
<1> QED BY <1>1, <1>2, <1>3, <1>4, ArriveSplits, ProceedStays, ProcessEndsStays DEF Next, Crash

\* A thread's consecutive messages share a conversation and its correlation root
\* exactly when they are no more than the TTL apart, in whatever order the threads'
\* messages arrive and whoever archives their sessions (framework-core: ingress.ts,
\* store.ts).
THEOREM ConversationsSplit == Spec => []ConversationsSplitAtTtl
<1>1. Init => BInv /\ SInv
  BY BInitial, SInitial
<1>2. BInv /\ SInv /\ [Next]_vars => (BInv /\ SInv)'
  BY BStep, SStep
<1>3. SInv => ConversationsSplitAtTtl
  BY SplitIs DEF SInv
<1> QED BY <1>1, <1>2, <1>3, PTL DEF Spec

-------------------------------------------------------------------------------
(***************************************************************************)
(* Runs and replies.  A message's rows are those of the steps up to its    *)
(* handler's, one each, and what the user was told is what the last says.  *)
(***************************************************************************)
Of(m, table) == {id \in DOMAIN table : table[id].by = m}

Ordered(m, h, table) ==
  /\ \A id \in Of(m, table) : id[2] \in 1..h.step
  /\ \A x, y \in Of(m, table) : x[2] = y[2] => x = y
  /\ \A step \in 1..h.step : \E id \in Of(m, table) : id[2] = step
  /\ \A id \in Of(m, table) : id[2] < h.step => table[id].status = "completed"

Unstarted == {"rephrase", "unconfigured", "turned away"}

Told(m, h, table) ==
  /\ h.stage \in {"none", "classify"} => h.step = 0
  /\ h.stage \in {"none", "classify", "minion"} => h.reply = "none"
  /\ h.stage = "minion" =>
       h.step \in 1..Len(Dag(h.intent)) /\ table[h.run].status = "running"
  /\ h.reply \in Unstarted => h.step = 0
  /\ h.reply = "answer" => h.step = Len(Dag(h.intent))
  /\ h.reply \in Finished \cup {"answer"} => h.step > 0
  /\ \A id \in Of(m, table) : id[2] = h.step =>
       /\ h.reply = "answer" => table[id].status = "completed"
       /\ h.reply \in Finished => table[id].status = h.reply

Accounts(m, h, table) == Ordered(m, h, table) /\ Told(m, h, table)

RInv == \A m \in Messages : Accounts(m, handler[m], rows)

LEMMA DagType ==
  ASSUME NEW i
  PROVE  Dag(i) \in Seq(STRING) /\ Len(Dag(i)) \in Nat /\ (Dag(i) # <<>> => Len(Dag(i)) > 0)
<1>1. CASE i \in DOMAIN Dags
  BY <1>1, ConversationAssumption DEF Dag
<1>2. CASE i \notin DOMAIN Dags
  BY <1>2 DEF Dag
<1> QED BY <1>1, <1>2

\* A message's account depends on its own rows only.
LEMMA AccountsFrame ==
  ASSUME NEW m, NEW h, NEW old, NEW new, Accounts(m, h, old), Holds(m, h, old),
         Of(m, new) = Of(m, old), \A id \in Of(m, old) : new[id] = old[id]
  PROVE  Accounts(m, h, new)
<1>1. Ordered(m, h, new)
  BY DEF Accounts, Ordered
<1>2. h.stage = "minion" => new[h.run] = old[h.run]
  BY DEF Holds, Of
<1>3. Told(m, h, new)
  BY <1>2 DEF Accounts, Told
<1> QED BY <1>1, <1>3 DEF Accounts

\* What a handler that leaves, or goes over, says of the same rows.
LEMMA ErrorAccounts ==
  ASSUME NEW m, NEW h \in Handlers, NEW table, Ordered(m, h, table), NEW k \in Handlers,
         k.step = h.step, k.stage \in {"ended", "error reply"}, k.reply = "error"
  PROVE  Accounts(m, k, table)
<1>1. Ordered(m, k, table)
  BY DEF Ordered
<1>2. k.reply \notin Unstarted /\ k.reply \notin Finished \cup {"answer"}
  BY DEF Unstarted, Finished
<1> QED BY <1>1, <1>2 DEF Accounts, Told

LEMMA OverAccounts ==
  ASSUME NEW m, NEW h \in Handlers, NEW table, Accounts(m, h, table), NEW k \in Handlers,
         k.step = h.step, k.intent = h.intent, k.stage = "ended", k.reply = h.reply
  PROVE  Accounts(m, k, table)
<1>1. Ordered(m, k, table)
  BY DEF Accounts, Ordered
<1> QED BY <1>1 DEF Accounts, Told

LEMMA UnstartedAccounts ==
  ASSUME NEW m, NEW h \in Handlers, NEW table, Accounts(m, h, table), h.step = 0,
         NEW k \in Handlers, k.step = 0, k.stage \in LeaveStages, k.reply \in Unstarted
  PROVE  Accounts(m, k, table)
<1>1. Ordered(m, k, table) /\ Of(m, table) = {}
  BY DEF Accounts, Ordered
<1>2. k.reply \notin Finished \cup {"answer"}
  BY DEF Unstarted, Finished
<1> QED BY <1>1, <1>2 DEF Accounts, Told, LeaveStages

\* One handler moves, and of the rows at most its own.
LEMMA OneAccounts ==
  ASSUME BInv, RInv, NEW m \in Messages, NEW k, Accounts(m, k, rows'),
         handler' = [handler EXCEPT ![m] = k],
         \A n \in Messages : n # m =>
           Of(n, rows') = Of(n, rows) /\ \A id \in Of(n, rows) : rows'[id] = rows[id]
  PROVE  RInv'
<1>1. handler \in [Messages -> Handlers]
  BY DEF BInv
<1>2. ASSUME NEW n \in Messages PROVE Accounts(n, handler'[n], rows')
  <2>1. CASE n = m
    BY <1>1, <2>1
  <2>2. CASE n # m
    <3>1. handler'[n] = handler[n]
      BY <1>1, <2>2
    <3>2. Accounts(n, handler[n], rows) /\ Holds(n, handler[n], rows)
      BY DEF RInv, BInv
    <3>3. Of(n, rows') = Of(n, rows) /\ \A id \in Of(n, rows) : rows'[id] = rows[id]
      BY <2>2
    <3> QED BY <3>1, <3>2, <3>3, AccountsFrame
  <2> QED BY <2>1, <2>2
<1> QED BY <1>2 DEF RInv

LEMMA SameRows ==
  ASSUME BInv, RInv, NEW m \in Messages, NEW k, Accounts(m, k, rows), UNCHANGED rows,
         handler' = [handler EXCEPT ![m] = k]
  PROVE  RInv'
BY OneAccounts DEF Of

\* The next step of a chain, all of whose rows are completed.
LEMMA StartStepAccounts ==
  ASSUME BInv, RInv, NEW m \in Messages, NEW h \in Handlers, NEW table,
         Ordered(m, h, table), \A id \in Of(m, table) : table[id].status = "completed",
         h.reply = "none", h.step + 1 <= Len(Dag(h.intent)),
         \A n \in Messages : n # m =>
           Of(n, table) = Of(n, rows) /\ \A id \in Of(n, rows) : table[id] = rows[id],
         NEW step \in Nat, step = h.step + 1, StartStep(m, h, step, table)
  PROVE  RInv'
<1> DEFINE id == RunId(m, step)
           new == [by |-> m, status |-> "running", tokensUsed |-> 0]
<1>1. h.step \in Nat
  BY DEF Handlers
<1>2. CASE rows' = table /\ handler' = [handler EXCEPT ![m] = Throw(h, m)]
  <2>1. PICK k : k = Throw(h, m)
    OBVIOUS
  <2>2. /\ k \in Handlers /\ k.stage \in {"ended", "error reply"}
        /\ k.step = h.step /\ k.reply = "error"
    BY <2>1, ThrowType
  <2>3. Accounts(m, k, table)
    BY <2>2, ErrorAccounts
  <2> QED BY <1>2, <2>1, <2>3, OneAccounts
<1>3. CASE /\ id \notin DOMAIN table
           /\ rows' = Extend(table, id, new)
           /\ handler' = [handler EXCEPT ![m] = FirstTurn(h, step, id)]
  <2>1. id \in RunIds /\ id[2] = step
    BY BInvTimed DEF Timed, RunId, RunIds
  <2>2. new.by = m /\ new.status = "running"
    OBVIOUS
  <2> HIDE DEF id, new
  <2>3. PICK k : k = FirstTurn(h, step, id)
    OBVIOUS
  <2>4. /\ k \in Handlers /\ k.stage = "minion" /\ k.intent = h.intent
        /\ k.step = step /\ k.run = id /\ k.reply = h.reply
    <3>1. \A x \in RunIds : k = FirstTurn(h, step, x) =>
            /\ k \in Handlers /\ k.stage = "minion" /\ k.intent = h.intent
            /\ k.step = step /\ k.run = x /\ k.reply = h.reply
      BY FirstTurnType
    <3> QED BY <2>1, <2>3, <3>1
  <2>5. PICK grown : grown = Extend(table, id, new)
    OBVIOUS
  <2>6. /\ DOMAIN grown = DOMAIN table \cup {id} /\ grown[id] = new
        /\ \A x \in DOMAIN table : grown[x] = table[x]
    BY <1>3, <2>5 DEF Extend
  <2>7. Of(m, grown) = Of(m, table) \cup {id} /\ id \notin Of(m, table)
    BY <1>3, <2>2, <2>6 DEF Of
  <2>8. \A x \in Of(m, table) :
          grown[x].status = "completed" /\ x[2] \in 1..h.step /\ x[2] < step /\ x[2] # step
    BY <1>1, <2>6 DEF Of, Ordered
  <2>9. Ordered(m, k, grown)
    <3>1. \A x \in Of(m, grown) : x[2] \in 1..step
      BY <1>1, <2>1, <2>7, <2>8
    <3>2. \A x, y \in Of(m, grown) : x[2] = y[2] => x = y
      BY <2>1, <2>7, <2>8 DEF Ordered
    <3>3. ASSUME NEW i \in 1..step PROVE \E x \in Of(m, grown) : x[2] = i
      <4>1. CASE i = step
        BY <2>1, <2>7, <4>1
      <4>2. CASE i # step
        <5>1. i \in 1..h.step
          BY <1>1, <4>2
        <5> QED BY <2>7, <5>1 DEF Ordered
      <4> QED BY <4>1, <4>2
    <3>4. \A x \in Of(m, grown) : x[2] < step => grown[x].status = "completed"
      BY <2>1, <2>7, <2>8
    <3> QED BY <2>4, <3>1, <3>2, <3>3, <3>4 DEF Ordered
  <2>10. Told(m, k, grown)
    <3>1. step \in 1..Len(Dag(h.intent))
      BY <1>1, DagType
    <3>2. grown[k.run].status = "running"
      BY <2>2, <2>4, <2>6
    <3>3. k.reply \notin Unstarted /\ k.reply \notin Finished \cup {"answer"}
      BY <2>4 DEF Unstarted, Finished
    <3> QED BY <2>4, <3>1, <3>2, <3>3 DEF Told
  <2>11. ASSUME NEW n \in Messages, n # m
         PROVE  Of(n, grown) = Of(n, rows) /\ \A x \in Of(n, rows) : grown[x] = rows[x]
    <3>1. Of(n, table) = Of(n, rows) /\ \A x \in Of(n, rows) : table[x] = rows[x]
      BY <2>11
    <3>2. Of(n, grown) = Of(n, table)
      BY <2>2, <2>6, <2>11 DEF Of
    <3>3. \A x \in Of(n, table) : grown[x] = table[x]
      BY <2>6 DEF Of
    <3> QED BY <3>1, <3>2, <3>3
  <2> QED BY <1>3, <2>3, <2>5, <2>9, <2>10, <2>11, OneAccounts DEF Accounts
<1> QED BY <1>2, <1>3 DEF StartStep, FirstTurn

LEMMA ClassifyAccounts ==
  ASSUME BInv, RInv, NEW m \in Messages, Classify(m)
  PROVE  RInv'
<1>1. /\ handler[m] \in Handlers /\ handler[m].stage = "classify"
      /\ Accounts(m, handler[m], rows)
  BY DEF BInv, RInv, Classify
<1>2. handler[m].step = 0 /\ handler[m].reply = "none" /\ Of(m, rows) = {}
  BY <1>1 DEF Accounts, Ordered, Told
<1>3. ASSUME NEW reply \in Unstarted, reply \in Replies, Reply(m, reply) PROVE RInv'
  <2>1. PICK k : k = Answer(handler[m], reply)
    OBVIOUS
  <2>2. k \in Handlers /\ k.step = 0 /\ k.stage = "reply" /\ k.reply = reply
    BY <1>1, <1>2, <1>3, <2>1, AnswerType
  <2>3. Accounts(m, k, rows)
    BY <1>1, <1>2, <2>2, UnstartedAccounts DEF LeaveStages
  <2> QED BY <1>3, <2>1, <2>3, SameRows DEF Reply
<1>4. ASSUME NEW i \in IntentsOf[m], Dag(i) # <<>>,
             StartStep(m, [handler[m] EXCEPT !.intent = i], 1, rows)
      PROVE  RInv'
  <2>1. i \in Intents
    BY ConversationAssumption
  <2>2. PICK h : h = Classified(handler[m], i)
    OBVIOUS
  <2>3. h \in Handlers /\ h.step = 0 /\ h.reply = "none" /\ h.intent = i
    BY <1>1, <1>2, <2>1, <2>2, ClassifiedType
  <2>4. Ordered(m, h, rows)
    BY <1>1, <1>2, <2>3 DEF Accounts, Ordered
  <2>5. h.step + 1 = 1 /\ h.step + 1 <= Len(Dag(h.intent))
    BY <1>4, <2>3, DagType
  <2>6. StartStep(m, h, 1, rows)
    BY <1>4, <2>2 DEF Classified
  <2> QED BY <1>2, <2>3, <2>4, <2>5, <2>6, StartStepAccounts
<1> QED BY <1>3, <1>4 DEF Classify, Replies, Unstarted

LEMMA TurnAccounts ==
  ASSUME BInv, RInv, NEW m \in Messages, NEW i \in Intents, NEW cost \in TurnTokens[i],
         NEW response \in Responses, Turn(m, cost, response)
  PROVE  RInv'
<1> DEFINE h == handler[m]
           exceeded == Exceeded(Dag(h.intent)[h.step], h.used, cost)
           pending == h.pending \/ (response = "approval" /\ ~exceeded)
           valid == response = "valid" /\ ~exceeded
           status == StatusOf(exceeded, pending, valid)
           run == [rows[h.run] EXCEPT !.tokensUsed = h.used + cost, !.status = status]
           table == [rows EXCEPT ![h.run] = run]
           reply == IF status = "completed" THEN "answer" ELSE status
<1>1. /\ handler \in [Messages -> Handlers] /\ h \in Handlers /\ h.stage = "minion"
      /\ Accounts(m, h, rows) /\ Holds(m, h, rows)
  BY DEF BInv, RInv, Turn
<1>2. cost \in Nat
  BY ConversationAssumption
<1>3. h.used + cost \in Nat /\ h.step \in Nat /\ h.step + 1 \in Nat
  BY <1>1, <1>2 DEF Handlers
<1>4. exceeded \in BOOLEAN /\ pending \in BOOLEAN /\ valid \in BOOLEAN
  BY <1>1 DEF Exceeded, WithinBudget, Handlers
<1>5. status \in Finished
  BY <1>4, StatusOfType
<1>6. h.run \in DOMAIN rows /\ rows[h.run].by = m /\ h.run[2] = h.step /\ rows[h.run] \in Runs
  BY <1>1 DEF BInv, Holds, TableOK
<1>7. /\ \/ handler' = [handler EXCEPT ![m] = Retried(h, h.used + cost, pending)] /\ UNCHANGED rows
         \/ ChainContinues(h, status) /\ StartStep(m, h, h.step + 1, table)
         \/ /\ ~ChainContinues(h, status) /\ rows' = table
            /\ handler' = [handler EXCEPT ![m] = Answer(h, reply)]
  BY DEF Turn, Retried
<1>8. run.by = m /\ run.status = status
  BY <1>6 DEF Runs
<1>9. PICK t : t = table
  OBVIOUS
<1> HIDE DEF exceeded, pending, valid, status, run
<1>10. /\ DOMAIN t = DOMAIN rows /\ t[h.run] = run
       /\ \A id \in DOMAIN rows : id # h.run => t[id] = rows[id]
  BY <1>6, <1>9 DEF BInv, TableOK
<1>11. Of(m, t) = Of(m, rows) /\ h.run \in Of(m, t)
  BY <1>6, <1>8, <1>10 DEF Of
<1>12. \A n \in Messages : n # m =>
         Of(n, t) = Of(n, rows) /\ \A id \in Of(n, rows) : t[id] = rows[id]
  BY <1>6, <1>8, <1>10 DEF Of
<1>13. Ordered(m, h, t) /\ \A id \in Of(m, t) : id[2] = h.step => id = h.run
  <2>1. \A id \in Of(m, t) : id[2] = h.step => id = h.run
    BY <1>1, <1>6, <1>11 DEF Accounts, Ordered
  <2>2. \A id \in Of(m, t) : id[2] < h.step => t[id].status = "completed"
    BY <1>1, <1>3, <1>6, <1>10, <1>11 DEF Accounts, Ordered, Of
  <2> QED BY <1>1, <1>11, <2>1, <2>2 DEF Accounts, Ordered
<1>14. h.reply = "none" /\ h.step \in 1..Len(Dag(h.intent))
  BY <1>1 DEF Accounts, Told
<1>15. CASE /\ handler' = [handler EXCEPT ![m] = Retried(h, h.used + cost, pending)]
            /\ UNCHANGED rows
  <2>1. PICK k : k = Retried(h, h.used + cost, pending)
    OBVIOUS
  <2>2. PICK p : p = pending
    OBVIOUS
  <2>3. p \in Flags /\ k = Retried(h, h.used + cost, p)
    BY <1>4, <2>1, <2>2 DEF Flags
  <2>4. /\ k \in Handlers /\ k.stage = h.stage /\ k.intent = h.intent
        /\ k.step = h.step /\ k.run = h.run /\ k.reply = h.reply
    BY <1>1, <1>3, <2>3, RetryType
  <2>5. Accounts(m, k, rows)
    BY <1>1, <2>4 DEF Accounts, Ordered, Told
  <2> QED BY <1>15, <2>1, <2>5, SameRows
<1>16. CASE ChainContinues(h, status) /\ StartStep(m, h, h.step + 1, table)
  <2>1. status = "completed" /\ h.step + 1 <= Len(Dag(h.intent))
    BY <1>3, <1>16, DagType DEF ChainContinues
  <2>2. \A id \in Of(m, t) : t[id].status = "completed"
    <3>1. \A id \in Of(m, t) : id[2] \in 1..h.step
      BY <1>13 DEF Ordered
    <3>2. \A id \in Of(m, t) : id[2] < h.step \/ id[2] = h.step
      BY <1>3, <3>1
    <3> QED BY <1>8, <1>10, <1>13, <2>1, <3>2 DEF Ordered
  <2>3. StartStep(m, h, h.step + 1, t)
    BY <1>9, <1>16
  <2> QED BY <1>1, <1>3, <1>12, <1>13, <1>14, <2>1, <2>2, <2>3, StartStepAccounts
<1>17. CASE /\ ~ChainContinues(h, status) /\ rows' = table
            /\ handler' = [handler EXCEPT ![m] = Answer(h, reply)]
  <2>1. PICK r : r = reply
    OBVIOUS
  <2>2. /\ r \in Replies /\ (r = "answer") = (status = "completed")
        /\ (r # "answer" => r = status) /\ r \notin Unstarted
    BY <1>5, <2>1 DEF Finished, Replies, Unstarted
  <2>3. PICK k : k = Answer(h, r)
    OBVIOUS
  <2>4. /\ k \in Handlers /\ k.intent = h.intent /\ k.stage = "reply"
        /\ k.step = h.step /\ k.reply = r
    BY <1>1, <2>2, <2>3, AnswerType
  <2>5. r = "answer" => h.step = Len(Dag(h.intent))
    <3>1. ASSUME r = "answer" PROVE ~(h.step < Len(Dag(h.intent)))
      BY <1>17, <2>2, <3>1 DEF ChainContinues
    <3> QED BY <1>3, <1>14, <3>1, DagType
  <2>6. Ordered(m, k, t)
    BY <1>13, <2>4 DEF Ordered
  <2>7. \A id \in Of(m, t) : id[2] = k.step => t[id].status = status
    BY <1>8, <1>10, <1>13, <2>4
  <2>8. status # "running" /\ (r \in Finished => r = status)
    BY <1>5, <2>2 DEF Finished
  <2>9. h.step > 0
    BY <1>14
  <2>10. Told(m, k, t)
    BY <2>2, <2>4, <2>5, <2>7, <2>8, <2>9 DEF Told
  <2> QED BY <1>9, <1>12, <1>17, <2>1, <2>3, <2>6, <2>10, OneAccounts DEF Accounts
<1> QED BY <1>7, <1>15, <1>16, <1>17

LEMMA ErrorReplies ==
  ASSUME BInv, RInv, UNCHANGED rows, NEW m \in Messages,
         handler' = [handler EXCEPT ![m] = Throw(handler[m], m)]
  PROVE  RInv'
<1>1. handler[m] \in Handlers /\ Ordered(m, handler[m], rows)
  BY DEF BInv, RInv, Accounts
<1>2. PICK k : k = Throw(handler[m], m)
  OBVIOUS
<1>3. Accounts(m, k, rows)
  BY <1>1, <1>2, ThrowType, ErrorAccounts
<1> QED BY <1>2, <1>3, SameRows

LEMMA EnterAccounts ==
  ASSUME BInv, RInv, UNCHANGED rows, NEW m \in Messages, handler[m].stage = "none",
         NEW left \in [Threads -> Sessions \cup {NoSession}], Enter(m, left)
  PROVE  RInv'
<1>1. PICK root : root = IF left[ThreadOf[m]] = NoSession THEN m ELSE left[ThreadOf[m]].root
  OBVIOUS
<1>2. /\ ThreadOf[m] \in Threads /\ clock \in 0..MaxClock /\ handler[m] \in Handlers
      /\ Accounts(m, handler[m], rows)
  BY BInvTimed DEF Timed, BInv, RInv
<1>3. root \in Messages
  BY <1>1, <1>2 DEF Sessions
<1>4. PICK k : k = Entered(handler[m], root, clock)
  OBVIOUS
<1>5. k.stage = "classify" /\ k.step = handler[m].step /\ k.reply = handler[m].reply
  BY <1>2, <1>3, <1>4, EnterType
<1>6. handler[m].step = 0 /\ handler[m].reply = "none" /\ Of(m, rows) = {}
  BY <1>2 DEF Accounts, Ordered, Told
<1>7. Accounts(m, k, rows)
  <2>1. k.reply \notin Unstarted /\ k.reply \notin Finished \cup {"answer"}
    BY <1>5, <1>6 DEF Unstarted, Finished
  <2> QED BY <1>2, <1>5, <1>6, <2>1 DEF Accounts, Ordered, Told
<1>8. handler' = [handler EXCEPT ![m] = k]
  BY <1>1, <1>4 DEF Enter, Entered
<1> QED BY <1>7, <1>8, SameRows

LEMMA ArriveAccounts ==
  ASSUME BInv, RInv, NEW m \in Messages, Arrive(m)
  PROVE  RInv'
<1>1. handler[m].stage = "none" /\ UNCHANGED rows /\ RestOK /\ handler[m] \in Handlers
      /\ Accounts(m, handler[m], rows) /\ sessions \in [Threads -> Sessions \cup {NoSession}]
  BY DEF Arrive, BInv, RestOK, RInv
<1>2. CASE Resume(m)
  BY <1>1, <1>2, EnterAccounts DEF Resume
<1>3. CASE Restart(m)
  BY <1>1, <1>3, RemovedType, EnterAccounts DEF Restart
<1>4. CASE Refuse(m)
  BY <1>1, <1>4, ErrorReplies DEF Refuse
<1>5. CASE TurnAway(m)
  <2>1. PICK h : h = handler[m]
    OBVIOUS
  <2>2. h \in Handlers /\ h.step = 0
    BY <1>1, <2>1 DEF Accounts, Told
  <2>3. PICK k : k = Leave(h, "ended", "turned away")
    OBVIOUS
  <2>4. k \in Handlers /\ k.step = 0 /\ k.stage \in LeaveStages /\ k.reply \in Unstarted
    <3>1. "ended" \in LeaveStages /\ "turned away" \in LeaveReplies
      BY DEF LeaveStages, LeaveReplies, Replies
    <3>2. ASSUME NEW stage \in LeaveStages, NEW reply \in LeaveReplies, k = Leave(h, stage, reply)
          PROVE  k \in Handlers /\ k.step = h.step /\ k.stage = stage /\ k.reply = reply
      BY <2>2, <3>2, LeaveType
    <3>3. k \in Handlers /\ k.step = h.step /\ k.stage = "ended" /\ k.reply = "turned away"
      BY <2>3, <3>1, <3>2
    <3> QED BY <2>2, <3>3 DEF LeaveStages, Unstarted
  <2>5. Accounts(m, k, rows)
    BY <1>1, <2>1, <2>2, <2>4, UnstartedAccounts
  <2> QED BY <1>1, <1>5, <2>1, <2>3, <2>5, SameRows DEF TurnAway
<1> QED BY <1>2, <1>3, <1>4, <1>5 DEF Arrive, Chat, Deliver

LEMMA EndAccounts ==
  ASSUME BInv, RInv, NEW m \in Messages, End(m)
  PROVE  RInv'
<1>1. handler[m] \in Handlers /\ UNCHANGED rows /\ Accounts(m, handler[m], rows)
  BY DEF BInv, RInv, End, storeVars
<1>2. PICK k : k = Over(handler[m])
  OBVIOUS
<1>3. Accounts(m, k, rows)
  BY <1>1, <1>2, OverType, OverAccounts
<1>4. handler' = [handler EXCEPT ![m] = k]
  BY <1>2 DEF End, Over, BInv
<1> QED BY <1>1, <1>3, <1>4, SameRows

LEMMA ProcessEndsAccounts ==
  ASSUME BInv, RInv, NEW p, ProcessEnds(p)
  PROVE  RInv'
<1>1. UNCHANGED rows /\ handler \in [Messages -> Handlers]
  BY DEF ProcessEnds, storeVars, BInv
<1>2. ASSUME NEW n \in Messages PROVE Accounts(n, handler'[n], rows)
  <2>1. /\ handler[n] \in Handlers /\ handler[n].reply \in LeaveReplies
        /\ "ended" \in LeaveStages /\ Accounts(n, handler[n], rows)
    BY <1>1 DEF Handlers, LeaveReplies, LeaveStages, RInv
  <2>2. CASE handler'[n] = handler[n]
    BY <2>1, <2>2
  <2>3. CASE handler'[n] = Leave(handler[n], "ended", handler[n].reply)
    BY <2>1, <2>3, LeaveType, OverAccounts
  <2> QED BY <2>2, <2>3 DEF ProcessEnds
<1> QED BY <1>1, <1>2 DEF RInv

LEMMA ProceedAccounts ==
  ASSUME BInv, RInv, NEW m \in Messages, Proceed(m)
  PROVE  RInv'
<1>1. ASSUME GooseFails(m) \/ ReplyRejected(m) PROVE RInv'
  BY <1>1, ErrorReplies DEF GooseFails, ReplyRejected, storeVars
<1>2. ASSUME Posted(m) \/ CommentEnds(m) \/ ErrorPosted(m) PROVE RInv'
  BY <1>2, EndAccounts DEF Posted, CommentEnds, ErrorPosted
<1>3. ASSUME ErrorReplyRejected(m) PROVE RInv'
  BY <1>3, ProcessEndsAccounts DEF ErrorReplyRejected
<1> QED BY <1>1, <1>2, <1>3, ClassifyAccounts, TurnAccounts DEF Proceed

LEMMA RInitial == Init => RInv
<1> SUFFICES ASSUME Init PROVE RInv
  OBVIOUS
<1>1. ASSUME NEW m \in Messages PROVE Accounts(m, handler[m], rows)
  <2>1. handler[m] = NotArrived /\ Of(m, rows) = {}
    BY DEF Init, Of
  <2>2. /\ handler[m].stage = "none" /\ handler[m].step = 0 /\ handler[m].reply = "none"
    BY <2>1 DEF NotArrived
  <2>3. "none" \notin Unstarted /\ "none" \notin Finished \cup {"answer"}
    BY DEF Unstarted, Finished
  <2> QED BY <2>1, <2>2, <2>3 DEF Accounts, Ordered, Told
<1> QED BY <1>1 DEF RInv

LEMMA RStep == BInv /\ RInv /\ [Next]_vars => RInv'
<1> SUFFICES ASSUME BInv, RInv, [Next]_vars PROVE RInv'
  OBVIOUS
<1>1. ASSUME UNCHANGED <<rows, handler>> PROVE RInv'
  BY <1>1 DEF RInv
<1>2. ASSUME Tick \/ UNCHANGED vars PROVE RInv'
  BY <1>1, <1>2 DEF Tick, vars, storeVars
<1> QED BY <1>2, ArriveAccounts, ProceedAccounts, ProcessEndsAccounts DEF Next, Crash

\* f maps A to B one to one.
Matches(f, A, B) ==
  /\ \A x \in A : f[x] \in B
  /\ \A x, y \in A : f[x] = f[y] => x = y
  /\ \A b \in B : \E x \in A : f[x] = b

LEMMA SameSize ==
  ASSUME NEW A, NEW B, NEW f, IsFiniteSet(B), Matches(f, A, B)
  PROVE  IsFiniteSet(A) /\ Cardinality(A) = Cardinality(B)
<1> DEFINE g == [x \in A |-> f[x]]
<1>1. g \in Injection(A, B) /\ g \in Surjection(A, B)
  BY DEF Matches, Injection, IsInjective, Surjection
<1> QED BY <1>1, FS_Injection

\* A message has as many rows as its handler has come to steps.
LEMMA RowsCounted ==
  ASSUME NEW m, NEW h \in Handlers, NEW table, Ordered(m, h, table)
  PROVE  Cardinality(Of(m, table)) = h.step
<1> DEFINE f == [id \in Of(m, table) |-> id[2]]
<1>1. h.step \in Nat
  BY DEF Handlers
<1>2. Matches(f, Of(m, table), 1..h.step)
  BY DEF Matches, Ordered
<1>3. PICK a, b \in Int : a = 1 /\ b = h.step
  BY <1>1
<1>4. IsFiniteSet(a..b) /\ Cardinality(a..b) = IF a > b THEN 0 ELSE b - a + 1
  BY FS_Interval
<1>5. IsFiniteSet(1..h.step) /\ Cardinality(1..h.step) = h.step
  BY <1>1, <1>3, <1>4
<1> QED BY <1>2, <1>5, SameSize

LEMMA AccountsAre == BInv /\ RInv => RowsAccountForReply
<1> SUFFICES ASSUME BInv, RInv PROVE RowsAccountForReply
  OBVIOUS
<1>1. \A m \in Messages :
        /\ handler[m] \in Handlers /\ handler[m].step \in Nat
        /\ Accounts(m, handler[m], rows) /\ Holds(m, handler[m], rows)
        /\ RowsOf(m) = Of(m, rows)
  BY DEF BInv, RInv, Handlers, RowsOf, Of
<1>2. ASSUME NEW id \in DOMAIN rows
      PROVE  LET m == rows[id].by
                 h == handler[m]
             IN  /\ id[2] > 1 => \E x \in RowsOf(m) : x[2] = id[2] - 1 /\ rows[x].status = "completed"
                 /\ \A x \in RowsOf(m) : x[2] = id[2] => x = id
                 /\ h.reply \notin {"rephrase", "unconfigured", "turned away"}
  <2> DEFINE m == rows[id].by
             h == handler[m]
  <2>1. m \in Messages /\ id \in Of(m, rows)
    BY DEF BInv, TableOK, Runs, Of
  <2> HIDE DEF m
  <2>2. /\ h.step \in Nat /\ Accounts(m, h, rows) /\ Holds(m, h, rows)
        /\ RowsOf(m) = Of(m, rows) /\ id[2] \in 1..h.step
    BY <1>1, <2>1 DEF Accounts, Ordered
  <2> HIDE DEF h
  <2>3. ASSUME id[2] > 1
        PROVE  \E x \in RowsOf(m) : x[2] = id[2] - 1 /\ rows[x].status = "completed"
    <3>1. id[2] - 1 \in 1..h.step /\ id[2] - 1 < h.step
      BY <2>2, <2>3
    <3>2. PICK x \in Of(m, rows) : x[2] = id[2] - 1
      BY <2>2, <3>1 DEF Accounts, Ordered
    <3>3. rows[x].status = "completed"
      BY <2>2, <3>1, <3>2 DEF Accounts, Ordered
    <3> QED BY <2>2, <3>2, <3>3
  <2>4. \A x \in RowsOf(m) : x[2] = id[2] => x = id
    BY <2>1, <2>2 DEF Accounts, Ordered
  <2>5. h.reply \notin {"rephrase", "unconfigured", "turned away"}
    <3>1. h.step # 0
      BY <2>2
    <3> QED BY <2>2, <3>1 DEF Accounts, Told, Unstarted
  <2> QED BY <2>3, <2>4, <2>5 DEF h, m
<1>3. ASSUME NEW m \in Messages
      PROVE  LET h == handler[m] IN
               /\ h.reply = "answer" => Cardinality(RowsOf(m)) = Len(Dag(h.intent))
               /\ h.reply \in Finished \cup {"answer"} =>
                    \E id \in RowsOf(m) :
                      /\ id[2] = Cardinality(RowsOf(m))
                      /\ rows[id].status = IF h.reply = "answer" THEN "completed" ELSE h.reply
  <2> DEFINE h == handler[m]
  <2>1. /\ h \in Handlers /\ h.step \in Nat /\ Accounts(m, h, rows)
        /\ RowsOf(m) = Of(m, rows) /\ Cardinality(Of(m, rows)) = h.step
    BY <1>1, RowsCounted DEF Accounts
  <2> HIDE DEF h
  <2>2. h.reply = "answer" => Cardinality(RowsOf(m)) = Len(Dag(h.intent))
    BY <2>1 DEF Accounts, Told
  <2>3. ASSUME h.reply \in Finished \cup {"answer"}
        PROVE  \E id \in RowsOf(m) :
                 /\ id[2] = Cardinality(RowsOf(m))
                 /\ rows[id].status = IF h.reply = "answer" THEN "completed" ELSE h.reply
    <3>1. h.step \in 1..h.step
      BY <2>1, <2>3 DEF Accounts, Told
    <3>2. PICK id \in Of(m, rows) : id[2] = h.step
      BY <2>1, <3>1 DEF Accounts, Ordered
    <3>3. rows[id].status = IF h.reply = "answer" THEN "completed" ELSE h.reply
      BY <2>1, <2>3, <3>2 DEF Accounts, Told
    <3> QED BY <2>1, <3>2, <3>3
  <2> QED BY <2>2, <2>3 DEF h
<1> QED BY <1>2, <1>3 DEF RowsAccountForReply

\* The rows of minion_runs account for what the user was told, whatever the chains and
\* wherever Goose, the platform or the process fails: the steps ran in order, one row
\* each, every one before the last completed (runner.ts, store.ts).
THEOREM RowsAccount == Spec => []RowsAccountForReply
<1>1. Init => BInv /\ RInv
  BY BInitial, RInitial
<1>2. BInv /\ RInv /\ [Next]_vars => (BInv /\ RInv)'
  BY BStep, RStep
<1> QED BY <1>1, <1>2, AccountsAre, PTL DEF Spec
===============================================================================
