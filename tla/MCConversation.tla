---------------------------- MODULE MCConversation ----------------------------
(* Three messages of one thread, to a bot or to the webhook server: one asks  *)
(* for a change by two minions, one for an answer by one minion whose turns   *)
(* are cheap, the third is never understood.                                  *)
EXTENDS Conversation, TLC

CONSTANTS m1, m2, m3, thread

MCProcessOf == [m \in Messages |-> "process"]
MCThreadOf == [m \in Messages |-> thread]

MCIntents == {"question", "change", "unplanned", "unstaffed"}

MCIntentsOf == [m \in Messages |->
  CASE m = m1 -> MCIntents \ {"question"} [] m = m2 -> {"question"} [] m = m3 -> {}]

MCDags == [i \in MCIntents \ {"unplanned"} |->
  CASE i = "question" -> <<"explorer">>
    [] i = "change" -> <<"explorer", "crafter">>
    [] i = "unstaffed" -> <<"nobody">>]

MCBudgetOf == [a \in {"explorer", "crafter"} |-> IF a = "explorer" THEN 3 ELSE 0]

\* One turn of a change fits the explorer's budget, its retry exceeds it.
MCTurnTokens == [i \in MCIntents |-> IF i = "change" THEN {2} ELSE {1}]
===============================================================================
