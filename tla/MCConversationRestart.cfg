SPECIFICATION Spec
CONSTANTS
  m1 = m1
  m2 = m2
  m3 = m3
  thread = thread
  Messages = {m1, m2, m3}
  FromWebhook = {m1, m2, m3}
  Secrets = {"github", "ado"}
  Processes = {"process"}
  ProcessOf <- MCProcessOf
  Threads = {thread}
  ThreadOf <- MCThreadOf
  Intents <- MCIntents
  IntentsOf <- MCIntentsOf
  Dags <- MCDags
  BudgetOf <- MCBudgetOf
  TurnTokens <- MCTurnTokens
  Ttl = 0
  MaxClock = 2
INVARIANT IdleThreadsRestart
CHECK_DEADLOCK FALSE
