SPECIFICATION Spec
CONSTANTS
  c1 = c1
  c2 = c2
  Calls = {c1, c2}
  Requests <- MCRequests
  ShellRequests = {"shell"}
  PathsOf <- MCPathsOf
  Servers <- MCServers
  MinionOf <- MCMinionOf
  ServerOf <- MCServerOf
  ToolOf <- MCToolOf
  Agents <- MCAgents
  Registry <- MCRegistry
  IntentEnum = {"change"}
  Adapters = {"github"}
  Editions <- MCEditions
  Rulebook <- MCRulebook
  FirstEdition = "initial"
  RemoteState = TRUE
  ApprovalTimeout = 1
  CacheTtl = 1
  FailureThreshold = 2
  SuccessThreshold = 1
  Timeout = 1
  HalfOpenMax = 1
  MaxClock = 2
  MaxCalls = 3
  MaxDecisions = 2
  MaxEdits = 1
INVARIANTS
  TypeOK
  ApprovalPaysOnce
  
  AuditTrail
  TripsOnFailuresOnly
  PermittedWhenStarted
SYMMETRY Symmetry
CHECK_DEADLOCK FALSE
