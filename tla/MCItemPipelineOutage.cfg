\* One process, one item, no crash: the retry after an intake outage.
SPECIFICATION PipelineSpec
CONSTANTS
  m1 = m1
  m2 = m2
  m3 = m3
  m4 = m4
  kp = kp
  kf = kf
  bad = bad
  c1 = c1
  c3 = c3
  Replicas = {r1}
  Messages = {m1}
  Keys <- MCKeys
  Malformed = bad
  ItemKey <- MCItemKey
  PipelineKeys <- MCPipelineKeys
  CorrelationOf <- MCCorrelation
  EscalationArmed = TRUE
  DurableOutcomes = FALSE
  ServiceBus = FALSE
  MaxDeliveryCount = 3
  BrokerMaxDelivery = 3
  MaxCrashes = 0
  MaxAttempts = 2
  HasClassify = TRUE
  Verifiers = {"reconcile", "judge"}
  OnFailure = "escalate"
  MaxCost = 3
  CallCosts = {0, 1}
  DurableAudit = FALSE
INVARIANT
  TransientIntakeOutageRetries
CHECK_DEADLOCK FALSE
