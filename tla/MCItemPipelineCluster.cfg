\* Two replicas on Service Bus sharing the audit file, an envelope sent twice, a crash.
SPECIFICATION PipelineSpec
CONSTANTS
  m1 = m1
  m2 = m2
  m3 = m3
  m4 = m4
  kp = kp
  kf = kf
  bad = bad
  c1 = c1
  c3 = c3
  Replicas = {r1, r2}
  Messages = {m1, m2}
  Keys <- MCKeys
  Malformed = bad
  ItemKey <- MCItemKey
  PipelineKeys <- MCPipelineKeys
  CorrelationOf <- MCCorrelation
  EscalationArmed = TRUE
  DurableOutcomes = TRUE
  ServiceBus = TRUE
  MaxDeliveryCount = 2
  BrokerMaxDelivery = 2
  MaxCrashes = 1
  MaxAttempts = 2
  HasClassify = TRUE
  Verifiers = {"schema", "judge"}
  OnFailure = "dead_letter"
  MaxCost = 4
  CallCosts = {1}
  DurableAudit = TRUE
INVARIANTS
  PipelineTypeOK
  SpendAccounted
  EffectBackedByAudit
  DeadLettersAreAudited
CHECK_DEADLOCK FALSE
