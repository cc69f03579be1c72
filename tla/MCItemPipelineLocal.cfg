\* One process on the in-memory queue, unarmed, unpriced calls allowed: a
\* pipeline item, duplicates of an item without one, and a malformed body.
SPECIFICATION FairPipelineSpec
CONSTANTS
  m1 = m1
  m2 = m2
  m3 = m3
  m4 = m4
  kp = kp
  kf = kf
  bad = bad
  c1 = c1
  c3 = c3
  Replicas = {r1}
  Messages = {m1, m2, m3, m4}
  Keys <- MCKeys
  Malformed = bad
  ItemKey <- MCLocalItemKey
  PipelineKeys <- MCPipelineKeys
  CorrelationOf <- MCLocalCorrelation
  EscalationArmed = FALSE
  DurableOutcomes = FALSE
  ServiceBus = FALSE
  MaxDeliveryCount = 3
  BrokerMaxDelivery = 3
  MaxCrashes = 0
  MaxAttempts = 2
  HasClassify = TRUE
  Verifiers = {"reconcile"}
  OnFailure = "escalate"
  MaxCost = 2
  CallCosts = {0, 1}
  DurableAudit = FALSE
INVARIANTS
  ReturnedNeverRerun
  PoisonMeansRepeatedFailure
PROPERTIES
  EventuallySettled
  RunEnds
CHECK_DEADLOCK FALSE
