\* The cluster instance of MCQueueIngressCluster.cfg: at-most-once across replicas.
SPECIFICATION Spec
CONSTANTS
  m1 = m1
  m2 = m2
  m3 = m3
  m4 = m4
  kp = kp
  kf = kf
  bad = bad
  Replicas = {r1, r2}
  Messages = {m1, m2}
  Keys <- MCKeys
  Malformed = bad
  ItemKey <- MCItemKey
  PipelineKeys <- MCPipelineKeys
  EscalationArmed = TRUE
  DurableOutcomes = TRUE
  ServiceBus = TRUE
  MaxDeliveryCount = 3
  BrokerMaxDelivery = 3
  MaxCrashes = 1
INVARIANT
  AtMostOnceCommit
CHECK_DEADLOCK FALSE
