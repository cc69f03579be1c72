\* Two processes on one SQLite draft store and one on memory; a crash or a failed call.
SPECIFICATION Spec
CONSTANTS
  g1 = g1
  g2 = g2
  g3 = g3
  d1 = d1
  d2 = d2
  k = k
  db = db
  mem = mem
  Gateways = {g1, g2, g3}
  Stores = {db, mem}
  StoreOf <- MCStoreOf
  Persistent = {db}
  Drafts = {d1, d2}
  Keys = {k}
  KeyOf <- MCKeyOf
  PolicyOf <- MCPolicyOf
  ReviewedDrafts = {}
  SurfaceRequests <- MCSurfaceRequests
  MaxApprovals = 2
  MaxElsewhere = 1
  MaxFaults = 1
INVARIANTS
  GatewayTypeOK
  RecordedNeverRerun
  HumanGate
  ApprovalSpentOnce
  OneDecisionAtATime
PROPERTY
  EffectLedgerSpec
SYMMETRY MCSymmetry
CHECK_DEADLOCK FALSE
