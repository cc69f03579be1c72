\* One process with its drafts in memory: an acknowledgement without a record.
SPECIFICATION Spec
CONSTANTS
  g1 = g1
  g2 = g2
  g3 = g3
  d1 = d1
  d2 = d2
  k = k
  db = db
  mem = mem
  Gateways = {g3}
  Stores = {db, mem}
  StoreOf <- MCStoreOf
  Persistent = {db}
  Drafts = {d1, d2}
  Keys = {k}
  KeyOf <- MCKeyOf
  PolicyOf <- MCPolicyOf
  ReviewedDrafts = {}
  SurfaceRequests <- MCSurfaceRequests
  MaxApprovals = 1
  MaxElsewhere = 1
  MaxFaults = 1
INVARIANT
  AcknowledgedIsRecorded
CHECK_DEADLOCK FALSE
