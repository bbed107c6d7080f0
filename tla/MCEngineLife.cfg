SPECIFICATION FairSpec
CONSTANTS
  h1 = h1 h2 = h2 t1 = t1 t2 = t2 c1 = c1 c2 = c2 c3 = c3
  web = web pod = pod n1 = n1 n2 = n2
  Handlers = {h1, h2}
  Tokens = {t1}
  Actions = {"scale"}
  Objects = {web}
  Contexts = {c1, c2, c3}
  Home = c1
  Served = {c1, c2}
  NoContext = NoContext
  NoToken = NoToken
  NoUID = NoUID
  Absent = Absent
  Args = {1}
  Calls <- ClusterCalls
  KindOf <- MCKindOf
  UIDs <- MCUIDs
  Requests <- MCPlan
  ActionsEnabled = {TRUE, FALSE}
  MaxReplicas = 2
  MaxMoves = 0
  ConfigTTL = 1
  DefaultTTL = 2
  Drift = 0
  MaxTime = 2
  MaxEpoch = 1
INVARIANTS
  EngineTypeOK
PROPERTIES
  ImplementsConfirmedWrite
  DisabledWritesNothing
  UsesTheStore
  CallsReturn
CHECK_DEADLOCK FALSE
