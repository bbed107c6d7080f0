SPECIFICATION Spec
CONSTANTS
  ctx = ctx  dflt = dflt  other = other  web = web  web1 = web1  we = we
  Namespaces = {ctx, dflt, other}
  NamespaceList <- MCNamespaceList
  Default = dflt
  Cluster = Cluster
  Names = {web, web1, we}
  Extends <- MCExtends
  Long = {web, web1}
  Empty = Empty
  Queries <- MCQueries
  Worlds <- MCWorlds
  MaxChanges = 1
  Objects <- MCOwners
  MaxEvents = 2
  MaxGraphDepth = 2
  MaxGraphNodes = 6
  MaxDeepPods = 2
INVARIANTS
  NotHealthyForLackOfSight
CHECK_DEADLOCK FALSE
