SPECIFICATION FairCacheSpec
CONSTANTS
  Threads = {t1, t2}
  extent = extent
  hull = hull
  loaded = loaded
  hulls = hulls
  results = results
  Namespaces = {hulls, results}
  Keys = {extent, hull, loaded}
  NamespaceOf <- MCNamespaceOf
  Part <- MCPart
  NoKey = NoKey
  MaxSize = 1
  MaxCalls = 4
INVARIANTS
  SingleFlight
  NoLostWakeup
  NoWastedWork
PROPERTIES
  Answered
