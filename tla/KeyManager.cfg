SPECIFICATION Spec
CONSTANTS
  None = None
  Replicas = {r1, r2, r3}
  Gens = {g1, g2, g3, g4}
  MaxCrashes = 1
INVARIANTS
  TypeOK
  CacheIsStored
  CachesAgree
  CachedSetsAreWhole
PROPERTIES
  EventuallyServed
CHECK_DEADLOCK FALSE
