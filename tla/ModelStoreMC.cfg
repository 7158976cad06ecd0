SPECIFICATION Spec
CONSTANTS
  Versions = {v1, v2, bad}
  Unusable = {bad}
  None = None
  Partial = Partial
INVARIANTS CacheIsKnownGood
PROPERTIES CacheKeepsServed RegistryWins FollowsAlias CacheServes
