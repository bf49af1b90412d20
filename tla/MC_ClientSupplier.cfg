\* Builders putting regions into a shared caching client supplier.
CONSTANTS
  b1 = b1  b2 = b2  u1 = u1  u2 = u2  r1 = r1  r2 = r2  r3 = r3
  None = None
  Builders = {b1, b2}
  Users = {u1, u2}
  Regions = {r1, r2, r3}
  InitialRegions = {r1}
  BuilderRegions <- MCBuilderRegions
  UserRegion <- MCUserRegion

SPECIFICATION Spec
PROPERTY CachedClientStable
PROPERTY BuildsComplete
\* All builds complete and every user has made its call: the threads end.
CHECK_DEADLOCK FALSE
