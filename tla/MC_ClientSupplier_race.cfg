\* A keyring lookup racing the insertion of another keyring's region.
CONSTANTS
  b1 = b1  b2 = b2  u1 = u1  u2 = u2  r1 = r1  r2 = r2  r3 = r3
  None = None
  Builders = {b1, b2}
  Users = {u1, u2}
  Regions = {r1, r2, r3}
  InitialRegions = {r1}
  BuilderRegions <- MCBuilderRegions
  UserRegion <- MCUserRegion

SPECIFICATION Spec
INVARIANT LookupReturnsCachedClient
CHECK_DEADLOCK FALSE
