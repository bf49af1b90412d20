CONSTANTS
  arnR1 = arnR1
  arnR2 = arnR2
  aliasKey = aliasKey
  emptyKey = emptyKey
  r1 = r1
  r2 = r2
  KeyNames = {arnR1, arnR2, aliasKey, emptyKey}
  EmptyKey = emptyKey
  KeyRegion <- MCKeyRegion
  Regions = {r1, r2}
  NoRegion = NoRegion
  UserClient = UserClient
  Shared = Shared
  Null = Null
  MaxKeys = 3
  MaxBuilds = 2
SPECIFICATION Spec
INVARIANT ClientsForKeyIds
