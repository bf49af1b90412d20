\* Materials as source/materials.c allocates them.
CONSTANTS
  a1 = a1  a2 = a2  a3 = a3
  k1 = k1  k2 = k2
  c1 = c1  c2 = c2
  NoKey = NoKey
  Arns = {a1, a2, a3}
  Aliases = {}
  AliasTarget <- MCAliasTarget
  KeyIds <- MCKeyIds
  DataKeys = {k1, k2}
  Contexts = {c1, c2}
  CtxWithPubKey = {c2}
  Algs = {276, 888}
  OtherProviders = {"raw-aes"}
  PreallocDataKey = TRUE
  KmsMayFail = TRUE
  MaxOps = 3
  MaxCandidates = 2
  ForeignEdks <- MCForeignEdks
  UnknownAlg = 1

SPECIFICATION Spec
INVARIANT NoBadState
CHECK_DEADLOCK FALSE
