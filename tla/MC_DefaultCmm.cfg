\* The default CMM over a KMS keyring with unreliable KMS calls.
CONSTANTS
  a1 = a1  a2 = a2  a3 = a3
  k1 = k1  k2 = k2
  c1 = c1  c2 = c2
  NoKey = NoKey
  Arns = {a1, a2, a3}
  Aliases = {}
  AliasTarget <- MCAliasTarget
  KeyIds <- MCKeyIds
  DataKeys = {k1, k2}
  Contexts = {c1, c2}
  CtxWithPubKey = {c2}
  Algs = {276, 888}
  OtherProviders = {"raw-aes"}
  PreallocDataKey = FALSE
  KmsMayFail = TRUE
  MaxOps = 3
  MaxCandidates = 2
  ForeignEdks <- MCForeignEdks
  UnknownAlg = 1

SPECIFICATION Spec
INVARIANT TypeOK
INVARIANT EncMaterialsSound
INVARIANT DecryptAuthentic
INVARIANT NoBadState
\* The caller stops after MaxOps calls.
CHECK_DEADLOCK FALSE
