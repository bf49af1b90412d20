\* The default CMM over a KMS keyring whose only CMK is named by an alias,
\* with KMS calls that all succeed.
CONSTANTS
  a1 = a1  a2 = a2  a3 = a3
  k1 = k1  k2 = k2
  c1 = c1  c2 = c2
  NoKey = NoKey
  Arns = {a1, a2, a3}
  Aliases = {"alias/a1"}
  AliasTarget <- MCAliasTarget
  KeyIds <- MCAliasKeyIds
  DataKeys = {k1, k2}
  Contexts = {c1, c2}
  CtxWithPubKey = {c2}
  Algs = {276, 888}
  OtherProviders = {"raw-aes"}
  PreallocDataKey = FALSE
  KmsMayFail = FALSE
  MaxOps = 3
  MaxCandidates = 2
  ForeignEdks <- MCForeignEdks
  UnknownAlg = 1

SPECIFICATION Spec
INVARIANT DecryptsOwnEdks
\* The caller stops after MaxOps calls.
CHECK_DEADLOCK FALSE
