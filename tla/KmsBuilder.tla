------------------------------ MODULE KmsBuilder ------------------------------
(***************************************************************************)
(* KmsKeyring::Builder (kms_keyring.cpp): the setters a caller chains, the *)
(* parameter check and the client supplier Build gives each keyring, and   *)
(* the client a built keyring's GetKmsClient then finds for a key id.      *)
(* One thread uses the builder; keyrings may share a CachingClientSupplier *)
(* it was given (the concurrent use of that supplier is ClientSupplier's). *)
(*                                                                         *)
(* A key id is a model value with the region its ARN names, or NoRegion    *)
(* for an alias or a bare key id (parse_region_from_kms_key_arn is not in  *)
(* the repository; spec section 4.5.1). A default client is the region it  *)
(* was created for. Grant tokens reach only the KMS requests and are left  *)
(* out.                                                                    *)
(***************************************************************************)
EXTENDS Naturals, Sequences, Functions

CONSTANTS
  KeyNames,     \* key id strings a caller may pass
  EmptyKey,     \* the empty string among them
  KeyRegion,    \* KeyRegion[k]: the region parsed from k, or NoRegion
  Regions,      \* AWS regions
  NoRegion,     \* the empty region string
  UserClient,   \* a KMSClient the caller passes to WithKmsClient
  Shared,       \* a CachingClientSupplier the caller passes
  Null,         \* nullptr
  MaxKeys,      \* bound on the builder's key_ids
  MaxBuilds     \* bound on the keyrings built

ASSUME BuilderAssumption ==
  /\ EmptyKey \in KeyNames /\ NoRegion \notin Regions
  /\ KeyRegion \in [KeyNames -> Regions \cup {NoRegion}]
  /\ KeyRegion[EmptyKey] = NoRegion
  /\ MaxKeys \in Nat /\ MaxBuilds \in Nat
  /\ UserClient # Null /\ Shared # Null  \* a caller's client and supplier are real pointers

CacheRegions == Regions \cup {NoRegion}

(* CreateDefaultKmsClient(region): a client configured for the region. *)
DefaultClient(r) == [region |-> r]

EmptyCache == [r \in CacheRegions |-> Null]

VARIABLES
  keyIds,         \* Builder::key_ids
  defaultRegion,  \* Builder::default_region
  kmsClient,      \* Builder::kms_client
  clientSupplier, \* Builder::client_supplier
  sharedCache,    \* the cache of the supplier passed as Shared
  keyrings,       \* keyrings Build returned: key_ids, default region, supplier
  lastBuild       \* what the last Build returned

vars == <<keyIds, defaultRegion, kmsClient, clientSupplier, sharedCache,
          keyrings, lastBuild>>

Init ==
  /\ keyIds = <<>> /\ defaultRegion = NoRegion
  /\ kmsClient = Null /\ clientSupplier = Null
  /\ sharedCache = EmptyCache /\ keyrings = <<>> /\ lastBuild = "none"

-----------------------------------------------------------------------------
(* The region of a key id: the ARN's, else the default region. *)
RegionFor(k, dflt) == IF KeyRegion[k] = NoRegion THEN dflt ELSE KeyRegion[k]

(* WithKeyId and WithKeyIds append to key_ids. *)
WithKeyIds ==
  /\ \E s \in UNION {[1..n -> KeyNames] : n \in 1..2} :
       /\ Len(keyIds) + Len(s) <= MaxKeys
       /\ keyIds' = keyIds \o s
  /\ UNCHANGED <<defaultRegion, kmsClient, clientSupplier, sharedCache,
                 keyrings, lastBuild>>

WithDefaultRegion ==
  /\ \E r \in CacheRegions : defaultRegion' = r
  /\ UNCHANGED <<keyIds, kmsClient, clientSupplier, sharedCache, keyrings,
                 lastBuild>>

WithKmsClient ==
  /\ \E c \in {Null, UserClient} : kmsClient' = c
  /\ UNCHANGED <<keyIds, defaultRegion, clientSupplier, sharedCache, keyrings,
                 lastBuild>>

WithCachingClientSupplier ==
  /\ \E s \in {Null, Shared} : clientSupplier' = s
  /\ UNCHANGED <<keyIds, defaultRegion, kmsClient, sharedCache, keyrings,
                 lastBuild>>

(* Fault variant: non-ARN key ids accepted without a default region. *)
ValidParametersNoFullArns ==
  /\ Len(keyIds) > 0
  /\ \A i \in DOMAIN keyIds : keyIds[i] # EmptyKey

(***************************************************************************)
(* ValidParameters: some key id, none empty, and without a client or a    *)
(* default region every key id an ARN naming its region.                  *)
(***************************************************************************)
ValidParameters ==
  /\ Len(keyIds) > 0
  /\ \A i \in DOMAIN keyIds :
       /\ keyIds[i] # EmptyKey
       /\ kmsClient = Null /\ defaultRegion = NoRegion
            => KeyRegion[keyIds[i]] # NoRegion

(* PutClient for each region: a default client where none is cached. *)
PutClients(cache, regs) ==
  [r \in CacheRegions |-> IF cache[r] = Null /\ r \in regs
                          THEN DefaultClient(r) ELSE cache[r]]

KeyIdRegions == {RegionFor(keyIds[i], defaultRegion) : i \in DOMAIN keyIds}

SingleSupplier(c) == [kind |-> "single", client |-> c, shared |-> FALSE,
                      cache |-> EmptyCache]

CachingSupplier(sh, cache) == [kind |-> "caching", client |-> Null, shared |-> sh,
                               cache |-> cache]

NewKeyring(supplier) ==
  [keyIds |-> keyIds, defaultRegion |-> defaultRegion, supplier |-> supplier]

(***************************************************************************)
(* Build: fail with KMS_FAILURE on invalid parameters; otherwise the       *)
(* keyring gets BuildClientSupplier's supplier: the caller's client, a     *)
(* default client for a single key id's region, or the caller's caching    *)
(* supplier (else a new one) with a client put for every key id's region.  *)
(***************************************************************************)
Build ==
  /\ Len(keyrings) < MaxBuilds
  /\ \/ /\ ~ValidParameters
        /\ lastBuild' = "KmsFailure"
        /\ UNCHANGED <<sharedCache, keyrings>>
     \/ /\ ValidParameters /\ kmsClient # Null
        /\ keyrings' = Append(keyrings, NewKeyring(SingleSupplier(kmsClient)))
        /\ lastBuild' = "ok" /\ UNCHANGED sharedCache
     \/ /\ ValidParameters /\ kmsClient = Null /\ Len(keyIds) = 1
        /\ keyrings' = Append(keyrings, NewKeyring(SingleSupplier(
                         DefaultClient(RegionFor(keyIds[1], defaultRegion)))))
        /\ lastBuild' = "ok" /\ UNCHANGED sharedCache
     \/ /\ ValidParameters /\ kmsClient = Null /\ Len(keyIds) # 1
        /\ clientSupplier = Shared
        /\ sharedCache' = PutClients(sharedCache, KeyIdRegions)
        /\ keyrings' = Append(keyrings, NewKeyring(CachingSupplier(TRUE, EmptyCache)))
        /\ lastBuild' = "ok"
     \/ /\ ValidParameters /\ kmsClient = Null /\ Len(keyIds) # 1
        /\ clientSupplier = Null
        /\ keyrings' = Append(keyrings, NewKeyring(CachingSupplier(FALSE,
                         PutClients(EmptyCache, KeyIdRegions))))
        /\ lastBuild' = "ok" /\ UNCHANGED sharedCache
  /\ UNCHANGED <<keyIds, defaultRegion, kmsClient, clientSupplier>>

Next ==
  \/ WithKeyIds \/ WithDefaultRegion \/ WithKmsClient
  \/ WithCachingClientSupplier \/ Build

Spec == Init /\ [][Next]_vars

-----------------------------------------------------------------------------
(* The cache a caching supplier looks into. *)
CacheOf(s) == IF s.shared THEN sharedCache ELSE s.cache

(***************************************************************************)
(* GetKmsClient of keyring kr for key id k: the region of k, then the      *)
(* supplier's UnlockedGetClient (the single client, or the cached client   *)
(* of the region, nullptr when none).                                      *)
(***************************************************************************)
GetKmsClient(kr, k) ==
  IF kr.supplier.kind = "single" THEN kr.supplier.client
  ELSE CacheOf(kr.supplier)[RegionFor(k, kr.defaultRegion)]

TypeOK ==
  /\ keyIds \in Seq(KeyNames) /\ Len(keyIds) <= MaxKeys
  /\ defaultRegion \in CacheRegions
  /\ kmsClient \in {Null, UserClient} /\ clientSupplier \in {Null, Shared}
  /\ sharedCache \in [CacheRegions -> {Null} \cup {DefaultClient(r) : r \in CacheRegions}]
  /\ lastBuild \in {"none", "ok", "KmsFailure"}

(***************************************************************************)
(* Region failures happen at build time, never at call time (spec section *)
(* 4.5.1): for every key id of every keyring Build returned, GetKmsClient  *)
(* finds the caller's client, or a default client for the key id's own,    *)
(* real, region, never nullptr, whatever setters were called in whatever   *)
(* order and whichever keyrings share the caller's supplier.               *)
(***************************************************************************)
ClientsForKeyIds ==
  \A i \in DOMAIN keyrings : \A k \in Range(keyrings[i].keyIds) :
    LET c == GetKmsClient(keyrings[i], k) IN
      \/ c = UserClient
      \/ /\ c = DefaultClient(RegionFor(k, keyrings[i].defaultRegion))
         /\ c.region # NoRegion

=============================================================================
