--------------------------- MODULE KmsBuilderProofs ---------------------------
(***************************************************************************)
(* Proof that every keyring KmsKeyring::Builder::Build returns finds a     *)
(* client for each of its key ids (ClientsForKeyIds), for every set of key *)
(* ids, regions and bounds.                                                *)
(***************************************************************************)
EXTENDS KmsBuilder, TLAPS

USE BuilderAssumption

Clients == {Null, UserClient} \cup {DefaultClient(r) : r \in CacheRegions}

Suppliers == [kind : {"single", "caching"}, client : Clients, shared : BOOLEAN,
              cache : [CacheRegions -> Clients]]

KeyringRecs == [keyIds : Seq(KeyNames), defaultRegion : CacheRegions,
                supplier : Suppliers]

(* A cache holds, for each region, nothing or the default client made for it. *)
CacheWF(cache) == \A r \in CacheRegions : cache[r] \in {Null, DefaultClient(r)}

(* The client c that keyring kr finds for key id k is usable. *)
OkClient(c, kr, k) ==
  \/ c = UserClient
  \/ /\ c = DefaultClient(RegionFor(k, kr.defaultRegion))
     /\ c.region # NoRegion

(* GetKmsClient with the shared supplier's cache passed explicitly. *)
ClientIn(cache, kr, k) ==
  IF kr.supplier.kind = "single" THEN kr.supplier.client
  ELSE (IF kr.supplier.shared THEN cache ELSE kr.supplier.cache)
         [RegionFor(k, kr.defaultRegion)]

(* The inductive invariant. *)
IInv ==
  /\ TypeOK
  /\ keyrings \in Seq(KeyringRecs)
  /\ CacheWF(sharedCache)
  /\ ClientsForKeyIds

-----------------------------------------------------------------------------
(* Where a key id of a validated builder with no client of its own looks:  *)
(* a real region, one of those BuildClientSupplier puts a client for.      *)
LEMMA RegionOfValidKey ==
  ASSUME TypeOK, ValidParameters, kmsClient = Null,
         NEW k \in Range(keyIds)
  PROVE  /\ RegionFor(k, defaultRegion) \in Regions
         /\ RegionFor(k, defaultRegion) \in KeyIdRegions
<1>1. PICK j \in DOMAIN keyIds : keyIds[j] = k
  BY DEF Range
<1>2. k \in KeyNames /\ k # EmptyKey
  BY <1>1 DEF TypeOK, ValidParameters
<1>3. RegionFor(k, defaultRegion) \in Regions
  BY <1>1, <1>2 DEF TypeOK, ValidParameters, RegionFor, CacheRegions
<1>4. RegionFor(k, defaultRegion) \in KeyIdRegions
  BY <1>1 DEF KeyIdRegions
<1>. QED BY <1>3, <1>4

(* PutClient leaves a cached client alone and otherwise puts the default   *)
(* client: a well-formed cache stays well formed and only grows.           *)
LEMMA PutClientsGrow ==
  ASSUME NEW cache \in [CacheRegions -> Clients], CacheWF(cache),
         NEW regs \in SUBSET CacheRegions
  PROVE  /\ PutClients(cache, regs) \in [CacheRegions -> Clients]
         /\ CacheWF(PutClients(cache, regs))
         /\ \A r \in regs : PutClients(cache, regs)[r] = DefaultClient(r)
         /\ \A r \in CacheRegions :
              \/ PutClients(cache, regs)[r] = cache[r]
              \/ cache[r] = Null /\ PutClients(cache, regs)[r] = DefaultClient(r)
BY DEF PutClients, CacheWF, Clients

(* A keyring whose client was usable keeps it when the shared cache grows. *)
LEMMA OldClientKept ==
  ASSUME NEW kr \in KeyringRecs, NEW k \in KeyNames,
         sharedCache \in [CacheRegions -> Clients],
         OkClient(GetKmsClient(kr, k), kr, k),
         \A r \in CacheRegions :
            \/ sharedCache'[r] = sharedCache[r]
            \/ sharedCache[r] = Null /\ sharedCache'[r] = DefaultClient(r)
  PROVE  GetKmsClient(kr, k)' = GetKmsClient(kr, k)
<1>1. RegionFor(k, kr.defaultRegion) \in CacheRegions
  BY DEF KeyringRecs, RegionFor, CacheRegions
<1>. QED BY <1>1 DEF GetKmsClient, CacheOf, OkClient

(* ClientsForKeyIds, one keyring and one key id at a time. *)
LEMMA ClientsForKeyIdsDef ==
  ClientsForKeyIds <=>
    \A i \in DOMAIN keyrings : \A k \in Range(keyrings[i].keyIds) :
      OkClient(GetKmsClient(keyrings[i], k), keyrings[i], k)
BY DEF ClientsForKeyIds, OkClient

-----------------------------------------------------------------------------
LEMMA InitIInv == Init => IInv
<1>. SUFFICES ASSUME Init PROVE IInv
  OBVIOUS
<1>1. TypeOK
  BY DEF Init, TypeOK, EmptyCache, CacheRegions
<1>2. CacheWF(sharedCache)
  BY DEF Init, CacheWF, EmptyCache
<1>3. keyrings \in Seq(KeyringRecs) /\ ClientsForKeyIds
  BY DEF Init, ClientsForKeyIds
<1>. QED BY <1>1, <1>2, <1>3 DEF IInv

(* A step that builds nothing leaves every keyring's client where it was. *)
LEMMA NoBuildIInv ==
  ASSUME IInv, TypeOK', UNCHANGED <<sharedCache, keyrings>>
  PROVE  IInv'
BY DEF IInv, CacheWF, ClientsForKeyIds, GetKmsClient, CacheOf

LEMMA SettersIInv ==
  ASSUME IInv,
         WithKeyIds \/ WithDefaultRegion \/ WithKmsClient \/ WithCachingClientSupplier
  PROVE  IInv'
<1>1. TypeOK'
  <2>1. CASE WithKeyIds
    <3>1. PICK s \in UNION {[1..n -> KeyNames] : n \in 1..2} :
            Len(keyIds) + Len(s) <= MaxKeys /\ keyIds' = keyIds \o s
      BY <2>1 DEF WithKeyIds
    <3>2. s \in Seq(KeyNames)
      BY <3>1
    <3>. QED BY <2>1, <3>1, <3>2 DEF IInv, TypeOK, WithKeyIds
  <2>2. CASE WithDefaultRegion \/ WithKmsClient \/ WithCachingClientSupplier
    BY <2>2 DEF IInv, TypeOK, WithDefaultRegion, WithKmsClient, WithCachingClientSupplier
  <2>. QED BY <2>1, <2>2
<1>2. UNCHANGED <<sharedCache, keyrings>>
  BY DEF WithKeyIds, WithDefaultRegion, WithKmsClient, WithCachingClientSupplier
<1>. QED BY <1>1, <1>2, NoBuildIInv

(***************************************************************************)
(* A successful Build appends a keyring nk whose clients are usable, and   *)
(* lets the shared cache only grow: every keyring keeps a usable client.   *)
(***************************************************************************)
LEMMA AppendIInv ==
  ASSUME IInv, TypeOK', NEW nk \in KeyringRecs,
         keyrings' = Append(keyrings, nk),
         sharedCache' \in [CacheRegions -> Clients], CacheWF(sharedCache'),
         \A r \in CacheRegions :
            \/ sharedCache'[r] = sharedCache[r]
            \/ sharedCache[r] = Null /\ sharedCache'[r] = DefaultClient(r),
         \A k \in Range(nk.keyIds) : OkClient(ClientIn(sharedCache', nk, k), nk, k)
  PROVE  IInv'
<1>1. sharedCache \in [CacheRegions -> Clients]
  BY DEF IInv, TypeOK, Clients
<1>2. keyrings' \in Seq(KeyringRecs)
  BY DEF IInv
<1>3. ClientsForKeyIds'
  <2>. SUFFICES ASSUME NEW i \in DOMAIN keyrings', NEW k \in Range(keyrings'[i].keyIds)
                PROVE  OkClient(GetKmsClient(keyrings[i], k)', keyrings'[i], k)
    BY DEF ClientsForKeyIds, OkClient, GetKmsClient, CacheOf
  <2>1. CASE i = Len(keyrings) + 1
    <3>1. keyrings'[i] = nk
      BY <2>1 DEF IInv
    <3>2. GetKmsClient(keyrings[i], k)' = ClientIn(sharedCache', nk, k)
      BY <3>1 DEF GetKmsClient, CacheOf, ClientIn
    <3>. QED BY <3>1, <3>2
  <2>2. CASE i \in DOMAIN keyrings
    <3>1. keyrings'[i] = keyrings[i] /\ keyrings[i] \in KeyringRecs
      BY <2>2 DEF IInv
    <3>2. k \in KeyNames
      BY <3>1 DEF KeyringRecs, Range
    <3>3. OkClient(GetKmsClient(keyrings[i], k), keyrings[i], k)
      BY <2>2, <3>1, ClientsForKeyIdsDef DEF IInv
    <3>4. GetKmsClient(keyrings[i], k)' = GetKmsClient(keyrings[i], k)
      <4>. DEFINE kr == keyrings[i]
      <4>1. GetKmsClient(kr, k)' = GetKmsClient(kr, k)
        BY <1>1, <3>1, <3>2, <3>3, OldClientKept
      <4>2. GetKmsClient(keyrings[i], k)' = GetKmsClient(kr, k)'
        BY <3>1 DEF GetKmsClient, CacheOf
      <4>. QED BY <4>1, <4>2
    <3>. QED BY <3>1, <3>3, <3>4
  <2>. QED BY <2>1, <2>2 DEF IInv
<1>. QED BY <1>2, <1>3 DEF IInv

LEMMA EmptyCacheWF ==
  EmptyCache \in [CacheRegions -> Clients] /\ CacheWF(EmptyCache)
BY DEF EmptyCache, Clients, CacheWF

(* A Build that fails returns no keyring. *)
LEMMA BuildFailIInv ==
  ASSUME IInv, Build, ~ValidParameters
  PROVE  IInv'
<1>1. UNCHANGED <<sharedCache, keyrings>> /\ lastBuild' = "KmsFailure"
  BY DEF Build
<1>2. TypeOK'
  BY <1>1 DEF Build, IInv, TypeOK
<1>. QED BY <1>1, <1>2, NoBuildIInv

(* Build with the caller's client: a SingleClientSupplier of that client. *)
LEMMA BuildUserClientIInv ==
  ASSUME IInv, Build, ValidParameters, kmsClient # Null
  PROVE  IInv'
<1>. DEFINE nk == NewKeyring(SingleSupplier(kmsClient))
<1>1. kmsClient = UserClient
  BY DEF IInv, TypeOK
<1>2. keyrings' = Append(keyrings, nk) /\ UNCHANGED sharedCache
      /\ lastBuild' = "ok"
  BY DEF Build
<1>3. nk \in KeyringRecs
  BY <1>1, EmptyCacheWF DEF IInv, TypeOK, NewKeyring, SingleSupplier, KeyringRecs,
     Suppliers, Clients
<1>4. \A k \in Range(nk.keyIds) : OkClient(ClientIn(sharedCache', nk, k), nk, k)
  BY <1>1 DEF NewKeyring, SingleSupplier, ClientIn, OkClient
<1>5. TypeOK'
  BY <1>2 DEF Build, IInv, TypeOK
<1>. QED BY <1>2, <1>3, <1>4, <1>5, AppendIInv DEF IInv, TypeOK, Clients

(* Build for a single key id: a SingleClientSupplier of a default client *)
(* for that key id's region.                                             *)
LEMMA BuildSingleKeyIInv ==
  ASSUME IInv, Build, ValidParameters, kmsClient = Null, Len(keyIds) = 1
  PROVE  IInv'
<1>. DEFINE rg == RegionFor(keyIds[1], defaultRegion)
            nk == NewKeyring(SingleSupplier(DefaultClient(rg)))
<1>1. keyrings' = Append(keyrings, nk) /\ UNCHANGED sharedCache
      /\ lastBuild' = "ok"
  BY DEF Build
<1>2. Range(keyIds) = {keyIds[1]}
  BY DEF IInv, TypeOK, Range
<1>3. rg \in Regions
  BY <1>2, RegionOfValidKey DEF IInv
<1>4. nk \in KeyringRecs
  BY <1>3, EmptyCacheWF DEF IInv, TypeOK, NewKeyring, SingleSupplier, KeyringRecs,
     Suppliers, Clients, CacheRegions
<1>5. \A k \in Range(nk.keyIds) : OkClient(ClientIn(sharedCache', nk, k), nk, k)
  BY <1>2, <1>3, BuilderAssumption
  DEF NewKeyring, SingleSupplier, ClientIn, OkClient, DefaultClient
<1>6. TypeOK'
  BY <1>1 DEF Build, IInv, TypeOK
<1>. QED BY <1>1, <1>4, <1>5, <1>6, AppendIInv DEF IInv, TypeOK, Clients

LEMMA KeyIdRegionsType ==
  ASSUME TypeOK
  PROVE  KeyIdRegions \in SUBSET CacheRegions
BY DEF TypeOK, KeyIdRegions, RegionFor, CacheRegions

(* Build for several key ids on the caller's CachingClientSupplier: a     *)
(* client is put into the shared cache for every key id's region.         *)
LEMMA BuildSharedIInv ==
  ASSUME IInv, Build, ValidParameters, kmsClient = Null, Len(keyIds) # 1,
         clientSupplier = Shared
  PROVE  IInv'
<1>. DEFINE nk == NewKeyring(CachingSupplier(TRUE, EmptyCache))
<1>1. /\ sharedCache' = PutClients(sharedCache, KeyIdRegions)
      /\ keyrings' = Append(keyrings, nk) /\ lastBuild' = "ok"
  BY BuilderAssumption DEF Build
<1>2. sharedCache \in [CacheRegions -> Clients] /\ CacheWF(sharedCache)
  BY DEF IInv, TypeOK, Clients
<1>3. KeyIdRegions \in SUBSET CacheRegions
  BY KeyIdRegionsType DEF IInv
<1>4. /\ sharedCache' \in [CacheRegions -> Clients]
      /\ CacheWF(sharedCache')
      /\ \A r \in KeyIdRegions : sharedCache'[r] = DefaultClient(r)
      /\ \A r \in CacheRegions :
           \/ sharedCache'[r] = sharedCache[r]
           \/ sharedCache[r] = Null /\ sharedCache'[r] = DefaultClient(r)
  BY <1>1, <1>2, <1>3, PutClientsGrow
<1>5. nk \in KeyringRecs
  BY EmptyCacheWF DEF IInv, TypeOK, NewKeyring, CachingSupplier, KeyringRecs,
     Suppliers, Clients
<1>6. \A k \in Range(nk.keyIds) : OkClient(ClientIn(sharedCache', nk, k), nk, k)
  <2>. SUFFICES ASSUME NEW k \in Range(keyIds)
                PROVE  OkClient(ClientIn(sharedCache', nk, k), nk, k)
    BY DEF NewKeyring
  <2>1. RegionFor(k, defaultRegion) \in Regions
        /\ RegionFor(k, defaultRegion) \in KeyIdRegions
    BY RegionOfValidKey DEF IInv
  <2>. QED BY <2>1, <1>4, BuilderAssumption
       DEF NewKeyring, CachingSupplier, ClientIn, OkClient, DefaultClient
<1>7. TypeOK'
  BY <1>1, <1>4 DEF Build, IInv, TypeOK, CacheWF, Clients
<1>. QED BY <1>1, <1>4, <1>5, <1>6, <1>7, AppendIInv

(* Build for several key ids without a caller's supplier: a new           *)
(* CachingClientSupplier with a client put for every key id's region.     *)
LEMMA BuildOwnCacheIInv ==
  ASSUME IInv, Build, ValidParameters, kmsClient = Null, Len(keyIds) # 1,
         clientSupplier = Null
  PROVE  IInv'
<1>. DEFINE cache == PutClients(EmptyCache, KeyIdRegions)
            nk == NewKeyring(CachingSupplier(FALSE, cache))
<1>1. keyrings' = Append(keyrings, nk) /\ UNCHANGED sharedCache /\ lastBuild' = "ok"
  BY BuilderAssumption DEF IInv, TypeOK, Build
<1>2. /\ cache \in [CacheRegions -> Clients]
      /\ \A r \in KeyIdRegions : cache[r] = DefaultClient(r)
  BY EmptyCacheWF, KeyIdRegionsType, PutClientsGrow DEF IInv
<1>3. nk \in KeyringRecs
  BY <1>2 DEF IInv, TypeOK, NewKeyring, CachingSupplier, KeyringRecs, Suppliers,
     Clients
<1>4. \A k \in Range(nk.keyIds) : OkClient(ClientIn(sharedCache', nk, k), nk, k)
  <2>. SUFFICES ASSUME NEW k \in Range(keyIds)
                PROVE  OkClient(ClientIn(sharedCache', nk, k), nk, k)
    BY DEF NewKeyring
  <2>1. RegionFor(k, defaultRegion) \in Regions
        /\ RegionFor(k, defaultRegion) \in KeyIdRegions
    BY RegionOfValidKey DEF IInv
  <2>. QED BY <2>1, <1>2, BuilderAssumption
       DEF NewKeyring, CachingSupplier, ClientIn, OkClient, DefaultClient
<1>5. TypeOK'
  BY <1>1 DEF Build, IInv, TypeOK
<1>. QED BY <1>1, <1>3, <1>4, <1>5, AppendIInv DEF IInv, TypeOK, Clients

-----------------------------------------------------------------------------
LEMMA NextIInv == IInv /\ [Next]_vars => IInv'
<1>. SUFFICES ASSUME IInv, [Next]_vars PROVE IInv'
  OBVIOUS
<1>1. CASE WithKeyIds \/ WithDefaultRegion \/ WithKmsClient \/ WithCachingClientSupplier
  BY <1>1, SettersIInv
<1>2. CASE Build
  <2>1. CASE ~ValidParameters
    BY <1>2, <2>1, BuildFailIInv
  <2>2. CASE ValidParameters /\ kmsClient # Null
    BY <1>2, <2>2, BuildUserClientIInv
  <2>3. CASE ValidParameters /\ kmsClient = Null /\ Len(keyIds) = 1
    BY <1>2, <2>3, BuildSingleKeyIInv
  <2>4. CASE ValidParameters /\ kmsClient = Null /\ Len(keyIds) # 1
             /\ clientSupplier = Shared
    BY <1>2, <2>4, BuildSharedIInv
  <2>5. CASE ValidParameters /\ kmsClient = Null /\ Len(keyIds) # 1
             /\ clientSupplier = Null
    BY <1>2, <2>5, BuildOwnCacheIInv
  <2>6. clientSupplier \in {Null, Shared}
    BY DEF IInv, TypeOK
  <2>. QED BY <2>1, <2>2, <2>3, <2>4, <2>5, <2>6
<1>3. CASE UNCHANGED vars
  <2>1. TypeOK'
    BY <1>3 DEF vars, IInv, TypeOK
  <2>. QED BY <1>3, <2>1, NoBuildIInv DEF vars
<1>. QED BY <1>1, <1>2, <1>3 DEF Next

(***************************************************************************)
(* Region failures happen at Build time, never at call time: in every      *)
(* reachable state, every keyring Build returned finds a usable client for *)
(* each of its key ids (ValidParameters, BuildClientSupplier and           *)
(* GetKmsClient, kms_keyring.cpp 289-430), for any key ids, regions and    *)
(* number of builds.                                                       *)
(***************************************************************************)
THEOREM BuilderClientsHold == Spec => []ClientsForKeyIds
<1>1. Init => IInv
  BY InitIInv
<1>2. IInv /\ [Next]_vars => IInv'
  BY NextIInv
<1>3. IInv => ClientsForKeyIds
  BY DEF IInv
<1>. QED BY <1>1, <1>2, <1>3, PTL DEF Spec

=============================================================================
