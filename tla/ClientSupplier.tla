---------------------------- MODULE ClientSupplier ----------------------------
(***************************************************************************)
(* KmsKeyring::CachingClientSupplier (kms_keyring.cpp) shared between      *)
(* keyrings. Builder threads build keyrings on the shared supplier         *)
(* (Builder::WithCachingClientSupplier, BuildClientSupplier), putting a    *)
(* default client for the region of each of their key ids under the       *)
(* cache mutex (PutClient). User threads run a keyring already built on   *)
(* the same supplier; its GetKmsClient looks the region up with           *)
(* UnlockedGetClient, without the mutex.                                   *)
(*                                                                         *)
(* std::map::operator[] on a missing key allocates and links a node and   *)
(* rebalances the tree: until the insertion is complete the map is in an  *)
(* intermediate state, and a concurrent unsynchronised find is a data     *)
(* race whose outcome is undefined. The model lets such a read return any *)
(* client the program has created, or nullptr.                             *)
(***************************************************************************)
EXTENDS Integers, Sequences

CONSTANTS
  Builders,        \* threads building keyrings on the shared supplier
  Users,           \* threads running a keyring built on it earlier
  Regions,         \* AWS regions
  BuilderRegions,  \* BuilderRegions[b]: regions of b's key ids, in order
  UserRegion,      \* UserRegion[u]: the region of the CMK u calls
  InitialRegions,  \* regions put when the users' keyring was built
  None             \* nullptr, and the free mutex

ASSUME SupplierAssumption ==
  /\ BuilderRegions \in [Builders -> Seq(Regions)]
  /\ InitialRegions \subseteq Regions
  /\ UserRegion \in [Users -> InitialRegions]
  /\ None \notin Builders /\ None \notin Regions

(* A client object: its region and its creation number. *)
Clients == Regions \X Nat

VARIABLES
  cache,      \* the std::map region -> shared_ptr<KMSClient>
  mutex,      \* cache_mutex: the builder holding it, or None
  inserting,  \* the region whose insertion is in progress, or None
  created,    \* number of clients CreateDefaultKmsClient has made
  bpc,        \* builder control point
  bidx,       \* builder's index into its regions
  upc,        \* user control point
  got         \* the client a user's lookup returned

vars == <<cache, mutex, inserting, created, bpc, bidx, upc, got>>

Init ==
  /\ cache = [r \in Regions |-> IF r \in InitialRegions THEN <<r, 0>> ELSE None]
  /\ mutex = None /\ inserting = None /\ created = 1
  /\ bpc = [b \in Builders |-> "put"] /\ bidx = [b \in Builders |-> 1]
  /\ upc = [u \in Users |-> "idle"] /\ got = [u \in Users |-> None]

-----------------------------------------------------------------------------
(* PutClient: the unique_lock on cache_mutex. *)
PutClientLock(b) ==
  /\ bpc[b] = "put" /\ bidx[b] <= Len(BuilderRegions[b])
  /\ mutex = None
  /\ mutex' = b /\ bpc' = [bpc EXCEPT ![b] = "find"]
  /\ UNCHANGED <<cache, inserting, created, bidx, upc, got>>

(* Fault variant: the presence check of line 312 lost. *)
PutClientFindNoCheck(b) ==
  /\ bpc[b] = "find"
  /\ LET r == BuilderRegions[b][bidx[b]] IN
     /\ inserting' = r /\ created' = created + 1
     /\ bpc' = [bpc EXCEPT ![b] = "insert"]
     /\ UNCHANGED <<mutex, bidx>>
  /\ UNCHANGED <<cache, upc, got>>

(* Fault variant: the early return keeps the mutex (a lock without RAII). *)
PutClientFindKeepLock(b) ==
  /\ bpc[b] = "find"
  /\ LET r == BuilderRegions[b][bidx[b]] IN
     \/ /\ cache[r] # None
        /\ bidx' = [bidx EXCEPT ![b] = @ + 1] /\ bpc' = [bpc EXCEPT ![b] = "put"]
        /\ UNCHANGED <<inserting, created, mutex>>
     \/ /\ cache[r] = None
        /\ inserting' = r /\ created' = created + 1
        /\ bpc' = [bpc EXCEPT ![b] = "insert"]
        /\ UNCHANGED <<mutex, bidx>>
  /\ UNCHANGED <<cache, upc, got>>

(***************************************************************************)
(* PutClient: a region already cached returns at once, releasing the      *)
(* lock; otherwise a default client is created and the insertion starts.   *)
(***************************************************************************)
PutClientFind(b) ==
  /\ bpc[b] = "find"
  /\ LET r == BuilderRegions[b][bidx[b]] IN
     \/ /\ cache[r] # None
        /\ mutex' = None
        /\ bidx' = [bidx EXCEPT ![b] = @ + 1] /\ bpc' = [bpc EXCEPT ![b] = "put"]
        /\ UNCHANGED <<inserting, created>>
     \/ /\ cache[r] = None
        /\ inserting' = r /\ created' = created + 1
        /\ bpc' = [bpc EXCEPT ![b] = "insert"]
        /\ UNCHANGED <<mutex, bidx>>
  /\ UNCHANGED <<cache, upc, got>>

(* PutClient: cache[region] = kms_client completes, and the lock is released. *)
PutClientInsert(b) ==
  /\ bpc[b] = "insert"
  /\ cache' = [cache EXCEPT ![inserting] = <<inserting, created - 1>>]
  /\ inserting' = None /\ mutex' = None
  /\ bidx' = [bidx EXCEPT ![b] = @ + 1] /\ bpc' = [bpc EXCEPT ![b] = "put"]
  /\ UNCHANGED <<created, upc, got>>

(* BuildClientSupplier has put every region: the keyring is built. *)
BuildDone(b) ==
  /\ bpc[b] = "put" /\ bidx[b] > Len(BuilderRegions[b])
  /\ bpc' = [bpc EXCEPT ![b] = "done"]
  /\ UNCHANGED <<cache, mutex, inserting, created, bidx, upc, got>>

(***************************************************************************)
(* GetKmsClient -> UnlockedGetClient: find without the mutex. During an    *)
(* insertion the read races with the writer.                               *)
(***************************************************************************)
TornReads == {None} \cup (Regions \X (0..created))

UnlockedGetClient(u) ==
  /\ upc[u] = "idle"
  /\ \/ /\ inserting = None
        /\ got' = [got EXCEPT ![u] = cache[UserRegion[u]]]
     \/ /\ inserting # None
        /\ \E c \in TornReads : got' = [got EXCEPT ![u] = c]
  /\ upc' = [upc EXCEPT ![u] = "done"]
  /\ UNCHANGED <<cache, mutex, inserting, created, bpc, bidx>>

Next ==
  \/ \E b \in Builders :
       PutClientLock(b) \/ PutClientFind(b) \/ PutClientInsert(b) \/ BuildDone(b)
  \/ \E u \in Users : UnlockedGetClient(u)

(* Every thread runs while it can: the mutex is released on every path. *)
Spec == Init /\ [][Next]_vars /\ WF_vars(Next)

-----------------------------------------------------------------------------
TypeOK ==
  /\ cache \in [Regions -> Clients \cup {None}]
  /\ mutex \in Builders \cup {None} /\ inserting \in Regions \cup {None}
  /\ created \in Nat \ {0}
  /\ bpc \in [Builders -> {"put", "find", "insert", "done"}]
  /\ bidx \in [Builders -> Nat \ {0}]
  /\ upc \in [Users -> {"idle", "done"}]
  /\ got \in [Users -> Clients \cup {None}]

(***************************************************************************)
(* A region's client is created once: PutClient never replaces a cached   *)
(* client (spec section 4.5.1, put is a no-op if present), whatever the    *)
(* builders sharing the supplier put in whatever order.                    *)
(***************************************************************************)
CachedClientStable ==
  [][\A r \in Regions : cache[r] # None => cache'[r] = cache[r]]_vars

(***************************************************************************)
(* Every keyring build on the shared supplier completes: no builder waits *)
(* forever on cache_mutex.                                                 *)
(***************************************************************************)
BuildsComplete == <>(\A b \in Builders : bpc[b] = "done")

(***************************************************************************)
(* A keyring's lookup of the region of one of its own CMKs returns the     *)
(* client cached for that region (spec section 5: lookups take the lock),  *)
(* never nullptr or another object, while other keyrings are being built  *)
(* on the same supplier.                                                   *)
(***************************************************************************)
LookupReturnsCachedClient ==
  \A u \in Users : upc[u] = "done" => got[u] = cache[UserRegion[u]]

=============================================================================
