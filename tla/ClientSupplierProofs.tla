------------------------- MODULE ClientSupplierProofs -------------------------
(***************************************************************************)
(* Proofs about the CachingClientSupplier shared between keyrings: the     *)
(* cache_mutex protocol of PutClient, and that a cached client is never   *)
(* replaced, for every set of builders, users and regions.                 *)
(***************************************************************************)
EXTENDS ClientSupplier, TLAPS

USE SupplierAssumption

(***************************************************************************)
(* The mutex protocol of PutClient: a builder is between its lock and its  *)
(* unlock exactly when it holds cache_mutex; a builder at find has a       *)
(* region left to put; and an insertion in progress is the lock holder's  *)
(* and is for a region that find saw missing.                              *)
(***************************************************************************)
LockHeld ==
  /\ \A b \in Builders : bpc[b] \in {"find", "insert"} <=> mutex = b
  /\ \A b \in Builders : bpc[b] = "find" => bidx[b] <= Len(BuilderRegions[b])
  /\ inserting = None <=> \A b \in Builders : bpc[b] # "insert"
  /\ inserting # None => cache[inserting] = None

IInv == TypeOK /\ LockHeld

(* The step CachedClientStable constrains. *)
KeepsCached == \A r \in Regions : cache[r] # None => cache'[r] = cache[r]

LEMMA InitIInv == Init => IInv
BY DEF Init, IInv, TypeOK, LockHeld, Clients

(* Lock: the builder becomes the holder; the mutex was free, so no one   *)
(* else was between lock and unlock.                                     *)
LEMMA LockIInv ==
  ASSUME IInv, NEW b \in Builders, PutClientLock(b) PROVE IInv'
BY DEF IInv, TypeOK, LockHeld, PutClientLock

(* Find: the early return releases the lock; a missing region starts an *)
(* insertion of a region the cache lacks.                                *)
LEMMA FindIInv ==
  ASSUME IInv, NEW b \in Builders, PutClientFind(b) PROVE IInv'
<1>. DEFINE r == BuilderRegions[b][bidx[b]]
<1>1. /\ bpc[b] = "find" /\ mutex = b /\ inserting = None
      /\ bidx[b] \in 1..Len(BuilderRegions[b]) /\ r \in Regions
  BY DEF IInv, TypeOK, LockHeld, PutClientFind
<1>2. CASE cache[r] # None /\ mutex' = None
           /\ bidx' = [bidx EXCEPT ![b] = @ + 1] /\ bpc' = [bpc EXCEPT ![b] = "put"]
           /\ UNCHANGED <<inserting, created>>
  BY <1>1, <1>2 DEF IInv, TypeOK, LockHeld, PutClientFind
<1>3. CASE cache[r] = None /\ inserting' = r /\ created' = created + 1
           /\ bpc' = [bpc EXCEPT ![b] = "insert"] /\ UNCHANGED <<mutex, bidx>>
  BY <1>1, <1>3 DEF IInv, TypeOK, LockHeld, PutClientFind
<1>. QED BY <1>2, <1>3 DEF PutClientFind

(* Insert: the region becomes cached, the insertion ends, the lock is   *)
(* released.                                                             *)
LEMMA InsertIInv ==
  ASSUME IInv, NEW b \in Builders, PutClientInsert(b) PROVE IInv'
<1>1. /\ bpc[b] = "insert" /\ mutex = b /\ inserting \in Regions
      /\ \A c \in Builders \ {b} : bpc[c] \notin {"find", "insert"}
  BY DEF IInv, TypeOK, LockHeld, PutClientInsert
<1>. QED BY <1>1 DEF IInv, TypeOK, LockHeld, PutClientInsert, Clients

LEMMA DoneIInv ==
  ASSUME IInv, NEW b \in Builders, BuildDone(b) PROVE IInv'
BY DEF IInv, TypeOK, LockHeld, BuildDone

(* A user's lookup: a torn read still yields a client or nullptr. *)
LEMMA LookupIInv ==
  ASSUME IInv, NEW u \in Users, UnlockedGetClient(u) PROVE IInv'
<1>1. TornReads \subseteq Clients \cup {None}
  BY DEF IInv, TypeOK, TornReads, Clients
<1>. QED BY <1>1 DEF IInv, TypeOK, LockHeld, UnlockedGetClient

LEMMA NextIInv == IInv /\ [Next]_vars => IInv'
BY LockIInv, FindIInv, InsertIInv, DoneIInv, LookupIInv
   DEF Next, vars, IInv, TypeOK, LockHeld

(* Only an insertion writes the cache, and it writes a missing region. *)
LEMMA NextKeepsCached == IInv /\ [Next]_vars => KeepsCached
<1>. SUFFICES ASSUME IInv, [Next]_vars PROVE KeepsCached
  OBVIOUS
<1>1. ASSUME NEW b \in Builders, PutClientInsert(b) PROVE KeepsCached
  BY <1>1 DEF IInv, TypeOK, LockHeld, PutClientInsert, KeepsCached
<1>. QED BY <1>1 DEF Next, vars, KeepsCached, PutClientLock, PutClientFind,
                    BuildDone, UnlockedGetClient

(***************************************************************************)
(* PutClient never replaces a cached client, whatever the builders sharing *)
(* the supplier put in whatever order (kms_keyring.cpp, PutClient: the     *)
(* presence check and the insertion under one hold of cache_mutex).        *)
(***************************************************************************)
THEOREM CachedClientStableHolds == Spec => CachedClientStable
<1>1. Spec => []IInv
  BY InitIInv, NextIInv, PTL DEF Spec
<1>2. IInv /\ [Next]_vars => [KeepsCached]_vars
  BY NextKeepsCached
<1>. QED BY <1>1, <1>2, PTL DEF Spec, CachedClientStable, KeepsCached

=============================================================================
