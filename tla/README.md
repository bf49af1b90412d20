# TLA+ models of the aws-encryption-sdk-c materials pipeline

This directory holds the formal models of the cryptographic-materials
pipeline in this repository. It contains TLA+ modules written from the
source, TLC configurations that model-check small instances, and TLAPS
proofs of the properties that matter most, for every value of the
constants.

## The system and its parts

A message is encrypted under a *data key*. The data key travels with the
message as *encrypted data keys* (EDKs). Three components cooperate to
produce and recover the data key:

| Part | Source | What it does |
|---|---|---|
| Materials | `src/source/materials.c`, `src/include/aws/cryptosdk/materials.h` | `*_materials_new` allocates an encryption or decryption materials object with its data-key buffer. `*_materials_destroy` zeroises the key and frees the object. |
| Keyring wrapper | not in the repository | `aws_cryptosdk_keyring_on_encrypt/_on_decrypt` checks the keyring contract (spec section 4.2) before and after dispatching to a keyring. A violation is `BadState`. |
| Default CMM | `src/source/default_cmm.c` | `generate_encryption_materials` builds encryption materials for a suite (the requested one or `DEFAULT_ALG`) and calls the keyring. `decrypt_materials` builds decryption materials, calls the keyring on the message's EDKs, and for signing suites looks up the public key. `set_alg_id` changes the default suite. |
| KMS keyring | `src/aws-encryption-sdk-cpp/source/kms_keyring.cpp` | `OnEncrypt` generates a data key with the generator CMK (`key_ids[0]`) when none is given. It then wraps the key with every other CMK through KMS `Encrypt`. `OnDecrypt` tries each candidate EDK of the KMS namespace whose provider info is one of its `key_ids`. |
| Keyring trace | `src/source/keyring_trace.c` | A list of records of what keyrings did. Each record owns two heap strings, the wrapping key's name space and name. `add_record` copies both strings and pushes the record. `record_init_clone` copies a record. `record_clean_up` and `clear` free the strings. Any copy and any `push_back` may fail for lack of memory. |
| Client supplier | same file | `CachingClientSupplier` is a region→client map shared by keyrings. Builders fill it under `cache_mutex` (`PutClient`). A built keyring reads it in `GetKmsClient` through `UnlockedGetClient`. |
| Keyring builder | same file | The setters collect key ids, a default region, a client and a caching supplier. `Build` checks them (`ValidParameters`) and gives the keyring a supplier (`BuildClientSupplier`): the caller's client, one default client for a single key id, or a caching supplier with a client put for every key id's region. |

How they interact: the CMM owns the materials object. It hands the object
to the keyring through the wrapper, and the wrapper's pre- and
postconditions are the contract between them. The keyring calls KMS once
per CMK, and every such call can fail. Keyrings built on one caching
supplier share its map across threads.

## Modules

| Module | Models | State |
|---|---|---|
| `Materials` | The suite catalog (key length, signature), the error kinds, the data-key buffer `[buf, len, val]`, `materials_new`'s buffer (`MaterialsNewKey`), `materials_destroy` (`MaterialsDestroyResidue`) and the wrapper's conditions (`OnEncryptPre/Post`, `OnDecryptPre/Post`). | none (operators) |
| `KmsKeyring` | `OnEncrypt` and `OnDecrypt`, one action per KMS call: `GenerateDataKey`, `EncryptStep`, `EncryptDone`, `DecryptStep` and `DecryptDone`. KMS is the environment. A blob records `[cmk, ctx, key, len]`. `Decrypt` succeeds iff the context matches, and answers with the blob's own CMK, because `CreateDecryptRequest` sets no key id. | `pc`, `alg`, `encCtx`, `dataKey`, `edks`, `inEdks`, `tmpEdks` (the `EdksRaii` list), `idx`, `generated`, `dkCopy` (the copy sent to `Encrypt`), `rv`, `residue`, `copyResidue` (keys left in released `dkCopy` copies) |
| `DefaultCmm` | The CMM calls. `GenerateEncryptionMaterials` covers the suite choice, `materials_new`, the wrapper precondition and the keyring entry. `FinishEncryption` covers the postcondition, success, or destroy. `DecryptMaterials`, `DecryptError` and `FinishDecryption` form the decrypt path. `SetAlgId` is `set_alg_id`. | adds `cmmAlg`, `result` (what the last call returned), `produced` (EDKs of earlier encryptions, later offered as candidates) and `ops` |
| `ClientSupplier` | `PutClient` (lock; find with early return; create and insert), the `BuildClientSupplier` loop, and `GetKmsClient`/`UnlockedGetClient` from user threads. | `cache`, `mutex`, `inserting`, `created`, builder `bpc`/`bidx`, user `upc`/`got` |
| `KeyringTrace` | `AddRecord` (both variants), `CloneRecord`, `RecordCleanUp` and `Clear`, each with every failure path. A string is an allocation number, with `Null` for NULL. `WrappingKeyCleanUp` and `WrappingKeyInitCheck` are the two static helpers. | `trace` (records of two pointers), `dest` (the clone target), `live` (the heap), `alloc`, `fault` (a destroy of freed memory happened) |
| `KmsBuilder` | The builder used by one thread: each setter is an action; `Build` is `ValidParameters` followed by every branch of `BuildClientSupplier`. `GetKmsClient` is the client a built keyring then finds for a key id. A key id is a model value with the region its ARN names (`KeyRegion`), `NoRegion` for an alias or bare id. | `keyIds`, `defaultRegion`, `kmsClient`, `clientSupplier`, `sharedCache` (the caller's supplier), `keyrings` (key ids, default region and supplier of each built keyring), `lastBuild` |
| `MC_DefaultCmm`, `MC_ClientSupplier`, `MC_KeyringTrace`, `MC_KmsBuilder` | The instances TLC checks. | |
| `DefaultCmmProofs`, `KeyringTraceProofs`, `CmmSoundPartProofs`, `CmmSoundnessProofs`, `CmmReliableProofs`, `KmsBuilderProofs`, `ClientSupplierProofs` | The TLAPS proofs. Each extends the one before it on the same component (`CmmReliableProofs` extends `CmmSoundnessProofs`, which extends `CmmSoundPartProofs`, which extends `DefaultCmmProofs`). | |

Data is abstracted to what the properties distinguish. CMKs, data keys,
contexts and regions are model values. A key's bytes are its model value
and its length. Zeroising is whether the freed key goes into `residue`, the
set of keys left in released materials buffers, or into `copyResidue`, the
set left in released `Aws::Utils::ByteBuffer` copies. An action is a whole handler step up
to the next KMS call. The wrapper's check, the trailing transfer of EDKs
and the destroy on an error path all belong to the action that performs
them.

The control kept from the code:

- **OnEncrypt.** The `!buffer` test that chooses generation (146). The
  `GenerateDataKey` failure (159-162). The copy taken after generation
  (179), released unzeroised by its destructor on every return
  (`KeyCopyReleaseResidue`). The generator skip (185). A failing `Encrypt` jumps to `out:`,
  which cleans up a generated key with `aws_byte_buf_clean_up` (194-200,
  213-216). The transfer of the list on success (212).
- **OnDecrypt.** The namespace and `key_ids` filters (71-80). A failed
  `Decrypt` continues (88-92). The comparison of the CMK KMS answers with
  against the EDK's provider info (94-99). Success with no key (102-105).
- **CMM.** The unsupported-suite check (39-41). `CannotDecrypt` when no
  key was found (73-76). The public-key lookup for signing suites (78-88).
  The destroy on every error path (57-59, 97-100).

**Aliases.** A key id may be an alias (`Aliases`, `AliasTarget`). KMS
answers `GenerateDataKey` and `Encrypt` with the ARN of the key, so the
EDK's provider info is `KeyArn(id)` (`kms_keyring.cpp:167, 206`).
`OnDecrypt` compares provider info with the configured `key_ids`
literally (77). The passing runs use no aliases;
`cmm_alias` gives the keyring a single key id, an alias.

The out-of-memory paths of `append_key_dup_to_edks` and `dup` (169, 174,
208) are not separate actions. The one at 208 behaves like the `Encrypt`
failure at 198. The others end the call with an error before any key is
handed out.

## Runs

| Run | Config | Expect | Checks |
|---|---|---|---|
| `cmm_main` | `MC_DefaultCmm.cfg` | pass | `TypeOK`, `EncMaterialsSound`, `DecryptAuthentic`, `NoBadState` |
| `cmm_reliable` | `MC_DefaultCmm_reliable.cfg` | pass | `DecryptsOwnEdks`, with KMS calls that never fail |
| `cmm_residue` | `MC_DefaultCmm_residue.cfg` | violation | `NoSecretResidue` with failing KMS calls |
| `cmm_copy` | `MC_DefaultCmm_copy.cfg` | violation | `KeyCopiesZeroised` with KMS calls that never fail |
| `cmm_signed` | `MC_DefaultCmm_signed.cfg` | violation | `SignedMaterialsCarryPublicKey` |
| `cmm_prealloc` | `MC_DefaultCmm_prealloc.cfg` | violation | `NoBadState` with the buffer `materials.c` actually allocates |
| `supplier` | `MC_ClientSupplier.cfg` | pass | `CachedClientStable`, `BuildsComplete` |
| `trace` | `MC_KeyringTrace.cfg` | pass | `StringsOwnedOnce`, `NoDoubleFree` |
| `supplier_race` | `MC_ClientSupplier_race.cfg` | violation | `LookupReturnsCachedClient` |
| `cmm_alias` | `MC_DefaultCmm_alias.cfg` | violation | `DecryptsOwnEdks` with the only key id given as an alias |
| `builder` | `MC_KmsBuilder.cfg` | pass | `ClientsForKeyIds` |

The properties:

- **`EncMaterialsSound`.** Returned encryption materials hold a key of the
  suite's length. Every EDK is the KMS wrap of exactly that key, under the
  CMK its provider info names and under the request's context. Every CMK
  of `key_ids` has an EDK. It breaks if the copy is taken at the wrong
  time, the skip is wrong, or the loop bound is off.
- **`DecryptAuthentic`.** A returned decryption key has the suite's length.
  It came from a candidate of the KMS namespace and of `key_ids`, whose
  blob really belongs to the CMK it names and was bound to the request's
  context. The instance offers a forged EDK: its provider info names `a1`
  while its blob is `a3`'s. It also offers EDKs of other keyrings, and EDKs
  of the other suite with a different key length.
- **`NoBadState`.** No call ends with the wrapper's contract error.
- **`NoSecretResidue`.** No data key is freed from a materials buffer
  without being erased (`materials_destroy`, and the clean-up at 215).
- **`KeyCopiesZeroised`.** No copy of a data key is released without being
  erased, the `ByteBuffer` copy `OnEncrypt` takes at 179 included.
- **`CachedClientStable`.** A cached client is never replaced. This is an
  action property.
- **`BuildsComplete`.** Every builder finishes.
- **`DecryptsOwnEdks`.** With reliable KMS, a decryption offered an EDK
  that this keyring produced under the same context returns a key. It
  breaks if `OnDecrypt`'s filter skips the generator's EDK.
- **`ClientsForKeyIds`.** For every key id of every keyring `Build`
  returned, `GetKmsClient` finds the caller's client or a default client
  for that key id's own region, never `nullptr` and never a client for the
  empty region. The setters may be called in any order, a client may be
  set and reset, and keyrings may share the caller's caching supplier.
  This is the spec's rule that region problems fail at build time
  (section 4.5.1). `OnEncrypt` and `OnDecrypt` dereference the client
  unchecked (81, 152, 186). The mutant that drops `need_full_arns` from
  `ValidParameters` is caught.
- **`LookupReturnsCachedClient`.** A lookup returns the cached client.
- **`StringsOwnedOnce`.** Every live string has exactly one owner: a trace
  record or the cloned record. Every string a record holds is live. Trace
  records never hold NULL. It breaks if a failure path leaks a copy, frees
  one that is still held, or shares one between records.
- **`NoDoubleFree`.** No destroy is ever applied to memory already freed.
  The case that matters is `record_init_clone`. When one copy fails, it
  cleans `dest` up twice: once inside `init_check`, and again at line 108.
  The NULL reset at line 22 is what makes this safe, and the mutant without
  the reset is caught.

### Findings

1. **`cmm_residue`** (`kms_keyring.cpp:215`). When an `Encrypt` fails after
   `GenerateDataKey`, the generated key is freed with
   `aws_byte_buf_clean_up`, which does not zero it. Spec sections 4.5 and 5
   say it is zeroised. The trace: the CMM encrypts, generation succeeds,
   and `Encrypt` for `a2` fails. With reliable KMS (`cmm_reliable`) the
   property holds. Every other release of the materials buffer goes
   through `materials_destroy`, which zeroises.
2. **`cmm_copy`** (`kms_keyring.cpp:179`). `OnEncrypt` copies the data key
   into an `Aws::Utils::ByteBuffer` for the `Encrypt` requests. The copy's
   destructor frees it on every return, success included, and nothing
   zeroises it first. Spec section 5 says data-key memory is zeroised
   before it is released. TLC finds this after one successful encryption
   with reliable KMS.
3. **`cmm_signed`** (`default_cmm.c:52`). No signing key is generated and
   no public key is added: the code has a TODO there. Encryption with suite
   888 returns materials whose context lacks the public key. Spec section
   4.3 says it is added. Decryption of such a message then fails at line 82.
4. **`cmm_prealloc`** (`materials.c:32`). `materials_new` allocates the
   data-key buffer. The wrapper's precondition, the KMS keyring's `!buffer`
   test (146) and the CMM's test (73) all expect an unset buffer
   (`t_materials.c` checks it). With the allocation as written, the first
   call ends in `BadState`. The passing runs set `PreallocDataKey = FALSE`,
   the behaviour the callers assume.
5. **`supplier_race`** (`kms_keyring.cpp:295`, `332-337`). `GetKmsClient`
   reads the shared `std::map` without `cache_mutex`, while another
   thread's builder may be inserting into it. That is a data race.
   `operator[]` links and rebalances nodes, so the model lets a read during
   an insertion return any client or `nullptr`. Spec section 5 says lookups
   take the lock.

6. **`cmm_alias`** (`kms_keyring.cpp:77`). The keyring's only key id is
   `alias/a1`, so every message it writes carries one EDK, whose provider
   info is the ARN `a1` that KMS returns (167). `OnDecrypt` of the same
   keyring compares that ARN with its `key_ids` literally and skips the
   EDK, so it cannot decrypt its own messages (`CannotDecrypt`), though
   every KMS call succeeds. The spec (4.5) allows aliases in `key_ids` and
   states a round trip only for Raw-AES (section 8), so this is a gap in
   the spec rather than a broken promise: `DecryptsOwnEdks` is the
   property a user would expect, and it fails here.

Also a divergence, not checked: `DEFAULT_ALG` (line 21) is
AES-128-GCM with no signature, while the spec names AES-256 with P-384.

## Bounds and why they suffice

`MC_DefaultCmm` uses:

- three CMKs, with `key_ids = <<a1, a2>>`;
- two data keys and two contexts, one of which carries the public key;
- suites 276 (16-byte key, unsigned) and 888 (32-byte key, signed);
- `MaxOps = 3` CMM calls and candidate lists of up to two EDKs;
- candidates drawn from the EDKs produced so far and three foreign EDKs:
  another provider's, an unconfigured CMK's, and a forgery.

Three calls are enough for an encrypt, a `set_alg_id` and a decrypt of the
encrypt's EDKs under either suite. Two CMKs are enough for the generator,
a second wrap, the skip and a mid-loop failure. Two candidates are enough
for a skipped EDK to precede a good one. The main run has 202,052 distinct
states; `cmm_reliable` has 122,326.

`MC_ClientSupplier` has two builders, two users and three regions. `r1` is
cached, b1 puts `<<r2, r1>>` and b2 puts `<<r2, r3>>`. Both builders put
`r2` (check-then-insert on the same key). b1 meets an already cached
region (the early return). b2 inserts one the other does not.

`MC_KmsBuilder` offers four key ids: ARNs of two regions, an alias and
the empty string. It allows up to three key ids, any default region
(the empty one included), the caller's client or none, the caller's
caching supplier or none, and two builds. That covers each branch of
`BuildClientSupplier` and each early return of `ValidParameters`. Two
builds on the shared supplier meet the early return of `PutClient` on an
already cached region. The run has 156,336 distinct states.

`MC_KeyringTrace` allows up to 3 records and 16 allocations, which gives
6,380 states. That is enough for a full trace, failed additions and
clones, a clone of each record, and a clear followed by more additions.

## Fairness

`DefaultCmm` has no fairness: its runs check safety only. In
`ClientSupplier`, `Spec` is `Init /\ [][Next]_vars /\ WF_vars(Next)`.
`cache_mutex` is a `std::mutex` that is released on every path:
`unique_lock` is RAII, and the early return at 314 releases it too. Weak
fairness of the whole `Next` only ensures that some thread moves. Here that
suffices, because every enabled builder step keeps the others able to
move, and the runs end when all builders are done. Deadlock checking is
off (`CHECK_DEADLOCK FALSE`) because the CMM's caller stops after `MaxOps`
calls and the supplier's threads end; `BuildsComplete` rules out a stop in
the middle of a build.

## Proofs

- **`TypeCorrect`**: `Spec => []TypeOK` for every value of the constants
  satisfying `MaterialsAssumption`, `AlgsAssumption`, `KmsAssumption` and
  `CmmAssumption`. `TypeOK` alone is not inductive. `EncryptStep` appends
  `KmsEdk(.., dkCopy)`, and that EDK is in `Edks` only if the copied key is
  a real data key while the loop runs after generation. The strengthening
  is `TypeInv == TypeOK /\ (pc = "kmsEnc" /\ generated => dataKey.val \in DataKeys)`.
  There is one lemma per action and `NextTypeInv` combines them.
- **`KeyringContractHolds`**: `~PreallocDataKey => (Spec => []NoBadState)`.
  `NoBadState` is not inductive. A keyring step is followed by the CMM's
  postcondition check, which needs the key to have the suite's length
  whenever the keyring is in its loop or returns success. The invariant is
  `ContractInv == TypeInv /\ NoBadState /\ rv \in {"ok","KmsFailure"}`,
  plus the length fact at `kmsEnc` and at `encRet` with `ok`. TLC checked
  it as an invariant of the main run first. One lemma per action shows it
  is preserved. The temporal step closes with `PTL`.

- **`StringsOwnedOnceHolds`** and **`NoDoubleFreeHolds`**
  (`KeyringTraceProofs.tla`). They prove `Spec => []StringsOwnedOnce` and
  `Spec => []NoDoubleFree` for every `MaxAllocs` and `MaxRecords`. The
  invariant is `IInv == TypeOK /\ ~fault /\ Fresh /\ StringsOwnedOnce`.
  `Fresh` says every live allocation is one of the first `alloc`. It is
  needed because a new copy must not coincide with a string already owned,
  and ownership alone cannot say that.
  - There is one lemma per action.
  - `AppendOwners` and `SameTraceOwners` describe how the owners change.
  - `DestOwned` says the cloned record's strings are live, distinct, and
    held by no trace record. This is what makes `record_clean_up` and
    `clear` free each string exactly once.

- **`SoundPart`** (`CmmSoundPartProofs.tla`) is the lemma basis of the
  soundness theorems. Returned materials must be sound at the moment of
  return, a fact about earlier states, so the proofs need the invariant
  `RefInv == TypeInv /\ SoundPart`. `SoundPart` says:
  - during an encryption the CMM's suite is the materials' suite;
  - `edks` is empty while the keyring runs;
  - in the `Encrypt` loop, `dkCopy` is the data key and every `tmpEdks`
    entry wraps it (`KmsWraps`);
  - on success every EDK wraps the key;
  - no key is set while decrypting;
  - a key found by `OnDecrypt` is opened by one of the candidates.

  TLC checked `SoundPart` as an invariant first. One lemma per action
  preserves `RefInv`.

- **`MaterialsSound`** (`CmmSoundnessProofs.tla`). It proves
  `Spec => [](EncMaterialsSound /\ DecryptAuthentic)` for every value of
  the constants: aliases, KMS failures and preallocation included. The
  invariant is `SInv == RefInv /\ Covered /\ EncMaterialsSound /\ DecryptAuthentic`.
  `Covered` is needed because the EDK for a key id is appended many steps
  before `FinishEncryption` returns the list. It says:
  - at `kmsGen` the loop has not started (`idx = 1`);
  - in the `Encrypt` loop, `tmpEdks` holds an EDK for the first key id
    once it was generated, and one for every key id before `idx`;
  - at a successful return, `edks` holds one for every key id.

  `HasAppend` states that `Append` keeps an EDK for every key id and adds one for the new EDK's key id.
  `ResultKept` and `FailedSound` cover the calls that return the old
  result or an error.
- **`ReliableDecryptsOwn`** (`CmmReliableProofs.tla`). It holds only
  when KMS never fails and every key id is a full ARN, and the run
  `cmm_alias` shows it fails otherwise. So the hypothesis is part of the
  statement: `Reliable => (Spec => []DecryptsOwnEdks)`. It needs
  `RInv == SInv /\ OwnInv`. `OwnInv` says:
  - every produced EDK is eligible and names its own CMK;
  - during and after a successful encryption, every provider info is a
    key id's ARN;
  - `OnDecrypt` has passed over no openable candidate (`Opened`) before
    `idx`;
  - if it returns without a key, no candidate is openable.

  The three skip branches of `DecryptStep` are ruled out in turn: the EDK
  is eligible, KMS answers, and its CMK is its provider info. TLC checked
  `RInv` on the `cmm_reliable` configuration first.
- **`BuilderClientsHold`** (`KmsBuilderProofs.tla`). It proves
  `Spec => []ClientsForKeyIds` for every key set, region map and bound.
  The invariant is
  `IInv == TypeOK /\ keyrings \in Seq(KeyringRecs) /\ CacheWF(sharedCache) /\ ClientsForKeyIds`.
  `CacheWF` says the shared cache maps each region to nullptr or to that
  region's default client. It is needed because a keyring built earlier
  keeps reading the caller's supplier after later `Build`s put clients
  in it. `PutClientsGrow` and `OldClientKept` show that a put never
  replaces a cached client. `BuilderAssumption` includes
  `UserClient # Null /\ Shared # Null`. A caller that passes nullptr to
  `WithKmsClient` or `WithCachingClientSupplier` is the model's `Null`
  choice of those setters, so the assumption loses no behaviour.

- **`CachedClientStableHolds`** (`ClientSupplierProofs.tla`). For every
  set of builders, users and regions it proves `Spec => CachedClientStable`
  (an action property). It rests on
  `IInv == TypeOK /\ LockHeld`. `LockHeld` is the mutex protocol:
  - a builder is at `find` or `insert` exactly when it holds `cache_mutex`;
  - a builder at `find` has a region left to put;
  - an insertion is in progress exactly when some builder is at `insert`;
  - the region being inserted is missing from the cache.

  Without the last two facts, an insertion could overwrite a client that
  another builder cached after this builder's check. The mutex rules that
  out, and only an invariant can say so. `NextKeepsCached` then gives the
  action property. `SupplierAssumption` includes
  `None \notin Regions`, because nullptr is not a region string.
- **`DecryptAuthenticHolds`** (`CmmSoundnessProofs.tla`) is
  `Spec => []DecryptAuthentic`. It is the half of `MaterialsSound` about
  decryption, stated on its own.

The following are only model-checked:

- **Liveness.** TLAPS cannot reason about fairness and `ENABLED` here, so
  `BuildsComplete` is checked by TLC only.
- **Unlocked lookups.** TLC shows that `LookupReturnsCachedClient` is
  violated. Because the race's outcome is undefined, there is no theorem
  about what a lookup returns during an insertion. The proved invariant
  covers only the cache itself.
- **`NoSecretResidue`, `KeyCopiesZeroised`, and `DecryptsOwnEdks` with
  aliases.** These are violations found by TLC, not theorems.

## Not modelled

- `aws_cryptosdk_keyring_trace_eq` and `record_eq` in `keyring_trace.c`:
  comparisons that change no state. The keyrings modelled here do not
  write a trace in this version.
- `zero_mk.c`: a test master key without state.
- `utils.c`: pure helpers.
- `raw_aes_mk.h`: declarations only.
- The tests and the KMS client mock.
- `LockedGetClient`: defined but never called. `WithGrantTokens`: it
  only appends strings sent along with KMS requests.
- `parse_region_from_kms_key_arn` and the builder's header are not in the
  repository. The region of a key id (`KeyRegion`) and the builder's
  initial state are taken from the spec.

## Plan for later work

1. Compose `KmsBuilder` with `ClientSupplier`, so that concurrent builds
   and lookups share one map.
2. State and prove action properties of the CMM, e.g. that `produced`
   only grows and that `ops` never decreases across a call.
