------------------------------ MODULE KmsKeyring ------------------------------
(***************************************************************************)
(* The KMS keyring (aws-encryption-sdk-cpp/source/kms_keyring.cpp):        *)
(* OnEncrypt and OnDecrypt, one action per KMS call, since each call is a  *)
(* suspension point on network I/O. The KMS service is the environment:    *)
(* a ciphertext blob records the CMK that wrapped it, the encryption       *)
(* context bound as AAD and the key it wraps; Decrypt succeeds exactly     *)
(* when the context matches, and answers with the blob's own CMK.          *)
(*                                                                         *)
(* This module declares the state of one keyring call; DefaultCmm adds the *)
(* CMM that makes the calls.                                               *)
(***************************************************************************)
EXTENDS Materials

CONSTANTS
  Arns,            \* CMK ARNs known to KMS
  Aliases,         \* alias names (or bare key ids) KMS also accepts
  AliasTarget,     \* the CMK each alias names
  KeyIds,          \* the keyring's key_ids, generator first
  OtherProviders,  \* provider ids of EDKs written by other keyrings
  KmsMayFail       \* TRUE: any KMS call may fail (network, permissions)

KmsProviderId == "aws-kms"

ASSUME KmsAssumption ==
  /\ Aliases \cap Arns = {} /\ AliasTarget \in [Aliases -> Arns]
  /\ KeyIds \in Seq(Arns \cup Aliases) /\ Len(KeyIds) > 0
  /\ KmsProviderId \notin OtherProviders
  /\ KmsMayFail \in BOOLEAN

Blobs == [cmk : Arns, ctx : Contexts, key : DataKeys \cup {NoKey}, len : 0..32]

Edks == [provider_id : {KmsProviderId} \cup OtherProviders,
         provider_info : Arns, blob : Blobs]

(* The key id KMS answers with (outcome.GetKeyId()) for a request naming  *)
(* id: always the full ARN of the CMK, an alias resolved.                 *)
KeyArn(id) == IF id \in Aliases THEN AliasTarget[id] ELSE id

(* The EDK that append_key_dup_to_edks builds from a KMS answer for a     *)
(* request naming id: provider info is outcome.GetKeyId(), the blob the   *)
(* CiphertextBlob.                                                        *)
KmsEdk(id, ctx, key) ==
  [provider_id |-> KmsProviderId, provider_info |-> KeyArn(id),
   blob |-> [cmk |-> KeyArn(id), ctx |-> ctx, key |-> key.val, len |-> key.len]]

VARIABLES
  pc,         \* control point of the single materials call
  alg,        \* suite id argument of the call
  encCtx,     \* encryption context argument
  dataKey,    \* unencrypted data key buffer of the materials
  edks,       \* the materials' EDK list (encrypt output)
  inEdks,     \* the request's candidate EDK list (decrypt input)
  tmpEdks,    \* EdksRaii list collecting EDKs during OnEncrypt
  idx,        \* loop index over KeyIds or inEdks
  generated,  \* generated_new_data_key
  dkCopy,     \* unencrypted_data_key_cpp, the copy sent to Encrypt
  rv,         \* return value of the keyring
  residue,    \* data keys left in released materials buffers, not zeroised
  copyResidue \* data keys left in released copies, not zeroised

kvars == <<pc, alg, encCtx, dataKey, edks, inEdks, tmpEdks, idx, generated,
           dkCopy, rv, residue, copyResidue>>

-----------------------------------------------------------------------------
(***************************************************************************)
(* aws_byte_buf_clean_up: frees the buffer and forgets it, without         *)
(* erasing the bytes.                                                      *)
(***************************************************************************)
ByteBufCleanUpResidue(dk, res) == IF dk.buf THEN res \cup {dk.val} ELSE res

(***************************************************************************)
(* The end of OnEncrypt's scope destroys unencrypted_data_key_cpp, the     *)
(* Aws::Utils::ByteBuffer copy of the key taken at line 179: its storage   *)
(* is freed without being erased.                                          *)
(***************************************************************************)
KeyCopyReleaseResidue(c, res) == IF c.val # NoKey THEN res \cup {c.val} ELSE res

(* Fault variant: the buffer check of line 146 lost, never generating. *)
OnEncryptEntryNoGenerate ==
  /\ tmpEdks' = <<>> /\ generated' = FALSE /\ idx' = 1
  /\ dkCopy' = [len |-> dataKey'.len, val |-> dataKey'.val]
  /\ pc' = "kmsEnc"

(* OnEncrypt entry: generate a data key when the buffer is unset. *)
OnEncryptEntry ==
  /\ tmpEdks' = <<>> /\ generated' = FALSE /\ idx' = 1
  /\ dkCopy' = [len |-> dataKey'.len, val |-> dataKey'.val]
  /\ pc' = IF dataKey'.buf THEN "kmsEnc" ELSE "kmsGen"

(* Fault variant: NumberOfBytes one more than the suite's key length. *)
GenerateDataKeyOffByOne ==
  /\ pc = "kmsGen"
  /\ \E k \in DataKeys :
       LET key == [buf |-> TRUE, len |-> DataKeyLen(alg) + 1, val |-> k]
       IN /\ tmpEdks' = <<KmsEdk(KeyIds[1], encCtx, key)>>
          /\ dataKey' = key /\ generated' = TRUE
          /\ dkCopy' = [len |-> key.len, val |-> k]
          /\ pc' = "kmsEnc"
          /\ UNCHANGED <<idx, rv>>
  /\ UNCHANGED <<alg, encCtx, edks, inEdks, residue, copyResidue>>

(***************************************************************************)
(* GenerateDataKey with the generator key_ids[0]: on failure return        *)
(* KMS_FAILURE; on success the generator's EDK opens the list, the         *)
(* plaintext becomes the data key, and the copy sent to the Encrypt calls  *)
(* is taken.                                                               *)
(***************************************************************************)
GenerateDataKey ==
  /\ pc = "kmsGen"
  /\ \/ /\ KmsMayFail
        /\ rv' = "KmsFailure" /\ pc' = "encRet"
        /\ UNCHANGED <<dataKey, tmpEdks, idx, generated, dkCopy>>
     \/ \E k \in DataKeys :
          LET key == [buf |-> TRUE, len |-> DataKeyLen(alg), val |-> k]
          IN /\ tmpEdks' = <<KmsEdk(KeyIds[1], encCtx, key)>>
             /\ dataKey' = key
             /\ generated' = TRUE
             /\ dkCopy' = [len |-> key.len, val |-> k]
             /\ pc' = "kmsEnc"
             /\ UNCHANGED <<idx, rv>>
  /\ UNCHANGED <<alg, encCtx, edks, inEdks, residue, copyResidue>>

(* The generator's CMK is not encrypted with again after GenerateDataKey. *)
SkipsKey(i) == generated /\ KeyIds[i] = KeyIds[1]

(***************************************************************************)
(* One iteration of the loop over key_ids: skip the generator, or call     *)
(* Encrypt. A failed call aborts: the collected EDKs are dropped, and a    *)
(* data key this call generated is cleaned up.                             *)
(***************************************************************************)
EncryptStep ==
  /\ pc = "kmsEnc" /\ idx <= Len(KeyIds)
  /\ \/ /\ SkipsKey(idx)
        /\ idx' = idx + 1
        /\ UNCHANGED <<pc, dataKey, tmpEdks, rv, residue, copyResidue>>
     \/ /\ ~SkipsKey(idx)
        /\ tmpEdks' = Append(tmpEdks, KmsEdk(KeyIds[idx], encCtx, dkCopy))
        /\ idx' = idx + 1
        /\ UNCHANGED <<pc, dataKey, rv, residue, copyResidue>>
     \/ /\ ~SkipsKey(idx) /\ KmsMayFail
        /\ rv' = "KmsFailure" /\ pc' = "encRet"
        /\ tmpEdks' = <<>>
        /\ dataKey' = IF generated THEN NoBuf ELSE dataKey
        /\ residue' = IF generated THEN ByteBufCleanUpResidue(dataKey, residue)
                                   ELSE residue
        /\ copyResidue' = KeyCopyReleaseResidue(dkCopy, copyResidue)
        /\ UNCHANGED idx
  /\ UNCHANGED <<alg, encCtx, edks, inEdks, generated, dkCopy>>

(* Fault variant: the loop ends one key early. *)
EncryptDoneEarly ==
  /\ pc = "kmsEnc" /\ idx >= Len(KeyIds)
  /\ edks' = edks \o tmpEdks
  /\ tmpEdks' = <<>>
  /\ rv' = "ok" /\ pc' = "encRet"
  /\ copyResidue' = KeyCopyReleaseResidue(dkCopy, copyResidue)
  /\ UNCHANGED <<alg, encCtx, dataKey, inEdks, idx, generated, dkCopy, residue>>

(* The loop is done: aws_cryptosdk_transfer_edk_list moves the EDKs. *)
EncryptDone ==
  /\ pc = "kmsEnc" /\ idx > Len(KeyIds)
  /\ edks' = edks \o tmpEdks
  /\ tmpEdks' = <<>>
  /\ rv' = "ok" /\ pc' = "encRet"
  /\ copyResidue' = KeyCopyReleaseResidue(dkCopy, copyResidue)
  /\ UNCHANGED <<alg, encCtx, dataKey, inEdks, idx, generated, dkCopy, residue>>

-----------------------------------------------------------------------------
(* OnDecrypt entry. *)
OnDecryptEntry == idx' = 1 /\ pc' = "kmsDec"

(* KMS Decrypt of a blob: the context is its AAD. *)
KmsDecrypts(blob, ctx) == blob.ctx = ctx

(* Fault variant: the key_ids search starts after the generator. *)
EligibleSkipsGenerator(e) ==
  e.provider_id = KmsProviderId /\ e.provider_info \in Range(Tail(KeyIds))

(* An EDK OnDecrypt sends to KMS: the KMS namespace and one of key_ids. *)
Eligible(e) == e.provider_id = KmsProviderId /\ e.provider_info \in Range(KeyIds)

(* Fault variant: the CMK KMS answers with is not compared (line 95). *)
DecryptStepNoKeyIdCheck ==
  /\ pc = "kmsDec" /\ idx <= Len(inEdks)
  /\ LET e == inEdks[idx] IN
     \/ /\ ~Eligible(e)
        /\ idx' = idx + 1 /\ UNCHANGED <<pc, dataKey, rv>>
     \/ /\ Eligible(e) /\ (KmsMayFail \/ ~KmsDecrypts(e.blob, encCtx))
        /\ idx' = idx + 1 /\ UNCHANGED <<pc, dataKey, rv>>
     \/ /\ Eligible(e) /\ KmsDecrypts(e.blob, encCtx)
        /\ dataKey' = [buf |-> TRUE, len |-> e.blob.len, val |-> e.blob.key]
        /\ rv' = "ok" /\ pc' = "decRet"
        /\ UNCHANGED idx
  /\ UNCHANGED <<alg, encCtx, edks, inEdks, tmpEdks, generated, dkCopy, residue,
                 copyResidue>>

(***************************************************************************)
(* One iteration over the candidate EDKs: skip ineligible ones, skip on a  *)
(* failed Decrypt, skip when KMS answers with a CMK other than the EDK's   *)
(* provider info, and otherwise take the plaintext and return.             *)
(***************************************************************************)
DecryptStep ==
  /\ pc = "kmsDec" /\ idx <= Len(inEdks)
  /\ LET e == inEdks[idx] IN
     \/ /\ ~Eligible(e)
        /\ idx' = idx + 1 /\ UNCHANGED <<pc, dataKey, rv>>
     \/ /\ Eligible(e) /\ (KmsMayFail \/ ~KmsDecrypts(e.blob, encCtx))
        /\ idx' = idx + 1 /\ UNCHANGED <<pc, dataKey, rv>>
     \/ /\ Eligible(e) /\ KmsDecrypts(e.blob, encCtx)
        /\ e.blob.cmk # e.provider_info
        /\ idx' = idx + 1 /\ UNCHANGED <<pc, dataKey, rv>>
     \/ /\ Eligible(e) /\ KmsDecrypts(e.blob, encCtx)
        /\ e.blob.cmk = e.provider_info
        /\ dataKey' = [buf |-> TRUE, len |-> e.blob.len, val |-> e.blob.key]
        /\ rv' = "ok" /\ pc' = "decRet"
        /\ UNCHANGED idx
  /\ UNCHANGED <<alg, encCtx, edks, inEdks, tmpEdks, generated, dkCopy, residue,
                 copyResidue>>

(* No candidate could be decrypted: success with the data key unset. *)
DecryptDone ==
  /\ pc = "kmsDec" /\ idx > Len(inEdks)
  /\ rv' = "ok" /\ pc' = "decRet"
  /\ UNCHANGED <<alg, encCtx, dataKey, edks, inEdks, tmpEdks, idx, generated,
                 dkCopy, residue, copyResidue>>

KeyringStep == GenerateDataKey \/ EncryptStep \/ EncryptDone \/ DecryptStep \/ DecryptDone

=============================================================================
