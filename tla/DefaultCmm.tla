------------------------------ MODULE DefaultCmm ------------------------------
(***************************************************************************)
(* The default CMM (source/default_cmm.c) over a KMS keyring: a caller     *)
(* makes up to MaxOps calls of generate_encryption_materials,              *)
(* decrypt_materials and set_alg_id, one at a time. Decryption requests    *)
(* present EDKs that earlier encryptions produced together with EDKs of    *)
(* other origin (ForeignEdks): other keyrings, other CMKs, forgeries.      *)
(***************************************************************************)
EXTENDS KmsKeyring

CONSTANTS
  MaxOps,         \* number of CMM calls the caller makes
  MaxCandidates,  \* length bound of a decryption request's EDK list
  ForeignEdks,    \* EDKs not produced by this keyring
  UnknownAlg      \* a suite id outside the catalog

ASSUME CmmAssumption ==
  /\ MaxOps \in Nat /\ MaxCandidates \in Nat \ {0}
  /\ ForeignEdks \subseteq Edks
  /\ UnknownAlg \notin AlgIds

VARIABLES
  cmmAlg,    \* default_cmm.alg_id
  result,    \* what the last call returned
  produced,  \* EDKs handed out by successful encryptions
  ops        \* calls made so far

vars == <<kvars, cmmAlg, result, produced, ops>>
cmmVars == <<cmmAlg, result, produced, ops>>

Results == [op : {"none", "enc", "dec", "setAlg"}, err : Errors,
            alg : AlgIds, ctx : Contexts, key : DataKeyBufs, edks : Seq(Edks)]

\* A call that returned the error err before building materials.
Failed(op, err) == [op |-> op, err |-> err, alg |-> alg', ctx |-> encCtx',
                    key |-> NoBuf, edks |-> <<>>]

\* The EDK lists a decryption request may present.
CandidateLists ==
  UNION {[1..n -> produced \cup ForeignEdks] : n \in 1..MaxCandidates}

Init ==
  /\ pc = "idle"
  /\ alg = DefaultAlg
  /\ encCtx \in Contexts
  /\ dataKey = NoBuf /\ edks = <<>> /\ inEdks = <<>> /\ tmpEdks = <<>>
  /\ idx = 1 /\ generated = FALSE
  /\ dkCopy = [len |-> 0, val |-> NoKey]
  /\ rv = "ok" /\ residue = {} /\ copyResidue = {}
  /\ cmmAlg = DefaultAlg
  /\ result = [op |-> "none", err |-> "ok", alg |-> DefaultAlg, ctx |-> encCtx,
               key |-> NoBuf, edks |-> <<>>]
  /\ produced = {} /\ ops = 0

-----------------------------------------------------------------------------
(***************************************************************************)
(* generate_encryption_materials: a pinned suite other than the CMM's      *)
(* fails; otherwise new materials for the CMM's suite, the keyring         *)
(* wrapper's precondition, and the dispatch to OnEncrypt.                  *)
(***************************************************************************)
GenerateEncryptionMaterials ==
  /\ pc = "idle" /\ ops < MaxOps
  /\ ops' = ops + 1
  /\ \E requested \in {0} \cup Algs, ctx \in Contexts :
       /\ encCtx' = ctx
       /\ \/ /\ requested \notin {0, cmmAlg}
             /\ alg' = requested
             /\ result' = Failed("enc", "UnsupportedFormat")
             /\ UNCHANGED <<pc, dataKey, edks, tmpEdks, idx, generated, dkCopy>>
          \/ /\ requested \in {0, cmmAlg} /\ alg' = cmmAlg
             /\ result' = Failed("enc", "OutOfMemory")
             /\ UNCHANGED <<pc, dataKey, edks, tmpEdks, idx, generated, dkCopy>>
          \/ /\ requested \in {0, cmmAlg} /\ alg' = cmmAlg
             /\ IF OnEncryptPre(MaterialsNewKey, <<>>, cmmAlg)
                THEN /\ dataKey' = MaterialsNewKey /\ edks' = <<>>
                     /\ OnEncryptEntry
                     /\ UNCHANGED result
                ELSE /\ result' = Failed("enc", "BadState")
                     /\ UNCHANGED <<pc, dataKey, edks, tmpEdks, idx, generated, dkCopy>>
  /\ UNCHANGED <<inEdks, rv, residue, copyResidue, cmmAlg, produced>>

(***************************************************************************)
(* The keyring returned: the wrapper's postcondition, then the CMM hands   *)
(* the materials to the caller, or destroys them and returns the error.    *)
(***************************************************************************)
FinishEncryption ==
  /\ pc = "encRet"
  /\ pc' = "idle"
  /\ \/ /\ rv = "ok" /\ OnEncryptPost(dataKey, alg)
        /\ result' = [op |-> "enc", err |-> "ok", alg |-> alg, ctx |-> encCtx,
                      key |-> dataKey, edks |-> edks]
        /\ produced' = produced \cup Range(edks)
        /\ UNCHANGED residue
     \/ /\ ~(rv = "ok" /\ OnEncryptPost(dataKey, alg))
        /\ result' = [op |-> "enc", err |-> IF rv = "ok" THEN "BadState" ELSE rv,
                      alg |-> alg, ctx |-> encCtx, key |-> NoBuf, edks |-> <<>>]
        /\ residue' = MaterialsDestroyResidue(dataKey, residue)
        /\ UNCHANGED produced
  /\ dataKey' = NoBuf /\ edks' = <<>>
  /\ UNCHANGED <<alg, encCtx, inEdks, tmpEdks, idx, generated, dkCopy, rv,
                 copyResidue, cmmAlg, ops>>

(***************************************************************************)
(* decrypt_materials: new materials for the request's suite, the keyring   *)
(* wrapper's precondition, and the dispatch to OnDecrypt.                  *)
(***************************************************************************)
DecryptMaterials ==
  /\ pc = "idle" /\ ops < MaxOps
  /\ ops' = ops + 1
  /\ \E a \in Algs, ctx \in Contexts, cands \in CandidateLists :
       /\ alg' = a /\ encCtx' = ctx /\ inEdks' = cands
       /\ \/ /\ result' = Failed("dec", "OutOfMemory")
             /\ UNCHANGED <<pc, dataKey, idx>>
          \/ IF OnDecryptPre(MaterialsNewKey)
             THEN /\ dataKey' = MaterialsNewKey
                  /\ OnDecryptEntry
                  /\ UNCHANGED result
             ELSE /\ result' = Failed("dec", "BadState")
                  /\ UNCHANGED <<pc, dataKey, idx>>
  /\ UNCHANGED <<edks, tmpEdks, generated, dkCopy, rv, residue, copyResidue, cmmAlg,
                 produced>>

(***************************************************************************)
(* The error decrypt_materials returns once the keyring is back: the       *)
(* wrapper's length check, no key found, and for a signing suite a         *)
(* context without the public key.                                         *)
(***************************************************************************)
DecryptError ==
  CASE ~OnDecryptPost(dataKey, alg)                   -> "BadCiphertext"
    [] ~dataKey.buf                                    -> "CannotDecrypt"
    [] AlgSigned(alg) /\ encCtx \notin CtxWithPubKey -> "BadCiphertext"
    [] OTHER                                           -> "ok"

FinishDecryption ==
  /\ pc = "decRet"
  /\ pc' = "idle"
  /\ \/ /\ DecryptError = "ok"
        /\ result' = [op |-> "dec", err |-> "ok", alg |-> alg, ctx |-> encCtx,
                      key |-> dataKey, edks |-> inEdks]
        /\ UNCHANGED residue
     \/ /\ DecryptError # "ok"
        /\ result' = [op |-> "dec", err |-> DecryptError, alg |-> alg,
                      ctx |-> encCtx, key |-> NoBuf, edks |-> <<>>]
        /\ residue' = MaterialsDestroyResidue(dataKey, residue)
  /\ dataKey' = NoBuf
  /\ UNCHANGED <<alg, encCtx, edks, inEdks, tmpEdks, idx, generated, dkCopy, rv,
                 copyResidue, cmmAlg, produced, ops>>

(* aws_cryptosdk_default_cmm_set_alg_id: only a catalog suite is accepted. *)
SetAlgId ==
  /\ pc = "idle" /\ ops < MaxOps
  /\ ops' = ops + 1
  /\ \E a \in Algs \cup {UnknownAlg} :
       \/ /\ a \in AlgIds
          /\ cmmAlg' = a
          /\ result' = [result EXCEPT !.op = "setAlg", !.err = "ok"]
       \/ /\ a \notin AlgIds
          /\ result' = [result EXCEPT !.op = "setAlg", !.err = "UnsupportedFormat"]
          /\ UNCHANGED cmmAlg
  /\ UNCHANGED <<kvars, produced>>

Next ==
  \/ GenerateEncryptionMaterials
  \/ FinishEncryption
  \/ DecryptMaterials
  \/ FinishDecryption
  \/ SetAlgId
  \/ KeyringStep /\ UNCHANGED cmmVars

Spec == Init /\ [][Next]_vars

-----------------------------------------------------------------------------
TypeOK ==
  /\ pc \in {"idle", "kmsGen", "kmsEnc", "encRet", "kmsDec", "decRet"}
  /\ alg \in AlgIds /\ encCtx \in Contexts
  /\ dataKey \in DataKeyBufs
  /\ edks \in Seq(Edks) /\ inEdks \in Seq(Edks) /\ tmpEdks \in Seq(Edks)
  /\ idx \in Nat \ {0} /\ generated \in BOOLEAN
  /\ dkCopy \in [len : 0..32, val : DataKeys \cup {NoKey}]
  /\ rv \in Errors /\ residue \subseteq DataKeys /\ copyResidue \subseteq DataKeys
  /\ cmmAlg \in AlgIds /\ result \in Results
  /\ produced \subseteq Edks /\ ops \in 0..MaxOps

(***************************************************************************)
(* Encryption materials the CMM returns are sound (spec section 3): the    *)
(* data key has the suite's length, every EDK is the KMS wrap, under the   *)
(* CMK its provider info names and with the request's context, of exactly  *)
(* that data key, and every CMK of key_ids has an EDK. This is what makes  *)
(* the message decryptable with any one of the keyring's CMKs; it rests on *)
(* the generator skip, the copy of the data key sent to Encrypt and the    *)
(* bounds of the key_ids loop in OnEncrypt.                                *)
(***************************************************************************)
EncMaterialsSound ==
  result.op = "enc" /\ result.err = "ok" =>
    /\ result.key.buf /\ result.key.len = DataKeyLen(result.alg)
    /\ \A i \in DOMAIN result.edks :
         result.edks[i] = KmsEdk(result.edks[i].provider_info, result.ctx, result.key)
    /\ \A id \in Range(KeyIds) :
         \E i \in DOMAIN result.edks : result.edks[i].provider_info = KeyArn(id)

(***************************************************************************)
(* Decryption materials are authentic: the CMM returns a data key only of  *)
(* the suite's length, and only one that KMS unwrapped, under the request's *)
(* context, from a candidate EDK whose blob belongs to the CMK its         *)
(* provider info names, a CMK of key_ids. It rests on OnDecrypt's          *)
(* namespace and key_ids filters, its check of the CMK KMS answers with    *)
(* (the Decrypt request carries no key id), and the wrapper's length       *)
(* check.                                                                  *)
(***************************************************************************)
DecryptAuthentic ==
  result.op = "dec" /\ result.err = "ok" =>
    /\ result.key.buf /\ result.key.len = DataKeyLen(result.alg)
    /\ \E i \in DOMAIN result.edks :
         /\ Eligible(result.edks[i])
         /\ result.edks[i].blob = [cmk |-> result.edks[i].provider_info,
                                   ctx |-> result.ctx, key |-> result.key.val,
                                   len |-> result.key.len]

(***************************************************************************)
(* A keyring decrypts what it encrypted: when OnDecrypt returns for a      *)
(* request whose candidates include an EDK that an earlier encryption by   *)
(* this CMM produced under the request's context, and KMS answers every    *)
(* call, it has found a data key. The EDK's provider info is the ARN KMS   *)
(* answered the encryption with (append_key_dup_to_edks), and OnDecrypt    *)
(* looks that name up in key_ids (line 77) and compares it with the CMK of *)
(* the Decrypt answer (line 95): both must accept it.                      *)
(***************************************************************************)
DecryptsOwnEdks ==
  /\ pc = "decRet" /\ ~KmsMayFail
  /\ \E i \in DOMAIN inEdks : inEdks[i] \in produced /\ inEdks[i].blob.ctx = encCtx
  => dataKey.buf

(***************************************************************************)
(* The keyring contract holds between the default CMM, the materials it    *)
(* allocates and the KMS keyring: no call ever ends in BadState, the       *)
(* error of a pre- or postcondition violation of on_encrypt / on_decrypt.  *)
(***************************************************************************)
NoBadState == result.err # "BadState"

(***************************************************************************)
(* The materials' data-key buffer is never released without being zeroised *)
(* (spec sections 4.5 and 5), on any success or error path of the CMM and  *)
(* the keyring: materials_destroy and OnEncrypt's clean-up at line 215.    *)
(***************************************************************************)
NoSecretResidue == residue = {}

(***************************************************************************)
(* No copy of a data key is released without being zeroised (spec section *)
(* 5: secret buffers are zeroised before release): the copy OnEncrypt      *)
(* takes at line 179 to send to Encrypt included.                          *)
(***************************************************************************)
KeyCopiesZeroised == copyResidue = {}

(***************************************************************************)
(* Encryption with a signing suite leaves the public key in the context   *)
(* (spec section 4.3), so that decrypt_materials can find it.             *)
(***************************************************************************)
SignedMaterialsCarryPublicKey ==
  result.op = "enc" /\ result.err = "ok" /\ AlgSigned(result.alg) =>
    result.ctx \in CtxWithPubKey

=============================================================================
