-------------------------- MODULE CmmSoundPartProofs ---------------------------
(***************************************************************************)
(* What a CMM call over the KMS keyring keeps true while it is in flight   *)
(* (SoundPart), proved inductive for every value of the constants,         *)
(* preallocation and aliases included; CmmSoundnessProofs builds on it.    *)
(***************************************************************************)
EXTENDS DefaultCmmProofs

USE MaterialsAssumption, AlgsAssumption, KmsAssumption, CmmAssumption

(* The KMS keyring's wrap: the EDK append_key_dup_to_edks builds for the   *)
(* ARN in its provider info, of key dk under context ctx.                  *)
KmsWraps(e, ctx, dk) == e = KmsEdk(e.provider_info, ctx, dk)

(* OnDecrypt may open e to dk: it would send e to KMS, and e's blob wraps  *)
(* dk under ctx for the CMK its provider info names.                       *)
KmsOpens(e, ctx, dk) ==
  /\ Eligible(e)
  /\ e.blob = [cmk |-> e.provider_info, ctx |-> ctx, key |-> dk.val, len |-> dk.len]

(***************************************************************************)
(* What a call in flight keeps true, beyond the types: encryption runs     *)
(* with the CMM's suite; its EDK list stays empty until the key_ids loop   *)
(* ends; every EDK the loop collects wraps the materials' key, because the *)
(* copy sent to Encrypt is that key; decryption starts without a key, and  *)
(* returns with one only when a candidate opens to it.                     *)
(***************************************************************************)
SoundPart ==
  /\ pc \in {"kmsGen", "kmsEnc", "encRet"} => alg = cmmAlg
  /\ pc \in {"kmsGen", "kmsEnc"} => edks = <<>>
  /\ pc = "kmsEnc" =>
       /\ dkCopy.len = dataKey.len /\ dkCopy.val = dataKey.val
       /\ \A i \in DOMAIN tmpEdks : KmsWraps(tmpEdks[i], encCtx, dataKey)
  /\ pc = "encRet" /\ rv = "ok" =>
       \A i \in DOMAIN edks : KmsWraps(edks[i], encCtx, dataKey)
  /\ pc = "kmsDec" => ~dataKey.buf
  /\ pc = "decRet" /\ dataKey.buf =>
       \E i \in DOMAIN inEdks : KmsOpens(inEdks[i], encCtx, dataKey)

RefInv == TypeInv /\ SoundPart

-----------------------------------------------------------------------------
(* KMS answers with an ARN, and an ARN names itself. *)
LEMMA KeyArnIdem ==
  ASSUME NEW id \in Arns \cup Aliases
  PROVE  KeyArn(id) \in Arns /\ KeyArn(KeyArn(id)) = KeyArn(id)
BY DEF KeyArn

(* The EDK built from a KMS answer wraps every buffer holding its key. *)
LEMMA KmsEdkWraps ==
  ASSUME NEW id \in Arns \cup Aliases, NEW ctx, NEW k1, NEW k2,
         k1.len = k2.len, k1.val = k2.val
  PROVE  KmsWraps(KmsEdk(id, ctx, k1), ctx, k2)
BY KeyArnIdem DEF KmsWraps, KmsEdk

LEMMA InitSound == Init => SoundPart
BY DEF Init, SoundPart

(* A call that returns, or set_alg_id, leaves the CMM idle. *)
LEMMA IdleSound ==
  ASSUME pc' = "idle" PROVE SoundPart'
BY DEF SoundPart

(* generate_encryption_materials starts OnEncrypt with the CMM's suite, no *)
(* EDKs, and the copy of the new materials' key.                          *)
LEMMA GenerateEncryptionMaterialsSound ==
  ASSUME RefInv, GenerateEncryptionMaterials PROVE SoundPart'
<1>1. PICK requested \in {0} \cup Algs, ctx \in Contexts :
        /\ encCtx' = ctx
        /\ \/ /\ requested \notin {0, cmmAlg} /\ alg' = requested
              /\ result' = Failed("enc", "UnsupportedFormat")
              /\ UNCHANGED <<pc, dataKey, edks, tmpEdks, idx, generated, dkCopy>>
           \/ /\ requested \in {0, cmmAlg} /\ alg' = cmmAlg
              /\ result' = Failed("enc", "OutOfMemory")
              /\ UNCHANGED <<pc, dataKey, edks, tmpEdks, idx, generated, dkCopy>>
           \/ /\ requested \in {0, cmmAlg} /\ alg' = cmmAlg
              /\ IF OnEncryptPre(MaterialsNewKey, <<>>, cmmAlg)
                 THEN /\ dataKey' = MaterialsNewKey /\ edks' = <<>>
                      /\ OnEncryptEntry
                      /\ UNCHANGED result
                 ELSE /\ result' = Failed("enc", "BadState")
                      /\ UNCHANGED <<pc, dataKey, edks, tmpEdks, idx, generated,
                                     dkCopy>>
  BY Zenon DEF GenerateEncryptionMaterials
<1>2. pc = "idle" /\ cmmAlg' = cmmAlg
  BY DEF GenerateEncryptionMaterials
<1>3. CASE pc' = pc
  BY <1>2, <1>3, IdleSound
<1>4. CASE pc' # pc
  <2>1. alg' = cmmAlg /\ edks' = <<>> /\ OnEncryptEntry
    BY <1>1, <1>4, Zenon
  <2> QED
    BY <1>2, <2>1 DEF OnEncryptEntry, SoundPart
<1> QED
  BY <1>3, <1>4

(* decrypt_materials starts OnDecrypt with the key buffer unset. *)
LEMMA DecryptMaterialsSound ==
  ASSUME RefInv, DecryptMaterials PROVE SoundPart'
<1>1. PICK a \in Algs, ctx \in Contexts, cands \in CandidateLists :
        /\ alg' = a /\ encCtx' = ctx /\ inEdks' = cands
        /\ \/ /\ result' = Failed("dec", "OutOfMemory")
              /\ UNCHANGED <<pc, dataKey, idx>>
           \/ IF OnDecryptPre(MaterialsNewKey)
              THEN /\ dataKey' = MaterialsNewKey
                   /\ OnDecryptEntry
                   /\ UNCHANGED result
              ELSE /\ result' = Failed("dec", "BadState")
                   /\ UNCHANGED <<pc, dataKey, idx>>
  BY Zenon DEF DecryptMaterials
<1>2. pc = "idle"
  BY DEF DecryptMaterials
<1>3. CASE pc' = pc
  BY <1>2, <1>3, IdleSound
<1>4. CASE pc' # pc
  <2>1. OnDecryptPre(MaterialsNewKey) /\ dataKey' = MaterialsNewKey /\ pc' = "kmsDec"
    BY <1>1, <1>4, Zenon DEF OnDecryptEntry
  <2> QED
    BY <2>1 DEF OnDecryptPre, SoundPart
<1> QED
  BY <1>3, <1>4

(* GenerateDataKey: the generator's EDK wraps the key it returns, and the *)
(* copy for the Encrypt calls is taken from that key.                     *)
LEMMA GenerateDataKeySound ==
  ASSUME RefInv, GenerateDataKey, UNCHANGED cmmVars PROVE SoundPart'
<1>1. /\ pc = "kmsGen" /\ edks = <<>> /\ alg = cmmAlg
      /\ UNCHANGED <<alg, encCtx, edks, cmmAlg>>
  BY DEF GenerateDataKey, RefInv, SoundPart, cmmVars
<1>2. CASE rv' = "KmsFailure" /\ pc' = "encRet"
  BY <1>1, <1>2 DEF SoundPart
<1>3. CASE ~<1>2!1
  <2>1. PICK k \in DataKeys :
          /\ tmpEdks' = <<KmsEdk(KeyIds[1], encCtx,
                                 [buf |-> TRUE, len |-> DataKeyLen(alg), val |-> k])>>
          /\ dataKey' = [buf |-> TRUE, len |-> DataKeyLen(alg), val |-> k]
          /\ dkCopy' = [len |-> DataKeyLen(alg), val |-> k]
          /\ pc' = "kmsEnc"
    BY <1>3, Zenon DEF GenerateDataKey
  <2>2. KeyIds[1] \in Arns \cup Aliases
    BY DEF KmsAssumption
  <2>3. KmsWraps(KmsEdk(KeyIds[1], encCtx,
                        [buf |-> TRUE, len |-> DataKeyLen(alg), val |-> k]),
                 encCtx, [buf |-> TRUE, len |-> DataKeyLen(alg), val |-> k])
    BY <2>2, KmsEdkWraps
  <2>4. \A i \in DOMAIN tmpEdks' : KmsWraps(tmpEdks'[i], encCtx', dataKey')
    BY <1>1, <2>1, <2>3
  <2>5. dkCopy'.len = dataKey'.len /\ dkCopy'.val = dataKey'.val
    BY <2>1
  <2> QED
    BY <1>1, <2>1, <2>4, <2>5 DEF SoundPart
<1> QED
  BY <1>2, <1>3

(* An iteration of the key_ids loop appends a wrap of the copy, which is *)
(* the materials' key, or fails.                                         *)
LEMMA EncryptStepSound ==
  ASSUME RefInv, EncryptStep, UNCHANGED cmmVars PROVE SoundPart'
<1>1. /\ pc = "kmsEnc" /\ idx \in 1..Len(KeyIds) /\ edks = <<>> /\ alg = cmmAlg
      /\ dkCopy.len = dataKey.len /\ dkCopy.val = dataKey.val
      /\ \A i \in DOMAIN tmpEdks : KmsWraps(tmpEdks[i], encCtx, dataKey)
      /\ UNCHANGED <<alg, encCtx, edks, dkCopy, cmmAlg>>
  BY DEF EncryptStep, RefInv, TypeInv, TypeOK, SoundPart, cmmVars
<1>2. CASE UNCHANGED <<pc, dataKey, tmpEdks>>
  BY <1>1, <1>2 DEF SoundPart
<1>3. CASE /\ tmpEdks' = Append(tmpEdks, KmsEdk(KeyIds[idx], encCtx, dkCopy))
           /\ UNCHANGED <<pc, dataKey>>
  <2>1. tmpEdks \in Seq(Edks)
    BY DEF RefInv, TypeInv, TypeOK
  <2>2. KmsWraps(KmsEdk(KeyIds[idx], encCtx, dkCopy), encCtx, dataKey)
    BY <1>1, KmsEdkWraps DEF KmsAssumption
  <2>3. \A i \in DOMAIN tmpEdks' : KmsWraps(tmpEdks'[i], encCtx, dataKey)
    BY <1>1, <1>3, <2>1, <2>2
  <2> QED
    BY <1>1, <1>3, <2>3 DEF SoundPart
<1>4. CASE rv' = "KmsFailure" /\ pc' = "encRet"
  BY <1>1, <1>4 DEF SoundPart
<1> QED
  BY <1>2, <1>3, <1>4, Zenon DEF EncryptStep

(* The end of the loop moves the collected wraps into the empty list. *)
LEMMA EncryptDoneSound ==
  ASSUME RefInv, EncryptDone, UNCHANGED cmmVars PROVE SoundPart'
<1>1. /\ pc = "kmsEnc" /\ pc' = "encRet" /\ rv' = "ok" /\ edks = <<>>
      /\ edks' = edks \o tmpEdks /\ alg = cmmAlg
      /\ \A i \in DOMAIN tmpEdks : KmsWraps(tmpEdks[i], encCtx, dataKey)
      /\ UNCHANGED <<alg, encCtx, dataKey, cmmAlg>>
  BY DEF EncryptDone, RefInv, SoundPart, cmmVars
<1>2. edks' = tmpEdks
  BY <1>1 DEF RefInv, TypeInv, TypeOK
<1> QED
  BY <1>1, <1>2 DEF SoundPart

(* An iteration over the candidates takes a key only from an EDK that     *)
(* opens to it: eligible, decrypted under the context, and answered with  *)
(* the CMK its provider info names.                                       *)
LEMMA DecryptStepSound ==
  ASSUME RefInv, DecryptStep, UNCHANGED cmmVars PROVE SoundPart'
<1>1. /\ pc = "kmsDec" /\ ~dataKey.buf /\ idx \in 1..Len(inEdks)
      /\ UNCHANGED <<encCtx, inEdks>>
  BY DEF DecryptStep, RefInv, TypeInv, TypeOK, SoundPart
<1>2. inEdks[idx] \in Edks
  BY <1>1 DEF RefInv, TypeInv, TypeOK
<1>3. CASE UNCHANGED <<pc, dataKey>>
  BY <1>1, <1>3 DEF SoundPart
<1>4. CASE /\ Eligible(inEdks[idx]) /\ KmsDecrypts(inEdks[idx].blob, encCtx)
           /\ inEdks[idx].blob.cmk = inEdks[idx].provider_info
           /\ dataKey' = [buf |-> TRUE, len |-> inEdks[idx].blob.len,
                          val |-> inEdks[idx].blob.key]
           /\ pc' = "decRet"
  <2>1. KmsOpens(inEdks[idx], encCtx, dataKey')
    BY <1>2, <1>4 DEF KmsOpens, KmsDecrypts, Edks, Blobs
  <2> QED
    BY <1>1, <1>4, <2>1 DEF SoundPart
<1> QED
  BY <1>3, <1>4, Zenon DEF DecryptStep

(* No candidate opened: the call returns without a key. *)
LEMMA DecryptDoneSound ==
  ASSUME RefInv, DecryptDone, UNCHANGED cmmVars PROVE SoundPart'
BY DEF DecryptDone, RefInv, SoundPart, cmmVars

LEMMA NextSound == RefInv /\ [Next]_vars => RefInv'
<1> SUFFICES ASSUME RefInv, [Next]_vars PROVE RefInv'
  OBVIOUS
<1>1. TypeInv'
  BY NextTypeInv DEF RefInv
<1>2. SoundPart'
  <2>1. CASE UNCHANGED vars
    BY <2>1 DEF vars, kvars, cmmVars, RefInv, SoundPart
  <2>2. CASE FinishEncryption \/ FinishDecryption \/ SetAlgId
    <3>1. pc' = "idle"
      BY <2>2 DEF FinishEncryption, FinishDecryption, SetAlgId, kvars
    <3> QED
      BY <3>1, IdleSound
  <2> QED
    BY <2>1, <2>2, GenerateEncryptionMaterialsSound, DecryptMaterialsSound,
       GenerateDataKeySound, EncryptStepSound, EncryptDoneSound,
       DecryptStepSound, DecryptDoneSound, Zenon DEF Next, KeyringStep
<1> QED
  BY <1>1, <1>2 DEF RefInv

-----------------------------------------------------------------------------
(* What DecryptError lets through: a key of the suite's length. *)
LEMMA DecryptErrorOk ==
  DecryptError = "ok" => OnDecryptPost(dataKey, alg) /\ dataKey.buf
BY Zenon DEF DecryptError

=============================================================================
