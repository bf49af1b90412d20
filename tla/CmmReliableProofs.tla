--------------------------- MODULE CmmReliableProofs ---------------------------
(***************************************************************************)
(* Proof that the default CMM over a KMS that answers every call, with     *)
(* every key id a full ARN, decrypts every EDK it produced under the       *)
(* request's context (DecryptsOwnEdks).                                    *)
(***************************************************************************)
EXTENDS CmmSoundnessProofs

USE MaterialsAssumption, AlgsAssumption, KmsAssumption, CmmAssumption

(* The provider info KMS answers with for the keyring's key ids. *)
KeyIdArns == {KeyArn(KeyIds[j]) : j \in DOMAIN KeyIds}

(* Every EDK of the list s was made by KMS for one of the key ids. *)
FromKeyIds(s) == \A i \in DOMAIN s : s[i].provider_info \in KeyIdArns

(* Candidate j is an EDK of an earlier encryption under the request's context. *)
Opened(j) == inEdks[j] \in produced /\ inEdks[j].blob.ctx = encCtx

(***************************************************************************)
(* Every produced EDK is one OnDecrypt sends to KMS and whose blob is the  *)
(* CMK its provider info names; the EDKs an encryption collects are made   *)
(* for the key ids; OnDecrypt has passed over no candidate it could open.  *)
(***************************************************************************)
OwnInv ==
  /\ \A e \in produced : Eligible(e) /\ e.blob.cmk = e.provider_info
  /\ pc = "kmsEnc" => FromKeyIds(tmpEdks)
  /\ pc = "encRet" /\ rv = "ok" => FromKeyIds(edks)
  /\ pc = "kmsDec" => \A j \in 1..(idx - 1) : ~Opened(j)
  /\ pc = "decRet" /\ ~dataKey.buf => \A j \in DOMAIN inEdks : ~Opened(j)

(* The inductive invariant. *)
RInv == SInv /\ OwnInv

(* KMS answers every call, and every key id is a full ARN. *)
Reliable == ~KmsMayFail /\ \A j \in DOMAIN KeyIds : KeyIds[j] \in Arns

-----------------------------------------------------------------------------
(* With full ARNs, KMS answers with the key id itself: the provider info  *)
(* of the keyring's EDKs is one of its key ids.                           *)
LEMMA ArnKeyIds ==
  ASSUME Reliable
  PROVE  /\ KeyIdArns = Range(KeyIds)
         /\ \A a \in KeyIdArns : KeyArn(a) = a
<1>1. \A j \in DOMAIN KeyIds : KeyArn(KeyIds[j]) = KeyIds[j]
  BY DEF Reliable, KeyArn
<1>. QED BY <1>1 DEF KeyIdArns, Range

(* No new produced EDK, no change of control point relevant to OwnInv. *)
LEMMA OwnVoid ==
  ASSUME OwnInv, UNCHANGED produced, pc' \in {"idle", "kmsGen"}
  PROVE  OwnInv'
BY DEF OwnInv

(* generate_encryption_materials starts OnEncrypt with nothing collected. *)
LEMMA GenerateEncryptionMaterialsOwn ==
  ASSUME RInv, GenerateEncryptionMaterials PROVE OwnInv'
<1>1. UNCHANGED produced /\ pc = "idle"
  BY DEF GenerateEncryptionMaterials
<1>2. pc' \in {"idle", "kmsGen", "kmsEnc"} /\ (pc' = "kmsEnc" => tmpEdks' = <<>>)
  <2>1. PICK requested \in {0} \cup Algs, ctx \in Contexts :
          \/ UNCHANGED <<pc, tmpEdks>>
          \/ OnEncryptEntry
    BY Zenon DEF GenerateEncryptionMaterials
  <2>. QED BY <1>1, <2>1 DEF OnEncryptEntry
<1>. QED BY <1>1, <1>2 DEF RInv, OwnInv, FromKeyIds

(* decrypt_materials starts OnDecrypt at the first candidate. *)
LEMMA DecryptMaterialsOwn ==
  ASSUME RInv, DecryptMaterials PROVE OwnInv'
<1>1. UNCHANGED produced /\ pc = "idle"
  BY DEF DecryptMaterials
<1>2. pc' = "idle" \/ (pc' = "kmsDec" /\ idx' = 1)
  <2>1. PICK a \in Algs, ctx \in Contexts, cands \in CandidateLists :
          \/ UNCHANGED pc
          \/ OnDecryptEntry
    BY Zenon DEF DecryptMaterials
  <2>. QED BY <1>1, <2>1 DEF OnDecryptEntry
<1>. QED BY <1>1, <1>2 DEF RInv, OwnInv

(* A successful encryption hands out EDKs of its key ids, each the blob of *)
(* the ARN it names: OnDecrypt takes them all.                            *)
LEMMA FinishEncryptionOwn ==
  ASSUME RInv, Reliable, FinishEncryption PROVE OwnInv'
<1>1. pc = "encRet" /\ pc' = "idle"
  BY DEF FinishEncryption
<1>2. CASE rv = "ok" /\ OnEncryptPost(dataKey, alg)
  <2>1. produced' = produced \cup Range(edks)
    BY <1>2 DEF FinishEncryption
  <2>2. ASSUME NEW i \in DOMAIN edks
        PROVE  Eligible(edks[i]) /\ edks[i].blob.cmk = edks[i].provider_info
    <3>1. edks[i] = KmsEdk(edks[i].provider_info, encCtx, dataKey)
      BY <1>1, <1>2 DEF RInv, SInv, RefInv, SoundPart, KmsWraps
    <3>2. edks[i].provider_info \in KeyIdArns
      BY <1>1, <1>2 DEF RInv, OwnInv, FromKeyIds
    <3>3. KeyArn(edks[i].provider_info) = edks[i].provider_info
          /\ edks[i].provider_info \in Range(KeyIds)
      BY <3>2, ArnKeyIds
    <3>. QED BY <3>1, <3>3 DEF Eligible, KmsEdk
  <2>3. \A e \in produced' : Eligible(e) /\ e.blob.cmk = e.provider_info
    BY <2>1, <2>2 DEF RInv, OwnInv, Range
  <2>. QED BY <1>1, <2>3 DEF OwnInv
<1>3. CASE ~(rv = "ok" /\ OnEncryptPost(dataKey, alg))
  <2>1. UNCHANGED produced
    BY <1>3 DEF FinishEncryption
  <2>. QED BY <1>1, <2>1, OwnVoid DEF RInv
<1>. QED BY <1>2, <1>3

(* OnEncrypt collects only EDKs of its key ids. *)
LEMMA EncryptOwn ==
  ASSUME RInv, GenerateDataKey \/ EncryptStep \/ EncryptDone, UNCHANGED cmmVars
  PROVE  OwnInv'
<1>1. UNCHANGED produced /\ pc \in {"kmsGen", "kmsEnc"}
      /\ pc' \in {"kmsEnc", "encRet"}
  BY DEF GenerateDataKey, EncryptStep, EncryptDone, cmmVars
<1>2. tmpEdks \in Seq(Edks) /\ edks = <<>> /\ (pc = "kmsEnc" => FromKeyIds(tmpEdks))
  BY <1>1 DEF RInv, SInv, RefInv, TypeInv, TypeOK, SoundPart, OwnInv
<1>3. CASE GenerateDataKey
  <2>1. CASE rv' = "KmsFailure" /\ pc' = "encRet"
    BY <1>1, <2>1 DEF RInv, OwnInv
  <2>2. CASE \E k \in DataKeys :
             tmpEdks' = <<KmsEdk(KeyIds[1], encCtx,
                                 [buf |-> TRUE, len |-> DataKeyLen(alg), val |-> k])>>
             /\ pc' = "kmsEnc"
    <3>1. FromKeyIds(tmpEdks')
      <4>1. 1 \in DOMAIN KeyIds
        BY KmsAssumption
      <4>. QED BY <2>2, <4>1 DEF FromKeyIds, KeyIdArns, KmsEdk
    <3>. QED BY <1>1, <2>2, <3>1 DEF RInv, OwnInv
  <2>. QED BY <1>3, <2>1, <2>2 DEF GenerateDataKey
<1>4. CASE EncryptStep
  <2>1. pc = "kmsEnc" /\ idx \in DOMAIN KeyIds
    BY <1>4 DEF EncryptStep, RInv, SInv, RefInv, TypeInv, TypeOK
  <2>2. CASE UNCHANGED <<pc, tmpEdks>>
    BY <1>1, <1>2, <2>1, <2>2 DEF RInv, OwnInv
  <2>3. CASE tmpEdks' = Append(tmpEdks, KmsEdk(KeyIds[idx], encCtx, dkCopy))
             /\ UNCHANGED pc
    <3>1. KmsEdk(KeyIds[idx], encCtx, dkCopy).provider_info \in KeyIdArns
      BY <2>1 DEF KmsEdk, KeyIdArns
    <3>2. FromKeyIds(tmpEdks')
      BY <1>2, <2>1, <2>3, <3>1 DEF FromKeyIds
    <3>. QED BY <1>1, <2>1, <2>3, <3>2 DEF RInv, OwnInv
  <2>4. CASE rv' = "KmsFailure" /\ pc' = "encRet"
    BY <1>1, <2>4 DEF RInv, OwnInv
  <2>. QED BY <1>4, <2>2, <2>3, <2>4 DEF EncryptStep
<1>5. CASE EncryptDone
  <2>1. pc = "kmsEnc" /\ edks' = tmpEdks /\ pc' = "encRet"
    BY <1>2, <1>5 DEF EncryptDone
  <2>. QED BY <1>1, <1>2, <2>1 DEF RInv, OwnInv
<1>. QED BY <1>3, <1>4, <1>5

(***************************************************************************)
(* One turn of OnDecrypt's loop with a reliable KMS: a candidate it passes *)
(* over is not one of this keyring's EDKs under the request's context,     *)
(* because such an EDK is eligible, decrypts, and names its own CMK.       *)
(***************************************************************************)
LEMMA DecryptStepOwn ==
  ASSUME RInv, Reliable, DecryptStep, UNCHANGED cmmVars PROVE OwnInv'
<1>. DEFINE e == inEdks[idx]
<1>1. /\ pc = "kmsDec" /\ idx \in 1..Len(inEdks) /\ UNCHANGED <<produced, inEdks, encCtx>>
      /\ \A j \in 1..(idx - 1) : ~Opened(j)
  BY DEF DecryptStep, cmmVars, RInv, SInv, RefInv, TypeInv, TypeOK, OwnInv
<1>2. Opened(idx) => Eligible(e) /\ e.blob.cmk = e.provider_info
                     /\ KmsDecrypts(e.blob, encCtx)
  BY DEF Opened, RInv, OwnInv, KmsDecrypts
<1>3. CASE idx' = idx + 1 /\ UNCHANGED pc
  <2>1. ~Opened(idx)
    BY <1>2, <1>3, Zenon DEF DecryptStep, Reliable
  <2>2. \A j \in 1..(idx' - 1) : ~Opened(j)'
    BY <1>1, <1>3, <2>1 DEF Opened
  <2>. QED BY <1>1, <1>3, <2>2 DEF RInv, OwnInv
<1>4. CASE pc' = "decRet" /\ dataKey'.buf
  BY <1>1, <1>4 DEF RInv, OwnInv
<1>. QED BY <1>3, <1>4 DEF DecryptStep

(* OnDecrypt ran out of candidates: none of them was openable. *)
LEMMA DecryptDoneOwn ==
  ASSUME RInv, DecryptDone, UNCHANGED cmmVars PROVE OwnInv'
<1>1. /\ pc = "kmsDec" /\ pc' = "decRet" /\ idx > Len(inEdks) /\ idx \in Nat
      /\ UNCHANGED <<produced, inEdks, encCtx, dataKey>>
      /\ \A j \in 1..(idx - 1) : ~Opened(j)
  BY DEF DecryptDone, cmmVars, RInv, SInv, RefInv, TypeInv, TypeOK, OwnInv
<1>2. DOMAIN inEdks \subseteq 1..(idx - 1)
  BY <1>1 DEF RInv, SInv, RefInv, TypeInv, TypeOK
<1>3. \A j \in DOMAIN inEdks : Opened(j)' = Opened(j)
  BY <1>1 DEF Opened
<1>4. \A j \in DOMAIN inEdks : ~Opened(j)'
  BY <1>1, <1>2, <1>3
<1>. QED BY <1>1, <1>4 DEF RInv, OwnInv

LEMMA NextOwn ==
  ASSUME RInv, Reliable, [Next]_vars PROVE OwnInv'
<1>1. CASE GenerateEncryptionMaterials
  BY <1>1, GenerateEncryptionMaterialsOwn
<1>2. CASE FinishEncryption
  BY <1>2, FinishEncryptionOwn
<1>3. CASE DecryptMaterials
  BY <1>3, DecryptMaterialsOwn
<1>4. CASE FinishDecryption \/ SetAlgId
  <2>1. CASE FinishDecryption
    <3>1. UNCHANGED produced /\ pc' = "idle"
      BY <2>1 DEF FinishDecryption
    <3>. QED BY <3>1, OwnVoid DEF RInv
  <2>2. CASE SetAlgId
    <3>1. UNCHANGED produced /\ pc' = "idle"
      BY <2>2 DEF SetAlgId, kvars
    <3>. QED BY <3>1, OwnVoid DEF RInv
  <2>. QED BY <1>4, <2>1, <2>2
<1>5. CASE KeyringStep /\ UNCHANGED cmmVars
  <2>1. CASE GenerateDataKey \/ EncryptStep \/ EncryptDone
    BY <1>5, <2>1, EncryptOwn
  <2>2. CASE DecryptStep
    BY <1>5, <2>2, DecryptStepOwn
  <2>3. CASE DecryptDone
    BY <1>5, <2>3, DecryptDoneOwn
  <2>. QED BY <1>5, <2>1, <2>2, <2>3 DEF KeyringStep
<1>6. CASE UNCHANGED vars
  BY <1>6 DEF RInv, OwnInv, FromKeyIds, Opened, vars, kvars
<1>. QED BY <1>1, <1>2, <1>3, <1>4, <1>5, <1>6 DEF Next

(***************************************************************************)
(* A keyring decrypts what it encrypted: with a KMS that answers every     *)
(* call and key ids that are full ARNs, OnDecrypt returns a data key       *)
(* whenever a candidate is an EDK an earlier encryption produced under the *)
(* request's context. The provider info append_key_dup_to_edks records is *)
(* then a key id (line 77 takes it) and the CMK KMS decrypts with (line 95 *)
(* takes it). With an alias among the key ids the run cmm_alias shows it  *)
(* fails.                                                                  *)
(***************************************************************************)
THEOREM ReliableDecryptsOwn == Reliable => (Spec => []DecryptsOwnEdks)
<1>. SUFFICES ASSUME Reliable PROVE Spec => []DecryptsOwnEdks
  OBVIOUS
<1>1. Init => RInv
  BY InitSInv DEF Init, RInv, OwnInv
<1>2. RInv /\ [Next]_vars => RInv'
  BY NextSInv, NextOwn DEF RInv
<1>3. RInv => DecryptsOwnEdks
  BY DEF RInv, OwnInv, Opened, DecryptsOwnEdks
<1>. QED BY <1>1, <1>2, <1>3, PTL DEF Spec

=============================================================================
