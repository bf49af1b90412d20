--------------------------- MODULE CmmSoundnessProofs ---------------------------
(***************************************************************************)
(* Proof that every encryption materials object the default CMM returns is *)
(* sound (EncMaterialsSound) and every decryption key it returns is        *)
(* authentic (DecryptAuthentic), for every value of the constants.         *)
(***************************************************************************)
EXTENDS CmmSoundPartProofs

USE MaterialsAssumption, AlgsAssumption, KmsAssumption, CmmAssumption

(* The EDK list s holds an EDK that KMS made for key id id. *)
Has(s, id) == \E i \in DOMAIN s : s[i].provider_info = KeyArn(id)

(***************************************************************************)
(* What the key_ids loop of OnEncrypt keeps true: the generator's EDK is   *)
(* collected once GenerateDataKey succeeded, and every key id before the   *)
(* loop index has an EDK (the generator's own, when the loop skips it);    *)
(* on success the transferred list covers every key id.                    *)
(***************************************************************************)
Covered ==
  /\ pc = "kmsGen" => idx = 1
  /\ pc = "kmsEnc" =>
       /\ generated => Has(tmpEdks, KeyIds[1])
       /\ \A j \in 1..(idx - 1) : Has(tmpEdks, KeyIds[j])
  /\ pc = "encRet" /\ rv = "ok" => \A j \in DOMAIN KeyIds : Has(edks, KeyIds[j])

(* The inductive invariant. *)
SInv == RefInv /\ Covered /\ EncMaterialsSound /\ DecryptAuthentic

(* The materials the last call returned: what EncMaterialsSound and        *)
(* DecryptAuthentic read.                                                  *)
ResultSound == EncMaterialsSound /\ DecryptAuthentic

-----------------------------------------------------------------------------
(* Appending to an EDK list keeps the EDKs it had. *)
LEMMA HasAppend ==
  ASSUME NEW S, NEW s \in Seq(S), NEW e, NEW id
  PROVE  /\ Has(s, id) => Has(Append(s, e), id)
         /\ e.provider_info = KeyArn(id) => Has(Append(s, e), id)
<1>1. ASSUME Has(s, id) PROVE Has(Append(s, e), id)
  <2>1. PICK i \in DOMAIN s : s[i].provider_info = KeyArn(id)
    BY <1>1 DEF Has
  <2>. QED BY <2>1 DEF Has
<1>2. ASSUME e.provider_info = KeyArn(id) PROVE Has(Append(s, e), id)
  <2>1. Len(s) + 1 \in DOMAIN Append(s, e) /\ Append(s, e)[Len(s) + 1] = e
    OBVIOUS
  <2>. QED BY <1>2, <2>1 DEF Has
<1>. QED BY <1>1, <1>2

(* A step that leaves the result alone keeps it sound. *)
LEMMA ResultKept ==
  ASSUME ResultSound, UNCHANGED result PROVE ResultSound'
BY DEF ResultSound, EncMaterialsSound, DecryptAuthentic

(* A call that fails before the keyring returns no materials. *)
LEMMA FailedSound ==
  ASSUME NEW op \in {"enc", "dec"}, NEW err, err # "ok", result' = Failed(op, err)
  PROVE  ResultSound'
BY DEF ResultSound, EncMaterialsSound, DecryptAuthentic, Failed

(* With no call in flight, or with none about to return, Covered is void. *)
LEMMA CoveredVoid ==
  ASSUME pc' \in {"idle", "kmsDec", "decRet"} PROVE Covered'
BY DEF Covered

-----------------------------------------------------------------------------
(* generate_encryption_materials fails with no materials, or starts      *)
(* OnEncrypt at the head of key_ids with nothing collected yet.          *)
LEMMA GenerateEncryptionMaterialsSInv ==
  ASSUME SInv, GenerateEncryptionMaterials PROVE Covered' /\ ResultSound'
<1>1. PICK requested \in {0} \cup Algs, ctx \in Contexts :
        /\ encCtx' = ctx
        /\ \/ /\ result' = Failed("enc", "UnsupportedFormat")
              /\ UNCHANGED pc
           \/ /\ result' = Failed("enc", "OutOfMemory")
              /\ UNCHANGED pc
           \/ IF OnEncryptPre(MaterialsNewKey, <<>>, cmmAlg)
              THEN /\ OnEncryptEntry
                   /\ UNCHANGED result
              ELSE /\ result' = Failed("enc", "BadState")
                   /\ UNCHANGED pc
  BY Zenon DEF GenerateEncryptionMaterials
<1>2. pc = "idle" /\ ResultSound
  BY DEF GenerateEncryptionMaterials, SInv, ResultSound
<1>3. CASE pc' = pc
  <2>1. result' = Failed("enc", "UnsupportedFormat")
        \/ result' = Failed("enc", "OutOfMemory")
        \/ result' = Failed("enc", "BadState")
    BY <1>1, <1>2, <1>3 DEF OnEncryptEntry
  <2>. QED BY <1>2, <1>3, <2>1, FailedSound, CoveredVoid
<1>4. CASE pc' # pc
  <2>1. OnEncryptEntry /\ UNCHANGED result
    BY <1>1, <1>4, Zenon
  <2>2. Covered'
    BY <2>1 DEF OnEncryptEntry, Covered
  <2>. QED BY <1>2, <2>1, <2>2, ResultKept
<1>. QED BY <1>3, <1>4

(* decrypt_materials fails with no materials or starts OnDecrypt. *)
LEMMA DecryptMaterialsSInv ==
  ASSUME SInv, DecryptMaterials PROVE Covered' /\ ResultSound'
<1>1. PICK a \in Algs, ctx \in Contexts, cands \in CandidateLists :
        \/ result' = Failed("dec", "OutOfMemory") /\ UNCHANGED pc
        \/ IF OnDecryptPre(MaterialsNewKey)
           THEN OnDecryptEntry /\ UNCHANGED result
           ELSE result' = Failed("dec", "BadState") /\ UNCHANGED pc
  BY Zenon DEF DecryptMaterials
<1>2. pc = "idle" /\ ResultSound
  BY DEF DecryptMaterials, SInv, ResultSound
<1>3. pc' \in {"idle", "kmsDec"}
  BY <1>1, <1>2 DEF OnDecryptEntry
<1>4. ResultSound'
  <2>1. CASE UNCHANGED result
    BY <1>2, <2>1, ResultKept
  <2>2. CASE result' = Failed("dec", "OutOfMemory") \/ result' = Failed("dec", "BadState")
    BY <2>2, FailedSound
  <2>. QED BY <1>1, <2>1, <2>2
<1>. QED BY <1>3, <1>4, CoveredVoid

(* generate_encryption_materials hands out the keyring's materials: the  *)
(* key passed the postcondition, every EDK wraps it (SoundPart) and      *)
(* every key id has one (Covered).                                       *)
LEMMA FinishEncryptionSInv ==
  ASSUME SInv, FinishEncryption PROVE Covered' /\ ResultSound'
<1>1. pc = "encRet" /\ pc' = "idle"
  BY DEF FinishEncryption
<1>2. CASE rv = "ok" /\ OnEncryptPost(dataKey, alg)
  <2>1. result' = [op |-> "enc", err |-> "ok", alg |-> alg, ctx |-> encCtx,
                   key |-> dataKey, edks |-> edks]
    BY <1>2 DEF FinishEncryption
  <2>2. \A i \in DOMAIN edks : edks[i] = KmsEdk(edks[i].provider_info, encCtx, dataKey)
    BY <1>1, <1>2 DEF SInv, RefInv, SoundPart, KmsWraps
  <2>3. \A id \in Range(KeyIds) :
          \E i \in DOMAIN edks : edks[i].provider_info = KeyArn(id)
    BY <1>1, <1>2 DEF SInv, Covered, Has, Range
  <2>4. EncMaterialsSound'
    BY <1>2, <2>1, <2>2, <2>3 DEF EncMaterialsSound, OnEncryptPost
  <2>5. DecryptAuthentic'
    BY <2>1 DEF DecryptAuthentic
  <2>. QED BY <1>1, <2>4, <2>5, CoveredVoid DEF ResultSound
<1>3. CASE ~(rv = "ok" /\ OnEncryptPost(dataKey, alg))
  <2>1. result' = [op |-> "enc", err |-> IF rv = "ok" THEN "BadState" ELSE rv,
                   alg |-> alg, ctx |-> encCtx, key |-> NoBuf, edks |-> <<>>]
    BY <1>3 DEF FinishEncryption
  <2>2. result'.err # "ok" /\ result'.op = "enc"
    BY <2>1
  <2>. QED BY <1>1, <2>2, CoveredVoid
       DEF ResultSound, EncMaterialsSound, DecryptAuthentic
<1>. QED BY <1>2, <1>3

(* decrypt_materials hands out a key only when a candidate opens to it. *)
LEMMA FinishDecryptionSInv ==
  ASSUME SInv, FinishDecryption PROVE Covered' /\ ResultSound'
<1>1. pc = "decRet" /\ pc' = "idle"
  BY DEF FinishDecryption
<1>2. CASE DecryptError = "ok"
  <2>1. result' = [op |-> "dec", err |-> "ok", alg |-> alg, ctx |-> encCtx,
                   key |-> dataKey, edks |-> inEdks]
    BY <1>2 DEF FinishDecryption
  <2>2. OnDecryptPost(dataKey, alg) /\ dataKey.buf
    BY <1>2, DecryptErrorOk
  <2>3. \E i \in DOMAIN inEdks : KmsOpens(inEdks[i], encCtx, dataKey)
    BY <1>1, <2>2 DEF SInv, RefInv, SoundPart
  <2>4. DecryptAuthentic'
    BY <2>1, <2>2, <2>3 DEF DecryptAuthentic, KmsOpens, OnDecryptPost
  <2>5. EncMaterialsSound'
    BY <2>1 DEF EncMaterialsSound
  <2>. QED BY <1>1, <2>4, <2>5, CoveredVoid DEF ResultSound
<1>3. CASE DecryptError # "ok"
  <2>1. result' = [op |-> "dec", err |-> DecryptError, alg |-> alg,
                   ctx |-> encCtx, key |-> NoBuf, edks |-> <<>>]
    BY <1>3 DEF FinishDecryption
  <2>. QED BY <1>1, <1>3, <2>1, CoveredVoid
       DEF ResultSound, EncMaterialsSound, DecryptAuthentic
<1>. QED BY <1>2, <1>3

(* set_alg_id returns no materials. *)
LEMMA SetAlgIdSInv ==
  ASSUME SInv, SetAlgId PROVE Covered' /\ ResultSound'
<1>1. pc = "idle" /\ pc' = "idle" /\ result \in Results
  BY DEF SetAlgId, SInv, RefInv, TypeInv, TypeOK, kvars
<1>2. result'.op = "setAlg"
  BY <1>1 DEF SetAlgId, Results
<1>. QED BY <1>1, <1>2, CoveredVoid
     DEF ResultSound, EncMaterialsSound, DecryptAuthentic

-----------------------------------------------------------------------------
(* GenerateDataKey: the generator's EDK opens the collected list. *)
LEMMA GenerateDataKeyCovered ==
  ASSUME SInv, GenerateDataKey PROVE Covered'
<1>1. pc = "kmsGen" /\ idx = 1
  BY DEF GenerateDataKey, SInv, Covered
<1>2. CASE rv' = "KmsFailure" /\ pc' = "encRet"
  BY <1>2 DEF Covered
<1>3. CASE \E k \in DataKeys :
             /\ tmpEdks' = <<KmsEdk(KeyIds[1], encCtx,
                                    [buf |-> TRUE, len |-> DataKeyLen(alg), val |-> k])>>
             /\ pc' = "kmsEnc" /\ idx' = idx
  <2>1. PICK k \in DataKeys :
             /\ tmpEdks' = <<KmsEdk(KeyIds[1], encCtx,
                                    [buf |-> TRUE, len |-> DataKeyLen(alg), val |-> k])>>
             /\ pc' = "kmsEnc" /\ idx' = idx
    BY <1>3
  <2>2. Has(tmpEdks, KeyIds[1])'
    BY <2>1 DEF Has, KmsEdk
  <2>. QED BY <1>1, <2>1, <2>2 DEF Covered
<1>. QED BY <1>2, <1>3 DEF GenerateDataKey

(* One turn of the key_ids loop: the key id at the index gets its EDK,   *)
(* or is the generator and already has one, or the call aborts.          *)
LEMMA EncryptStepCovered ==
  ASSUME SInv, EncryptStep PROVE Covered'
<1>1. /\ pc = "kmsEnc" /\ idx \in 1..Len(KeyIds)
      /\ tmpEdks \in Seq(Edks) /\ UNCHANGED generated
      /\ generated => Has(tmpEdks, KeyIds[1])
      /\ \A j \in 1..(idx - 1) : Has(tmpEdks, KeyIds[j])
  BY DEF EncryptStep, SInv, RefInv, TypeInv, TypeOK, Covered
<1>2. CASE SkipsKey(idx) /\ idx' = idx + 1 /\ UNCHANGED <<pc, tmpEdks>>
  <2>1. Has(tmpEdks, KeyIds[idx])
    BY <1>1, <1>2 DEF SkipsKey
  <2>2. \A j \in 1..(idx' - 1) : Has(tmpEdks, KeyIds[j])
    BY <1>1, <1>2, <2>1
  <2>. QED BY <1>1, <1>2, <2>2 DEF Covered
<1>3. CASE tmpEdks' = Append(tmpEdks, KmsEdk(KeyIds[idx], encCtx, dkCopy))
           /\ idx' = idx + 1 /\ UNCHANGED pc
  <2>. DEFINE e == KmsEdk(KeyIds[idx], encCtx, dkCopy)
  <2>1. e.provider_info = KeyArn(KeyIds[idx])
    BY DEF KmsEdk
  <2>2. \A j \in 1..idx : Has(Append(tmpEdks, e), KeyIds[j])
    BY <1>1, <2>1, HasAppend
  <2>3. generated => Has(Append(tmpEdks, e), KeyIds[1])
    BY <1>1, HasAppend
  <2>. QED BY <1>1, <1>3, <2>2, <2>3 DEF Covered
<1>4. CASE rv' = "KmsFailure" /\ pc' = "encRet"
  BY <1>4 DEF Covered
<1>. QED BY <1>2, <1>3, <1>4 DEF EncryptStep

(* The loop is done: the transferred list covers all of key_ids. *)
LEMMA EncryptDoneCovered ==
  ASSUME SInv, EncryptDone PROVE Covered'
<1>1. /\ pc = "kmsEnc" /\ idx > Len(KeyIds) /\ idx \in Nat
      /\ edks = <<>> /\ tmpEdks \in Seq(Edks)
      /\ edks' = edks \o tmpEdks /\ pc' = "encRet"
      /\ \A j \in 1..(idx - 1) : Has(tmpEdks, KeyIds[j])
  BY DEF EncryptDone, SInv, RefInv, TypeInv, TypeOK, SoundPart, Covered
<1>2. edks' = tmpEdks
  BY <1>1
<1>3. \A j \in DOMAIN KeyIds : Has(tmpEdks, KeyIds[j])
  BY <1>1, KmsAssumption
<1>. QED BY <1>1, <1>2, <1>3 DEF Covered, Has

(* OnDecrypt's steps stay away from the encryption control points. *)
LEMMA DecryptStepsCovered ==
  ASSUME DecryptStep \/ DecryptDone PROVE Covered'
<1>1. pc' \in {"kmsDec", "decRet"}
  BY DEF DecryptStep, DecryptDone
<1>. QED BY <1>1, CoveredVoid

-----------------------------------------------------------------------------
LEMMA InitSInv == Init => SInv
<1>. SUFFICES ASSUME Init PROVE SInv
  OBVIOUS
<1>1. RefInv
  BY InitTypeInv, InitSound DEF RefInv
<1>2. Covered /\ ResultSound
  BY DEF Init, Covered, ResultSound, EncMaterialsSound, DecryptAuthentic
<1>. QED BY <1>1, <1>2 DEF SInv, ResultSound

LEMMA NextSInv == SInv /\ [Next]_vars => SInv'
<1>. SUFFICES ASSUME SInv, [Next]_vars PROVE SInv'
  OBVIOUS
<1>1. RefInv'
  BY NextSound DEF SInv
<1>2. Covered' /\ ResultSound'
  <2>1. CASE GenerateEncryptionMaterials
    BY <2>1, GenerateEncryptionMaterialsSInv
  <2>2. CASE FinishEncryption
    BY <2>2, FinishEncryptionSInv
  <2>3. CASE DecryptMaterials
    BY <2>3, DecryptMaterialsSInv
  <2>4. CASE FinishDecryption
    BY <2>4, FinishDecryptionSInv
  <2>5. CASE SetAlgId
    BY <2>5, SetAlgIdSInv
  <2>6. CASE KeyringStep /\ UNCHANGED cmmVars
    <3>1. ResultSound'
      BY <2>6, ResultKept DEF SInv, ResultSound, cmmVars
    <3>2. Covered'
      BY <2>6, GenerateDataKeyCovered, EncryptStepCovered, EncryptDoneCovered,
         DecryptStepsCovered DEF KeyringStep
    <3>. QED BY <3>1, <3>2
  <2>7. CASE UNCHANGED vars
    BY <2>7 DEF SInv, vars, kvars, Covered, Has, ResultSound, EncMaterialsSound,
       DecryptAuthentic
  <2>. QED BY <2>1, <2>2, <2>3, <2>4, <2>5, <2>6, <2>7 DEF Next
<1>. QED BY <1>1, <1>2 DEF SInv, ResultSound

(***************************************************************************)
(* The materials the default CMM hands out are sound, for every value of   *)
(* the constants: encryption materials carry a key of the suite's length,  *)
(* every EDK wraps exactly that key under the request's context and every  *)
(* CMK of key_ids has one (OnEncrypt's copy, generator skip and loop       *)
(* bounds, kms_keyring.cpp 146-216); a decryption key has the suite's      *)
(* length and was unwrapped from a candidate of key_ids whose blob belongs *)
(* to the CMK it names (OnDecrypt's filters and key id check, 71-105, and  *)
(* decrypt_materials' checks, default_cmm.c 62-101).                       *)
(***************************************************************************)
THEOREM MaterialsSound == Spec => [](EncMaterialsSound /\ DecryptAuthentic)
<1>1. Init => SInv
  BY InitSInv
<1>2. SInv /\ [Next]_vars => SInv'
  BY NextSInv
<1>3. SInv => EncMaterialsSound /\ DecryptAuthentic
  BY DEF SInv
<1>. QED BY <1>1, <1>2, <1>3, PTL DEF Spec


(***************************************************************************)
(* A data key that decryption returns has the suite's length and is one   *)
(* KMS unwrapped, under the request's context, from a candidate EDK of a   *)
(* CMK of key_ids (kms_keyring.cpp OnDecrypt, default_cmm.c               *)
(* decrypt_materials), whatever KMS answers and whatever key ids, aliases  *)
(* included, the keyring holds.                                            *)
(***************************************************************************)
THEOREM DecryptAuthenticHolds == Spec => []DecryptAuthentic
BY MaterialsSound, PTL

=============================================================================
