--------------------------- MODULE DefaultCmmProofs ---------------------------
(***************************************************************************)
(* Proofs about the default CMM over the KMS keyring, for every value of  *)
(* the constants that the modules' assumptions admit.                     *)
(***************************************************************************)
EXTENDS DefaultCmm, TLAPS

USE MaterialsAssumption, AlgsAssumption, KmsAssumption, CmmAssumption

(* Every suite of the catalog has an AES key length of 16, 24 or 32 bytes. *)
LEMMA DataKeyLenType == \A a \in Int : DataKeyLen(a) \in KeyLens
BY DEF DataKeyLen, KeyLens

(* The EDK append_key_dup_to_edks builds for an ARN or alias is an EDK: *)
(* KMS answers with the ARN.                                             *)
LEMMA KmsEdkType ==
  ASSUME NEW id \in Arns \cup Aliases, NEW ctx \in Contexts,
         NEW key, key.len \in 0..32, key.val \in DataKeys \cup {NoKey}
  PROVE  KmsEdk(id, ctx, key) \in Edks
<1>1. KeyArn(id) \in Arns
  BY KmsAssumption DEF KeyArn
<1> QED
  BY <1>1 DEF KmsEdk, Edks, Blobs

(* Releasing the key copy leaves only data keys in released memory. *)
LEMMA KeyCopyReleaseType ==
  ASSUME NEW c \in [len : 0..32, val : DataKeys \cup {NoKey}],
         NEW res \in SUBSET DataKeys
  PROVE  KeyCopyReleaseResidue(c, res) \subseteq DataKeys
BY DEF KeyCopyReleaseResidue

(* The unset buffer, and the one materials_new leaves, are key buffers. *)
LEMMA MaterialsNewKeyType ==
  /\ NoBuf \in DataKeyBufs /\ NoBuf.val = NoKey /\ NoBuf.len = 0
  /\ MaterialsNewKey \in DataKeyBufs /\ MaterialsNewKey.val = NoKey
  /\ MaterialsNewKey.len = 0
<1>1. NoBuf \in DataKeyBufs /\ NoBuf.val = NoKey /\ NoBuf.len = 0
  BY DEF NoBuf, DataKeyBufs
<1>2. CASE PreallocDataKey
  <2>1. MaterialsNewKey = [buf |-> TRUE, len |-> 0, val |-> NoKey]
    BY <1>2, Zenon DEF MaterialsNewKey
  <2> QED
    BY <1>1, <2>1 DEF DataKeyBufs
<1>3. CASE ~PreallocDataKey
  BY <1>1, <1>3, Zenon DEF MaterialsNewKey
<1> QED
  BY <1>1, <1>2, <1>3

(* The result of a call that failed before building materials. *)
LEMMA FailedType ==
  ASSUME NEW op \in {"enc", "dec"}, NEW err \in Errors,
         alg' \in AlgIds, encCtx' \in Contexts
  PROVE  Failed(op, err) \in Results
BY MaterialsNewKeyType DEF Failed, Results

(***************************************************************************)
(* TypeOK strengthened by what ByteBufCleanUpResidue needs: while the      *)
(* key_ids loop runs after GenerateDataKey, the data-key buffer holds a    *)
(* generated key, so a failed Encrypt leaves a key, never NoKey, behind.   *)
(***************************************************************************)
TypeInv ==
  /\ TypeOK
  /\ pc = "kmsEnc" /\ generated => dataKey.val \in DataKeys

(* The SMT encoding needs Boolean-valued variables typed by Zenon first. *)
LEMMA InitTypeInv == Init => TypeInv
<1> SUFFICES ASSUME Init PROVE TypeInv
  OBVIOUS
<1>1. generated \in BOOLEAN
  BY Zenon DEF Init
<1> QED
  BY <1>1 DEF Init, TypeInv, TypeOK, NoBuf, DataKeyBufs, Results, DefaultAlg,
              AlgIds, Errors

(* generate_encryption_materials keeps the types. *)
LEMMA GenerateEncryptionMaterialsType ==
  ASSUME TypeInv, GenerateEncryptionMaterials PROVE TypeInv'
<1>1. PICK requested \in {0} \cup Algs, ctx \in Contexts :
        /\ encCtx' = ctx
        /\ \/ /\ requested \notin {0, cmmAlg} /\ alg' = requested
              /\ result' = Failed("enc", "UnsupportedFormat")
              /\ UNCHANGED <<pc, dataKey, edks, tmpEdks, idx, generated, dkCopy>>
           \/ /\ requested \in {0, cmmAlg} /\ alg' = cmmAlg
              /\ result' = Failed("enc", "OutOfMemory")
              /\ UNCHANGED <<pc, dataKey, edks, tmpEdks, idx, generated, dkCopy>>
           \/ /\ requested \in {0, cmmAlg} /\ alg' = cmmAlg
              /\ IF OnEncryptPre(MaterialsNewKey, <<>>, cmmAlg)
                 THEN /\ dataKey' = MaterialsNewKey /\ edks' = <<>>
                      /\ OnEncryptEntry
                      /\ UNCHANGED result
                 ELSE /\ result' = Failed("enc", "BadState")
                      /\ UNCHANGED <<pc, dataKey, edks, tmpEdks, idx, generated,
                                     dkCopy>>
  BY Zenon DEF GenerateEncryptionMaterials
<1>2. /\ ops' \in 0..MaxOps
      /\ UNCHANGED <<inEdks, rv, residue, copyResidue, cmmAlg, produced>>
  BY DEF GenerateEncryptionMaterials, TypeInv, TypeOK
<1>3. cmmAlg \in AlgIds /\ encCtx' \in Contexts
  BY <1>1, Zenon DEF TypeInv, TypeOK
<1>4. CASE requested \notin {0, cmmAlg}
  <2>1. /\ alg' = requested /\ result' = Failed("enc", "UnsupportedFormat")
        /\ UNCHANGED <<pc, dataKey, edks, tmpEdks, idx, generated, dkCopy>>
    BY <1>1, <1>4, Zenon
  <2>2. alg' \in AlgIds
    BY <1>1, <2>1, <1>4
  <2>3. result' \in Results
    BY <1>3, <2>1, <2>2, FailedType DEF Errors
  <2> QED
    BY <1>2, <1>3, <2>1, <2>2, <2>3, Zenon DEF TypeInv, TypeOK
<1>5. CASE requested \in {0, cmmAlg}
  <2>1. alg' = cmmAlg /\ alg' \in AlgIds
    BY <1>1, <1>3, <1>5, Zenon
  <2>2. CASE /\ result' = Failed("enc", "OutOfMemory")
             /\ UNCHANGED <<pc, dataKey, edks, tmpEdks, idx, generated, dkCopy>>
    <3>1. result' \in Results
      BY <1>3, <2>1, <2>2, FailedType DEF Errors
    <3> QED
      BY <1>2, <1>3, <2>1, <2>2, <3>1, Zenon DEF TypeInv, TypeOK
  <2>3. CASE ~OnEncryptPre(MaterialsNewKey, <<>>, cmmAlg) /\ ~<2>2!1
    <3>1. /\ result' = Failed("enc", "BadState")
          /\ UNCHANGED <<pc, dataKey, edks, tmpEdks, idx, generated, dkCopy>>
      BY <1>1, <1>5, <2>3, Zenon
    <3>2. result' \in Results
      BY <1>3, <2>1, <3>1, FailedType DEF Errors
    <3> QED
      BY <1>2, <1>3, <2>1, <3>1, <3>2, Zenon DEF TypeInv, TypeOK
  <2>4. CASE OnEncryptPre(MaterialsNewKey, <<>>, cmmAlg) /\ ~<2>2!1
    <3>1. dataKey' = MaterialsNewKey /\ edks' = <<>> /\ OnEncryptEntry
          /\ UNCHANGED result
      BY <1>1, <1>5, <2>4, Zenon
    <3>2. /\ generated' = FALSE /\ tmpEdks' = <<>> /\ idx' = 1
          /\ pc' \in {"kmsEnc", "kmsGen"}
          /\ dkCopy' = [len |-> 0, val |-> NoKey]
      BY <3>1, MaterialsNewKeyType DEF OnEncryptEntry
    <3>3. dkCopy' \in [len : 0..32, val : DataKeys \cup {NoKey}]
      BY <3>2
    <3>4. generated' \in BOOLEAN
      BY <3>2, Zenon
    <3> QED
      BY <1>2, <1>3, <2>1, <3>1, <3>2, <3>3, <3>4, MaterialsNewKeyType
      DEF TypeInv, TypeOK
  <2> QED
    BY <2>2, <2>3, <2>4
<1> QED
  BY <1>4, <1>5

(* The CMM hands out, or destroys, the encryption materials. *)
LEMMA FinishEncryptionType ==
  ASSUME TypeInv, FinishEncryption PROVE TypeInv'
<1>1. /\ pc' = "idle" /\ dataKey' = NoBuf /\ edks' = <<>>
      /\ UNCHANGED <<alg, encCtx, inEdks, tmpEdks, idx, generated, dkCopy, rv,
                     copyResidue, cmmAlg, ops>>
  BY DEF FinishEncryption
<1>2. residue' = residue
  BY DEF FinishEncryption, MaterialsDestroyResidue
<1>3. edks \in Seq(Edks) /\ dataKey \in DataKeyBufs /\ produced \subseteq Edks
      /\ alg \in AlgIds /\ encCtx \in Contexts /\ rv \in Errors
  BY DEF TypeInv, TypeOK
<1>4. CASE rv = "ok" /\ OnEncryptPost(dataKey, alg)
  <2>1. /\ result' = [op |-> "enc", err |-> "ok", alg |-> alg, ctx |-> encCtx,
                      key |-> dataKey, edks |-> edks]
        /\ produced' = produced \cup Range(edks)
    BY <1>4 DEF FinishEncryption
  <2>2. Range(edks) \subseteq Edks
    BY <1>3 DEF Range
  <2>3. result' \in Results /\ produced' \subseteq Edks
    BY <1>3, <2>1, <2>2 DEF Results, Errors
  <2> QED
    BY <1>1, <1>2, <2>3, MaterialsNewKeyType DEF TypeInv, TypeOK
<1>5. CASE ~(rv = "ok" /\ OnEncryptPost(dataKey, alg))
  <2>1. /\ result' = [op |-> "enc", err |-> IF rv = "ok" THEN "BadState" ELSE rv,
                      alg |-> alg, ctx |-> encCtx, key |-> NoBuf, edks |-> <<>>]
        /\ produced' = produced
    BY <1>5 DEF FinishEncryption
  <2>2. result' \in Results
    BY <1>3, <2>1, MaterialsNewKeyType DEF Results, Errors
  <2> QED
    BY <1>1, <1>2, <1>3, <2>1, <2>2, MaterialsNewKeyType DEF TypeInv, TypeOK
<1> QED
  BY <1>4, <1>5

(* Every decryption request lists EDKs. *)
LEMMA CandidateListsType ==
  ASSUME produced \subseteq Edks PROVE CandidateLists \subseteq Seq(Edks)
BY CmmAssumption DEF CandidateLists

(* decrypt_materials keeps the types. *)
LEMMA DecryptMaterialsType ==
  ASSUME TypeInv, DecryptMaterials PROVE TypeInv'
<1>1. PICK a \in Algs, ctx \in Contexts, cands \in CandidateLists :
        /\ alg' = a /\ encCtx' = ctx /\ inEdks' = cands
        /\ \/ /\ result' = Failed("dec", "OutOfMemory")
              /\ UNCHANGED <<pc, dataKey, idx>>
           \/ IF OnDecryptPre(MaterialsNewKey)
              THEN /\ dataKey' = MaterialsNewKey
                   /\ OnDecryptEntry
                   /\ UNCHANGED result
              ELSE /\ result' = Failed("dec", "BadState")
                   /\ UNCHANGED <<pc, dataKey, idx>>
  BY Zenon DEF DecryptMaterials
<1>2. /\ ops' \in 0..MaxOps
      /\ UNCHANGED <<edks, tmpEdks, generated, dkCopy, rv, residue, copyResidue, cmmAlg,
                     produced>>
  BY DEF DecryptMaterials, TypeInv, TypeOK
<1>3. alg' \in AlgIds /\ encCtx' \in Contexts /\ inEdks' \in Seq(Edks)
  BY <1>1, CandidateListsType DEF TypeInv, TypeOK
<1>4. CASE /\ result' = Failed("dec", "OutOfMemory")
           /\ UNCHANGED <<pc, dataKey, idx>>
  <2>1. result' \in Results
    BY <1>3, <1>4, FailedType DEF Errors
  <2> QED
    BY <1>2, <1>3, <1>4, <2>1, Zenon DEF TypeInv, TypeOK
<1>5. CASE ~OnDecryptPre(MaterialsNewKey) /\ ~<1>4!1
  <2>1. result' = Failed("dec", "BadState") /\ UNCHANGED <<pc, dataKey, idx>>
    BY <1>1, <1>5, Zenon
  <2>2. result' \in Results
    BY <1>3, <2>1, FailedType DEF Errors
  <2> QED
    BY <1>2, <1>3, <2>1, <2>2, Zenon DEF TypeInv, TypeOK
<1>6. CASE OnDecryptPre(MaterialsNewKey) /\ ~<1>4!1
  <2>1. /\ dataKey' = MaterialsNewKey /\ idx' = 1 /\ pc' = "kmsDec"
        /\ UNCHANGED result
    BY <1>1, <1>6, Zenon DEF OnDecryptEntry
  <2> QED
    BY <1>2, <1>3, <2>1, MaterialsNewKeyType DEF TypeInv, TypeOK
<1> QED
  BY <1>4, <1>5, <1>6

(* The error decrypt_materials returns is an error kind. *)
LEMMA DecryptErrorType == DecryptError \in Errors
BY Zenon DEF DecryptError, Errors

(* decrypt_materials returns: materials handed out or destroyed. *)
LEMMA FinishDecryptionType ==
  ASSUME TypeInv, FinishDecryption PROVE TypeInv'
<1>1. /\ pc' = "idle" /\ dataKey' = NoBuf
      /\ UNCHANGED <<alg, encCtx, edks, inEdks, tmpEdks, idx, generated, dkCopy,
                     rv, copyResidue, cmmAlg, produced, ops>>
  BY DEF FinishDecryption
<1>2. residue' = residue
  BY DEF FinishDecryption, MaterialsDestroyResidue
<1>3. result' \in Results
  <2>1. alg \in AlgIds /\ encCtx \in Contexts /\ dataKey \in DataKeyBufs
        /\ inEdks \in Seq(Edks)
    BY DEF TypeInv, TypeOK
  <2>2. CASE DecryptError = "ok"
    <3>1. result' = [op |-> "dec", err |-> "ok", alg |-> alg, ctx |-> encCtx,
                     key |-> dataKey, edks |-> inEdks]
      BY <2>2 DEF FinishDecryption
    <3> QED
      BY <2>1, <3>1 DEF Results, Errors
  <2>3. CASE DecryptError # "ok"
    <3>1. result' = [op |-> "dec", err |-> DecryptError, alg |-> alg,
                     ctx |-> encCtx, key |-> NoBuf, edks |-> <<>>]
      BY <2>3 DEF FinishDecryption
    <3> QED
      BY <2>1, <3>1, DecryptErrorType, MaterialsNewKeyType DEF Results
  <2> QED
    BY <2>2, <2>3
<1> QED
  BY <1>1, <1>2, <1>3, MaterialsNewKeyType DEF TypeInv, TypeOK

(* set_alg_id only changes the CMM's suite and the result's status. *)
LEMMA SetAlgIdType ==
  ASSUME TypeInv, SetAlgId PROVE TypeInv'
<1>1. UNCHANGED <<kvars, produced>> /\ ops' \in 0..MaxOps
  BY DEF SetAlgId, TypeInv, TypeOK
<1>2. cmmAlg' \in AlgIds
  BY DEF SetAlgId, TypeInv, TypeOK
<1>3. result' \in Results
  <2>1. result \in Results
    BY DEF TypeInv, TypeOK
  <2>2. PICK e \in Errors : result' = [result EXCEPT !.op = "setAlg", !.err = e]
    BY Zenon DEF SetAlgId, Errors
  <2> QED
    BY <2>1, <2>2, Zenon DEF Results
<1> QED
  BY <1>1, <1>2, <1>3 DEF TypeInv, TypeOK, kvars

(* GenerateDataKey returns a key of the suite's length, or fails. *)
LEMMA GenerateDataKeyType ==
  ASSUME TypeInv, GenerateDataKey, UNCHANGED cmmVars PROVE TypeInv'
<1>1. /\ UNCHANGED <<alg, encCtx, edks, inEdks, residue, copyResidue>>
      /\ UNCHANGED cmmVars
  BY DEF GenerateDataKey
<1>2. /\ alg \in AlgIds /\ encCtx \in Contexts
      /\ DataKeyLen(alg) \in KeyLens /\ KeyIds[1] \in Arns \cup Aliases
  BY DataKeyLenType DEF TypeInv, TypeOK, AlgIds
<1>3. CASE /\ rv' = "KmsFailure" /\ pc' = "encRet"
           /\ UNCHANGED <<dataKey, tmpEdks, idx, generated, dkCopy>>
  BY <1>1, <1>3 DEF TypeInv, TypeOK, Errors, cmmVars
<1>4. CASE ~(/\ rv' = "KmsFailure" /\ pc' = "encRet"
             /\ UNCHANGED <<dataKey, tmpEdks, idx, generated, dkCopy>>)
  <2>1. PICK k \in DataKeys :
          LET key == [buf |-> TRUE, len |-> DataKeyLen(alg), val |-> k]
          IN /\ tmpEdks' = <<KmsEdk(KeyIds[1], encCtx, key)>>
             /\ dataKey' = key
             /\ generated' = TRUE
             /\ dkCopy' = [len |-> key.len, val |-> k]
             /\ pc' = "kmsEnc"
             /\ UNCHANGED <<idx, rv>>
    BY <1>4, Zenon DEF GenerateDataKey
  <2>2. KmsEdk(KeyIds[1], encCtx,
               [buf |-> TRUE, len |-> DataKeyLen(alg), val |-> k]) \in Edks
    BY <1>2, KmsEdkType DEF KeyLens
  <2>3. /\ tmpEdks' \in Seq(Edks) /\ dataKey' \in DataKeyBufs
        /\ dataKey'.val \in DataKeys
        /\ dkCopy' \in [len : 0..32, val : DataKeys \cup {NoKey}]
    BY <1>2, <2>1, <2>2 DEF DataKeyBufs, KeyLens
  <2> QED
    BY <1>1, <2>1, <2>3 DEF TypeInv, TypeOK, cmmVars
<1> QED
  BY <1>3, <1>4

(* One iteration of the key_ids loop keeps the types. *)
LEMMA EncryptStepType ==
  ASSUME TypeInv, EncryptStep, UNCHANGED cmmVars PROVE TypeInv'
<1>1. /\ pc = "kmsEnc" /\ idx \in 1..Len(KeyIds)
      /\ UNCHANGED <<alg, encCtx, edks, inEdks, generated, dkCopy>>
      /\ UNCHANGED cmmVars
  BY DEF EncryptStep, TypeInv, TypeOK
<1>2. KmsEdk(KeyIds[idx], encCtx, dkCopy) \in Edks
  <2>1. KeyIds[idx] \in Arns \cup Aliases /\ encCtx \in Contexts
        /\ dkCopy \in [len : 0..32, val : DataKeys \cup {NoKey}]
    BY <1>1 DEF TypeInv, TypeOK
  <2> QED
    BY <2>1, KmsEdkType
<1>3. CASE /\ idx' = idx + 1
           /\ UNCHANGED <<pc, dataKey, rv, residue, copyResidue>>
           /\ tmpEdks' \in {tmpEdks, Append(tmpEdks, KmsEdk(KeyIds[idx], encCtx, dkCopy))}
  <2>1. tmpEdks \in Seq(Edks)
    BY DEF TypeInv, TypeOK
  <2>2. Append(tmpEdks, KmsEdk(KeyIds[idx], encCtx, dkCopy)) \in Seq(Edks)
    BY <1>2, <2>1
  <2>3. tmpEdks' \in Seq(Edks) /\ idx' \in Nat \ {0}
    BY <1>1, <1>3, <2>1, <2>2
  <2> QED
    BY <1>1, <1>3, <2>3 DEF TypeInv, TypeOK, cmmVars
<1>4. CASE /\ rv' = "KmsFailure" /\ pc' = "encRet" /\ tmpEdks' = <<>>
           /\ dataKey' = IF generated THEN NoBuf ELSE dataKey
           /\ residue' = IF generated THEN ByteBufCleanUpResidue(dataKey, residue)
                                      ELSE residue
           /\ copyResidue' = KeyCopyReleaseResidue(dkCopy, copyResidue)
           /\ UNCHANGED idx
  <2>1. dataKey' \in DataKeyBufs
    BY <1>4, MaterialsNewKeyType DEF TypeInv, TypeOK
  <2>2. residue' \subseteq DataKeys
    BY <1>1, <1>4 DEF TypeInv, TypeOK, ByteBufCleanUpResidue
  <2>3. copyResidue' \subseteq DataKeys
    BY <1>4, KeyCopyReleaseType DEF TypeInv, TypeOK
  <2> QED
    BY <1>1, <1>4, <2>1, <2>2, <2>3 DEF TypeInv, TypeOK, Errors, cmmVars
<1> QED
  BY <1>3, <1>4, Zenon DEF EncryptStep

(* The end of the key_ids loop moves the collected EDKs. *)
LEMMA EncryptDoneType ==
  ASSUME TypeInv, EncryptDone, UNCHANGED cmmVars PROVE TypeInv'
<1>1. edks' \in Seq(Edks) /\ tmpEdks' = <<>> /\ rv' = "ok" /\ pc' = "encRet"
      /\ UNCHANGED <<alg, encCtx, dataKey, inEdks, idx, generated, dkCopy, residue>>
  BY DEF EncryptDone, TypeInv, TypeOK
<1>2. copyResidue' \subseteq DataKeys
  BY KeyCopyReleaseType DEF EncryptDone, TypeInv, TypeOK
<1> QED
  BY <1>1, <1>2 DEF TypeInv, TypeOK, Errors, cmmVars

(* One iteration over the candidate EDKs keeps the types. *)
LEMMA DecryptStepType ==
  ASSUME TypeInv, DecryptStep, UNCHANGED cmmVars PROVE TypeInv'
<1>1. /\ pc = "kmsDec" /\ idx \in 1..Len(inEdks)
      /\ UNCHANGED <<alg, encCtx, edks, inEdks, tmpEdks, generated, dkCopy, residue,
                     copyResidue>>
  <2>1. pc = "kmsDec" /\ idx <= Len(inEdks)
        /\ UNCHANGED <<alg, encCtx, edks, inEdks, tmpEdks, generated, dkCopy, residue,
                     copyResidue>>
    BY DEF DecryptStep
  <2>2. idx \in Nat \ {0}
    BY DEF TypeInv, TypeOK
  <2> QED
    BY <2>1, <2>2
<1>2. inEdks[idx].blob \in Blobs
  <2>1. inEdks[idx] \in Edks
    BY <1>1 DEF TypeInv, TypeOK
  <2> QED
    BY <2>1 DEF Edks
<1>3. CASE idx' = idx + 1 /\ UNCHANGED <<pc, dataKey, rv>>
  BY <1>1, <1>3 DEF TypeInv, TypeOK, cmmVars
<1>4. CASE /\ dataKey' = [buf |-> TRUE, len |-> inEdks[idx].blob.len,
                          val |-> inEdks[idx].blob.key]
           /\ rv' = "ok" /\ pc' = "decRet" /\ UNCHANGED idx
  <2>1. dataKey' \in DataKeyBufs
    BY <1>2, <1>4 DEF Blobs, DataKeyBufs
  <2> QED
    BY <1>1, <1>4, <2>1 DEF TypeInv, TypeOK, Errors, cmmVars
<1> QED
  BY <1>3, <1>4, Zenon DEF DecryptStep

(* No candidate could be decrypted. *)
LEMMA DecryptDoneType ==
  ASSUME TypeInv, DecryptDone, UNCHANGED cmmVars PROVE TypeInv'
BY DEF DecryptDone, TypeInv, TypeOK, Errors, cmmVars

LEMMA NextTypeInv == TypeInv /\ [Next]_vars => TypeInv'
<1> SUFFICES ASSUME TypeInv, [Next]_vars PROVE TypeInv'
  OBVIOUS
<1>1. CASE UNCHANGED vars
  BY <1>1, Zenon DEF vars, kvars, TypeInv, TypeOK
<1> QED
  BY <1>1, GenerateEncryptionMaterialsType, FinishEncryptionType,
     DecryptMaterialsType, FinishDecryptionType, SetAlgIdType,
     GenerateDataKeyType, EncryptStepType, EncryptDoneType, DecryptStepType,
     DecryptDoneType, Zenon DEF Next, KeyringStep

(* Type correctness of every state of the CMM and keyring calls. *)
THEOREM TypeCorrect == Spec => []TypeOK
<1>1. Init => TypeInv
  BY InitTypeInv
<1>2. TypeInv /\ [Next]_vars => TypeInv'
  BY NextTypeInv
<1>3. TypeInv => TypeOK
  BY DEF TypeInv
<1> QED
  BY <1>1, <1>2, <1>3, PTL DEF Spec

-----------------------------------------------------------------------------
(***************************************************************************)
(* The keyring contract. When materials_new leaves the data-key buffer     *)
(* unset, the wrapper's preconditions hold at every dispatch; and while    *)
(* the KMS keyring runs, its return value and the key buffer are such that *)
(* the postcondition holds on every successful return: the key_ids loop    *)
(* runs only over a key of the suite's length, and a failed KMS call       *)
(* returns KMS_FAILURE.                                                    *)
(***************************************************************************)
ContractPart ==
  /\ NoBadState
  /\ rv \in {"ok", "KmsFailure"}
  /\ pc = "kmsEnc" => dataKey.buf /\ dataKey.len = DataKeyLen(alg)
  /\ pc = "encRet" /\ rv = "ok" => dataKey.buf /\ dataKey.len = DataKeyLen(alg)

ContractInv == TypeInv /\ ContractPart

(* Without preallocation, the new materials' key buffer is unset. *)
LEMMA NewKeyUnset == ~PreallocDataKey => MaterialsNewKey = NoBuf
BY Zenon DEF MaterialsNewKey

(* No error of decrypt_materials' return path is BadState. *)
LEMMA DecryptErrorNotBadState == DecryptError # "BadState"
BY Zenon DEF DecryptError

LEMMA InitContract == Init => ContractPart
BY DEF Init, ContractPart, NoBadState

-----------------------------------------------------------------------------
(* generate_encryption_materials passes the on_encrypt precondition. *)
LEMMA GenerateEncryptionMaterialsContract ==
  ASSUME ~PreallocDataKey, ContractInv, GenerateEncryptionMaterials
  PROVE  ContractPart'
<1>1. PICK requested \in {0} \cup Algs, ctx \in Contexts :
        /\ encCtx' = ctx
        /\ \/ /\ requested \notin {0, cmmAlg} /\ alg' = requested
              /\ result' = Failed("enc", "UnsupportedFormat")
              /\ UNCHANGED <<pc, dataKey, edks, tmpEdks, idx, generated, dkCopy>>
           \/ /\ requested \in {0, cmmAlg} /\ alg' = cmmAlg
              /\ result' = Failed("enc", "OutOfMemory")
              /\ UNCHANGED <<pc, dataKey, edks, tmpEdks, idx, generated, dkCopy>>
           \/ /\ requested \in {0, cmmAlg} /\ alg' = cmmAlg
              /\ IF OnEncryptPre(MaterialsNewKey, <<>>, cmmAlg)
                 THEN /\ dataKey' = MaterialsNewKey /\ edks' = <<>>
                      /\ OnEncryptEntry
                      /\ UNCHANGED result
                 ELSE /\ result' = Failed("enc", "BadState")
                      /\ UNCHANGED <<pc, dataKey, edks, tmpEdks, idx, generated,
                                     dkCopy>>
  BY Zenon DEF GenerateEncryptionMaterials
<1>2. pc = "idle" /\ rv' = rv /\ rv \in {"ok", "KmsFailure"}
  BY DEF GenerateEncryptionMaterials, ContractInv, ContractPart
<1>3. OnEncryptPre(MaterialsNewKey, <<>>, cmmAlg)
  BY NewKeyUnset DEF OnEncryptPre, NoBuf
<1>4. CASE result' \in {Failed("enc", "UnsupportedFormat"), Failed("enc", "OutOfMemory")}
           /\ pc' = pc
  BY <1>2, <1>4 DEF ContractPart, NoBadState, Failed
<1>5. CASE ~<1>4!1
  <2>1. dataKey' = MaterialsNewKey /\ OnEncryptEntry /\ UNCHANGED result
    BY <1>1, <1>3, <1>5, Zenon
  <2>2. pc' = "kmsGen"
    BY <2>1, NewKeyUnset DEF OnEncryptEntry, NoBuf
  <2>3. result.err # "BadState"
    BY DEF ContractInv, ContractPart, NoBadState
  <2> QED
    BY <1>2, <2>1, <2>2, <2>3 DEF ContractPart, NoBadState
<1> QED
  BY <1>4, <1>5

(* The materials are handed out exactly when the postcondition holds. *)
LEMMA FinishEncryptionContract ==
  ASSUME ContractInv, FinishEncryption PROVE ContractPart'
<1>1. pc = "encRet" /\ pc' = "idle" /\ rv' = rv /\ rv \in {"ok", "KmsFailure"}
  BY DEF FinishEncryption, ContractInv, ContractPart
<1>2. rv = "ok" => OnEncryptPost(dataKey, alg)
  BY <1>1 DEF ContractInv, ContractPart, OnEncryptPost
<1>3. result'.err \in {"ok", "KmsFailure"}
  BY <1>1, <1>2 DEF FinishEncryption
<1> QED
  BY <1>1, <1>3 DEF ContractPart, NoBadState

(* decrypt_materials passes the on_decrypt precondition. *)
LEMMA DecryptMaterialsContract ==
  ASSUME ~PreallocDataKey, ContractInv, DecryptMaterials PROVE ContractPart'
<1>1. PICK a \in Algs, ctx \in Contexts, cands \in CandidateLists :
        /\ alg' = a /\ encCtx' = ctx /\ inEdks' = cands
        /\ \/ /\ result' = Failed("dec", "OutOfMemory")
              /\ UNCHANGED <<pc, dataKey, idx>>
           \/ IF OnDecryptPre(MaterialsNewKey)
              THEN /\ dataKey' = MaterialsNewKey
                   /\ OnDecryptEntry
                   /\ UNCHANGED result
              ELSE /\ result' = Failed("dec", "BadState")
                   /\ UNCHANGED <<pc, dataKey, idx>>
  BY Zenon DEF DecryptMaterials
<1>2. pc = "idle" /\ rv' = rv /\ rv \in {"ok", "KmsFailure"}
  BY DEF DecryptMaterials, ContractInv, ContractPart
<1>3. OnDecryptPre(MaterialsNewKey)
  BY NewKeyUnset DEF OnDecryptPre, NoBuf
<1>4. CASE result' = Failed("dec", "OutOfMemory") /\ pc' = pc
  BY <1>2, <1>4 DEF ContractPart, NoBadState, Failed
<1>5. CASE ~<1>4!1
  <2>1. pc' = "kmsDec" /\ UNCHANGED result
    BY <1>1, <1>3, <1>5, Zenon DEF OnDecryptEntry
  <2>2. result.err # "BadState"
    BY DEF ContractInv, ContractPart, NoBadState
  <2> QED
    BY <1>2, <2>1, <2>2 DEF ContractPart, NoBadState
<1> QED
  BY <1>4, <1>5

(* decrypt_materials returns no BadState. *)
LEMMA FinishDecryptionContract ==
  ASSUME ContractInv, FinishDecryption PROVE ContractPart'
<1>1. pc' = "idle" /\ rv' = rv /\ rv \in {"ok", "KmsFailure"}
  BY DEF FinishDecryption, ContractInv, ContractPart
<1>2. result'.err \in {"ok", DecryptError}
  BY DEF FinishDecryption
<1> QED
  BY <1>1, <1>2, DecryptErrorNotBadState DEF ContractPart, NoBadState

(* set_alg_id returns success or UnsupportedFormat. *)
LEMMA SetAlgIdContract ==
  ASSUME ContractInv, SetAlgId PROVE ContractPart'
<1>1. UNCHANGED kvars
  BY DEF SetAlgId
<1>2. result \in Results
  BY DEF ContractInv, TypeInv, TypeOK
<1>3. result'.err \in {"ok", "UnsupportedFormat"}
  BY <1>2, Zenon DEF SetAlgId, Results
<1> QED
  BY <1>1, <1>3 DEF ContractInv, ContractPart, NoBadState, kvars

(* GenerateDataKey returns a key of the suite's length, or KMS_FAILURE. *)
LEMMA GenerateDataKeyContract ==
  ASSUME ContractInv, GenerateDataKey, UNCHANGED cmmVars PROVE ContractPart'
<1>1. UNCHANGED <<alg, result>>
  BY DEF GenerateDataKey, cmmVars
<1>2. CASE rv' = "KmsFailure" /\ pc' = "encRet"
  BY <1>1, <1>2 DEF ContractInv, ContractPart, NoBadState
<1>3. CASE ~<1>2!1
  <2>1. PICK k \in DataKeys :
          /\ dataKey' = [buf |-> TRUE, len |-> DataKeyLen(alg), val |-> k]
          /\ pc' = "kmsEnc" /\ rv' = rv
    BY <1>3, Zenon DEF GenerateDataKey
  <2> QED
    BY <1>1, <2>1 DEF ContractInv, ContractPart, NoBadState
<1> QED
  BY <1>2, <1>3

(* The key_ids loop keeps the key, or fails with KMS_FAILURE. *)
LEMMA EncryptStepContract ==
  ASSUME ContractInv, EncryptStep, UNCHANGED cmmVars PROVE ContractPart'
<1>1. pc = "kmsEnc" /\ UNCHANGED <<alg, result>>
  BY DEF EncryptStep, cmmVars
<1>2. CASE UNCHANGED <<pc, dataKey, rv>>
  BY <1>1, <1>2 DEF ContractInv, ContractPart, NoBadState
<1>3. CASE rv' = "KmsFailure" /\ pc' = "encRet"
  BY <1>1, <1>3 DEF ContractInv, ContractPart, NoBadState
<1> QED
  BY <1>2, <1>3, Zenon DEF EncryptStep

(* The loop ends with the key it ran over. *)
LEMMA EncryptDoneContract ==
  ASSUME ContractInv, EncryptDone, UNCHANGED cmmVars PROVE ContractPart'
<1>1. pc = "kmsEnc" /\ pc' = "encRet" /\ rv' = "ok"
      /\ UNCHANGED <<alg, dataKey, result>>
  BY DEF EncryptDone, cmmVars
<1> QED
  BY <1>1 DEF ContractInv, ContractPart, NoBadState

(* OnDecrypt returns success. *)
LEMMA DecryptStepContract ==
  ASSUME ContractInv, DecryptStep \/ DecryptDone, UNCHANGED cmmVars
  PROVE  ContractPart'
<1>1. pc' \in {"kmsDec", "decRet"} /\ rv' \in {rv, "ok"} /\ UNCHANGED result
  BY Zenon DEF DecryptStep, DecryptDone, cmmVars
<1> QED
  BY <1>1 DEF ContractInv, ContractPart, NoBadState

LEMMA NextContract ==
  ASSUME ~PreallocDataKey, ContractInv, [Next]_vars PROVE ContractInv'
<1>1. TypeInv'
  BY NextTypeInv DEF ContractInv
<1>2. CASE UNCHANGED vars
  BY <1>1, <1>2 DEF vars, kvars, cmmVars, ContractInv, ContractPart, NoBadState
<1>3. ContractPart'
  BY <1>2, GenerateEncryptionMaterialsContract, FinishEncryptionContract,
     DecryptMaterialsContract, FinishDecryptionContract, SetAlgIdContract,
     GenerateDataKeyContract, EncryptStepContract, EncryptDoneContract,
     DecryptStepContract, Zenon DEF Next, KeyringStep, ContractInv
<1> QED
  BY <1>1, <1>3 DEF ContractInv

(***************************************************************************)
(* When materials_new leaves the data-key buffer unset, no call of the     *)
(* default CMM over the KMS keyring ever fails with BadState: the keyring  *)
(* wrapper's pre- and postconditions hold at every dispatch and return.    *)
(***************************************************************************)
THEOREM KeyringContractHolds == ~PreallocDataKey => (Spec => []NoBadState)
<1> SUFFICES ASSUME ~PreallocDataKey PROVE Spec => []NoBadState
  OBVIOUS
<1>1. Init => ContractInv
  BY InitTypeInv, InitContract DEF ContractInv
<1>2. ContractInv /\ [Next]_vars => ContractInv'
  BY NextContract
<1>3. ContractInv => NoBadState
  BY DEF ContractInv, ContractPart
<1> QED
  BY <1>1, <1>2, <1>3, PTL DEF Spec

=============
