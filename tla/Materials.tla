------------------------------ MODULE Materials ------------------------------
(***************************************************************************)
(* Data of the materials pipeline that every component shares: the         *)
(* algorithm-suite catalog, the data-key buffer of a materials object, the *)
(* EDK record, the error kinds, the materials constructors and destructors *)
(* (source/materials.c) and the generic keyring wrapper that checks the    *)
(* keyring contract around every on_encrypt / on_decrypt dispatch.         *)
(*                                                                         *)
(* Bytes are abstracted: a data key is a model value of DataKeys together  *)
(* with its length; zeroising a buffer is the difference between freeing   *)
(* it with the key erased or leaving the key in released memory.           *)
(***************************************************************************)
EXTENDS Integers, Sequences, Functions

CONSTANTS
  Algs,           \* the suites of the model, a subset of the catalog AlgIds
  Contexts,       \* encryption contexts (model values)
  CtxWithPubKey,  \* contexts holding the "aws-crypto-public-key" entry
  DataKeys,       \* data-key values a key service may generate
  NoKey,          \* the value of an unset or zeroised key buffer
  PreallocDataKey \* TRUE: materials_new allocates the data-key buffer

ASSUME MaterialsAssumption ==
  /\ CtxWithPubKey \subseteq Contexts
  /\ NoKey \notin DataKeys
  /\ PreallocDataKey \in BOOLEAN

-----------------------------------------------------------------------------
(***************************************************************************)
(* Algorithm-suite catalog (spec section 6; cipher.c is not in the         *)
(* repository). The low byte of a suite id fixes the AES key length, the   *)
(* high byte 2 or 3 a trailing ECDSA signature.                            *)
(***************************************************************************)
AlgIds == {20, 70, 120, 276, 326, 376, 532, 838, 888}

DataKeyLen(alg) == CASE alg % 256 = 20 -> 16
                     [] alg % 256 = 70 -> 24
                     [] OTHER          -> 32

AlgSigned(alg) == alg \div 256 \in {2, 3}

\* DEFAULT_ALG of the default CMM: AES_128_GCM_IV12_AUTH16_KDSHA256_SIGNONE.
DefaultAlg == 276

ASSUME AlgsAssumption == DefaultAlg \in Algs /\ Algs \subseteq AlgIds

KeyLens == {16, 24, 32}

-----------------------------------------------------------------------------
(* Error kinds of spec section 6; "ok" is AWS_OP_SUCCESS. *)
Errors == {"ok", "UnsupportedFormat", "BadCiphertext", "CannotDecrypt",
           "KmsFailure", "BadState", "OutOfMemory"}

(***************************************************************************)
(* The unencrypted data key of a materials object: whether its buffer is   *)
(* allocated (byte_buf.buffer # NULL), its length and the key it holds.    *)
(***************************************************************************)
DataKeyBufs == [buf : BOOLEAN, len : 0..32, val : DataKeys \cup {NoKey}]

NoBuf == [buf |-> FALSE, len |-> 0, val |-> NoKey]

(* aws_cryptosdk_encryption_materials_new / _decryption_materials_new:    *)
(* aws_byte_buf_alloc leaves an allocated buffer of length 0.             *)
MaterialsNewKey == IF PreallocDataKey
                   THEN [buf |-> TRUE, len |-> 0, val |-> NoKey]
                   ELSE NoBuf

(* Fault variant: the buffer is freed without aws_cryptosdk_secure_zero_buf. *)
MaterialsDestroyNoZero(dk, residue) ==
  IF dk.buf /\ dk.val # NoKey THEN residue \cup {dk.val} ELSE residue

(***************************************************************************)
(* Materials destroy: aws_cryptosdk_secure_zero_buf, then free. Returns    *)
(* the keys left in released memory, given those already there.           *)
(***************************************************************************)
MaterialsDestroyResidue(dk, residue) == residue

-----------------------------------------------------------------------------
(***************************************************************************)
(* The keyring wrapper (aws_cryptosdk_keyring_on_encrypt / _on_decrypt;    *)
(* not in the repository, modelled from spec section 4.2 and the tests of  *)
(* tests/unit/t_materials.c).                                              *)
(***************************************************************************)
\* on_encrypt precondition: no data key and no EDKs, or a key of the suite's length.
OnEncryptPre(dk, edks, alg) ==
  /\ ~dk.buf => edks = <<>>
  /\ dk.buf => dk.len = DataKeyLen(alg)

\* on_encrypt postcondition after a successful dispatch.
OnEncryptPost(dk, alg) == dk.buf /\ dk.len = DataKeyLen(alg)

\* on_decrypt precondition: the output buffer is unset.
OnDecryptPre(dk) == ~dk.buf

\* on_decrypt postcondition: no key, or a key of the suite's length.
OnDecryptPost(dk, alg) == dk.buf => dk.len = DataKeyLen(alg)

=============================================================================
