---------------------------- MODULE MC_DefaultCmm ----------------------------
(***************************************************************************)
(* A small instance of DefaultCmm: a keyring over two of three CMKs, two   *)
(* data keys, two contexts of which one carries the public key, the        *)
(* default suite (16-byte keys, unsigned) and a 32-byte signing suite.     *)
(***************************************************************************)
EXTENDS DefaultCmm

CONSTANTS a1, a2, a3, k1, k2, c1, c2

MCKeyIds == <<a1, a2>>

(* A keyring configured with one CMK, a1, named by an alias: every message *)
(* it encrypts carries the generator's EDK alone.                         *)
MCAliasKeyIds == <<"alias/a1">>

(* The aliases of the instance, if any, all name a1. *)
MCAliasTarget == [x \in Aliases |-> a1]

(***************************************************************************)
(* EDKs of other origin: one from a raw AES keyring, one of a CMK the      *)
(* keyring is not configured with, and a forgery whose provider info names *)
(* a1 while its blob belongs to a3.                                        *)
(***************************************************************************)
MCForeignEdks ==
  { [provider_id |-> "raw-aes", provider_info |-> a1,
     blob |-> [cmk |-> a1, ctx |-> c1, key |-> k1, len |-> 16]],
    [provider_id |-> KmsProviderId, provider_info |-> a3,
     blob |-> [cmk |-> a3, ctx |-> c1, key |-> k2, len |-> 16]],
    [provider_id |-> KmsProviderId, provider_info |-> a1,
     blob |-> [cmk |-> a3, ctx |-> c1, key |-> k2, len |-> 16]] }

=============================================================================
