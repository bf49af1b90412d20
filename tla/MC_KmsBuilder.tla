---------------------------- MODULE MC_KmsBuilder ----------------------------
(* A builder used to build two keyrings from up to three key ids: two ARNs  *)
(* of different regions, an alias (no region in it) and the empty string.   *)
EXTENDS KmsBuilder

CONSTANTS arnR1, arnR2, aliasKey, emptyKey, r1, r2

MCKeyRegion ==
  [k \in KeyNames |-> IF k = arnR1 THEN r1 ELSE IF k = arnR2 THEN r2 ELSE NoRegion]

=============================================================================
