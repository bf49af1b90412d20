-------------------------- MODULE MC_ClientSupplier --------------------------
(***************************************************************************)
(* Two builders share a supplier with a keyring built earlier for r1; one  *)
(* builder's key ids repeat r1, both add r2, one adds r3.                  *)
(***************************************************************************)
EXTENDS ClientSupplier

CONSTANTS b1, b2, u1, u2, r1, r2, r3

MCBuilderRegions == [b \in {b1, b2} |-> IF b = b1 THEN <<r2, r1>> ELSE <<r2, r3>>]
MCUserRegion == [u \in {u1, u2} |-> r1]

=============================================================================
