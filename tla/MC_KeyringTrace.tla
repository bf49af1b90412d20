--------------------------- MODULE MC_KeyringTrace ---------------------------
(***************************************************************************)
(* A small instance of KeyringTrace: up to three records and sixteen       *)
(* string allocations, enough for a clone, clean-ups and a clear after     *)
(* several failed and successful additions.                                *)
(***************************************************************************)
EXTENDS KeyringTrace

=============================================================================
