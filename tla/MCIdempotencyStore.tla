------------------------- MODULE MCIdempotencyStore -------------------------
(***************************************************************************)
(* Model values for IdempotencyStore.                                      *)
(***************************************************************************)
EXTENDS IdempotencyStore, TLC

OwnerSymmetry == Permutations(Owners)
=============================================================================
