------------------------- MODULE MCIdentityDelivery -------------------------
(* Small instances of IdentityDelivery.                                    *)
EXTENDS IdentityDelivery, TLC

CONSTANTS i1, i2, r1, r2, r3

Symmetry == Permutations(Identity) \cup Permutations(Requests)
=============================================================================
