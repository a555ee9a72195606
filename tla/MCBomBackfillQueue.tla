-------------------------- MODULE MCBomBackfillQueue --------------------------
(* Small instances of BomBackfillQueue for TLC. *)
EXTENDS BomBackfillQueue, TLC

CONSTANTS w1, w2, r1, i1, i2, i3

\* Items and workers are interchangeable: the order of a claim is abstracted away.
Symmetry == Permutations(Items) \union Permutations(Workers)
=============================================================================
