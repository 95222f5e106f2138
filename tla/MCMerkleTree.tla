---------------------------- MODULE MCMerkleTree ----------------------------
(* MerkleTree with the symmetry of its leaf values. *)
EXTENDS MerkleTree, TLC

Symmetry == Permutations(Data)
=============================================================================
