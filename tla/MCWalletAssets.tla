---------------------------- MODULE MCWalletAssets ----------------------------
(* WalletAssets for TLC. *)
EXTENDS WalletAssets, TLC

Symmetry == Permutations(Runs)
=============================================================================
