------------------------------ MODULE MCWallet ------------------------------
(* Small instances of Wallet for TLC.                                      *)
EXTENDS WalletRefinement, TLC

CONSTANTS k1, k2, r1, r2, g1

Symmetry == Permutations(Keys) \cup Permutations(Requests)
=============================================================================
