--------------------------- MODULE MCVaultRefresh ---------------------------
(***************************************************************************)
(* VaultRefresh for TLC: callers are interchangeable model values.         *)
(***************************************************************************)
EXTENDS VaultRefresh, TLC

CallerSymmetry == Permutations(Callers)

=============================================================================
