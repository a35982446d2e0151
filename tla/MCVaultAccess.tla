--------------------------- MODULE MCVaultAccess ---------------------------
(* VaultAccess for TLC: callers and principals are interchangeable. *)
EXTENDS VaultAccess, TLC

Symmetry == Permutations(Callers) \cup Permutations(Principals)

=============================================================================
