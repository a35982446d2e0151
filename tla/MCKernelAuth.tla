---------------------------- MODULE MCKernelAuth ---------------------------
(* KernelAuth for TLC: callers are interchangeable. *)
EXTENDS KernelAuth, TLC

Symmetry == Permutations(Callers)

=============================================================================
