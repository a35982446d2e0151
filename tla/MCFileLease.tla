---------------------------- MODULE MCFileLease ----------------------------
(***************************************************************************)
(* FileLease for TLC: processes are interchangeable model values.          *)
(***************************************************************************)
EXTENDS FileLease, TLC

ProcSymmetry == Permutations(Procs)

=============================================================================
