---------------------------- MODULE MCFileStore ----------------------------
(***************************************************************************)
(* FileStore for TLC: processes are interchangeable model values.          *)
(***************************************************************************)
EXTENDS FileStore, TLC

StoreSymmetry == Permutations(Procs)

=============================================================================
