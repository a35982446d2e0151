-------------------------- MODULE MCIdentityLogin --------------------------
(* IdentityLogin for TLC: handlers, logins and users are interchangeable. *)
EXTENDS IdentityLogin, TLC

Symmetry ==
  Permutations(Handlers) \cup Permutations(Logins) \cup Permutations(Users)

=============================================================================
