---------------------------- MODULE MCProvision ----------------------------
(***************************************************************************)
(* Provision for TLC: a first run and a second one for the same principal, *)
(* and a run of soak_provision for the connector.                          *)
(***************************************************************************)
EXTENDS Provision, TLC

CONSTANTS r1, r2, r3, bookkeeping, connector

MCFor == r1 :> bookkeeping @@ r2 :> bookkeeping @@ r3 :> connector

ProvisionSymmetry == Permutations({r1, r2})

=============================================================================
