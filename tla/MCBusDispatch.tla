--------------------------- MODULE MCBusDispatch ---------------------------
(***************************************************************************)
(* BusDispatch for TLC: workers and subscriptions are interchangeable.     *)
(***************************************************************************)
EXTENDS BusDispatch, TLC

BusSymmetry == Permutations(Workers) \cup Permutations(Subs)

=============================================================================
