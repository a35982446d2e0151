--------------------------- MODULE MCCaptureSoak ---------------------------
(***************************************************************************)
(* CaptureSoak for TLC: threads and capture subscriptions are              *)
(* interchangeable; the live vault is beside, above, at and below the      *)
(* observation vault, or not named.                                        *)
(***************************************************************************)
EXTENDS CaptureSoak, TLC

SoakSymmetry == Permutations(Workers) \cup Permutations(CaptureSubs)

MCObsVaults == {<<"hub", "soak">>}
MCRealVaults == {<<"hub">>, <<"hub", "soak">>, <<"hub", "soak", "raw">>,
                 <<"hub", "vault">>}

=============================================================================
