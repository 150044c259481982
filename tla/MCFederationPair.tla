-------------------------- MODULE MCFederationPair --------------------------
(***************************************************************************)
(* Two hubs that do not know each other yet, two invitations and two       *)
(* accepts: every interleaving of the admission protocol with the owners'  *)
(* operations, failures and restarts.                                      *)
(***************************************************************************)
EXTENDS Federation, TLC

\* No action tells hubs, nonces or accepts apart by name.
Symmetry == Permutations(Hub) \cup Permutations(Nonce) \cup Permutations(Attempt)
=============================================================================
