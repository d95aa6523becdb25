--------------------------- MODULE MCMarketplace ---------------------------
(* The marketplace handler with finite sets for TLC. *)
EXTENDS Marketplace, TLC

\* The addresses, all with an account, and the URIs are interchangeable.
Symmetry == Permutations(Accounts) \cup Permutations(Uris)
=============================================================================
