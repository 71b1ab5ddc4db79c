---------------------------- MODULE MCReplayGuard ----------------------------
(* The symmetry of ReplayGuard: requests, and connections, are alike.      *)
EXTENDS ReplayGuard, TLC

Interchangeable == Permutations(Requests) \cup Permutations(Workers)
=============================================================================
