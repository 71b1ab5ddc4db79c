----------------------------- MODULE MCOnionKey -----------------------------
(* The symmetry of OnionKey: keys, and passphrases, are alike.             *)
EXTENDS OnionKey, TLC

Interchangeable == Permutations(Keys) \cup Permutations(Passphrases)
=============================================================================
