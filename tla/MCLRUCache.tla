----------------------------- MODULE MCLRUCache -----------------------------
(* LRUCache for TLC: handles, clients and keys are interchangeable. *)
EXTENDS LRUCache, TLC

CONSTANTS k1, k2, k3, c1, c2, c3, h1, h2, h3, h4, h5

Interchange == Permutations(Keys) \cup Permutations(Clients) \cup Permutations(Handles)
=============================================================================
