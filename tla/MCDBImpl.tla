------------------------------ MODULE MCDBImpl ------------------------------
(* Small instances of DBImpl for TLC. *)
EXTENDS DBImpl

CONSTANTS k1, k2, w1, w2, r1

\* the threads are interchangeable
ThreadSymmetry == Permutations(Writers)
=============================================================================
