------------------------- MODULE MCRealtimeDatabase -------------------------
(* Small instances of RealtimeDatabase for TLC. *)
EXTENDS RealtimeDatabase

CONSTANTS p1, p2, p3, c1, c2

\* points of this device are interchangeable
LocalSymmetry == Permutations({p1, p2})
\* bound: the process dies in some behaviours, the connection is lost in others
OneFault == losses + deaths <= 1
=============================================================================
