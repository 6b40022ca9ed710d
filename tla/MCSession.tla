----------------------------- MODULE MCSession ------------------------------
(* Session for TLC: two users. *)
EXTENDS Session

CONSTANTS u1, u2
=============================================================================
