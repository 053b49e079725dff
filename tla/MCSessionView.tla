--------------------------- MODULE MCSessionView ---------------------------
(* An instance of SessionView for TLC. *)
EXTENDS SessionView, TLC

CONSTANTS w1, w2, r1, r2
=============================================================================
