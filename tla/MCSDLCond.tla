----------------------------- MODULE MCSDLCond -----------------------------
(* Instances of SDLCond for TLC. *)
EXTENDS SDLCond, TLC

CONSTANTS t1, t2, t3

=============================================================================
