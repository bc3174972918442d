---------------------------- MODULE MCSDLThread -----------------------------
(* Instances of SDLThread for TLC. *)
EXTENDS SDLThread

CONSTANTS p, q, s1, s2, i1, i2

=============================================================================
