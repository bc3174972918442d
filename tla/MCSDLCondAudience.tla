------------------------- MODULE MCSDLCondAudience -------------------------
(* Instances of SDLCondAudience for TLC. *)
EXTENDS SDLCondAudience

CONSTANTS t1, t2, t3

=============================================================================
