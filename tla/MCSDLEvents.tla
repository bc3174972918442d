---------------------------- MODULE MCSDLEvents -----------------------------
(* Instances of SDLEvents for TLC. *)
EXTENDS SDLEvents, TLC

CONSTANTS a, b

Symmetry == Permutations(Messages)

=============================================================================
