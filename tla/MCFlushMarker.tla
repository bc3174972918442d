--------------------------- MODULE MCFlushMarker ---------------------------
(* Instances of FlushMarker for TLC. *)
EXTENDS FlushMarker, TLC

Symmetry == Permutations(Blocks)

=============================================================================
