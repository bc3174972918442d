--------------------------- MODULE MCPictureQueue ---------------------------
(* Instances of PictureQueue for TLC. *)
EXTENDS PictureQueue, TLC

CONSTANTS f1, f2, small, large

=============================================================================
