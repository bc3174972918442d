------------------------------ MODULE MCDemux ------------------------------
(* Instances of Demux for TLC: files by the kinds of their streams. *)
EXTENDS Demux, TLC

CONSTANTS p1, p2

ThreeStreams == <<"audio", "video", "data">>
AudioOnly == <<"audio">>

=============================================================================
