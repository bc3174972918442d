----------------------------- MODULE AudioStream -----------------------------
(***************************************************************************)
(* What the audio output promises: the decoded samples are heard in the    *)
(* order of decoding, each at most once and none but these.  Only the end  *)
(* of what one call decodes may be left out.                               *)
(***************************************************************************)
EXTENDS Integers, Sequences

CONSTANT FrameSizes \* how many samples one call may decode

VARIABLES
  flow,   \* samples that were decoded and kept and are not yet heard
  decoded \* how many were decoded

Init == flow = <<>> /\ decoded = 0

Decode ==
  \E n \in FrameSizes : \E kept \in 0 .. n :
    /\ decoded' = decoded + n
    /\ flow' = flow \o [i \in 1 .. kept |-> decoded + i]

Hear ==
  \E n \in 1 .. Len(flow) :
    /\ flow' = SubSeq(flow, n + 1, Len(flow))
    /\ UNCHANGED decoded

Spec == Init /\ [][Decode \/ Hear]_<<flow, decoded>>

=============================================================================
