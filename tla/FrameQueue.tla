----------------------------- MODULE FrameQueue -----------------------------
(***************************************************************************)
(* What the picture queue of VSPlayer promises: frames are shown in the    *)
(* order in which they were queued, each exactly once, and at most N wait. *)
(***************************************************************************)
EXTENDS Integers, Sequences

CONSTANTS
  N,       \* VIDEO_PICTURE_QUEUE_SIZE
  Frames,  \* the pictures
  NoFrame  \* nothing yet: not a picture

VARIABLES
  queue,   \* the frames queued and not yet shown, oldest first
  shown    \* the frame on the screen

qvars == <<queue, shown>>

Init == queue = <<>> /\ shown = NoFrame

Put(f) ==
  /\ Len(queue) < N
  /\ queue' = Append(queue, f)
  /\ UNCHANGED shown

Show ==
  /\ queue # <<>>
  /\ shown' = Head(queue)
  /\ queue' = Tail(queue)

Next == Show \/ \E f \in Frames : Put(f)

Spec == Init /\ [][Next]_qvars

=============================================================================
