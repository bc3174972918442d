----------------------------- MODULE EventQueue -----------------------------
(***************************************************************************)
(* What SDL's event queue promises, without the ring that holds it: it     *)
(* keeps up to Cap events in the order in which they came, refuses an      *)
(* event only when it is full, and gives the oldest of the events asked    *)
(* for, with the message that was sent with it.                            *)
(***************************************************************************)
EXTENDS Integers, Sequences, SequencesExt

CONSTANTS
  Cap,     \* events that fit
  Kinds,   \* types of events
  Events   \* events: records with a kind

VARIABLES
  queue,   \* the events that wait, oldest first
  mask,    \* the kinds the reader asks for
  added,   \* whether the last event posted was taken in
  active   \* whether events are taken in

qvars == <<queue, mask, added, active>>

Init == queue = <<>> /\ mask = {} /\ added = 1 /\ active = TRUE

Post(e) ==
  /\ active
  /\ Len(queue) < Cap
  /\ queue' = Append(queue, e)
  /\ added' = 1
  /\ UNCHANGED <<mask, active>>

Refuse ==
  /\ active
  /\ Len(queue) = Cap
  /\ added' = 0
  /\ UNCHANGED <<queue, mask, active>>

Ask(kinds) ==
  /\ active
  /\ mask' = kinds
  /\ UNCHANGED <<queue, added, active>>

Take ==
  /\ active
  /\ \E i \in DOMAIN queue :
       /\ queue[i].kind \in mask
       /\ \A j \in 1 .. i - 1 : queue[j].kind \notin mask
       /\ queue' = RemoveAt(queue, i)
  /\ UNCHANGED <<mask, added, active>>

Stop ==
  /\ active
  /\ queue' = <<>>
  /\ active' = FALSE
  /\ UNCHANGED <<mask, added>>

Start ==
  /\ ~ active
  /\ active' = TRUE
  /\ UNCHANGED <<queue, mask, added>>

Next ==
  \/ \E e \in Events : Post(e)
  \/ \E kinds \in SUBSET Kinds : Ask(kinds)
  \/ Refuse \/ Take \/ Stop \/ Start

Spec == Init /\ [][Next]_qvars

=============================================================================
