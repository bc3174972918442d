--------------------------- MODULE SDLCondAudience ---------------------------
(***************************************************************************)
(* SDLCond with a history variable: for every signaller, the threads that  *)
(* were waiting when it signalled.  It tells whether a wakeup reaches one  *)
(* of the threads it was meant for or a thread that came to wait later.    *)
(***************************************************************************)
EXTENDS SDLCond

VARIABLE audience  \* who waited when each thread last signalled

avars == <<vars, audience>>

Record == audience' = [t \in Threads |->
                         IF acks[t] = 0 /\ acks'[t] > 0
                         THEN Waiting
                         ELSE audience[t]]

AudienceInit == Init /\ audience = [t \in Threads |-> {}]

AudienceSpec ==
  AudienceInit /\ [][Next /\ Record]_avars /\ Fairness

(* "Restart one of the threads that are waiting on the condition variable" *)
(* (SDL_syscond.c line 79): when every signaller that has not returned yet *)
(* holds the mutex, as all of VSPlayer's do (VSPlayer.c 306-316, 672-675,  *)
(* 973-976), a thread that took a wakeup was waiting when it was sent.     *)
(* The signallers that did not hold it may have left no wakeup behind.     *)
RestartsAWaiter == At("ack") \subseteq {mutex} =>
  \A u \in At("woken") : \E s \in At("ack") : u \in audience[s]

=============================================================================
