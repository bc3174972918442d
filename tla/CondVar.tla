------------------------------ MODULE CondVar ------------------------------
(***************************************************************************)
(* What SDL promises of a condition variable and the mutex it is used with *)
(* (SDL/include/SDL_mutex.h, lines 127-166), independent of how any        *)
(* back end provides it.                                                   *)
(*                                                                         *)
(* A thread that waits is enlisted while it still holds the mutex and      *)
(* releases the mutex only then, so no signal sent by a thread that holds  *)
(* the mutex can fall between its test of the predicate and its sleep.  A  *)
(* signal grants one wakeup when somebody enlisted has none coming; a      *)
(* broadcast grants one to everybody enlisted.  A wakeup is consumed by    *)
(* one enlisted thread, which must take the mutex again before its wait    *)
(* returns.  A wait with a time limit may end without a wakeup.            *)
(***************************************************************************)
EXTENDS Integers, FiniteSets

CONSTANTS
  Threads,  \* the threads that share the condition variable
  Timed,    \* those of them that wait with a time limit
  None      \* "nobody": not a thread

VARIABLES
  mutex,    \* the owner of the mutex, or None
  enlisted, \* the threads inside a wait that has not been ended yet
  grants,   \* wakeups granted and not yet consumed
  waking    \* the threads whose wait has ended and that want the mutex back

cvars == <<mutex, enlisted, grants, waking>>

Init ==
  /\ mutex = None
  /\ enlisted = {}
  /\ grants = 0
  /\ waking = {}

Lock(t) ==
  /\ mutex = None
  /\ t \notin enlisted \cup waking
  /\ mutex' = t
  /\ UNCHANGED <<enlisted, grants, waking>>

Unlock(t) ==
  /\ mutex = t
  /\ t \notin enlisted
  /\ mutex' = None
  /\ UNCHANGED <<enlisted, grants, waking>>

Enlist(t) ==
  /\ mutex = t
  /\ t \notin enlisted
  /\ enlisted' = enlisted \cup {t}
  /\ UNCHANGED <<mutex, grants, waking>>

Park(t) ==
  /\ mutex = t
  /\ t \in enlisted
  /\ mutex' = None
  /\ UNCHANGED <<enlisted, grants, waking>>

Signal ==
  /\ grants < Cardinality(enlisted)
  /\ grants' = grants + 1
  /\ UNCHANGED <<mutex, enlisted, waking>>

Broadcast ==
  /\ grants < Cardinality(enlisted)
  /\ grants' = Cardinality(enlisted)
  /\ UNCHANGED <<mutex, enlisted, waking>>

Wake(t) ==
  /\ t \in enlisted
  /\ mutex # t
  /\ grants > 0
  /\ grants' = grants - 1
  /\ enlisted' = enlisted \ {t}
  /\ waking' = waking \cup {t}
  /\ UNCHANGED mutex

Expire(t) ==
  /\ t \in enlisted \cap Timed
  /\ mutex # t
  /\ grants < Cardinality(enlisted)
  /\ enlisted' = enlisted \ {t}
  /\ waking' = waking \cup {t}
  /\ UNCHANGED <<mutex, grants>>

Relock(t) ==
  /\ t \in waking
  /\ mutex = None
  /\ mutex' = t
  /\ waking' = waking \ {t}
  /\ UNCHANGED <<enlisted, grants>>

Next ==
  \/ \E t \in Threads :
       \/ Lock(t) \/ Unlock(t) \/ Enlist(t) \/ Park(t)
       \/ Wake(t) \/ Expire(t) \/ Relock(t)
  \/ Signal
  \/ Broadcast

Spec == Init /\ [][Next]_cvars

=============================================================================
