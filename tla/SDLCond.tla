------------------------------ MODULE SDLCond ------------------------------
(***************************************************************************)
(* SDL's generic condition variable, the one the Win32 build links         *)
(* (SDL/src/thread/generic/SDL_syscond.c over SDL_sysmutex.c and           *)
(* SDL_syssem.c of thread/win32), driven by threads that use it the way    *)
(* its API allows: lock the mutex; wait, signal or broadcast; unlock.      *)
(* A signal may also be sent without holding the mutex.                    *)
(*                                                                         *)
(* A section of code between SDL_LockMutex(cond->lock) and the matching    *)
(* unlock that never blocks is one step guarded by the lock being free.    *)
(* The one section that can block in the middle, the wait that eats a      *)
(* signal after timing out (lines 190-194), owns cond->lock in between.    *)
(* Definitions that no other uses are slips the properties tell apart.     *)
(***************************************************************************)
EXTENDS Integers, FiniteSets

CONSTANTS
  Threads,  \* the threads that share the condition variable
  Timed,    \* those that call SDL_CondWaitTimeout with a finite limit
  None      \* "nobody": not a thread

ASSUME SDLCondAssumption ==
  /\ IsFiniteSet(Threads)
  /\ Timed \subseteq Threads
  /\ None \notin Threads

VARIABLES
  mutex,     \* owner of the mutex that goes with the condition, or None
  lock,      \* owner of cond->lock across steps, or None
  waiting,   \* cond->waiting
  signals,   \* cond->signals
  wait_sem,  \* count of the semaphore cond->wait_sem
  wait_done, \* count of the semaphore cond->wait_done
  pc,        \* where each thread is
  acks       \* wait_done posts each signaller still has to collect

vars == <<mutex, lock, waiting, signals, wait_sem, wait_done, pc, acks>>

(***************************************************************************)
(* idle    outside            cs      holds the mutex, has not called yet  *)
(* enlist  waiting counted, mutex not yet released (lines 173-175)         *)
(* sem     in the wait on wait_sem (lines 178-182)                         *)
(* woken   that wait returned 0       expired  it returned TIMEDOUT        *)
(* eat     timed out, owns cond->lock, waits for wait_sem (line 194)       *)
(* relock  wants the mutex back (line 206)                                 *)
(* ack     a signaller collecting wait_done                                *)
(* done    holds the mutex, its call has returned                          *)
(***************************************************************************)
Places == {"idle", "cs", "enlist", "sem", "woken", "expired", "eat",
           "relock", "ack", "done"}

At(place) == {t \in Threads : pc[t] = place}

Goto(t, place) == pc' = [pc EXCEPT ![t] = place]

-----------------------------------------------------------------------------
Init ==
  /\ mutex = None
  /\ lock = None
  /\ waiting = 0
  /\ signals = 0
  /\ wait_sem = 0
  /\ wait_done = 0
  /\ pc = [t \in Threads |-> "idle"]
  /\ acks = [t \in Threads |-> 0]

LockMutex(t) ==
  /\ pc[t] = "idle"
  /\ mutex = None
  /\ mutex' = t
  /\ Goto(t, "cs")
  /\ UNCHANGED <<lock, waiting, signals, wait_sem, wait_done, acks>>

UnlockMutex(t) ==
  /\ pc[t] \in {"cs", "done"}
  /\ mutex' = None
  /\ Goto(t, "idle")
  /\ UNCHANGED <<lock, waiting, signals, wait_sem, wait_done, acks>>

-----------------------------------------------------------------------------
(* SDL_CondWaitTimeout *)

WaitEnlist(t) ==
  /\ pc[t] = "cs"
  /\ lock = None
  /\ waiting' = waiting + 1
  /\ Goto(t, "enlist")
  /\ UNCHANGED <<mutex, lock, signals, wait_sem, wait_done, acks>>

WaitRelease(t) ==
  /\ pc[t] = "enlist"
  /\ mutex' = None
  /\ Goto(t, "sem")
  /\ UNCHANGED <<lock, waiting, signals, wait_sem, wait_done, acks>>

WaitTake(t) ==
  /\ pc[t] = "sem"
  /\ wait_sem > 0
  /\ wait_sem' = wait_sem - 1
  /\ Goto(t, "woken")
  /\ UNCHANGED <<mutex, lock, waiting, signals, wait_done, acks>>

(* The kernel hands a posted semaphore to a waiter, so a wait times out    *)
(* only while the count is zero.                                           *)
WaitExpire(t) ==
  /\ pc[t] = "sem"
  /\ t \in Timed
  /\ wait_sem = 0
  /\ Goto(t, "expired")
  /\ UNCHANGED <<mutex, lock, waiting, signals, wait_sem, wait_done, acks>>

(* Variants of WaitFinish that a slip in lines 190-202 would give: the      *)
(* decrement moved out of the if, and the eaten signal forgotten.          *)
WaitFinishNeverEats(t) ==
  /\ pc[t] \in {"woken", "expired"}
  /\ lock = None
  /\ signals' = IF signals > 0 THEN signals - 1 ELSE 0
  /\ wait_done' = IF signals > 0 THEN wait_done + 1 ELSE wait_done
  /\ waiting' = waiting - 1
  /\ Goto(t, "relock")
  /\ UNCHANGED <<mutex, lock, wait_sem, acks>>

(* Lines 190-203 when the section does not block: either nobody signalled, *)
(* or this wait was signalled and completes the handshake.                 *)
WaitFinish(t) ==
  /\ lock = None
  /\ \/ /\ pc[t] \in {"woken", "expired"}
        /\ signals = 0
        /\ UNCHANGED <<signals, wait_done>>
     \/ /\ pc[t] = "woken"
        /\ signals > 0
        /\ wait_done' = wait_done + 1
        /\ signals' = signals - 1
  /\ waiting' = waiting - 1
  /\ Goto(t, "relock")
  /\ UNCHANGED <<mutex, lock, wait_sem, acks>>

(* Lines 190-194: timed out, but a signal is out: eat it, keeping the lock. *)
WaitEat(t) ==
  /\ pc[t] = "expired"
  /\ lock = None
  /\ signals > 0
  /\ lock' = t
  /\ Goto(t, "eat")
  /\ UNCHANGED <<mutex, waiting, signals, wait_sem, wait_done, acks>>

WaitEaten(t) ==
  /\ pc[t] = "eat"
  /\ wait_sem > 0
  /\ wait_sem' = wait_sem - 1
  /\ wait_done' = wait_done + 1
  /\ signals' = signals - 1
  /\ waiting' = waiting - 1
  /\ lock' = None
  /\ Goto(t, "relock")
  /\ UNCHANGED <<mutex, acks>>

WaitRelock(t) ==
  /\ pc[t] = "relock"
  /\ mutex = None
  /\ mutex' = t
  /\ Goto(t, "done")
  /\ UNCHANGED <<lock, waiting, signals, wait_sem, wait_done, acks>>

-----------------------------------------------------------------------------
(* SDL_CondSignal and SDL_CondBroadcast *)

Returned(t) == IF mutex = t THEN "done" ELSE "idle"

(* Variants of SignalSome: cond->lock kept while collecting (lines 94 and   *)
(* 95 swapped), and the wait for the woken threads left out.               *)
SignalSomeLocked(t, n) ==
  /\ signals' = signals + n
  /\ wait_sem' = wait_sem + n
  /\ acks' = [acks EXCEPT ![t] = n]
  /\ lock' = t
  /\ Goto(t, "ack")
  /\ UNCHANGED <<mutex, waiting, wait_done>>

SignalSomeNoWait(t, n) ==
  /\ signals' = signals + n
  /\ wait_sem' = wait_sem + n
  /\ acks' = acks
  /\ Goto(t, Returned(t))
  /\ UNCHANGED <<mutex, lock, waiting, wait_done>>

SignalSome(t, n) ==
  /\ signals' = signals + n
  /\ wait_sem' = wait_sem + n
  /\ acks' = [acks EXCEPT ![t] = n]
  /\ Goto(t, "ack")
  /\ UNCHANGED <<mutex, lock, waiting, wait_done>>

SignalNobody(t) ==
  /\ waiting <= signals
  /\ Goto(t, Returned(t))
  /\ UNCHANGED <<mutex, lock, waiting, signals, wait_sem, wait_done, acks>>

CondSignal(t) ==
  /\ pc[t] \in {"idle", "cs"}
  /\ lock = None
  /\ \/ /\ waiting > signals
        /\ SignalSome(t, 1)
     \/ SignalNobody(t)

CondBroadcast(t) ==
  /\ pc[t] \in {"idle", "cs"}
  /\ lock = None
  /\ \/ /\ waiting > signals
        /\ SignalSome(t, waiting - signals)
     \/ SignalNobody(t)

SignalCollect(t) ==
  /\ pc[t] = "ack"
  /\ wait_done > 0
  /\ wait_done' = wait_done - 1
  /\ acks' = [acks EXCEPT ![t] = @ - 1]
  /\ Goto(t, IF acks[t] = 1 THEN Returned(t) ELSE "ack")
  /\ UNCHANGED <<mutex, lock, waiting, signals, wait_sem>>

-----------------------------------------------------------------------------
Wait(t) ==
  \/ WaitEnlist(t) \/ WaitRelease(t) \/ WaitTake(t) \/ WaitExpire(t)
  \/ WaitFinish(t) \/ WaitEat(t) \/ WaitEaten(t) \/ WaitRelock(t)

Next == \E t \in Threads :
  \/ LockMutex(t) \/ UnlockMutex(t)
  \/ Wait(t)
  \/ CondSignal(t) \/ CondBroadcast(t) \/ SignalCollect(t)

Spec == Init /\ [][Next]_vars

(***************************************************************************)
(* A thread inside a call or holding the mutex keeps running, and Win32    *)
(* grants a mutex or a semaphore to its waiters in turn, so a thread       *)
(* cannot be passed over for ever: strong fairness of the steps that end   *)
(* what the thread has begun (a thread has one of them at a time).         *)
(* Nothing obliges an idle thread to call, nor a limit to run out.         *)
(***************************************************************************)
Continue(t) ==
  \/ UnlockMutex(t) \/ WaitRelease(t) \/ WaitTake(t) \/ WaitFinish(t)
  \/ WaitEat(t) \/ WaitEaten(t) \/ WaitRelock(t) \/ SignalCollect(t)

Fairness == \A t \in Threads : SF_vars(Continue(t))

FairSpec == Spec /\ Fairness

-----------------------------------------------------------------------------
(***************************************************************************)
(* Properties                                                              *)
(***************************************************************************)
TypeOK ==
  /\ mutex \in Threads \cup {None}
  /\ lock \in Threads \cup {None}
  /\ waiting \in Nat
  /\ signals \in Nat
  /\ wait_sem \in Nat
  /\ wait_done \in Nat
  /\ pc \in [Threads -> Places]
  /\ acks \in [Threads -> Nat]

(* The threads counted by cond->waiting.                                   *)
WaitPlaces == {"enlist", "sem", "woken", "expired", "eat"}

Waiting == {t \in Threads : pc[t] \in WaitPlaces}

(* cond->waiting counts the threads inside a wait, and every signal that   *)
(* is out is either a token in wait_sem or a thread that took one and has  *)
(* not yet finished the handshake: no token is lost or left over for a     *)
(* wait that begins later (lines 90-95, 114-126, 190-203).                 *)
SignalsAccounted ==
  /\ waiting = Cardinality(Waiting)
  /\ signals = wait_sem + Cardinality(At("woken"))

(* The abstract condition variable: enlisted are the threads whose wait    *)
(* has not consumed a wakeup, a grant is a token in wait_sem.              *)
Sleeping == {t \in Threads : pc[t] \in {"enlist", "sem", "expired", "eat"}}

Waking == {t \in Threads : pc[t] \in {"woken", "relock"}}

Abstract == INSTANCE CondVar WITH
  enlisted <- Sleeping,
  grants <- wait_sem,
  waking <- Waking

(* The implementation keeps the promise of SDL_mutex.h: see CondVar.       *)
ImplementsCondVar == Abstract!Spec

(* SDL_CondSignal and SDL_CondBroadcast return: the acknowledgements they  *)
(* wait for arrive (lines 95 and 127-129).  Only a limited wait that eats  *)
(* a signal can stop them (LimitedWaitReturns).                            *)
SignalReturns == \A t \in Threads :
  pc[t] = "ack" ~> (pc[t] # "ack" \/ At("eat") # {})

(* A thread that was woken gets the mutex back and its wait returns        *)
(* (lines 190-208), with the same exception.                               *)
WokenReturns == \A t \in Threads :
  pc[t] = "woken" ~> (pc[t] = "done" \/ At("eat") # {})

(* "Wait on the condition variable for at most 'ms' milliseconds" (line    *)
(* 137): a wait whose limit has run out returns.                           *)
LimitedWaitReturns == \A t \in Threads : pc[t] = "expired" ~> pc[t] = "done"

=============================================================================
