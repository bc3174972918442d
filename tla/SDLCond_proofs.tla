--------------------------- MODULE SDLCond_proofs ---------------------------
(***************************************************************************)
(* Proofs about SDLCond for every set of threads: its types, the           *)
(* bookkeeping of waiters and signals, that it implements CondVar, and,    *)
(* with the history variable of SDLCondAudience, whom a wakeup restarts.   *)
(***************************************************************************)
EXTENDS SDLCondAudience, FiniteSetTheorems, TLAPS

(* Who holds the mutex is where a holder can be, and the other way round.  *)
MutexHeld ==
  /\ \A t \in Threads : pc[t] \in {"cs", "enlist", "done"} => mutex = t
  /\ \A t \in Threads : mutex = t => pc[t] \in {"cs", "enlist", "ack", "done"}

(* A signaller that is collecting still has something to collect.          *)
AckPending == \A t \in Threads : pc[t] = "ack" => acks[t] > 0

(* Only a wait with a limit times out.                                     *)
OnlyTimed == \A t \in Threads : pc[t] \in {"expired", "eat"} => t \in Timed

IInv ==
  /\ TypeOK
  /\ MutexHeld
  /\ AckPending
  /\ OnlyTimed
  /\ SignalsAccounted

-----------------------------------------------------------------------------
(* Moving one thread changes a count of threads by what it enters or       *)
(* leaves.                                                                 *)
LEMMA OneMoves ==
  ASSUME NEW S \in SUBSET Threads, NEW T, NEW t \in Threads,
         T = S \cup {t} \/ T = S \ {t}
  PROVE  /\ IsFiniteSet(T)
         /\ Cardinality(S) \in Nat
         /\ Cardinality(T) = Cardinality(S) +
              (IF t \in T THEN IF t \in S THEN 0 ELSE 1
                          ELSE IF t \in S THEN -1 ELSE 0)
  <1>1. IsFiniteSet(S) /\ Cardinality(S) \in Nat
    BY SDLCondAssumption, FS_Subset, FS_CardinalityType
  <1>2. CASE T = S \cup {t}
    BY <1>1, <1>2, FS_AddElement
  <1>3. CASE T = S \ {t}
    BY <1>1, <1>3, FS_RemoveElement
  <1> QED BY <1>2, <1>3

LEMMA GotoCounts ==
  ASSUME TypeOK, NEW t \in Threads, NEW p \in Places, Goto(t, p)
  PROVE  /\ Cardinality(Waiting) \in Nat
         /\ Cardinality(At("woken")) \in Nat
         /\ Cardinality(Waiting)' = Cardinality(Waiting) +
              (IF p \in WaitPlaces
               THEN IF pc[t] \in WaitPlaces THEN 0 ELSE 1
               ELSE IF pc[t] \in WaitPlaces THEN -1 ELSE 0)
         /\ Cardinality(At("woken"))' = Cardinality(At("woken")) +
              (IF p = "woken"
               THEN IF pc[t] = "woken" THEN 0 ELSE 1
               ELSE IF pc[t] = "woken" THEN -1 ELSE 0)
         /\ pc[t] \in WaitPlaces => Cardinality(Waiting) > 0
         /\ pc[t] = "woken" => Cardinality(At("woken")) > 0
  <1>1. /\ pc' = [pc EXCEPT ![t] = p]
        /\ pc \in [Threads -> Places]
    BY DEF Goto, TypeOK
  <1>2. /\ Waiting \in SUBSET Threads
        /\ Waiting' = Waiting \cup {t} \/ Waiting' = Waiting \ {t}
        /\ t \in Waiting' <=> p \in WaitPlaces
        /\ t \in Waiting <=> pc[t] \in WaitPlaces
    BY <1>1 DEF Waiting
  <1>3. /\ At("woken") \in SUBSET Threads
        /\ At("woken")' = At("woken") \cup {t} \/ At("woken")' = At("woken") \ {t}
        /\ t \in At("woken")' <=> p = "woken"
        /\ t \in At("woken") <=> pc[t] = "woken"
    BY <1>1 DEF At
  <1>4. /\ t \in Waiting => Cardinality(Waiting) > 0
        /\ t \in At("woken") => Cardinality(At("woken")) > 0
    BY <1>2, <1>3, SDLCondAssumption, FS_Subset, FS_CardinalityType, FS_EmptySet
  <1>5. /\ Cardinality(Waiting) \in Nat
        /\ Cardinality(Waiting)' = Cardinality(Waiting) +
              (IF t \in Waiting' THEN IF t \in Waiting THEN 0 ELSE 1
                                 ELSE IF t \in Waiting THEN -1 ELSE 0)
    BY <1>2, OneMoves
  <1>6. /\ Cardinality(At("woken")) \in Nat
        /\ Cardinality(At("woken"))' = Cardinality(At("woken")) +
              (IF t \in At("woken")' THEN IF t \in At("woken") THEN 0 ELSE 1
                                     ELSE IF t \in At("woken") THEN -1 ELSE 0)
    BY <1>3, OneMoves
  <1> QED BY <1>2, <1>3, <1>4, <1>5, <1>6

-----------------------------------------------------------------------------
LEMMA InitIInv == Init => IInv
  <1> SUFFICES ASSUME Init PROVE IInv
    OBVIOUS
  <1> USE DEF Init
  <1>1. Waiting = {} /\ At("woken") = {}
    BY DEF Waiting, WaitPlaces, At
  <1>2. SignalsAccounted
    BY <1>1, FS_EmptySet DEF SignalsAccounted
  <1>3. MutexHeld
    BY SDLCondAssumption DEF MutexHeld
  <1>4. TypeOK /\ AckPending /\ OnlyTimed
    BY DEF TypeOK, Places, AckPending, OnlyTimed
  <1> QED BY <1>2, <1>3, <1>4 DEF IInv

LEMMA NextIInv == IInv /\ [Next]_vars => IInv'
  <1> SUFFICES ASSUME IInv, [Next]_vars PROVE IInv'
    OBVIOUS
  <1> USE SDLCondAssumption DEF IInv, TypeOK
  <1>1. ASSUME UNCHANGED vars PROVE IInv'
    BY <1>1 DEF vars, MutexHeld, AckPending, OnlyTimed, SignalsAccounted, Waiting, At
  <1>2. ASSUME NEW t \in Threads, LockMutex(t) PROVE IInv'
    <2>1. Goto(t, "cs") /\ "cs" \in Places
      BY <1>2 DEF LockMutex, Places
    <2>2. TypeOK' /\ MutexHeld' /\ AckPending' /\ OnlyTimed'
      BY <1>2 DEF LockMutex, Goto, Places, MutexHeld, AckPending, OnlyTimed
    <2>3. SignalsAccounted'
      BY <2>1, <1>2, GotoCounts DEF LockMutex, SignalsAccounted, WaitPlaces
    <2> QED BY <2>2, <2>3
  <1>3. ASSUME NEW t \in Threads, UnlockMutex(t) PROVE IInv'
    <2>1. Goto(t, "idle") /\ "idle" \in Places
      BY <1>3 DEF UnlockMutex, Places
    <2>2. TypeOK' /\ MutexHeld' /\ AckPending' /\ OnlyTimed'
      BY <1>3 DEF UnlockMutex, Goto, Places, MutexHeld, AckPending, OnlyTimed
    <2>3. SignalsAccounted'
      BY <2>1, <1>3, GotoCounts DEF UnlockMutex, SignalsAccounted, WaitPlaces
    <2> QED BY <2>2, <2>3
  <1>4. ASSUME NEW t \in Threads, WaitEnlist(t) PROVE IInv'
    <2>1. Goto(t, "enlist") /\ "enlist" \in Places
      BY <1>4 DEF WaitEnlist, Places
    <2>2. TypeOK' /\ MutexHeld' /\ AckPending' /\ OnlyTimed'
      BY <1>4 DEF WaitEnlist, Goto, Places, MutexHeld, AckPending, OnlyTimed
    <2>3. SignalsAccounted'
      BY <2>1, <1>4, GotoCounts DEF WaitEnlist, SignalsAccounted, WaitPlaces
    <2> QED BY <2>2, <2>3
  <1>5. ASSUME NEW t \in Threads, WaitRelease(t) PROVE IInv'
    <2>1. Goto(t, "sem") /\ "sem" \in Places
      BY <1>5 DEF WaitRelease, Places
    <2>2. TypeOK' /\ MutexHeld' /\ AckPending' /\ OnlyTimed'
      BY <1>5 DEF WaitRelease, Goto, Places, MutexHeld, AckPending, OnlyTimed
    <2>3. SignalsAccounted'
      BY <2>1, <1>5, GotoCounts DEF WaitRelease, SignalsAccounted, WaitPlaces
    <2> QED BY <2>2, <2>3
  <1>6. ASSUME NEW t \in Threads, WaitTake(t) PROVE IInv'
    <2>1. Goto(t, "woken") /\ "woken" \in Places
      BY <1>6 DEF WaitTake, Places
    <2>2. TypeOK' /\ MutexHeld' /\ AckPending' /\ OnlyTimed'
      BY <1>6 DEF WaitTake, Goto, Places, MutexHeld, AckPending, OnlyTimed
    <2>3. SignalsAccounted'
      BY <2>1, <1>6, GotoCounts DEF WaitTake, SignalsAccounted, WaitPlaces
    <2> QED BY <2>2, <2>3
  <1>7. ASSUME NEW t \in Threads, WaitExpire(t) PROVE IInv'
    <2>1. Goto(t, "expired") /\ "expired" \in Places
      BY <1>7 DEF WaitExpire, Places
    <2>2. TypeOK' /\ MutexHeld' /\ AckPending' /\ OnlyTimed'
      BY <1>7 DEF WaitExpire, Goto, Places, MutexHeld, AckPending, OnlyTimed
    <2>3. SignalsAccounted'
      BY <2>1, <1>7, GotoCounts DEF WaitExpire, SignalsAccounted, WaitPlaces
    <2> QED BY <2>2, <2>3
  <1>8. ASSUME NEW t \in Threads, WaitFinish(t) PROVE IInv'
    <2>1. Goto(t, "relock") /\ "relock" \in Places
      BY <1>8 DEF WaitFinish, Places
    <2>2. SignalsAccounted' /\ waiting > 0
      BY <2>1, <1>8, GotoCounts DEF WaitFinish, SignalsAccounted, WaitPlaces
    <2>3. TypeOK' /\ MutexHeld' /\ AckPending' /\ OnlyTimed'
      BY <2>2, <1>8 DEF WaitFinish, Goto, Places, MutexHeld, AckPending, OnlyTimed
    <2> QED BY <2>2, <2>3
  <1>9. ASSUME NEW t \in Threads, WaitEat(t) PROVE IInv'
    <2>1. Goto(t, "eat") /\ "eat" \in Places
      BY <1>9 DEF WaitEat, Places
    <2>2. TypeOK' /\ MutexHeld' /\ AckPending' /\ OnlyTimed'
      BY <1>9 DEF WaitEat, Goto, Places, MutexHeld, AckPending, OnlyTimed
    <2>3. SignalsAccounted'
      BY <2>1, <1>9, GotoCounts DEF WaitEat, SignalsAccounted, WaitPlaces
    <2> QED BY <2>2, <2>3
  <1>10. ASSUME NEW t \in Threads, WaitEaten(t) PROVE IInv'
    <2>1. Goto(t, "relock") /\ "relock" \in Places
      BY <1>10 DEF WaitEaten, Places
    <2>2. SignalsAccounted' /\ waiting > 0 /\ signals > 0
      BY <2>1, <1>10, GotoCounts DEF WaitEaten, SignalsAccounted, WaitPlaces
    <2>3. TypeOK' /\ MutexHeld' /\ AckPending' /\ OnlyTimed'
      BY <2>2, <1>10 DEF WaitEaten, Goto, Places, MutexHeld, AckPending, OnlyTimed
    <2> QED BY <2>2, <2>3
  <1>11. ASSUME NEW t \in Threads, WaitRelock(t) PROVE IInv'
    <2>1. Goto(t, "done") /\ "done" \in Places
      BY <1>11 DEF WaitRelock, Places
    <2>2. TypeOK' /\ MutexHeld' /\ AckPending' /\ OnlyTimed'
      BY <1>11 DEF WaitRelock, Goto, Places, MutexHeld, AckPending, OnlyTimed
    <2>3. SignalsAccounted'
      BY <2>1, <1>11, GotoCounts DEF WaitRelock, SignalsAccounted, WaitPlaces
    <2> QED BY <2>2, <2>3
  <1>12. ASSUME NEW t \in Threads, NEW n \in Nat, n > 0,
                pc[t] \in {"idle", "cs"}, SignalSome(t, n)
         PROVE  IInv'
    <2>1. Goto(t, "ack") /\ "ack" \in Places
      BY <1>12 DEF SignalSome, Places
    <2>2. TypeOK' /\ MutexHeld' /\ AckPending' /\ OnlyTimed'
      BY <1>12 DEF SignalSome, Goto, Places, MutexHeld, AckPending, OnlyTimed
    <2>3. SignalsAccounted'
      BY <2>1, <1>12, GotoCounts DEF SignalSome, SignalsAccounted, WaitPlaces
    <2> QED BY <2>2, <2>3
  <1>13. ASSUME NEW t \in Threads, pc[t] \in {"idle", "cs"}, SignalNobody(t)
         PROVE  IInv'
    <2>1. Goto(t, Returned(t)) /\ Returned(t) \in {"idle", "done"}
      BY <1>13 DEF SignalNobody, Returned
    <2>2. TypeOK' /\ MutexHeld' /\ AckPending' /\ OnlyTimed'
      BY <1>13 DEF SignalNobody, Returned, Goto, Places, MutexHeld, AckPending, OnlyTimed
    <2>3. SignalsAccounted'
      BY <2>1, <1>13, GotoCounts
         DEF SignalNobody, SignalsAccounted, WaitPlaces, Places
    <2> QED BY <2>2, <2>3
  <1>14. ASSUME NEW t \in Threads, CondSignal(t) PROVE IInv'
    BY <1>12, <1>13, <1>14 DEF CondSignal
  <1>15. ASSUME NEW t \in Threads, CondBroadcast(t) PROVE IInv'
    <2>1. waiting > signals => waiting - signals \in Nat /\ waiting - signals > 0
      OBVIOUS
    <2> QED BY <2>1, <1>12, <1>13, <1>15 DEF CondBroadcast
  <1>16. ASSUME NEW t \in Threads, SignalCollect(t) PROVE IInv'
    <2> DEFINE p == IF acks[t] = 1 THEN Returned(t) ELSE "ack"
    <2>1. Goto(t, p) /\ p \in {"idle", "done", "ack"}
      BY <1>16 DEF SignalCollect, Returned
    <2>2. TypeOK' /\ MutexHeld' /\ AckPending' /\ OnlyTimed'
      BY <1>16 DEF SignalCollect, Returned, Goto, Places, MutexHeld, AckPending, OnlyTimed
    <2>3. SignalsAccounted'
      <3> HIDE DEF p
      <3> QED BY <2>1, <1>16, GotoCounts
              DEF SignalCollect, SignalsAccounted, WaitPlaces, Places
    <2> QED BY <2>2, <2>3
  <1> QED
    BY <1>1, <1>2, <1>3, <1>4, <1>5, <1>6, <1>7, <1>8, <1>9, <1>10, <1>11,
       <1>14, <1>15, <1>16 DEF Next, Wait

LEMMA InductiveInvariant == Spec => []IInv
  BY InitIInv, NextIInv, PTL DEF Spec

(* The variables of the condition keep their types: no counter and no      *)
(* semaphore ever goes below zero, whatever the threads do.                *)
THEOREM TypeCorrect == Spec => []TypeOK
  <1>1. IInv => TypeOK
    BY DEF IInv
  <1> QED BY <1>1, InductiveInvariant, PTL

(* cond->waiting counts the waits that have begun and not ended, and each  *)
(* signal that is out is a token in wait_sem or a woken thread.            *)
THEOREM Accounted == Spec => []SignalsAccounted
  <1>1. IInv => SignalsAccounted
    BY DEF IInv
  <1> QED BY <1>1, InductiveInvariant, PTL

-----------------------------------------------------------------------------
(***************************************************************************)
(* Refinement of CondVar                                                   *)
(***************************************************************************)
LEMMA SleepingCount ==
  ASSUME TypeOK
  PROVE  Cardinality(Sleeping) = Cardinality(Waiting) - Cardinality(At("woken"))
  <1>1. /\ Waiting = Sleeping \cup At("woken")
        /\ Sleeping \cap At("woken") = {}
    BY DEF Waiting, Sleeping, At, WaitPlaces
  <1>2. /\ IsFiniteSet(Sleeping)
        /\ IsFiniteSet(At("woken"))
    BY SDLCondAssumption, FS_Subset DEF Sleeping, At
  <1>3. /\ Cardinality(Sleeping) \in Nat
        /\ Cardinality(At("woken")) \in Nat
    BY <1>2, FS_CardinalityType
  <1>4. Cardinality(Waiting) =
          Cardinality(Sleeping) + Cardinality(At("woken")) - Cardinality({})
    BY <1>1, <1>2, FS_Union
  <1> QED BY <1>3, <1>4, FS_EmptySet

(* A signal can be sent only if some sleeping thread has none coming.      *)
LEMMA GrantsBounded ==
  ASSUME IInv
  PROVE  /\ waiting - signals = Cardinality(Sleeping) - wait_sem
         /\ waiting \in Nat /\ signals \in Nat /\ wait_sem \in Nat
         /\ Cardinality(Sleeping) \in Nat
  <1>1. /\ Cardinality(Waiting) \in Nat
        /\ IsFiniteSet(At("woken"))
        /\ IsFiniteSet(Sleeping)
    BY SDLCondAssumption, FS_Subset, FS_CardinalityType DEF Waiting, At, Sleeping
  <1>2. /\ Cardinality(At("woken")) \in Nat
        /\ Cardinality(Sleeping) \in Nat
    BY <1>1, FS_CardinalityType
  <1> QED
    BY <1>1, <1>2, SleepingCount DEF IInv, TypeOK, SignalsAccounted

LEMMA SameCardinality ==
  ASSUME NEW S PROVE Abstract!Cardinality(S) = Cardinality(S)
  BY DEF Cardinality, Abstract!Cardinality

LEMMA RefinesInit == Init => Abstract!Init
  <1> SUFFICES ASSUME Init PROVE Abstract!Init
    OBVIOUS
  <1> QED BY DEF Init, Abstract!Init, Sleeping, Waking

LEMMA RefinesNext ==
  IInv /\ [Next]_vars => [Abstract!Next]_(Abstract!cvars)
  <1> SUFFICES ASSUME IInv, [Next]_vars
               PROVE  [Abstract!Next]_(Abstract!cvars)
    OBVIOUS
  <1> USE SDLCondAssumption DEF IInv, TypeOK
  <1>1. CASE UNCHANGED vars
    BY <1>1 DEF vars, Abstract!cvars, Sleeping, Waking
  <1>2. ASSUME NEW t \in Threads, LockMutex(t) PROVE Abstract!Next
    <2>1. Abstract!Lock(t)
      BY <1>2
         DEF LockMutex, Goto, MutexHeld, Sleeping, Waking,
             Abstract!Lock
    <2> QED BY <2>1 DEF Abstract!Next
  <1>3. ASSUME NEW t \in Threads, UnlockMutex(t) PROVE Abstract!Next
    <2>1. Abstract!Unlock(t)
      BY <1>3
         DEF UnlockMutex, Goto, MutexHeld, Sleeping, Waking,
             Abstract!Unlock
    <2> QED BY <2>1 DEF Abstract!Next
  <1>4. ASSUME NEW t \in Threads, WaitEnlist(t) PROVE Abstract!Next
    <2>1. Abstract!Enlist(t)
      BY <1>4
         DEF WaitEnlist, Goto, MutexHeld, Sleeping, Waking,
             Abstract!Enlist
    <2> QED BY <2>1 DEF Abstract!Next
  <1>5. ASSUME NEW t \in Threads, WaitRelease(t) PROVE Abstract!Next
    <2>1. Abstract!Park(t)
      BY <1>5
         DEF WaitRelease, Goto, MutexHeld, Sleeping, Waking,
             Abstract!Park
    <2> QED BY <2>1 DEF Abstract!Next
  <1>6. ASSUME NEW t \in Threads, WaitTake(t) PROVE Abstract!Next
    <2>1. Abstract!Wake(t)
      BY <1>6
         DEF WaitTake, Goto, MutexHeld, Sleeping, Waking,
             Abstract!Wake
    <2> QED BY <2>1 DEF Abstract!Next
  <1>7. ASSUME NEW t \in Threads, WaitExpire(t) PROVE UNCHANGED Abstract!cvars
    BY <1>7 DEF WaitExpire, Goto, Sleeping, Waking, Abstract!cvars
  <1>8. ASSUME NEW t \in Threads, WaitFinish(t)
        PROVE  [Abstract!Next]_(Abstract!cvars)
    <2>1. CASE pc[t] = "woken"
      BY <1>8, <2>1 DEF WaitFinish, Goto, Sleeping, Waking, Abstract!cvars
    <2>2. CASE pc[t] = "expired"
      <3>1. wait_sem = 0
        <4>1. signals = 0
          BY <1>8, <2>2 DEF WaitFinish
        <4>2. Cardinality(At("woken")) \in Nat
          BY FS_Subset, FS_CardinalityType DEF At
        <4> QED BY <4>1, <4>2 DEF SignalsAccounted
      <3>2. t \in Sleeping /\ Cardinality(Sleeping) > 0
        <4>1. t \in Sleeping /\ Sleeping \subseteq Threads
          BY <2>2 DEF Sleeping
        <4>2. IsFiniteSet(Sleeping)
          BY <4>1, FS_Subset
        <4> QED BY <4>1, <4>2, FS_EmptySet, FS_CardinalityType
      <3>3. Sleeping' = Sleeping \ {t} /\ Waking' = Waking \cup {t}
        BY <1>8, <2>2 DEF WaitFinish, Goto, Sleeping, Waking
      <3>4. mutex # t /\ t \in Timed
        BY <2>2 DEF MutexHeld, OnlyTimed
      <3>5. wait_sem < Cardinality(Sleeping)
        BY <3>1, <3>2
      <3>6. Abstract!Expire(t)
        BY <1>8, <3>2, <3>3, <3>4, <3>5, SameCardinality DEF WaitFinish, Abstract!Expire
      <3> QED BY <3>6 DEF Abstract!Next
    <2> QED BY <1>8, <2>1, <2>2 DEF WaitFinish
  <1>9. ASSUME NEW t \in Threads, WaitEat(t) PROVE UNCHANGED Abstract!cvars
    BY <1>9 DEF WaitEat, Goto, Sleeping, Waking, Abstract!cvars
  <1>10. ASSUME NEW t \in Threads, WaitEaten(t) PROVE Abstract!Next
    <2>1. Abstract!Wake(t)
      BY <1>10
         DEF WaitEaten, Goto, MutexHeld, Sleeping, Waking,
             Abstract!Wake
    <2> QED BY <2>1 DEF Abstract!Next
  <1>11. ASSUME NEW t \in Threads, WaitRelock(t) PROVE Abstract!Next
    <2>1. Abstract!Relock(t)
      BY <1>11
         DEF WaitRelock, Goto, MutexHeld, Sleeping, Waking,
             Abstract!Relock
    <2> QED BY <2>1 DEF Abstract!Next
  <1>12. ASSUME NEW t \in Threads, pc[t] \in {"idle", "cs"}, SignalNobody(t)
         PROVE  UNCHANGED Abstract!cvars
    BY <1>12 DEF SignalNobody, Returned, Goto, Sleeping, Waking, Abstract!cvars
  <1>13. ASSUME NEW t \in Threads, CondSignal(t)
         PROVE  [Abstract!Next]_(Abstract!cvars)
    <2>1. CASE waiting > signals /\ SignalSome(t, 1)
      <3>1. Sleeping' = Sleeping /\ Waking' = Waking
        BY <1>13, <2>1 DEF CondSignal, SignalSome, Goto, Sleeping, Waking
      <3>2. Abstract!Signal
        BY <2>1, <3>1, GrantsBounded, SameCardinality DEF SignalSome, Abstract!Signal
      <3> QED BY <3>2 DEF Abstract!Next
    <2> QED BY <1>12, <1>13, <2>1 DEF CondSignal
  <1>14. ASSUME NEW t \in Threads, CondBroadcast(t)
         PROVE  [Abstract!Next]_(Abstract!cvars)
    <2>1. CASE waiting > signals /\ SignalSome(t, waiting - signals)
      <3>1. Sleeping' = Sleeping /\ Waking' = Waking
        BY <1>14, <2>1 DEF CondBroadcast, SignalSome, Goto, Sleeping, Waking
      <3>2. Abstract!Broadcast
        BY <2>1, <3>1, GrantsBounded, SameCardinality DEF SignalSome, Abstract!Broadcast
      <3> QED BY <3>2 DEF Abstract!Next
    <2> QED BY <1>12, <1>14, <2>1 DEF CondBroadcast
  <1>15. ASSUME NEW t \in Threads, SignalCollect(t) PROVE UNCHANGED Abstract!cvars
    BY <1>15 DEF SignalCollect, Goto, Sleeping, Waking, Abstract!cvars, Returned
  <1> QED
    BY <1>1, <1>2, <1>3, <1>4, <1>5, <1>6, <1>7, <1>8, <1>9, <1>10, <1>11,
       <1>13, <1>14, <1>15 DEF Next, Wait

(* The generic condition variable keeps the promise of SDL_mutex.h for any *)
(* number of threads, with or without time limits: every step of it is a   *)
(* step of the abstract condition variable or changes nothing there.       *)
THEOREM Refinement == Spec => ImplementsCondVar
  BY RefinesInit, RefinesNext, InductiveInvariant, PTL
     DEF Spec, ImplementsCondVar, Abstract!Spec

-----------------------------------------------------------------------------
(***************************************************************************)
(* Who a wakeup restarts                                                   *)
(***************************************************************************)
(* The acknowledgements the signallers wait for, each with its number: as  *)
(* many as there are signals out and posts of wait_done not yet collected. *)
Owed == {p \in Threads \X Nat : p[2] \in 1 .. acks[p[1]]}

OwedCounted ==
  /\ IsFiniteSet(Owed)
  /\ Cardinality(Owed) = wait_done + signals
  /\ \A t \in Threads : pc[t] # "ack" => acks[t] = 0

(* While a signaller holds the mutex nobody comes to wait.                 *)
AudienceStays ==
  /\ audience \in [Threads -> SUBSET Threads]
  /\ \A s \in Threads : pc[s] = "ack" /\ mutex = s => Waiting \subseteq audience[s]

LEMMA OwedInit == Init => OwedCounted
  <1> SUFFICES ASSUME Init PROVE OwedCounted
    OBVIOUS
  <1>1. Owed = {}
    BY DEF Init, Owed
  <1> QED BY <1>1, FS_EmptySet DEF Init, OwedCounted

(* Only a signal that is sent, one that is consumed and one that is        *)
(* collected change what is owed.                                          *)
LEMMA SendOwes ==
  ASSUME TypeOK, OwedCounted, NEW t \in Threads, NEW n \in Nat,
         pc[t] # "ack", SignalSome(t, n)
  PROVE  OwedCounted'
  <1> DEFINE new == {t} \X (1 .. n)
  <1>1. Owed' = Owed \cup new /\ Owed \cap new = {}
    BY DEF Owed, SignalSome, TypeOK, OwedCounted
  <1>2. IsFiniteSet(new) /\ Cardinality(new) = n
    <2>1. IsFiniteSet({t}) /\ Cardinality({t}) = 1
      BY FS_Singleton
    <2>2. IsFiniteSet(1 .. n) /\ Cardinality(1 .. n) = n
      BY FS_Interval
    <2>3. PICK T : T = 1 .. n
      OBVIOUS
    <2>4. IsFiniteSet({t} \X T) /\ Cardinality({t} \X T) = Cardinality({t}) * Cardinality(T)
      BY <2>1, <2>2, <2>3, FS_Product
    <2>5. Cardinality({t}) * Cardinality(T) = 1 * n
      BY <2>1, <2>2, <2>3
    <2> QED BY <2>3, <2>4, <2>5
  <1>3. IsFiniteSet(Owed') /\ Cardinality(Owed') = Cardinality(Owed) + n
    <2> HIDE DEF new
    <2>1. IsFiniteSet(Owed) /\ Cardinality(Owed) \in Nat
      BY FS_CardinalityType DEF OwedCounted
    <2>2. /\ IsFiniteSet(Owed \cup new)
          /\ Cardinality(Owed \cup new) = Cardinality(Owed) + n - Cardinality({})
      BY <1>1, <1>2, <2>1, FS_Union
    <2> QED BY <1>1, <2>1, <2>2, FS_EmptySet
  <1>4. signals' = signals + n /\ wait_done' = wait_done
    BY DEF SignalSome
  <1>5. \A u \in Threads : pc'[u] # "ack" => acks'[u] = 0
    BY DEF SignalSome, Goto, TypeOK, OwedCounted
  <1> QED BY <1>3, <1>4, <1>5 DEF OwedCounted, TypeOK

LEMMA CollectOwes ==
  ASSUME IInv, OwedCounted, NEW t \in Threads, SignalCollect(t)
  PROVE  OwedCounted'
  <1> DEFINE p == <<t, acks[t]>>
  <1>1. Owed' = Owed \ {p} /\ p \in Owed
    BY DEF Owed, SignalCollect, IInv, TypeOK, AckPending
  <1>2. IsFiniteSet(Owed') /\ Cardinality(Owed') = Cardinality(Owed) - 1
    <2> HIDE DEF p
    <2> QED BY <1>1, FS_RemoveElement DEF OwedCounted
  <1>3. wait_done' = wait_done - 1 /\ signals' = signals
    BY DEF SignalCollect
  <1>4. \A u \in Threads : pc'[u] # "ack" => acks'[u] = 0
    BY DEF SignalCollect, Goto, IInv, TypeOK, OwedCounted, Returned
  <1> QED BY <1>2, <1>3, <1>4 DEF OwedCounted, IInv, TypeOK

LEMMA OwedNext == IInv /\ OwedCounted /\ [Next]_vars => OwedCounted'
  <1> SUFFICES ASSUME IInv, OwedCounted, [Next]_vars PROVE OwedCounted'
    OBVIOUS
  <1>1. ASSUME acks' = acks, wait_done' + signals' = wait_done + signals,
               \A u \in Threads : pc'[u] # "ack" => pc[u] # "ack"
        PROVE  OwedCounted'
    <2>1. Owed' = Owed
      BY <1>1 DEF Owed
    <2> QED BY <1>1, <2>1 DEF OwedCounted
  <1> USE DEF IInv, TypeOK
  <1>2. CASE UNCHANGED vars
    BY <1>1, <1>2 DEF vars
  <1>3. ASSUME NEW t \in Threads,
               \/ LockMutex(t) \/ UnlockMutex(t) \/ WaitEnlist(t) \/ WaitRelease(t)
               \/ WaitTake(t) \/ WaitExpire(t) \/ WaitEat(t) \/ WaitRelock(t)
        PROVE  OwedCounted'
    BY <1>1, <1>3 DEF Goto, LockMutex, UnlockMutex, WaitEnlist, WaitRelease, WaitTake,
       WaitExpire, WaitEat, WaitRelock
  <1>4. ASSUME NEW t \in Threads, WaitFinish(t) \/ WaitEaten(t) PROVE OwedCounted'
    BY <1>1, <1>4 DEF Goto, WaitFinish, WaitEaten
  <1>5. ASSUME NEW t \in Threads, pc[t] \in {"idle", "cs"}, SignalNobody(t)
        PROVE  OwedCounted'
    BY <1>1, <1>5 DEF Goto, SignalNobody
  <1>6. ASSUME NEW t \in Threads, CondSignal(t) \/ CondBroadcast(t) PROVE OwedCounted'
    <2>1. pc[t] \in {"idle", "cs"}
      BY <1>6 DEF CondSignal, CondBroadcast
    <2>2. waiting > signals => waiting - signals \in Nat
      OBVIOUS
    <2> QED BY <1>5, <1>6, <2>1, <2>2, SendOwes DEF CondSignal, CondBroadcast
  <1> QED BY <1>2, <1>3, <1>4, <1>6, CollectOwes DEF Next, Wait

LEMMA AudienceNext ==
  IInv /\ OwedCounted /\ AudienceStays /\ [Next /\ Record]_avars => AudienceStays'
  <1> SUFFICES ASSUME IInv, OwedCounted, AudienceStays, [Next /\ Record]_avars
               PROVE  AudienceStays'
    OBVIOUS
  <1>1. CASE UNCHANGED avars
    BY <1>1 DEF avars, vars, AudienceStays, Waiting
  <1>2. CASE Next /\ Record
    <2>1. Waiting \in SUBSET Threads
      BY DEF Waiting
    <2>2. audience' \in [Threads -> SUBSET Threads]
      BY <1>2, <2>1 DEF Record, AudienceStays
    <2>3. ASSUME NEW s \in Threads, pc'[s] = "ack", mutex' = s
          PROVE  Waiting' \subseteq audience'[s]
      <3> USE DEF IInv, TypeOK, WaitPlaces, Places
      <3>1. PICK t \in Threads :
              \/ LockMutex(t) \/ UnlockMutex(t) \/ Wait(t)
              \/ CondSignal(t) \/ CondBroadcast(t) \/ SignalCollect(t)
        BY <1>2 DEF Next
      <3>2. mutex = s /\ pc[s] \in {"idle", "cs", "ack"}
        <4> USE <2>3
        <4>1. ~ LockMutex(t) /\ ~ UnlockMutex(t) /\ ~ WaitRelease(t) /\ ~ WaitRelock(t)
          BY SDLCondAssumption DEF LockMutex, UnlockMutex, WaitRelease, WaitRelock, Goto
        <4>2. mutex' = mutex
          BY <3>1, <4>1 DEF Wait, WaitEnlist, WaitTake,
             WaitExpire, WaitFinish, WaitEat, WaitEaten, CondSignal, CondBroadcast,
             SignalSome, SignalNobody, SignalCollect
        <4>3. pc[s] \notin {"idle", "cs"} => pc[s] = "ack"
          BY <3>1, <4>1 DEF Wait, WaitEnlist, WaitTake,
             WaitExpire, WaitFinish, WaitEat, WaitEaten, CondSignal, CondBroadcast,
             SignalSome, SignalNobody, SignalCollect, Goto, Returned
        <4> QED BY <4>2, <4>3
      <3>3. Waiting' \subseteq Waiting
        <4>1. ~ WaitEnlist(t)
          BY <2>3, <3>2 DEF WaitEnlist, MutexHeld, Goto
        <4> QED BY <3>1, <4>1 DEF LockMutex, UnlockMutex, Wait, WaitRelease, WaitTake,
           WaitExpire, WaitFinish, WaitEat, WaitEaten, WaitRelock, CondSignal, CondBroadcast,
           SignalSome, SignalNobody, SignalCollect, Goto, Returned, Waiting
      <3>4. CASE pc[s] = "ack"
        <4>1. acks[s] # 0
          BY <3>4 DEF AckPending
        <4>2. audience'[s] = audience[s]
          BY <1>2, <4>1 DEF Record
        <4> QED BY <3>2, <3>3, <3>4, <4>2 DEF AudienceStays
      <3>5. CASE pc[s] # "ack"
        <4>1. acks[s] = 0
          BY <3>5 DEF OwedCounted
        <4>2. acks'[s] > 0
          <5>1. IInv'
            BY <1>2, NextIInv
          <5>2. AckPending'
            BY <5>1 DEF IInv
          <5> QED BY <2>3, <5>2 DEF AckPending
        <4>3. audience'[s] = Waiting
          BY <1>2, <4>1, <4>2 DEF Record
        <4> QED BY <3>3, <4>3
      <3> QED BY <3>4, <3>5
    <2> QED BY <2>2, <2>3 DEF AudienceStays
  <1> QED BY <1>1, <1>2

LEMMA AudienceImplies == IInv /\ OwedCounted /\ AudienceStays => RestartsAWaiter
  <1> SUFFICES ASSUME IInv, OwedCounted, AudienceStays, At("ack") \subseteq {mutex},
                      NEW u \in At("woken")
               PROVE  \E s \in At("ack") : u \in audience[s]
    BY DEF RestartsAWaiter
  <1>1. signals > 0
    <2>1. IsFiniteSet(At("woken"))
      BY SDLCondAssumption, FS_Subset DEF At
    <2>2. Cardinality(At("woken")) \in Nat /\ Cardinality(At("woken")) # 0
      BY <2>1, FS_CardinalityType, FS_EmptySet
    <2> QED BY <2>2 DEF IInv, TypeOK, SignalsAccounted
  <1>2. Owed # {}
    BY <1>1, FS_EmptySet DEF OwedCounted, IInv, TypeOK
  <1>3. PICK s \in Threads : acks[s] # 0
    BY <1>2 DEF Owed, IInv, TypeOK
  <1>4. s \in At("ack") /\ mutex = s /\ pc[s] = "ack"
    BY <1>3 DEF OwedCounted, At
  <1>5. u \in Waiting
    BY DEF At, Waiting, WaitPlaces
  <1> QED BY <1>4, <1>5 DEF AudienceStays

(* However many threads share the condition and however they time out, a   *)
(* wakeup sent while holding the mutex restarts a thread that was waiting  *)
(* when it was sent.                                                       *)
THEOREM AudienceRestarted == AudienceSpec => []RestartsAWaiter
  <1>1. AudienceInit => IInv /\ OwedCounted /\ AudienceStays
    BY InitIInv, OwedInit DEF AudienceInit, Init, AudienceStays
  <1>2. IInv /\ OwedCounted /\ [Next /\ Record]_avars => IInv' /\ OwedCounted'
    BY NextIInv, OwedNext DEF avars
  <1> QED BY <1>1, <1>2, AudienceNext, AudienceImplies, PTL DEF AudienceSpec

=============================================================================
