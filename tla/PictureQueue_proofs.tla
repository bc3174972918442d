------------------------- MODULE PictureQueue_proofs -------------------------
(***************************************************************************)
(* Proofs about PictureQueue for every length of the ring, capacity of the *)
(* event queue, and set of pictures and dimensions; the last one shows that *)
(* it implements FrameQueue.                                               *)
(***************************************************************************)
EXTENDS PictureQueue, TLAPS

(* Nothing fills the ring but the video thread, so the room it found when  *)
(* it checked is still there; nothing empties it but the main thread.      *)
Room ==
  /\ vpc \in VideoPlaces \ {"decode", "space", "sleepSpace"} => size < N
  /\ mpc \in {"show", "display", "advance", "count"} => size > 0

(* An overlay is asked for, once, while the video thread waits for it.     *)
Allocating == mpc \in {"alloc", "create", "allocated"}

Asked == /\ vpc \in {"alloc", "sleepAlloc"}
         /\ ~ pictq[wIndex].allocated

AskedOnce ==
  /\ vpc = "push" => ~ pictq[wIndex].allocated
  /\ Allocating => Asked
  /\ \A k \in 1 .. Len(events) :
       events[k] = "ALLOC" => /\ Asked /\ ~ Allocating
                              /\ \A j \in 1 .. Len(events) :
                                   events[j] = "ALLOC" => j = k

(* The overlay the video thread may use is one of the right dimensions or  *)
(* none.                                                                   *)
Fits ==
  /\ vpc = "convert" => pictq[wIndex].bmp = dim
  /\ \/ vpc = "overlay"
     \/ vpc \in {"alloc", "sleepAlloc"} /\ pictq[wIndex].allocated
     \/ mpc = "allocated"
     => pictq[wIndex].bmp \in {dim, NoBmp}

(* The timer whose callback runs is still in the list.                     *)
TimerHeld == tpc \in {"call", "return"} => armed > 0

Shape == TypeOK /\ Room /\ TimerHeld /\ RingShape

IInv == Shape /\ AskedOnce /\ Fits /\ AllocRequested /\ RefreshAlive

-----------------------------------------------------------------------------
LEMMA InitIInv == Init => IInv
  <1> SUFFICES ASSUME Init PROVE IInv
    OBVIOUS
  <1> USE PictureQueueAssumption DEF Init
  <1>1. TypeOK
    BY DEF TypeOK, Slots, VideoPlaces, MainPlaces, TimerPlaces, Kinds
  <1>2. Room /\ TimerHeld /\ RingShape
    BY DEF Room, TimerHeld, RingShape, Occupied
  <1>3. AskedOnce /\ Fits /\ AllocRequested /\ RefreshAlive
    BY DEF AskedOnce, Allocating, Fits, AllocRequested, RefreshAlive
  <1> QED BY <1>1, <1>2, <1>3 DEF IInv, Shape

(* What pushing and getting an event do to the event queue.                *)
LEMMA Pushed ==
  ASSUME events \in Seq(Kinds), lost \in SUBSET Kinds,
         NEW kind \in Kinds, Push(kind)
  PROVE  /\ events' \in Seq(Kinds) /\ lost' \in SUBSET Kinds
         /\ \/ events' = events /\ kind \in lost'
            \/ /\ Len(events') = Len(events) + 1
               /\ events'[Len(events')] = kind
               /\ \A i \in 1 .. Len(events) : events'[i] = events[i]
  <1>1. CASE events' = Append(events, kind) /\ lost' = lost
    BY <1>1
  <1>2. CASE events' = events /\ lost' = lost \cup {kind}
    BY <1>2
  <1> QED BY <1>1, <1>2 DEF Push

LEMMA Got ==
  ASSUME events \in Seq(Kinds), events # <<>>, events' = Tail(events)
  PROVE  /\ Len(events) \in Nat \ {0}
         /\ events' \in Seq(Kinds)
         /\ Len(events') = Len(events) - 1
         /\ Head(events) = events[1]
         /\ Head(events) \in Kinds
         /\ \A i \in 1 .. Len(events') : events'[i] = events[i + 1]
         /\ \A e \in ToSet(events) : e = Head(events) \/ e \in ToSet(events')
  <1>1. /\ Len(events) \in Nat \ {0}
        /\ events' \in Seq(Kinds)
        /\ Len(events') = Len(events) - 1
        /\ Head(events) = events[1]
        /\ \A i \in 1 .. Len(events') : events'[i] = events[i + 1]
    OBVIOUS
  <1>2. ASSUME NEW e \in ToSet(events), e # Head(events)
        PROVE  e \in ToSet(events')
    <2>1. PICK k \in 1 .. Len(events) : events[k] = e
      BY <1>1 DEF ToSet
    <2>2. k - 1 \in 1 .. Len(events') /\ (k - 1) + 1 = k
      BY <1>1, <1>2, <2>1
    <2>3. events'[k - 1] = e
      BY <1>1, <2>1, <2>2
    <2>4. DOMAIN events' = 1 .. Len(events')
      BY <1>1
    <2> QED BY <2>2, <2>3, <2>4 DEF ToSet
  <1> QED BY <1>1, <1>2

LEMMA NextType ==
  Shape /\ [Next]_vars => TypeOK'
  <1> SUFFICES ASSUME Shape, [Next]_vars PROVE TypeOK'
    OBVIOUS
  <1> USE PictureQueueAssumption DEF ring, eventq, timers
  <1>1. CASE Decode
    BY <1>1 DEF Decode, Shape, TypeOK, Room, TimerHeld, Slots, VideoPlaces,
           MainPlaces, TimerPlaces, Kinds, After
  <1>2. CASE WaitForSpace
    BY <1>2 DEF WaitForSpace, Shape, TypeOK, Room, TimerHeld, Slots,
           VideoPlaces, MainPlaces, TimerPlaces, Kinds, After
  <1>3. CASE CheckOverlay
    <2>1. pictq' \in [Slots -> [bmp : Dims \cup {NoBmp}, allocated : BOOLEAN,
                                frame : Frames \cup {NoFrame}]]
      BY <1>3 DEF CheckOverlay, Shape, TypeOK
    <2> QED
      BY <2>1, <1>3 DEF CheckOverlay, Shape, TypeOK, Slots, VideoPlaces, MainPlaces
  <1>4. CASE PushAlloc
    <2>1. events' \in Seq(Kinds) /\ lost' \in SUBSET Kinds
      BY <1>4, Pushed DEF PushAlloc, Shape, TypeOK, Kinds
    <2> QED
      BY <2>1, <1>4 DEF PushAlloc, Shape, TypeOK, VideoPlaces, TimerPlaces
  <1>5. CASE WaitForAlloc
    BY <1>5 DEF WaitForAlloc, Shape, TypeOK, Room, TimerHeld, Slots,
           VideoPlaces, MainPlaces, TimerPlaces, Kinds, After
  <1>6. CASE BeginConvert
    <2>1. pictq' \in [Slots -> [bmp : Dims \cup {NoBmp}, allocated : BOOLEAN,
                                frame : Frames \cup {NoFrame}]]
      BY <1>6 DEF BeginConvert, Shape, TypeOK
    <2> QED
      BY <2>1, <1>6 DEF BeginConvert, Shape, TypeOK, Slots, VideoPlaces, MainPlaces
  <1>7. CASE EndConvert
    BY <1>7 DEF EndConvert, Shape, TypeOK, Room, TimerHeld, Slots,
           VideoPlaces, MainPlaces, TimerPlaces, Kinds, After
  <1>8. CASE AdvanceWrite
    BY <1>8 DEF AdvanceWrite, Shape, TypeOK, Room, TimerHeld, Slots,
           VideoPlaces, MainPlaces, TimerPlaces, Kinds, After
  <1>9. CASE CountUp
    BY <1>9 DEF CountUp, Shape, TypeOK, Room, TimerHeld, Slots,
           VideoPlaces, MainPlaces, TimerPlaces, Kinds, After
  <1>10. CASE GetEvent
    BY <1>10 DEF GetEvent, Shape, TypeOK, Room, TimerHeld, Slots,
           VideoPlaces, MainPlaces, TimerPlaces, Kinds, After
  <1>11. CASE FreeOverlay
    BY <1>11 DEF FreeOverlay, Shape, TypeOK, Room, TimerHeld, Slots,
           VideoPlaces, MainPlaces, TimerPlaces, Kinds, After
  <1>12. CASE CreateOverlay
    <2>1. pictq' \in [Slots -> [bmp : Dims \cup {NoBmp}, allocated : BOOLEAN,
                                frame : Frames \cup {NoFrame}]]
      BY <1>12 DEF CreateOverlay, Shape, TypeOK
    <2> QED
      BY <2>1, <1>12 DEF CreateOverlay, Shape, TypeOK, Slots, VideoPlaces, MainPlaces
  <1>13. CASE SetAllocated
    BY <1>13 DEF SetAllocated, Signal, Shape, TypeOK, Room, TimerHeld,
           Slots, VideoPlaces, MainPlaces, TimerPlaces, Kinds, After
  <1>14. CASE ReadSize
    BY <1>14 DEF ReadSize, Shape, TypeOK, Room, TimerHeld, Slots,
           VideoPlaces, MainPlaces, TimerPlaces, Kinds, After
  <1>15. CASE ScheduleRefresh
    <2>1. CASE armed' = armed + 1 /\ changed' = TRUE /\ UNCHANGED lost
      BY <2>1, <1>15 DEF ScheduleRefresh, Shape, TypeOK, MainPlaces
    <2>2. CASE lost' = lost \cup {"REFRESH"} /\ UNCHANGED <<armed, changed>>
      <3>1. lost' \in SUBSET Kinds
        BY <2>2 DEF Shape, TypeOK, Kinds
      <3> QED BY <3>1, <2>2, <1>15 DEF ScheduleRefresh, Shape, TypeOK, MainPlaces
    <2> QED BY <2>1, <2>2, <1>15 DEF ScheduleRefresh
  <1>16. CASE Display
    BY <1>16 DEF Display, Shape, TypeOK, Room, TimerHeld, Slots,
           VideoPlaces, MainPlaces, TimerPlaces, Kinds, After
  <1>17. CASE AdvanceRead
    BY <1>17 DEF AdvanceRead, Shape, TypeOK, Room, TimerHeld, Slots,
           VideoPlaces, MainPlaces, TimerPlaces, Kinds, After
  <1>18. CASE CountDown
    BY <1>18 DEF CountDown, Signal, Shape, TypeOK, Room, TimerHeld, Slots,
           VideoPlaces, MainPlaces, TimerPlaces, Kinds, After
  <1>19. CASE PumpInput
    BY <1>19 DEF PumpInput, Shape, TypeOK, Room, TimerHeld, Slots,
           VideoPlaces, MainPlaces, TimerPlaces, Kinds, After
  <1>20. CASE TimerDue
    BY <1>20 DEF TimerDue, Shape, TypeOK, Room, TimerHeld, Slots,
           VideoPlaces, MainPlaces, TimerPlaces, Kinds, After
  <1>21. CASE TimerCallback
    <2>1. events' \in Seq(Kinds) /\ lost' \in SUBSET Kinds
      BY <1>21, Pushed DEF TimerCallback, Shape, TypeOK, Kinds
    <2> QED
      BY <2>1, <1>21 DEF TimerCallback, Shape, TypeOK, VideoPlaces, TimerPlaces
  <1>22. CASE TimerReturn
    BY <1>22 DEF TimerReturn, Shape, TypeOK, Room, TimerHeld, Slots,
           VideoPlaces, MainPlaces, TimerPlaces, Kinds, After
  <1>23. CASE UNCHANGED vars
    BY <1>23 DEF vars, Shape, TypeOK, Room, TimerHeld, Slots, VideoPlaces,
           MainPlaces, TimerPlaces, Kinds, After
  <1> QED
    BY <1>1, <1>2, <1>3, <1>4, <1>5, <1>6, <1>7, <1>8, <1>9, <1>10,
       <1>11, <1>12, <1>13, <1>14, <1>15, <1>16, <1>17, <1>18, <1>19,
       <1>20, <1>21, <1>22, <1>23
    DEF Next, Video, Handle, Timer

LEMMA NextRing ==
  Shape /\ [Next]_vars => (Room /\ TimerHeld /\ RingShape)'
  <1> SUFFICES ASSUME Shape, [Next]_vars PROVE (Room /\ TimerHeld /\ RingShape)'
    OBVIOUS
  <1> USE PictureQueueAssumption DEF ring, eventq, timers
  <1>1. CASE Decode
    BY <1>1 DEF Decode, Shape, TypeOK, Room, TimerHeld, RingShape,
           Occupied, Slots, VideoPlaces, MainPlaces, TimerPlaces, After
  <1>2. CASE WaitForSpace
    BY <1>2 DEF WaitForSpace, Shape, TypeOK, Room, TimerHeld, RingShape,
           Occupied, Slots, VideoPlaces, MainPlaces, TimerPlaces, After
  <1>3. CASE CheckOverlay
    BY <1>3 DEF CheckOverlay, Shape, TypeOK, Room, TimerHeld, RingShape,
           Occupied, Slots, VideoPlaces, MainPlaces, TimerPlaces, After
  <1>4. CASE PushAlloc
    BY <1>4 DEF PushAlloc, Push, Shape, TypeOK, Room, TimerHeld, RingShape,
           Occupied, Slots, VideoPlaces, MainPlaces, TimerPlaces, After
  <1>5. CASE WaitForAlloc
    BY <1>5 DEF WaitForAlloc, Shape, TypeOK, Room, TimerHeld, RingShape,
           Occupied, Slots, VideoPlaces, MainPlaces, TimerPlaces, After
  <1>6. CASE BeginConvert
    BY <1>6 DEF BeginConvert, Shape, TypeOK, Room, TimerHeld, RingShape,
           Occupied, Slots, VideoPlaces, MainPlaces, TimerPlaces, After
  <1>7. CASE EndConvert
    BY <1>7 DEF EndConvert, Shape, TypeOK, Room, TimerHeld, RingShape,
           Occupied, Slots, VideoPlaces, MainPlaces, TimerPlaces, After
  <1>8. CASE AdvanceWrite
    BY <1>8 DEF AdvanceWrite, Shape, TypeOK, Room, TimerHeld, RingShape,
           Occupied, Slots, VideoPlaces, MainPlaces, TimerPlaces, After
  <1>9. CASE CountUp
    BY <1>9 DEF CountUp, Shape, TypeOK, Room, TimerHeld, RingShape,
           Occupied, Slots, VideoPlaces, MainPlaces, TimerPlaces, After
  <1>10. CASE GetEvent
    BY <1>10 DEF GetEvent, Shape, TypeOK, Room, TimerHeld, RingShape,
           Occupied, Slots, VideoPlaces, MainPlaces, TimerPlaces, After
  <1>11. CASE FreeOverlay
    BY <1>11 DEF FreeOverlay, Shape, TypeOK, Room, TimerHeld, RingShape,
           Occupied, Slots, VideoPlaces, MainPlaces, TimerPlaces, After
  <1>12. CASE CreateOverlay
    BY <1>12 DEF CreateOverlay, Shape, TypeOK, Room, TimerHeld, RingShape,
           Occupied, Slots, VideoPlaces, MainPlaces, TimerPlaces, After
  <1>13. CASE SetAllocated
    BY <1>13 DEF SetAllocated, Signal, Shape, TypeOK, Room, TimerHeld,
           RingShape, Occupied, Slots, VideoPlaces, MainPlaces,
           TimerPlaces, After
  <1>14. CASE ReadSize
    BY <1>14 DEF ReadSize, Shape, TypeOK, Room, TimerHeld, RingShape,
           Occupied, Slots, VideoPlaces, MainPlaces, TimerPlaces, After
  <1>15. CASE ScheduleRefresh
    BY <1>15 DEF ScheduleRefresh, Shape, TypeOK, Room, TimerHeld,
           RingShape, Occupied, Slots, VideoPlaces, MainPlaces,
           TimerPlaces, After
  <1>16. CASE Display
    BY <1>16 DEF Display, Shape, TypeOK, Room, TimerHeld, RingShape,
           Occupied, Slots, VideoPlaces, MainPlaces, TimerPlaces, After
  <1>17. CASE AdvanceRead
    BY <1>17 DEF AdvanceRead, Shape, TypeOK, Room, TimerHeld, RingShape,
           Occupied, Slots, VideoPlaces, MainPlaces, TimerPlaces, After
  <1>18. CASE CountDown
    BY <1>18 DEF CountDown, Signal, Shape, TypeOK, Room, TimerHeld,
           RingShape, Occupied, Slots, VideoPlaces, MainPlaces,
           TimerPlaces, After
  <1>19. CASE PumpInput
    BY <1>19 DEF PumpInput, Shape, TypeOK, Room, TimerHeld, RingShape,
           Occupied, Slots, VideoPlaces, MainPlaces, TimerPlaces, After
  <1>20. CASE TimerDue
    BY <1>20 DEF TimerDue, Shape, TypeOK, Room, TimerHeld, RingShape,
           Occupied, Slots, VideoPlaces, MainPlaces, TimerPlaces, After
  <1>21. CASE TimerCallback
    BY <1>21 DEF TimerCallback, Push, Shape, TypeOK, Room, TimerHeld,
           RingShape, Occupied, Slots, VideoPlaces, MainPlaces,
           TimerPlaces, After
  <1>22. CASE TimerReturn
    BY <1>22 DEF TimerReturn, Shape, TypeOK, Room, TimerHeld, RingShape,
           Occupied, Slots, VideoPlaces, MainPlaces, TimerPlaces, After
  <1>23. CASE UNCHANGED vars
    BY <1>23 DEF vars, Shape, TypeOK, Room, TimerHeld, RingShape, Occupied,
           Slots, VideoPlaces, MainPlaces, TimerPlaces, After
  <1> QED
    BY <1>1, <1>2, <1>3, <1>4, <1>5, <1>6, <1>7, <1>8, <1>9, <1>10,
       <1>11, <1>12, <1>13, <1>14, <1>15, <1>16, <1>17, <1>18, <1>19,
       <1>20, <1>21, <1>22, <1>23
    DEF Next, Video, Handle, Timer

LEMMA NextFits ==
  IInv /\ [Next]_vars => Fits'
  <1> SUFFICES ASSUME IInv, [Next]_vars PROVE Fits'
    OBVIOUS
  <1> USE PictureQueueAssumption DEF ring, eventq, timers
  <1>1. CASE Decode
    BY <1>1 DEF Decode, IInv, Shape, TypeOK, AskedOnce, Asked, Allocating,
           Fits, Slots, VideoPlaces, MainPlaces
  <1>2. CASE WaitForSpace
    BY <1>2 DEF WaitForSpace, IInv, Shape, TypeOK, AskedOnce, Asked,
           Allocating, Fits, Slots, VideoPlaces, MainPlaces
  <1>3. CASE CheckOverlay
    BY <1>3 DEF CheckOverlay, IInv, Shape, TypeOK, AskedOnce, Asked,
           Allocating, Fits, Slots, VideoPlaces, MainPlaces
  <1>4. CASE PushAlloc
    BY <1>4 DEF PushAlloc, Push, IInv, Shape, TypeOK, AskedOnce, Asked,
           Allocating, Fits, Slots, VideoPlaces, MainPlaces
  <1>5. CASE WaitForAlloc
    BY <1>5 DEF WaitForAlloc, IInv, Shape, TypeOK, AskedOnce, Asked,
           Allocating, Fits, Slots, VideoPlaces, MainPlaces
  <1>6. CASE BeginConvert
    BY <1>6 DEF BeginConvert, IInv, Shape, TypeOK, AskedOnce, Asked,
           Allocating, Fits, Slots, VideoPlaces, MainPlaces
  <1>7. CASE EndConvert
    BY <1>7 DEF EndConvert, IInv, Shape, TypeOK, AskedOnce, Asked,
           Allocating, Fits, Slots, VideoPlaces, MainPlaces
  <1>8. CASE AdvanceWrite
    BY <1>8 DEF AdvanceWrite, IInv, Shape, TypeOK, AskedOnce, Asked,
           Allocating, Fits, Slots, VideoPlaces, MainPlaces
  <1>9. CASE CountUp
    BY <1>9 DEF CountUp, IInv, Shape, TypeOK, AskedOnce, Asked, Allocating,
           Fits, Slots, VideoPlaces, MainPlaces
  <1>10. CASE GetEvent
    BY <1>10 DEF GetEvent, IInv, Shape, TypeOK, AskedOnce, Asked,
           Allocating, Fits, Slots, VideoPlaces, MainPlaces
  <1>11. CASE FreeOverlay
    BY <1>11 DEF FreeOverlay, IInv, Shape, TypeOK, AskedOnce, Asked,
           Allocating, Fits, Slots, VideoPlaces, MainPlaces
  <1>12. CASE CreateOverlay
    BY <1>12 DEF CreateOverlay, IInv, Shape, TypeOK, AskedOnce, Asked,
           Allocating, Fits, Slots, VideoPlaces, MainPlaces
  <1>13. CASE SetAllocated
    BY <1>13 DEF SetAllocated, Signal, IInv, Shape, TypeOK, AskedOnce,
           Asked, Allocating, Fits, Slots, VideoPlaces, MainPlaces
  <1>14. CASE ReadSize
    BY <1>14 DEF ReadSize, IInv, Shape, TypeOK, AskedOnce, Asked,
           Allocating, Fits, Slots, VideoPlaces, MainPlaces
  <1>15. CASE ScheduleRefresh
    BY <1>15 DEF ScheduleRefresh, IInv, Shape, TypeOK, AskedOnce, Asked,
           Allocating, Fits, Slots, VideoPlaces, MainPlaces
  <1>16. CASE Display
    BY <1>16 DEF Display, IInv, Shape, TypeOK, AskedOnce, Asked,
           Allocating, Fits, Slots, VideoPlaces, MainPlaces
  <1>17. CASE AdvanceRead
    BY <1>17 DEF AdvanceRead, IInv, Shape, TypeOK, AskedOnce, Asked,
           Allocating, Fits, Slots, VideoPlaces, MainPlaces
  <1>18. CASE CountDown
    BY <1>18 DEF CountDown, Signal, IInv, Shape, TypeOK, AskedOnce, Asked,
           Allocating, Fits, Slots, VideoPlaces, MainPlaces
  <1>19. CASE PumpInput
    BY <1>19 DEF PumpInput, IInv, Shape, TypeOK, AskedOnce, Asked,
           Allocating, Fits, Slots, VideoPlaces, MainPlaces
  <1>20. CASE TimerDue
    BY <1>20 DEF TimerDue, IInv, Shape, TypeOK, AskedOnce, Asked,
           Allocating, Fits, Slots, VideoPlaces, MainPlaces
  <1>21. CASE TimerCallback
    BY <1>21 DEF TimerCallback, Push, IInv, Shape, TypeOK, AskedOnce,
           Asked, Allocating, Fits, Slots, VideoPlaces, MainPlaces
  <1>22. CASE TimerReturn
    BY <1>22 DEF TimerReturn, IInv, Shape, TypeOK, AskedOnce, Asked,
           Allocating, Fits, Slots, VideoPlaces, MainPlaces
  <1>23. CASE UNCHANGED vars
    BY <1>23 DEF vars, IInv, Shape, TypeOK, AskedOnce, Asked, Allocating,
           Fits, Slots, VideoPlaces, MainPlaces
  <1> QED
    BY <1>1, <1>2, <1>3, <1>4, <1>5, <1>6, <1>7, <1>8, <1>9, <1>10,
       <1>11, <1>12, <1>13, <1>14, <1>15, <1>16, <1>17, <1>18, <1>19,
       <1>20, <1>21, <1>22, <1>23
    DEF Next, Video, Handle, Timer

LEMMA NextAsked ==
  IInv /\ [Next]_vars => AskedOnce'
  <1> SUFFICES ASSUME IInv, [Next]_vars PROVE AskedOnce'
    OBVIOUS
  <1> USE PictureQueueAssumption DEF ring, eventq, timers
  <1>1. CASE Decode
    BY <1>1 DEF Decode, IInv, Shape, TypeOK, AskedOnce, Asked, Allocating,
           Slots, VideoPlaces, MainPlaces
  <1>2. CASE WaitForSpace
    BY <1>2 DEF WaitForSpace, IInv, Shape, TypeOK, AskedOnce, Asked,
           Allocating, Slots, VideoPlaces, MainPlaces
  <1>3. CASE CheckOverlay
    BY <1>3 DEF CheckOverlay, IInv, Shape, TypeOK, AskedOnce, Asked,
           Allocating, Slots, VideoPlaces, MainPlaces
  <1>4. CASE PushAlloc
    <2>1. \/ events' = events
          \/ /\ Len(events') = Len(events) + 1
             /\ events'[Len(events')] = "ALLOC"
             /\ \A i \in 1 .. Len(events) : events'[i] = events[i]
      BY <1>4, Pushed DEF PushAlloc, IInv, Shape, TypeOK, Kinds
    <2>2. Len(events) \in Nat
      BY DEF IInv, Shape, TypeOK
    <2> QED
      BY <1>4, <2>1, <2>2 DEF PushAlloc, IInv, Shape, TypeOK, AskedOnce, Asked, Allocating
  <1>5. CASE WaitForAlloc
    BY <1>5 DEF WaitForAlloc, IInv, Shape, TypeOK, AskedOnce, Asked,
           Allocating, Slots, VideoPlaces, MainPlaces
  <1>6. CASE BeginConvert
    BY <1>6 DEF BeginConvert, IInv, Shape, TypeOK, AskedOnce, Asked,
           Allocating, Slots, VideoPlaces, MainPlaces
  <1>7. CASE EndConvert
    BY <1>7 DEF EndConvert, IInv, Shape, TypeOK, AskedOnce, Asked,
           Allocating, Slots, VideoPlaces, MainPlaces
  <1>8. CASE AdvanceWrite
    BY <1>8 DEF AdvanceWrite, IInv, Shape, TypeOK, AskedOnce, Asked,
           Allocating, Slots, VideoPlaces, MainPlaces
  <1>9. CASE CountUp
    BY <1>9 DEF CountUp, IInv, Shape, TypeOK, AskedOnce, Asked, Allocating,
           Slots, VideoPlaces, MainPlaces
  <1>10. CASE GetEvent
    <2>1. events \in Seq(Kinds) /\ events # <<>> /\ events' = Tail(events)
      BY <1>10 DEF GetEvent, IInv, Shape, TypeOK
    <2>2. CASE Head(events) = "ALLOC"
      BY <1>10, <2>1, <2>2, Got DEF GetEvent, IInv, AskedOnce, Asked, Allocating
    <2>3. CASE Head(events) = "REFRESH"
      BY <1>10, <2>1, <2>3, Got DEF GetEvent, IInv, AskedOnce, Asked, Allocating
    <2>4. CASE Head(events) = "INPUT"
      BY <1>10, <2>1, <2>4, Got DEF GetEvent, IInv, AskedOnce, Asked, Allocating
    <2> QED BY <2>1, <2>2, <2>3, <2>4, Got DEF Kinds
  <1>11. CASE FreeOverlay
    BY <1>11 DEF FreeOverlay, IInv, Shape, TypeOK, AskedOnce, Asked,
           Allocating, Slots, VideoPlaces, MainPlaces
  <1>12. CASE CreateOverlay
    BY <1>12 DEF CreateOverlay, IInv, Shape, TypeOK, AskedOnce, Asked,
           Allocating, Slots, VideoPlaces, MainPlaces
  <1>13. CASE SetAllocated
    BY <1>13 DEF SetAllocated, Signal, IInv, Shape, TypeOK, AskedOnce,
           Asked, Allocating, Slots, VideoPlaces, MainPlaces
  <1>14. CASE ReadSize
    BY <1>14 DEF ReadSize, IInv, Shape, TypeOK, AskedOnce, Asked,
           Allocating, Slots, VideoPlaces, MainPlaces
  <1>15. CASE ScheduleRefresh
    BY <1>15 DEF ScheduleRefresh, IInv, Shape, TypeOK, AskedOnce, Asked,
           Allocating, Slots, VideoPlaces, MainPlaces
  <1>16. CASE Display
    BY <1>16 DEF Display, IInv, Shape, TypeOK, AskedOnce, Asked,
           Allocating, Slots, VideoPlaces, MainPlaces
  <1>17. CASE AdvanceRead
    BY <1>17 DEF AdvanceRead, IInv, Shape, TypeOK, AskedOnce, Asked,
           Allocating, Slots, VideoPlaces, MainPlaces
  <1>18. CASE CountDown
    BY <1>18 DEF CountDown, Signal, IInv, Shape, TypeOK, AskedOnce, Asked,
           Allocating, Slots, VideoPlaces, MainPlaces
  <1>19. CASE PumpInput
    BY <1>19 DEF PumpInput, IInv, Shape, TypeOK, AskedOnce, Asked,
           Allocating, Slots, VideoPlaces, MainPlaces
  <1>20. CASE TimerDue
    BY <1>20 DEF TimerDue, IInv, Shape, TypeOK, AskedOnce, Asked,
           Allocating, Slots, VideoPlaces, MainPlaces
  <1>21. CASE TimerCallback
    <2>1. \/ events' = events
          \/ /\ Len(events') = Len(events) + 1
             /\ events'[Len(events')] = "REFRESH"
             /\ \A i \in 1 .. Len(events) : events'[i] = events[i]
      BY <1>21, Pushed DEF TimerCallback, IInv, Shape, TypeOK, Kinds
    <2>2. Len(events) \in Nat
      BY DEF IInv, Shape, TypeOK
    <2> QED
      BY <1>21, <2>1, <2>2 DEF TimerCallback, IInv, Shape, TypeOK, AskedOnce, Asked, Allocating
  <1>22. CASE TimerReturn
    BY <1>22 DEF TimerReturn, IInv, Shape, TypeOK, AskedOnce, Asked,
           Allocating, Slots, VideoPlaces, MainPlaces
  <1>23. CASE UNCHANGED vars
    BY <1>23 DEF vars, IInv, Shape, TypeOK, AskedOnce, Asked, Allocating,
           Slots, VideoPlaces, MainPlaces
  <1> QED
    BY <1>1, <1>2, <1>3, <1>4, <1>5, <1>6, <1>7, <1>8, <1>9, <1>10,
       <1>11, <1>12, <1>13, <1>14, <1>15, <1>16, <1>17, <1>18, <1>19,
       <1>20, <1>21, <1>22, <1>23
    DEF Next, Video, Handle, Timer

LEMMA NextRequested ==
  IInv /\ [Next]_vars => AllocRequested'
  <1> SUFFICES ASSUME IInv, [Next]_vars PROVE AllocRequested'
    OBVIOUS
  <1> USE PictureQueueAssumption DEF ring, eventq, timers
  <1>1. CASE Decode
    BY <1>1 DEF Decode, IInv, Shape, TypeOK, AskedOnce, Asked, Allocating,
           AllocRequested, ToSet, Slots, VideoPlaces, MainPlaces
  <1>2. CASE WaitForSpace
    BY <1>2 DEF WaitForSpace, IInv, Shape, TypeOK, AskedOnce, Asked,
           Allocating, AllocRequested, ToSet, Slots, VideoPlaces, MainPlaces
  <1>3. CASE CheckOverlay
    BY <1>3 DEF CheckOverlay, IInv, Shape, TypeOK, AskedOnce, Asked,
           Allocating, AllocRequested, ToSet, Slots, VideoPlaces, MainPlaces
  <1>4. CASE PushAlloc
    BY <1>4 DEF PushAlloc, Push, IInv, Shape, TypeOK, AskedOnce, Asked,
           Allocating, AllocRequested, ToSet, Slots, VideoPlaces, MainPlaces
  <1>5. CASE WaitForAlloc
    BY <1>5 DEF WaitForAlloc, IInv, Shape, TypeOK, AskedOnce, Asked,
           Allocating, AllocRequested, ToSet, Slots, VideoPlaces, MainPlaces
  <1>6. CASE BeginConvert
    BY <1>6 DEF BeginConvert, IInv, Shape, TypeOK, AskedOnce, Asked,
           Allocating, AllocRequested, ToSet, Slots, VideoPlaces, MainPlaces
  <1>7. CASE EndConvert
    BY <1>7 DEF EndConvert, IInv, Shape, TypeOK, AskedOnce, Asked,
           Allocating, AllocRequested, ToSet, Slots, VideoPlaces, MainPlaces
  <1>8. CASE AdvanceWrite
    BY <1>8 DEF AdvanceWrite, IInv, Shape, TypeOK, AskedOnce, Asked,
           Allocating, AllocRequested, ToSet, Slots, VideoPlaces, MainPlaces
  <1>9. CASE CountUp
    BY <1>9 DEF CountUp, IInv, Shape, TypeOK, AskedOnce, Asked, Allocating,
           AllocRequested, ToSet, Slots, VideoPlaces, MainPlaces
  <1>10. CASE GetEvent
    <2>1. events \in Seq(Kinds) /\ events # <<>> /\ events' = Tail(events)
      BY <1>10 DEF GetEvent, IInv, Shape, TypeOK
    <2>2. CASE Head(events) = "ALLOC"
      BY <1>10, <2>1, <2>2, Got DEF GetEvent, IInv, AskedOnce, Asked, Allocating, AllocRequested
    <2>3. CASE Head(events) = "REFRESH"
      BY <1>10, <2>1, <2>3, Got DEF GetEvent, IInv, AskedOnce, Asked, Allocating, AllocRequested
    <2>4. CASE Head(events) = "INPUT"
      BY <1>10, <2>1, <2>4, Got DEF GetEvent, IInv, AskedOnce, Asked, Allocating, AllocRequested
    <2> QED BY <2>1, <2>2, <2>3, <2>4, Got DEF Kinds
  <1>11. CASE FreeOverlay
    BY <1>11 DEF FreeOverlay, IInv, Shape, TypeOK, AskedOnce, Asked,
           Allocating, AllocRequested, ToSet, Slots, VideoPlaces, MainPlaces
  <1>12. CASE CreateOverlay
    BY <1>12 DEF CreateOverlay, IInv, Shape, TypeOK, AskedOnce, Asked,
           Allocating, AllocRequested, ToSet, Slots, VideoPlaces, MainPlaces
  <1>13. CASE SetAllocated
    BY <1>13 DEF SetAllocated, Signal, IInv, Shape, TypeOK, AskedOnce,
           Asked, Allocating, AllocRequested, ToSet, Slots, VideoPlaces,
           MainPlaces
  <1>14. CASE ReadSize
    BY <1>14 DEF ReadSize, IInv, Shape, TypeOK, AskedOnce, Asked,
           Allocating, AllocRequested, ToSet, Slots, VideoPlaces, MainPlaces
  <1>15. CASE ScheduleRefresh
    BY <1>15 DEF ScheduleRefresh, IInv, Shape, TypeOK, AskedOnce, Asked,
           Allocating, AllocRequested, ToSet, Slots, VideoPlaces, MainPlaces
  <1>16. CASE Display
    BY <1>16 DEF Display, IInv, Shape, TypeOK, AskedOnce, Asked,
           Allocating, AllocRequested, ToSet, Slots, VideoPlaces, MainPlaces
  <1>17. CASE AdvanceRead
    BY <1>17 DEF AdvanceRead, IInv, Shape, TypeOK, AskedOnce, Asked,
           Allocating, AllocRequested, ToSet, Slots, VideoPlaces, MainPlaces
  <1>18. CASE CountDown
    BY <1>18 DEF CountDown, Signal, IInv, Shape, TypeOK, AskedOnce, Asked,
           Allocating, AllocRequested, ToSet, Slots, VideoPlaces, MainPlaces
  <1>19. CASE PumpInput
    BY <1>19 DEF PumpInput, IInv, Shape, TypeOK, AskedOnce, Asked,
           Allocating, AllocRequested, ToSet, Slots, VideoPlaces, MainPlaces
  <1>20. CASE TimerDue
    BY <1>20 DEF TimerDue, IInv, Shape, TypeOK, AskedOnce, Asked,
           Allocating, AllocRequested, ToSet, Slots, VideoPlaces, MainPlaces
  <1>21. CASE TimerCallback
    BY <1>21 DEF TimerCallback, Push, IInv, Shape, TypeOK, AskedOnce,
           Asked, Allocating, AllocRequested, ToSet, Slots, VideoPlaces,
           MainPlaces
  <1>22. CASE TimerReturn
    BY <1>22 DEF TimerReturn, IInv, Shape, TypeOK, AskedOnce, Asked,
           Allocating, AllocRequested, ToSet, Slots, VideoPlaces, MainPlaces
  <1>23. CASE UNCHANGED vars
    BY <1>23 DEF vars, IInv, Shape, TypeOK, AskedOnce, Asked, Allocating,
           AllocRequested, ToSet, Slots, VideoPlaces, MainPlaces
  <1> QED
    BY <1>1, <1>2, <1>3, <1>4, <1>5, <1>6, <1>7, <1>8, <1>9, <1>10,
       <1>11, <1>12, <1>13, <1>14, <1>15, <1>16, <1>17, <1>18, <1>19,
       <1>20, <1>21, <1>22, <1>23
    DEF Next, Video, Handle, Timer

LEMMA NextAlive ==
  IInv /\ [Next]_vars => RefreshAlive'
  <1> SUFFICES ASSUME IInv, [Next]_vars PROVE RefreshAlive'
    OBVIOUS
  <1> USE PictureQueueAssumption DEF ring, eventq, timers
  <1>1. CASE Decode
    BY <1>1 DEF Decode, IInv, Shape, TypeOK, TimerHeld, RefreshAlive,
           Refreshing, ToSet, VideoPlaces, MainPlaces
  <1>2. CASE WaitForSpace
    BY <1>2 DEF WaitForSpace, IInv, Shape, TypeOK, TimerHeld, RefreshAlive,
           Refreshing, ToSet, VideoPlaces, MainPlaces
  <1>3. CASE CheckOverlay
    BY <1>3 DEF CheckOverlay, IInv, Shape, TypeOK, TimerHeld, RefreshAlive,
           Refreshing, ToSet, VideoPlaces, MainPlaces
  <1>4. CASE PushAlloc
    BY <1>4 DEF PushAlloc, Push, IInv, Shape, TypeOK, TimerHeld,
           RefreshAlive, Refreshing, ToSet, VideoPlaces, MainPlaces
  <1>5. CASE WaitForAlloc
    BY <1>5 DEF WaitForAlloc, IInv, Shape, TypeOK, TimerHeld, RefreshAlive,
           Refreshing, ToSet, VideoPlaces, MainPlaces
  <1>6. CASE BeginConvert
    BY <1>6 DEF BeginConvert, IInv, Shape, TypeOK, TimerHeld, RefreshAlive,
           Refreshing, ToSet, VideoPlaces, MainPlaces
  <1>7. CASE EndConvert
    BY <1>7 DEF EndConvert, IInv, Shape, TypeOK, TimerHeld, RefreshAlive,
           Refreshing, ToSet, VideoPlaces, MainPlaces
  <1>8. CASE AdvanceWrite
    BY <1>8 DEF AdvanceWrite, IInv, Shape, TypeOK, TimerHeld, RefreshAlive,
           Refreshing, ToSet, VideoPlaces, MainPlaces
  <1>9. CASE CountUp
    BY <1>9 DEF CountUp, IInv, Shape, TypeOK, TimerHeld, RefreshAlive,
           Refreshing, ToSet, VideoPlaces, MainPlaces
  <1>10. CASE GetEvent
    <2>1. events \in Seq(Kinds) /\ events # <<>> /\ events' = Tail(events)
      BY <1>10 DEF GetEvent, IInv, Shape, TypeOK
    <2>2. CASE Head(events) = "ALLOC"
      BY <1>10, <2>1, <2>2, Got DEF GetEvent, IInv, RefreshAlive, Refreshing
    <2>3. CASE Head(events) = "REFRESH"
      BY <1>10, <2>1, <2>3, Got DEF GetEvent, IInv, RefreshAlive, Refreshing
    <2>4. CASE Head(events) = "INPUT"
      BY <1>10, <2>1, <2>4, Got DEF GetEvent, IInv, RefreshAlive, Refreshing
    <2> QED BY <2>1, <2>2, <2>3, <2>4, Got DEF Kinds
  <1>11. CASE FreeOverlay
    BY <1>11 DEF FreeOverlay, IInv, Shape, TypeOK, TimerHeld, RefreshAlive,
           Refreshing, ToSet, VideoPlaces, MainPlaces
  <1>12. CASE CreateOverlay
    BY <1>12 DEF CreateOverlay, IInv, Shape, TypeOK, TimerHeld,
           RefreshAlive, Refreshing, ToSet, VideoPlaces, MainPlaces
  <1>13. CASE SetAllocated
    BY <1>13 DEF SetAllocated, Signal, IInv, Shape, TypeOK, TimerHeld,
           RefreshAlive, Refreshing, ToSet, VideoPlaces, MainPlaces
  <1>14. CASE ReadSize
    BY <1>14 DEF ReadSize, IInv, Shape, TypeOK, TimerHeld, RefreshAlive,
           Refreshing, ToSet, VideoPlaces, MainPlaces
  <1>15. CASE ScheduleRefresh
    BY <1>15 DEF ScheduleRefresh, IInv, Shape, TypeOK, TimerHeld,
           RefreshAlive, Refreshing, ToSet, VideoPlaces, MainPlaces
  <1>16. CASE Display
    BY <1>16 DEF Display, IInv, Shape, TypeOK, TimerHeld, RefreshAlive,
           Refreshing, ToSet, VideoPlaces, MainPlaces
  <1>17. CASE AdvanceRead
    BY <1>17 DEF AdvanceRead, IInv, Shape, TypeOK, TimerHeld, RefreshAlive,
           Refreshing, ToSet, VideoPlaces, MainPlaces
  <1>18. CASE CountDown
    BY <1>18 DEF CountDown, Signal, IInv, Shape, TypeOK, TimerHeld,
           RefreshAlive, Refreshing, ToSet, VideoPlaces, MainPlaces
  <1>19. CASE PumpInput
    BY <1>19 DEF PumpInput, IInv, Shape, TypeOK, TimerHeld, RefreshAlive,
           Refreshing, ToSet, VideoPlaces, MainPlaces
  <1>20. CASE TimerDue
    BY <1>20 DEF TimerDue, IInv, Shape, TypeOK, TimerHeld, RefreshAlive,
           Refreshing, ToSet, VideoPlaces, MainPlaces
  <1>21. CASE TimerCallback
    BY <1>21 DEF TimerCallback, Push, IInv, Shape, TypeOK, TimerHeld,
           RefreshAlive, Refreshing, ToSet, VideoPlaces, MainPlaces
  <1>22. CASE TimerReturn
    BY <1>22 DEF TimerReturn, IInv, Shape, TypeOK, TimerHeld, RefreshAlive,
           Refreshing, ToSet, VideoPlaces, MainPlaces
  <1>23. CASE UNCHANGED vars
    BY <1>23 DEF vars, IInv, Shape, TypeOK, TimerHeld, RefreshAlive,
           Refreshing, ToSet, VideoPlaces, MainPlaces
  <1> QED
    BY <1>1, <1>2, <1>3, <1>4, <1>5, <1>6, <1>7, <1>8, <1>9, <1>10,
       <1>11, <1>12, <1>13, <1>14, <1>15, <1>16, <1>17, <1>18, <1>19,
       <1>20, <1>21, <1>22, <1>23
    DEF Next, Video, Handle, Timer

LEMMA NextIInv == IInv /\ [Next]_vars => IInv'
  BY NextType, NextRing, NextFits, NextAsked, NextRequested, NextAlive
     DEF IInv, Shape

LEMMA InductiveInvariant == Spec => []IInv
  BY InitIInv, NextIInv, PTL DEF Spec

-----------------------------------------------------------------------------
(* The variables keep their types: no index leaves the ring, whatever its  *)
(* length, and no count goes below zero or above N.                        *)
THEOREM TypeCorrect == Spec => []TypeOK
  <1>1. IInv => TypeOK
    BY DEF IInv, Shape
  <1> QED BY <1>1, InductiveInvariant, PTL

(* The indexes and the count always describe the same slots.               *)
THEOREM RingCorrect == Spec => []RingShape
  <1>1. IInv => RingShape
    BY DEF IInv, Shape
  <1> QED BY <1>1, InductiveInvariant, PTL

(* The slot being shown is never the one being filled, and no overlay is   *)
(* replaced while it is filled or holds a picture to be shown: two threads *)
(* use the slots without a mutex and do not meet.                          *)
THEOREM SlotsExclusive == Spec => []SlotExclusion
  <1>1. ASSUME IInv PROVE SlotExclusion
    <2> USE PictureQueueAssumption DEF IInv, Shape, TypeOK, Slots
    <2>1. mpc = "display" /\ Filling => rIndex # wIndex
      BY <1>1 DEF Filling, Room, RingShape, Occupied, VideoPlaces
    <2>2. Allocating => ~ Filling
      BY <1>1 DEF Filling, AskedOnce, Asked
    <2>3. ASSUME Allocating PROVE wIndex \notin Queued
      <3>1. Occupied = size /\ size < N
        BY <1>1, <2>3
           DEF AskedOnce, Asked, Allocating, Room, Occupied, VideoPlaces
      <3> QED BY <1>1, <3>1 DEF RingShape, Queued
    <2> QED BY <2>1, <2>2, <2>3 DEF SlotExclusion, Allocating
  <1> QED BY <1>1, InductiveInvariant, PTL

(* A picture is converted only into an overlay of its own dimensions.      *)
THEOREM OverlaysFit == Spec => []OverlayFits
  <1>1. IInv => OverlayFits
    BY DEF IInv, Fits, OverlayFits
  <1> QED BY <1>1, InductiveInvariant, PTL

(* The video thread waits for an overlay only while its request is queued  *)
(* or being served, unless the event queue overflowed.                     *)
THEOREM AllocIsRequested == Spec => []AllocRequested
  <1>1. IInv => AllocRequested
    BY DEF IInv
  <1> QED BY <1>1, InductiveInvariant, PTL

(* The refresh chain ends only where SDL_PushEvent drops a refresh event   *)
(* or SDL_AddTimer can make no timer (867); never by the race of a timer   *)
(* that was added with a callback that returns, even when a timer fires    *)
(* twice.                                                                  *)
THEOREM RefreshStaysAlive == Spec => []RefreshAlive
  <1>1. IInv => RefreshAlive
    BY DEF IInv
  <1> QED BY <1>1, InductiveInvariant, PTL

-----------------------------------------------------------------------------
(***************************************************************************)
(* Refinement of FrameQueue                                                *)
(***************************************************************************)
(* The slot of the k-th picture that waits to be shown.                    *)
Place(k) == LET i == First + k - 1 IN IF i < N THEN i ELSE i - N

Waiting == [k \in 1 .. Unshown |-> pictq[Place(k)].frame]

(* The picture is in its slot before the indexes and the count say so.     *)
Stored ==
  /\ vpc # "decode" => frame \in Frames
  /\ vpc = "advance" => pictq[wIndex].frame = frame
  /\ vpc = "count" => \A i \in Slots : After(i) = wIndex => pictq[i].frame = frame

LEMMA Places ==
  ASSUME Shape
  PROVE  /\ Unshown \in 0 .. N /\ First \in Slots
         /\ \A k \in 1 .. Unshown : Place(k) \in Slots
         /\ vpc # "count" /\ size < N => \A k \in 1 .. Unshown : Place(k) # wIndex
  <1> USE PictureQueueAssumption DEF Shape, TypeOK, Room, Slots, After
  <1>1. Unshown \in 0 .. N /\ First \in Slots
    BY DEF Unshown, First
  <1>2. \A k \in 1 .. Unshown : Place(k) \in Slots
    BY <1>1 DEF Place
  <1>3. ASSUME vpc # "count", size < N, NEW k \in 1 .. Unshown
        PROVE  Place(k) # wIndex
    BY <1>1, <1>2, <1>3 DEF Place, First, Unshown, RingShape, Occupied
  <1> QED BY <1>1, <1>2, <1>3

(* A step that moves no picture that waits shows the abstract queue nothing. *)
LEMMA SameWaiting ==
  ASSUME Unshown' = Unshown, First' = First,
         \A k \in 1 .. Unshown : pictq'[Place(k)].frame = pictq[Place(k)].frame
  PROVE  Waiting' = Waiting
  <1>1. \A k : Place(k)' = Place(k)
    BY DEF Place
  <1> QED BY <1>1 DEF Waiting

Typed == Waiting \in Seq(Frames \cup {NoFrame}) /\ Len(Waiting) = Unshown

LEMMA WaitingTyped == Shape => Typed
  <1> SUFFICES ASSUME Shape PROVE Typed
    OBVIOUS
  <1>1. \A k \in 1 .. Unshown : pictq[Place(k)].frame \in Frames \cup {NoFrame}
    BY Places DEF Shape, TypeOK
  <1> QED BY <1>1, Places DEF Waiting, Typed

(* A sequence is known by its length and its members.                      *)
LEMMA Longer ==
  ASSUME NEW S, NEW q \in Seq(S), NEW r \in Seq(S), Len(r) = Len(q) + 1,
         \A k \in 1 .. Len(q) : r[k] = q[k]
  PROVE  r = Append(q, r[Len(r)])
  OBVIOUS

LEMMA Shorter ==
  ASSUME NEW S, NEW q \in Seq(S), NEW r \in Seq(S), Len(q) = Len(r) + 1,
         \A k \in 1 .. Len(r) : r[k] = q[k + 1]
  PROVE  q # << >> /\ r = Tail(q)
  OBVIOUS

LEMMA StoredInit == Init => Stored
  BY DEF Init, Stored

LEMMA StoredNext == IInv /\ Stored /\ [Next]_vars => Stored'
  <1> SUFFICES ASSUME IInv, Stored, [Next]_vars PROVE Stored'
    OBVIOUS
  <1> USE PictureQueueAssumption DEF IInv, Shape, TypeOK, Stored, ring, eventq, timers, VideoPlaces
  <1>1. CASE Decode
    BY <1>1 DEF Decode
  <1>2. CASE WaitForSpace
    BY <1>2 DEF WaitForSpace
  <1>3. CASE CheckOverlay
    BY <1>3 DEF CheckOverlay
  <1>4. CASE PushAlloc
    BY <1>4 DEF PushAlloc
  <1>5. CASE WaitForAlloc
    BY <1>5 DEF WaitForAlloc
  <1>6. CASE BeginConvert
    BY <1>6 DEF BeginConvert
  <1>7. CASE EndConvert
    BY <1>7 DEF EndConvert
  <1>8. CASE AdvanceWrite
    BY <1>8 DEF AdvanceWrite, After, Slots
  <1>9. CASE CountUp
    BY <1>9 DEF CountUp
  <1>10. CASE FreeOverlay \/ CreateOverlay \/ SetAllocated
    <2>1. vpc \in {"alloc", "sleepAlloc"} /\ vpc' \in {"alloc", "sleepAlloc"} /\ frame' = frame
      BY <1>10 DEF AskedOnce, Asked, Allocating, FreeOverlay, CreateOverlay, SetAllocated, Signal
    <2> QED BY <2>1
  <1>11. CASE CountDown
    BY <1>11 DEF CountDown, Signal
  <1>12. CASE UNCHANGED <<pictq, wIndex, frame, vpc>>
    BY <1>12 DEF Slots, After
  <1> QED
    BY <1>1, <1>2, <1>3, <1>4, <1>5, <1>6, <1>7, <1>8, <1>9, <1>10, <1>11, <1>12
    DEF Next, Video, Handle, Timer, vars, GetEvent, ReadSize, ScheduleRefresh, Display,
        AdvanceRead, PumpInput, TimerDue, TimerCallback, TimerReturn

LEMMA RefinesInit == Init => Fifo!Init
  BY DEF Init, Fifo!Init, Unshown

LEMMA RefinesNext == IInv /\ Stored /\ [Next]_vars => [Fifo!Next]_(Fifo!qvars)
  <1> SUFFICES ASSUME IInv, Stored, [Next]_vars
               PROVE  [Fifo!Next]_<<Waiting, shown>>
    BY DEF Fifo!qvars, Fifo!Next, Fifo!Put, Fifo!Show, Waiting, Place
  <1>0. /\ Unshown \in 0 .. N /\ First \in Slots
        /\ \A k \in 1 .. Unshown : Place(k) \in Slots
        /\ vpc # "count" /\ size < N => \A k \in 1 .. Unshown : Place(k) # wIndex
        /\ Waiting \in Seq(Frames \cup {NoFrame}) /\ Len(Waiting) = Unshown
        /\ Waiting' \in Seq(Frames \cup {NoFrame}) /\ Len(Waiting') = Unshown'
    <2>1. Shape'
      BY NextIInv DEF IInv
    <2>2. Typed'
      BY <2>1, WaitingTyped, PTL
    <2> QED BY <2>2, Places, WaitingTyped DEF IInv, Typed
  <1> USE PictureQueueAssumption DEF ring, eventq, timers
  <1>1. CASE UNCHANGED <<pictq, shown, First, Unshown>>
    BY <1>1, SameWaiting
  <1>2. CASE CheckOverlay
    <2>1. \A i \in Slots : pictq'[i].frame = pictq[i].frame
      BY <1>2 DEF CheckOverlay, IInv, Shape, TypeOK
    <2>2. Unshown' = Unshown /\ First' = First /\ shown' = shown
      BY <1>2 DEF CheckOverlay, Unshown, First
    <2> QED BY <1>0, <2>1, <2>2, SameWaiting
  <1>3. CASE BeginConvert \/ EndConvert
    <2>1. size < N /\ vpc # "count"
      BY <1>3 DEF BeginConvert, EndConvert, IInv, Shape, Room, VideoPlaces
    <2>2. \A k \in 1 .. Unshown : pictq'[Place(k)].frame = pictq[Place(k)].frame
      BY <1>0, <1>3, <2>1 DEF BeginConvert, EndConvert, IInv, Shape, TypeOK
    <2>3. Unshown' = Unshown /\ First' = First /\ shown' = shown
      BY <1>3 DEF BeginConvert, EndConvert, Unshown, First
    <2> QED BY <2>2, <2>3, SameWaiting
  <1>4. CASE FreeOverlay \/ CreateOverlay \/ SetAllocated
    <2>1. size < N /\ vpc # "count"
      BY <1>4 DEF FreeOverlay, CreateOverlay, SetAllocated, IInv, Shape, Room, VideoPlaces,
                  AskedOnce, Asked, Allocating
    <2>2. \A k \in 1 .. Unshown : pictq'[Place(k)].frame = pictq[Place(k)].frame
      BY <1>0, <1>4, <2>1 DEF FreeOverlay, CreateOverlay, SetAllocated, IInv, Shape, TypeOK
    <2>3. Unshown' = Unshown /\ First' = First /\ shown' = shown
      BY <1>4 DEF FreeOverlay, CreateOverlay, SetAllocated, Unshown, First
    <2> QED BY <2>2, <2>3, SameWaiting
  <1>5. CASE CountUp
    <2>1. /\ vpc = "count" /\ size < N /\ size' = size + 1
          /\ UNCHANGED <<pictq, rIndex, wIndex, frame, mpc, shown>>
      BY <1>5 DEF CountUp, IInv, Shape, Room, VideoPlaces
    <2>2. Unshown' = Unshown + 1 /\ First' = First /\ Unshown < N
      BY <2>1 DEF Unshown, First, IInv, Shape, TypeOK
    <2>3. \A k : Place(k)' = Place(k)
      BY <2>2 DEF Place
    <2>4. Place(Unshown + 1) \in Slots /\ After(Place(Unshown + 1)) = wIndex
      BY <1>0, <2>1, <2>2
         DEF Place, First, Unshown, After, Slots, RingShape, Occupied, IInv, Shape, TypeOK, Room
    <2>5. pictq[Place(Unshown + 1)].frame = frame /\ frame \in Frames
      BY <2>1, <2>4 DEF Stored
    <2>6. Waiting' = Append(Waiting, frame)
      <3>1. /\ \A k \in 1 .. Unshown : Waiting'[k] = Waiting[k]
            /\ Waiting'[Unshown + 1] = frame
        BY <1>0, <2>1, <2>2, <2>3, <2>5 DEF Waiting
      <3> QED BY <1>0, <2>2, <3>1, Longer
    <2>7. PICK f \in Frames : f = frame
      BY <2>5
    <2>8. Fifo!Put(f)
      <3>1. Len(Waiting) < N /\ Waiting' = Append(Waiting, f) /\ UNCHANGED shown
        BY <1>0, <2>1, <2>2, <2>6, <2>7
      <3> QED BY <3>1 DEF Fifo!Put, Waiting, Place
    <2> QED BY <2>8 DEF Fifo!Next
  <1>6. CASE Display
    <2>1. /\ mpc = "display" /\ mpc' = "advance" /\ size > 0
          /\ shown' = pictq[rIndex].frame
          /\ UNCHANGED <<pictq, rIndex, size>>
      BY <1>6 DEF Display, IInv, Shape, Room
    <2>2. Unshown' = Unshown - 1 /\ First = rIndex /\ First' = After(rIndex) /\ Unshown > 0
      BY <2>1 DEF Unshown, First, IInv, Shape, TypeOK
    <2>3. Place(1) = rIndex /\ \A k \in 1 .. Unshown - 1 : Place(k)' = Place(k + 1)
      BY <1>0, <2>2 DEF Place, After, Slots, IInv, Shape, TypeOK
    <2>4. Waiting # << >> /\ Head(Waiting) = shown'
      BY <1>0, <2>1, <2>2, <2>3 DEF Waiting
    <2>5. Waiting' = Tail(Waiting)
      <3>1. \A k \in 1 .. Unshown - 1 : Waiting'[k] = Waiting[k + 1]
        BY <1>0, <2>1, <2>2, <2>3 DEF Waiting
      <3> QED BY <1>0, <2>2, <3>1, Shorter
    <2>6. Fifo!Show
      BY <2>4, <2>5 DEF Fifo!Show, Waiting, Place
    <2> QED BY <2>6 DEF Fifo!Next
  <1>7. CASE AdvanceRead
    BY <1>1, <1>7 DEF AdvanceRead, First, Unshown
  <1>8. CASE CountDown
    BY <1>1, <1>8 DEF CountDown, First, Unshown, IInv, Shape, TypeOK
  <1>9. CASE UNCHANGED <<pictq, size, rIndex, shown>> /\ (mpc' = mpc \/ {mpc, mpc'} \cap {"advance", "count"} = {})
    BY <1>1, <1>9 DEF First, Unshown
  <1> QED
    BY <1>2, <1>3, <1>4, <1>5, <1>6, <1>7, <1>8, <1>9
    DEF Next, Video, Handle, Timer, vars, Decode, WaitForSpace, PushAlloc, WaitForAlloc, AdvanceWrite,
        GetEvent, ReadSize, ScheduleRefresh, PumpInput, TimerDue, TimerCallback, TimerReturn

(* The ring of any length is a queue that shows the pictures in the order  *)
(* in which they were put, though both indexes, the count and the slots    *)
(* are changed by two threads outside of the mutex (716-739, 964-976).     *)
THEOREM Refinement == Spec => ImplementsFifo
  BY InitIInv, NextIInv, StoredInit, StoredNext, RefinesInit, RefinesNext, PTL
     DEF Spec, ImplementsFifo, Fifo!Spec

=============================================================================
