---------------------------- MODULE PictureQueue ----------------------------
(***************************************************************************)
(* The video output of VSPlayer (FFmpeg/tests/VSPlayer/VSPlayer.c): the    *)
(* video thread puts decoded pictures into the ring pictq, the main thread *)
(* allocates the overlays and shows the pictures, and a one-shot SDL timer *)
(* tells it when.  The three meet in the ring, in SDL's event queue and in *)
(* the condition variable pictq_cond.                                      *)
(* Definitions that no other uses are slips the properties tell apart.     *)
(*                                                                         *)
(* A section under pictq_mutex never blocks, so it is one step; waiting on *)
(* pictq_cond releases the mutex in the same step (SDLCond implements      *)
(* CondVar, which says so).  quit is left out: the only assignment to it   *)
(* (line 1074) is followed by exit(0).  The file has a video stream.       *)
(***************************************************************************)
EXTENDS Integers, Sequences, FiniteSets, SequencesExt

CONSTANTS
  N,          \* VIDEO_PICTURE_QUEUE_SIZE
  Frames,     \* pictures, told apart only by identity
  NoFrame,    \* contents of an overlay that holds no complete picture
  Dims,       \* picture dimensions
  NoBmp,      \* vp->bmp == NULL
  Cap,        \* events SDL's queue holds (MAXEVENTS - 1)
  MaxRefresh  \* bound on the refreshes under way at one time

ASSUME PictureQueueAssumption ==
  /\ N \in Nat \ {0}
  /\ Cap \in Nat \ {0}
  /\ MaxRefresh \in Nat \ {0}
  /\ NoFrame \notin Frames
  /\ NoBmp \notin Dims

VARIABLES
  pictq,      \* the slots: overlay, its allocated flag, the picture in it
  size,       \* pictq_size
  rIndex,     \* pictq_rIndex
  wIndex,     \* pictq_wIndex
  dim,        \* dimensions in video_st->codec
  frame,      \* the picture the video thread has decoded
  vpc,        \* where the video thread is
  mpc,        \* where the main thread is
  shown,      \* the picture on the screen
  events,     \* SDL's event queue
  lost,       \* kinds of the player's own events that never come: dropped, or
              \* their timer could not be made
  armed,      \* timers in SDL_timers
  changed,    \* list_changed
  tpc         \* where the timer thread is

ring == <<pictq, size, rIndex, wIndex>>
eventq == <<events, lost>>
timers == <<armed, changed, tpc>>
vars == <<ring, dim, frame, vpc, mpc, shown, eventq, timers>>

Slots == 0 .. N - 1

(* The successor of an index: lines 737 and 970.                           *)
After(i) == IF i + 1 = N THEN 0 ELSE i + 1

VideoPlaces == {"decode", "space", "sleepSpace", "check", "push", "alloc",
                "sleepAlloc", "overlay", "convert", "advance", "count"}
MainPlaces == {"wait", "alloc", "create", "allocated", "refresh", "again",
               "show", "display", "advance", "count"}
TimerPlaces == {"idle", "call", "return"}
Kinds == {"ALLOC", "REFRESH", "INPUT"}

-----------------------------------------------------------------------------
(* main has scheduled the first refresh, unless SDL_AddTimer failed, and   *)
(* started the threads (1050-1055).                                        *)
Init ==
  /\ pictq = [i \in Slots |->
                [bmp |-> NoBmp, allocated |-> FALSE, frame |-> NoFrame]]
  /\ size = 0 /\ rIndex = 0 /\ wIndex = 0
  /\ dim \in Dims
  /\ frame = NoFrame
  /\ vpc = "decode" /\ mpc = "wait"
  /\ shown = NoFrame
  /\ events = <<>> /\ tpc = "idle"
  /\ \/ armed = 1 /\ changed = TRUE /\ lost = {}
     \/ armed = 0 /\ changed = FALSE /\ lost = {"REFRESH"}

(* SDL_PushEvent: a full queue drops the event and nobody looks at the     *)
(* result.                                                                 *)
Push(kind) ==
  \/ /\ Len(events) < Cap
     /\ events' = Append(events, kind)
     /\ UNCHANGED lost
  \/ /\ Len(events) >= Cap
     /\ lost' = lost \cup {kind}
     /\ UNCHANGED events

(* SDL_CondSignal(pictq_cond): only the video thread ever waits on it.     *)
Signal ==
  vpc' = CASE vpc = "sleepSpace" -> "space"
           [] vpc = "sleepAlloc" -> "alloc"
           [] OTHER -> vpc

-----------------------------------------------------------------------------
(* The video thread: video_thread and queue_picture                        *)

(* A packet yields a picture; its header may change the dimensions.        *)
Decode ==
  /\ vpc = "decode"
  /\ frame' \in Frames
  /\ dim' \in Dims
  /\ vpc' = "space"
  /\ UNCHANGED <<ring, mpc, shown, eventq, timers>>

WaitForSpaceLate ==
  /\ vpc = "space"
  /\ vpc' = IF size > N THEN "sleepSpace" ELSE "check"
  /\ UNCHANGED <<ring, dim, frame, mpc, shown, eventq, timers>>

WaitForSpace ==
  /\ vpc = "space"
  /\ vpc' = IF size >= N THEN "sleepSpace" ELSE "check"
  /\ UNCHANGED <<ring, dim, frame, mpc, shown, eventq, timers>>

CheckOverlayExists ==
  /\ vpc = "check"
  /\ \/ /\ pictq[wIndex].bmp = NoBmp
        /\ pictq' = [pictq EXCEPT ![wIndex].allocated = FALSE]
        /\ vpc' = "push"
     \/ /\ pictq[wIndex].bmp # NoBmp
        /\ vpc' = "overlay"
        /\ UNCHANGED pictq
  /\ UNCHANGED <<size, rIndex, wIndex, dim, frame, mpc, shown, eventq, timers>>

CheckOverlay ==
  /\ vpc = "check"
  /\ \/ /\ pictq[wIndex].bmp # dim
        /\ pictq' = [pictq EXCEPT ![wIndex].allocated = FALSE]
        /\ vpc' = "push"
     \/ /\ pictq[wIndex].bmp = dim
        /\ vpc' = "overlay"
        /\ UNCHANGED pictq
  /\ UNCHANGED <<size, rIndex, wIndex, dim, frame, mpc, shown, eventq, timers>>

PushAlloc ==
  /\ vpc = "push"
  /\ Push("ALLOC")
  /\ vpc' = "alloc"
  /\ UNCHANGED <<ring, dim, frame, mpc, shown, timers>>

WaitForAlloc ==
  /\ vpc = "alloc"
  /\ vpc' = IF pictq[wIndex].allocated THEN "overlay" ELSE "sleepAlloc"
  /\ UNCHANGED <<ring, dim, frame, mpc, shown, eventq, timers>>

(* Line 716: a picture without an overlay is dropped.                      *)
BeginConvert ==
  /\ vpc = "overlay"
  /\ \/ /\ pictq[wIndex].bmp # NoBmp
        /\ pictq' = [pictq EXCEPT ![wIndex].frame = NoFrame]
        /\ vpc' = "convert"
     \/ /\ pictq[wIndex].bmp = NoBmp
        /\ vpc' = "decode"
        /\ UNCHANGED pictq
  /\ UNCHANGED <<size, rIndex, wIndex, dim, frame, mpc, shown, eventq, timers>>

EndConvert ==
  /\ vpc = "convert"
  /\ pictq' = [pictq EXCEPT ![wIndex].frame = frame]
  /\ vpc' = "advance"
  /\ UNCHANGED <<size, rIndex, wIndex, dim, frame, mpc, shown, eventq, timers>>

AdvanceWrite ==
  /\ vpc = "advance"
  /\ wIndex' = After(wIndex)
  /\ vpc' = "count"
  /\ UNCHANGED <<pictq, size, rIndex, dim, frame, mpc, shown, eventq, timers>>

CountUp ==
  /\ vpc = "count"
  /\ size' = size + 1
  /\ vpc' = "decode"
  /\ UNCHANGED <<pictq, rIndex, wIndex, dim, frame, mpc, shown, eventq, timers>>

-----------------------------------------------------------------------------
(* The main thread: SDL_WaitEvent, alloc_picture, video_refresh_timer      *)

(* SDL_PumpEvents brings in what the user and the window system did.       *)
PumpInput ==
  /\ mpc = "wait"
  /\ Len(events) < Cap
  /\ events' = Append(events, "INPUT")
  /\ UNCHANGED <<ring, dim, frame, vpc, mpc, shown, lost, timers>>

GetEvent ==
  /\ mpc = "wait"
  /\ events # <<>>
  /\ events' = Tail(events)
  /\ mpc' = CASE Head(events) = "ALLOC" -> "alloc"
              [] Head(events) = "REFRESH" -> "refresh"
              [] OTHER -> "wait"
  /\ UNCHANGED <<ring, dim, frame, vpc, shown, lost, timers>>

FreeOverlay ==
  /\ mpc = "alloc"
  /\ pictq' = [pictq EXCEPT ![wIndex].bmp = NoBmp, ![wIndex].frame = NoFrame]
  /\ mpc' = "create"
  /\ UNCHANGED <<size, rIndex, wIndex, dim, frame, vpc, shown, eventq, timers>>

(* SDL_CreateYUVOverlay may fail and return NULL.                          *)
CreateOverlay ==
  /\ mpc = "create"
  /\ \E b \in {dim, NoBmp} : pictq' = [pictq EXCEPT ![wIndex].bmp = b]
  /\ mpc' = "allocated"
  /\ UNCHANGED <<size, rIndex, wIndex, dim, frame, vpc, shown, eventq, timers>>

SetAllocated ==
  /\ mpc = "allocated"
  /\ pictq' = [pictq EXCEPT ![wIndex].allocated = TRUE]
  /\ Signal
  /\ mpc' = "wait"
  /\ UNCHANGED <<size, rIndex, wIndex, dim, frame, shown, eventq, timers>>

ReadSizeNoRetry ==
  /\ mpc = "refresh"
  /\ mpc' = IF size = 0 THEN "wait" ELSE "show"
  /\ UNCHANGED <<ring, dim, frame, vpc, shown, eventq, timers>>

(* Line 923 reads pictq_size without the mutex.                            *)
ReadSize ==
  /\ mpc = "refresh"
  /\ mpc' = IF size = 0 THEN "again" ELSE "show"
  /\ UNCHANGED <<ring, dim, frame, vpc, shown, eventq, timers>>

Refreshing == mpc \in {"refresh", "again", "show"}

(* The refreshes under way.  A timer whose callback has returned no longer *)
(* counts: it is to be removed.                                            *)
Refreshes == armed + Len(SelectSeq(events, LAMBDA e : e = "REFRESH"))
               + (IF Refreshing THEN 1 ELSE 0)
               - (IF tpc = "return" THEN 1 ELSE 0)

(* schedule_refresh: SDL_AddTimer, which fails without memory, and nobody  *)
(* looks at its result (SDL_timer.c 168-169).  MaxRefresh bounds how many  *)
(* refreshes its race with a returning callback may start.                 *)
ScheduleRefresh ==
  /\ mpc \in {"again", "show"}
  /\ tpc = "idle" \/ Refreshes < MaxRefresh
  /\ \/ /\ armed' = armed + 1 /\ changed' = TRUE
        /\ UNCHANGED lost
     \/ /\ lost' = lost \cup {"REFRESH"}
        /\ UNCHANGED <<armed, changed>>
  /\ mpc' = IF mpc = "again" THEN "wait" ELSE "display"
  /\ UNCHANGED <<ring, dim, frame, vpc, shown, events, tpc>>

Display ==
  /\ mpc = "display"
  /\ shown' = pictq[rIndex].frame
  /\ mpc' = "advance"
  /\ UNCHANGED <<ring, dim, frame, vpc, eventq, timers>>

AdvanceRead ==
  /\ mpc = "advance"
  /\ rIndex' = After(rIndex)
  /\ mpc' = "count"
  /\ UNCHANGED <<pictq, size, wIndex, dim, frame, vpc, shown, eventq, timers>>

CountDownSilent ==
  /\ mpc = "count"
  /\ size' = size - 1
  /\ mpc' = "wait"
  /\ UNCHANGED <<pictq, rIndex, wIndex, dim, frame, vpc, shown, eventq, timers>>

CountDown ==
  /\ mpc = "count"
  /\ size' = size - 1
  /\ Signal
  /\ mpc' = "wait"
  /\ UNCHANGED <<pictq, rIndex, wIndex, dim, frame, shown, eventq, timers>>

-----------------------------------------------------------------------------
(* The timer thread: SDL_ThreadedTimerCheck and sdl_refresh_timer_cb       *)

(* A due timer is chosen and the mutex released around its callback.       *)
TimerDue ==
  /\ tpc = "idle"
  /\ armed > 0
  /\ ~ (mpc \in {"again", "show"} /\ Refreshes >= MaxRefresh)
  /\ changed' = FALSE
  /\ tpc' = "call"
  /\ UNCHANGED <<ring, dim, frame, vpc, mpc, shown, eventq, armed>>

TimerCallback ==
  /\ tpc = "call"
  /\ Push("REFRESH")
  /\ tpc' = "return"
  /\ UNCHANGED <<ring, dim, frame, vpc, mpc, shown, armed, changed>>

(* The callback returned 0, so its timer is removed, unless the list was   *)
(* changed meanwhile (SDL_timer.c 133-137).                                *)
TimerReturn ==
  /\ tpc = "return"
  /\ armed' = IF changed THEN armed ELSE armed - 1
  /\ tpc' = "idle"
  /\ UNCHANGED <<ring, dim, frame, vpc, mpc, shown, eventq, changed>>

-----------------------------------------------------------------------------
Video == Decode \/ WaitForSpace \/ CheckOverlay \/ PushAlloc \/ WaitForAlloc
           \/ BeginConvert \/ EndConvert \/ AdvanceWrite \/ CountUp

Handle == GetEvent \/ FreeOverlay \/ CreateOverlay \/ SetAllocated \/ ReadSize
            \/ ScheduleRefresh \/ Display \/ AdvanceRead \/ CountDown

Timer == TimerDue \/ TimerCallback \/ TimerReturn

Next == Video \/ Handle \/ PumpInput \/ Timer

Spec == Init /\ [][Next]_vars

(* The three threads keep running: SDL_WaitEvent polls, the system timer   *)
(* ticks every 10 ms, a packet always comes.  The user need not act.       *)
FairSpec == Spec /\ WF_vars(Video) /\ WF_vars(Handle) /\ WF_vars(Timer)

-----------------------------------------------------------------------------
(***************************************************************************)
(* Properties                                                              *)
(***************************************************************************)
TypeOK ==
  /\ pictq \in [Slots -> [bmp : Dims \cup {NoBmp}, allocated : BOOLEAN,
                          frame : Frames \cup {NoFrame}]]
  /\ size \in 0 .. N
  /\ rIndex \in Slots /\ wIndex \in Slots
  /\ dim \in Dims
  /\ frame \in Frames \cup {NoFrame}
  /\ vpc \in VideoPlaces /\ mpc \in MainPlaces /\ tpc \in TimerPlaces
  /\ shown \in Frames \cup {NoFrame}
  /\ events \in Seq(Kinds)
  /\ lost \in SUBSET Kinds
  /\ armed \in Nat
  /\ changed \in BOOLEAN

(* The slots between the two indexes: an index moves before the count      *)
(* does (737-742, 970-976), so in between the count is off by one.         *)
Occupied == size + (IF vpc = "count" THEN 1 ELSE 0)
                 - (IF mpc = "count" THEN 1 ELSE 0)

(* wIndex is Occupied slots ahead of rIndex round the ring.                *)
RingShape ==
  /\ Occupied \in 0 .. N
  /\ wIndex - rIndex \in {Occupied, Occupied - N}

(* The main thread never shows the slot the video thread is filling, and   *)
(* never frees or replaces an overlay the video thread is filling or that  *)
(* holds a picture still to be shown, though it does both without the      *)
(* mutex (657-670, 964-968 against 716-735).                               *)
Filling == vpc \in {"overlay", "convert", "advance"}

Queued == {i \in Slots : \E k \in 0 .. Occupied - 1 : i - rIndex \in {k, k - N}}

SlotExclusion ==
  /\ mpc = "display" /\ Filling => rIndex # wIndex
  /\ mpc \in {"alloc", "create", "allocated"} =>
       ~ Filling /\ wIndex \notin Queued

(* A picture is converted into an overlay of its own dimensions, although  *)
(* the overlay was made by another thread (657-668).                       *)
OverlayFits == vpc = "convert" => pictq[wIndex].bmp = dim

(* The video thread waits for an overlay only while the request is on its  *)
(* way, unless the event queue overflowed (697-714).                       *)
AllocRequested ==
  vpc \in {"alloc", "sleepAlloc"} =>
    \/ "ALLOC" \in lost
    \/ "ALLOC" \in ToSet(events)
    \/ mpc \in {"alloc", "create", "allocated"}
    \/ vpc = "alloc" /\ pictq[wIndex].allocated

(* There is always a timer that will call back, a refresh event, or the    *)
(* main thread on its way to schedule the next: the player cannot stop     *)
(* showing pictures, unless the event queue overflowed or a timer could    *)
(* not be made (856-868, 915-983).                                         *)
RefreshAlive ==
  \/ "REFRESH" \in lost
  \/ armed > (IF tpc = "return" /\ ~ changed THEN 1 ELSE 0)
  \/ "REFRESH" \in ToSet(events)
  \/ Refreshing

(* sdl_refresh_timer_cb returns 0, and "If the callback returns 0, the     *)
(* periodic alarm is cancelled" (SDL_timer.h): so the one timer scheduled  *)
(* leads to one refresh, which schedules one timer.                        *)
OneRefresh == Refreshes <= 1

(* The ring is a FIFO of at most N pictures: see FrameQueue.               *)
Unshown == size - (IF mpc \in {"advance", "count"} THEN 1 ELSE 0)

First == IF mpc = "advance" THEN After(rIndex) ELSE rIndex

Fifo == INSTANCE FrameQueue WITH
  queue <- [k \in 1 .. Unshown |->
              LET i == First + k - 1
              IN  pictq[IF i < N THEN i ELSE i - N].frame]

ImplementsFifo == Fifo!Spec

(* A video thread that sleeps, for space or for an overlay, goes on (685,  *)
(* 711), unless an event was dropped or a timer not made.  Checking comes  *)
(* right after space and using the overlay right after it was allocated.   *)
VideoGoesOn ==
  vpc \in {"sleepSpace", "sleepAlloc"} ~>
    (vpc \in {"check", "overlay"} \/ lost # {})

(* Every picture that is queued is shown in time (915-983), unless an      *)
(* event was dropped or a timer not made.  Nothing tells one picture from  *)
(* another, so one of them stands for all.                                 *)
QueuedIsShown ==
  LET f == CHOOSE g \in Frames : TRUE
  IN  vpc = "advance" /\ frame = f ~> (shown = f \/ lost # {})

=============================================================================
