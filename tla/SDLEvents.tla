----------------------------- MODULE SDLEvents ------------------------------
(***************************************************************************)
(* SDL's event queue (SDL/src/events/SDL_events.c): a ring of events under *)
(* a mutex, from whose middle events can be cut, and beside it a ring of   *)
(* the messages that system events point to.  The main thread pumps the    *)
(* window system's events in, reads, filters and ignores; other threads    *)
(* push events of their own.                                               *)
(*                                                                         *)
(* The loop of SDL_PeepEvents is modelled pass by pass, with the mutex     *)
(* held; adding an event is one step under it.  Win32 has no event thread  *)
(* (SDL_sysevents.h defines CANT_THREAD_EVENTS), so SDL_EventThread is     *)
(* NULL.  A place of the ring that holds no queued event is blank, where   *)
(* the code leaves an old event that must not be read.                     *)
(* Definitions that no other uses are slips the properties tell apart.     *)
(***************************************************************************)
EXTENDS Integers, Sequences, FiniteSets

CONSTANTS
  M,         \* MAXEVENTS
  Burst,     \* the most events the model's readers ask for (32 in the code)
  Messages,  \* contents of system messages
  Nothing    \* no message, no event

ASSUME SDLEventsAssumption ==
  /\ M \in Nat /\ M > 1
  /\ Burst \in Nat \ {0}
  /\ Nothing \notin Messages

VARIABLES
  active,      \* SDL_EventQ.active
  head, tail,  \* SDL_EventQ.head, SDL_EventQ.tail
  event,       \* SDL_EventQ.event
  wmmsg,       \* SDL_EventQ.wmmsg
  wmmsg_next,  \* SDL_EventQ.wmmsg_next
  added,       \* what SDL_AddEvent returned last
  enabled,     \* pumped kinds for which SDL_ProcessEvents says SDL_ENABLE
  accept,      \* pumped kinds that the filter SDL_EventOK lets pass
  call,        \* main: idle, or drain in a loop that discards every event
  peep,        \* for whom main is in SDL_PeepEvents, or what comes after it
  mask,        \* its arguments: the kinds asked for,
  want,        \*   how many,
  get,         \*   and whether to cut them out
  spot, used,  \* its local variables
  held         \* the system event main has polled and not yet replaced

queue == <<active, head, tail, event, wmmsg, wmmsg_next>>
policy == <<enabled, accept>>
scan == <<mask, want, get, spot, used>>
vars == <<queue, added, policy, call, peep, scan, held>>

(* sys: SDL_SYSWMEVENT, expose: SDL_VIDEOEXPOSE, both posted by the pump;  *)
(* user: SDL_USEREVENT and up, pushed by other threads.                    *)
Kinds == {"sys", "expose", "user"}
Pumped == {"sys", "expose"}

Ring == 0 .. M - 1
Blank == [kind |-> "none", slot |-> M]
Succ(i) == (i + 1) % M
Pred(i) == (i + M - 1) % M

(* Places from i on to j, round the ring.                                  *)
Dist(i, j) == (j - i + M) % M

Occupied(i) == Dist(head, i) < Dist(head, tail)

-----------------------------------------------------------------------------
(* SDL_StartEventLoop *)
Init ==
  /\ active = TRUE
  /\ head = 0 /\ tail = 0
  /\ event = [i \in Ring |-> Blank]
  /\ wmmsg = [i \in Ring |-> Nothing] /\ wmmsg_next = 0
  /\ added = 1
  /\ enabled = Pumped \ {"sys"} /\ accept = Pumped
  /\ call = "idle" /\ peep = "none"
  /\ mask = {} /\ want = 0 /\ get = FALSE /\ spot = 0 /\ used = 0
  /\ held = Nothing

(* Slips in AddEvent: the message is copied before the queue is known to   *)
(* have room.                                                              *)
AddEventCopyFirst(kind, msg) ==
  /\ wmmsg' = IF kind = "sys" THEN [wmmsg EXCEPT ![wmmsg_next] = msg] ELSE wmmsg
  /\ wmmsg_next' = IF kind = "sys" THEN Succ(wmmsg_next) ELSE wmmsg_next
  /\ \/ Succ(tail) = head /\ added' = 0 /\ UNCHANGED <<tail, event>>
     \/ /\ Succ(tail) # head /\ added' = 1
        /\ tail' = Succ(tail)
        /\ event' = [event EXCEPT ![tail] =
             [kind |-> kind, slot |-> IF kind = "sys" THEN wmmsg_next ELSE M]]

AddEvent(kind, msg) ==
  \/ /\ Succ(tail) = head
     /\ added' = 0
     /\ UNCHANGED <<tail, event, wmmsg, wmmsg_next>>
  \/ /\ Succ(tail) # head
     /\ \/ /\ kind = "sys"
           /\ wmmsg' = [wmmsg EXCEPT ![wmmsg_next] = msg]
           /\ event' = [event EXCEPT ![tail] = [kind |-> kind, slot |-> wmmsg_next]]
           /\ wmmsg_next' = Succ(wmmsg_next)
        \/ /\ kind # "sys"
           /\ event' = [event EXCEPT ![tail] = [kind |-> kind, slot |-> M]]
           /\ UNCHANGED <<wmmsg, wmmsg_next>>
     /\ tail' = Succ(tail)
     /\ added' = 1

(* SDL_CutEvent(spot), which returns where to go on.                       *)
CutHead ==
  /\ spot = head
  /\ head' = Succ(head) /\ spot' = Succ(head)
  /\ event' = [event EXCEPT ![spot] = Blank]
  /\ UNCHANGED tail

CutLast ==
  /\ spot # head /\ Succ(spot) = tail
  /\ tail' = spot /\ spot' = spot
  /\ event' = [event EXCEPT ![spot] = Blank]
  /\ UNCHANGED head

(* The events from spot on are shifted over it, up to the new tail.        *)
Shifted(stop) == [i \in Ring |->
  IF Dist(spot, i) < Dist(spot, stop) THEN event[Succ(i)]
  ELSE IF i = stop THEN Blank ELSE event[i]]

CutMiddleAndGoOn ==
  /\ spot # head /\ Succ(spot) # tail
  /\ tail' = Pred(tail) /\ spot' = Succ(spot)
  /\ event' = Shifted(Pred(tail))
  /\ UNCHANGED head

CutMiddleShort ==
  /\ spot # head /\ Succ(spot) # tail
  /\ tail' = Pred(tail) /\ spot' = spot
  /\ event' = [Shifted(Pred(Pred(tail))) EXCEPT ![Pred(tail)] = Blank]
  /\ UNCHANGED head

CutMiddle ==
  /\ spot # head /\ Succ(spot) # tail
  /\ tail' = Pred(tail) /\ spot' = spot
  /\ event' = Shifted(Pred(tail))
  /\ UNCHANGED head

CutEvent == CutHead \/ CutLast \/ CutMiddle

-----------------------------------------------------------------------------
(* SDL_PeepEvents with SDL_GETEVENT or SDL_PEEKEVENT *)

Locked == peep \in {"app", "poll", "expose"}

BeginPeep(kinds, n, cut) ==
  /\ mask' = kinds /\ want' = n /\ get' = cut
  /\ spot' = head /\ used' = 0

More == used < want /\ spot # tail

Hit == event[spot].kind \in mask

(* What main holds after taking the event at spot: PollEvent's caller has  *)
(* one event, whose message stays in the ring.                             *)
Holding ==
  IF event[spot].kind # "sys" THEN held
  ELSE IF peep = "app" /\ want = 1
    THEN [slot |-> event[spot].slot, msg |-> wmmsg[event[spot].slot]]
    ELSE Nothing

PeepTake ==
  /\ Locked /\ More /\ Hit /\ get
  /\ CutEvent
  /\ used' = used + 1
  /\ held' = Holding
  /\ UNCHANGED <<active, wmmsg, wmmsg_next, added, policy, call, peep, mask, want, get>>

PeepLook ==
  /\ Locked /\ More /\ Hit /\ ~ get
  /\ used' = used + 1
  /\ spot' = Succ(spot)
  /\ UNCHANGED <<queue, added, policy, call, peep, mask, want, get, held>>

PeepSkip ==
  /\ Locked /\ More /\ ~ Hit
  /\ spot' = Succ(spot)
  /\ UNCHANGED <<queue, added, policy, call, peep, mask, want, get, used, held>>

(* The loops that discard events poll until none is left.                  *)
EndPeepOnce ==
  /\ Locked /\ ~ More
  /\ call' = "idle"
  /\ peep' = IF peep = "expose" THEN "post" ELSE "none"
  /\ mask' = {} /\ want' = 0 /\ get' = FALSE /\ spot' = 0 /\ used' = 0
  /\ UNCHANGED <<queue, added, policy, held>>

EndPeep ==
  /\ Locked /\ ~ More
  /\ call' = IF peep = "poll" /\ used = 0 THEN "idle" ELSE call
  /\ peep' = IF peep = "expose" THEN "post" ELSE "none"
  /\ mask' = {} /\ want' = 0 /\ get' = FALSE /\ spot' = 0 /\ used' = 0
  /\ UNCHANGED <<queue, added, policy, held>>

-----------------------------------------------------------------------------
(* SDL_PumpEvents, by main, alone or as the first part of a poll *)

Posts(kind) == kind \in enabled \cap accept

(* SDL_PrivateSysWMEvent *)
PumpSys(msg) ==
  /\ active /\ peep = "none"
  /\ Posts("sys")
  /\ AddEvent("sys", msg)
  /\ UNCHANGED <<active, head, policy, call, peep, scan, held>>

(* SDL_PrivateExpose: pull out the old events, then post one.              *)
PumpExposeKeeping ==
  /\ active /\ peep = "none"
  /\ peep' = "post"
  /\ UNCHANGED <<queue, added, policy, call, scan, held>>

PumpExpose ==
  /\ active /\ peep = "none"
  /\ peep' = "expose"
  /\ BeginPeep({"expose"}, Burst, TRUE)
  /\ UNCHANGED <<queue, added, policy, call, held>>

PostExpose ==
  /\ peep = "post"
  /\ \/ Posts("expose") /\ AddEvent("expose", Nothing)
     \/ ~ Posts("expose") /\ UNCHANGED <<tail, event, wmmsg, wmmsg_next, added>>
  /\ peep' = "none"
  /\ UNCHANGED <<active, head, policy, call, scan, held>>

-----------------------------------------------------------------------------
(* The calls of the application *)

(* SDL_PollEvent and SDL_WaitEvent ask for one event of any kind.          *)
Peep(kinds, n, cut) ==
  /\ active /\ call = "idle" /\ peep = "none"
  /\ peep' = "app"
  /\ BeginPeep(kinds, n, cut)
  /\ UNCHANGED <<queue, added, policy, call, held>>

(* SDL_PushEvent, from any other thread.                                   *)
PushEvent ==
  /\ active /\ ~ Locked
  /\ AddEvent("user", Nothing)
  /\ UNCHANGED <<active, head, policy, call, peep, scan, held>>

(* SDL_EventState: SDL_ENABLE or SDL_IGNORE for one kind or for all, then  *)
(* discard what is pending.                                                *)
EventState(kinds) ==
  /\ active /\ call = "idle" /\ peep = "none"
  /\ \/ enabled' = enabled \cup kinds
     \/ enabled' = enabled \ kinds
  /\ call' = "drain"
  /\ UNCHANGED <<queue, added, accept, peep, scan, held>>

SetEventFilter(kinds) ==
  /\ active /\ call = "idle" /\ peep = "none"
  /\ accept' = kinds
  /\ call' = "drain"
  /\ UNCHANGED <<queue, added, enabled, peep, scan, held>>

(* One pass of: while ( SDL_PollEvent(&bitbucket) > 0 )                    *)
Discard ==
  /\ call = "drain" /\ peep = "none"
  /\ peep' = "poll"
  /\ BeginPeep(Kinds, 1, TRUE)
  /\ UNCHANGED <<queue, added, policy, call, held>>

(* SDL_StopEventLoop and SDL_StartEventLoop, the other threads being done. *)
StopEventLoop ==
  /\ active /\ call = "idle" /\ peep = "none"
  /\ active' = FALSE
  /\ head' = 0 /\ tail' = 0 /\ wmmsg_next' = 0
  /\ event' = [i \in Ring |-> Blank]
  /\ held' = Nothing
  /\ UNCHANGED <<wmmsg, added, policy, call, peep, scan>>

StartEventLoop ==
  /\ ~ active
  /\ active' = TRUE
  /\ enabled' = Pumped \ {"sys"} /\ accept' = Pumped
  /\ UNCHANGED <<head, tail, event, wmmsg, wmmsg_next, added, call, peep, scan, held>>

-----------------------------------------------------------------------------
Pump == PumpExpose \/ PostExpose \/ \E msg \in Messages : PumpSys(msg)

PeepEvents == PeepTake \/ PeepLook \/ PeepSkip \/ EndPeep

Configure ==
  \/ \E kinds \in {{"sys"}, {"expose"}, Pumped} : EventState(kinds)
  \/ \E kinds \in {Pumped, {"sys"}} : SetEventFilter(kinds)
  \/ Discard

Next ==
  \/ Pump \/ PeepEvents \/ Configure \/ PushEvent
  \/ \E kinds \in {{"sys"}, {"user"}, Kinds}, n \in 1 .. Burst, cut \in BOOLEAN :
       Peep(kinds, n, cut)
  \/ StopEventLoop \/ StartEventLoop

Spec == Init /\ [][Next]_vars

-----------------------------------------------------------------------------
(***************************************************************************)
(* Properties                                                              *)
(***************************************************************************)
Entries == [kind : {"sys"}, slot : Ring] \cup [kind : Kinds \ {"sys"}, slot : {M}]

TypeOK ==
  /\ active \in BOOLEAN
  /\ head \in Ring /\ tail \in Ring
  /\ event \in [Ring -> Entries \cup {Blank}]
  /\ wmmsg \in [Ring -> Messages \cup {Nothing}] /\ wmmsg_next \in Ring
  /\ added \in {0, 1}
  /\ enabled \in SUBSET Pumped /\ accept \in SUBSET Pumped
  /\ call \in {"idle", "drain"}
  /\ peep \in {"none", "app", "poll", "expose", "post"}
  /\ mask \in SUBSET Kinds /\ want \in 0 .. Burst /\ get \in BOOLEAN
  /\ spot \in Ring /\ used \in 0 .. Burst
  /\ held \in [slot : Ring, msg : Messages] \cup {Nothing}

(* The queue's events, with the messages they point to.                    *)
Queue == [k \in 1 .. Dist(head, tail) |->
  LET e == event[(head + k - 1) % M]
  IN  [kind |-> e.kind, msg |-> IF e.kind = "sys" THEN wmmsg[e.slot] ELSE Nothing]]

(* The ring is a bounded FIFO, whatever is cut out of its middle, and a    *)
(* message is not overwritten while its event is queued (264-365): see     *)
(* EventQueue.                                                             *)
Abstract == INSTANCE EventQueue WITH
  queue <- Queue,
  Cap <- M - 1,
  Events <- [kind : {"sys"}, msg : Messages] \cup
            [kind : Kinds \ {"sys"}, msg : {Nothing}]

ImplementsQueue == Abstract!Spec

Matching == {i \in Ring : Occupied(i) /\ event[i].kind \in mask}

(* SDL_PeepEvents gives as many events as it can (340-354): when it stops  *)
(* short of the number asked for, none that matches is left unread.        *)
PeepComplete ==
  Locked /\ ~ More /\ used < want =>
    IF get THEN Matching = {} ELSE Cardinality(Matching) = used

(* The message an application reads through the event that SDL_PollEvent   *)
(* gave it is the one sent with that event, for as long as it polls no     *)
(* other: MAXEVENTS messages outlast MAXEVENTS - 1 events (275-281).       *)
HeldIntact == held # Nothing => wmmsg[held.slot] = held.msg

(* Once SDL_EventState or SDL_SetEventFilter has returned, no event is     *)
(* queued that the window system sent and that they ruled out (422-481).   *)
NoneIgnored ==
  call = "idle" => \A i \in Ring :
    Occupied(i) /\ event[i].kind \in Pumped => Posts(event[i].kind)

(* At most one expose event waits (SDL_expose.c 36-38), though the old one *)
(* is pulled out in one call and the new one posted in another.            *)
ExposeOnce ==
  Cardinality({i \in Ring : Occupied(i) /\ event[i].kind = "expose"}) <= 1

=============================================================================
