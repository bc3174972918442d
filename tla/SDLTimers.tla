------------------------------ MODULE SDLTimers ------------------------------
(***************************************************************************)
(* SDL's list of timers (SDL/src/timer/SDL_timer.c) over the millisecond   *)
(* clock and the periodic alarm of Win32 (timer/win32/SDL_systimer.c).     *)
(*                                                                         *)
(* The alarm's thread passes over the list under SDL_timer_mutex, which it *)
(* releases while it calls a timer's function; other threads, and the      *)
(* function itself, add and remove timers meanwhile.  A section under the  *)
(* mutex does not block and is one step.  Times are numbers modulo W.  lag *)
(* and passed are true times kept beside the program's, to tell what its   *)
(* arithmetic should come to; MaxLag is the lag from which they no longer  *)
(* tell.  MaxLate bounds the time from one pass to the next.  Definitions  *)
(* that no other uses are slips the properties tell apart.                 *)
(***************************************************************************)
EXTENDS Integers, Sequences, FiniteSets, SequencesExt

CONSTANTS
  Timers,     \* struct _SDL_TimerID that malloc may return
  Intervals,  \* intervals that are asked for
  Returns,    \* what functions return, besides the interval they are given
  W,          \* 2^32
  Slice,      \* SDL_TIMESLICE
  Resolution, \* TIMER_RESOLUTION
  Start,      \* start, the system's clock in SDL_StartTicks
  MaxLag,     \* the lag that stands for any that is as long or longer
  MaxLate,    \* how long the alarm and the functions it calls may take
  None        \* NULL

ASSUME SDLTimersAssumption ==
  /\ W \in Nat \ {0} /\ W % 2 = 0
  /\ Slice \in Nat \ {0} /\ Resolution \in Nat \ {0}
  /\ Slice <= Resolution /\ Resolution < W \div 2
  /\ Start \in 0 .. W - 1
  /\ MaxLag \in 0 .. (W \div 2) - 2 /\ MaxLate \in 1 .. MaxLag
  /\ Intervals \subseteq 1 .. W - 1 /\ Returns \subseteq 0 .. W - 1
  /\ None \notin Timers

VARIABLES
  started,      \* SDL_timer_started: there are an alarm and a mutex
  timers,       \* SDL_timers, following next
  heap,         \* timers that are allocated
  interval,     \* t->interval
  last_alarm,   \* t->last_alarm
  running,      \* SDL_timer_running
  list_changed,
  pass,         \* SDL_ThreadedTimerCheck's now, prev, t and next
  time,         \* timeGetTime()
  lag,          \* true time since each timer's last alarm was due
  passed        \* true time since the last pass began

list == <<timers, heap, running>>
alarms == <<interval, last_alarm, lag>>
vars == <<started, list, alarms, list_changed, pass, time, passed>>

NoPass == [at |-> "idle", now |-> 0, prev |-> None, t |-> None, next |-> None]

Passes == [at : {"idle", "call"}, now : 0 .. W - 1,
           prev : Timers \cup {None}, t : Timers \cup {None}, next : Timers \cup {None}]

Init ==
  /\ started = FALSE
  /\ timers = <<>> /\ heap = {} /\ running = 0
  /\ interval = [t \in Timers |-> 0]
  /\ last_alarm = [t \in Timers |-> 0]
  /\ lag = [t \in Timers |-> 0]
  /\ list_changed = FALSE
  /\ pass = NoPass
  /\ time = Start /\ passed = 0

-----------------------------------------------------------------------------
(* Arithmetic on Uint32, and its reading as int *)

Signed(x) == IF x % W < W \div 2 THEN x % W ELSE (x % W) - W

(* ROUND_RESOLUTION *)
Rounded(ms) == (((ms + Resolution - 1) % W) \div Resolution) * Resolution

(* The intervals that line 117 can read as an int, a timeslice taken off.  *)
IntervalsFit ==
  \A ms \in (Intervals \cup Returns) \ {0} :
    Rounded(ms) - Slice \in 0 .. (W \div 2) - 1

(* SDL_GetTicks takes TIME_WRAP_VALUE for W and loses a millisecond.       *)
GetTicksUnsigned == IF time < Start THEN Start - time ELSE time - Start

GetTicks == IF time < Start THEN (W - 1 - Start) + time ELSE time - Start

IsDueUnsigned(t, now, intervals) == (now - last_alarm[t]) % W > (intervals[t] - Slice) % W

IsDue(t, now, intervals) == Signed(now - last_alarm[t]) > Signed(intervals[t] - Slice)

(* free: nobody knows what the memory of the nodes holds afterwards.       *)
Forgotten(f, nodes) == [t \in Timers |-> IF t \in nodes THEN 0 ELSE f[t]]

-----------------------------------------------------------------------------
(* The list as its pointers give it: a node that is no longer linked keeps *)
(* nobody behind it.                                                       *)
Upto(t) == IF t = None THEN <<>> ELSE
  IF t \in ToSet(timers)
  THEN SubSeq(timers, 1, CHOOSE i \in DOMAIN timers : timers[i] = t) ELSE <<t>>

From(t) == IF t = None THEN <<>> ELSE
  IF t \in ToSet(timers)
  THEN SubSeq(timers, CHOOSE i \in DOMAIN timers : timers[i] = t, Len(timers)) ELSE <<t>>

(* The alarm counts from when it was due, or from now if it is later than  *)
(* a whole interval.  late is how long ago now was.                        *)
Alarm(t, now, late, intervals, freed) ==
  LET inTime == (now - last_alarm[t]) % W < intervals[t]
  IN  /\ last_alarm' = Forgotten([last_alarm EXCEPT ![t] =
           IF inTime THEN (@ + intervals[t]) % W ELSE now], freed)
      /\ lag' = Forgotten([lag EXCEPT ![t] =
           IF ~inTime THEN late ELSE IF @ = MaxLag THEN MaxLag ELSE @ - intervals[t]], freed)

(* The loop from rest on: to the next timer that is due, which is called   *)
(* on a copy with the mutex released, or to the end of the list.           *)
Scan(prev, rest, now, late, intervals, freed) ==
  LET due == {i \in DOMAIN rest : IsDue(rest[i], now, intervals)}
  IN  \/ /\ due = {}
         /\ pass' = NoPass
         /\ last_alarm' = Forgotten(last_alarm, freed)
         /\ lag' = Forgotten(lag, freed)
      \/ \E k \in due :
           /\ \A i \in due : k <= i
           /\ pass' = [at |-> "call", now |-> now, t |-> rest[k],
                       prev |-> IF k = 1 THEN prev ELSE rest[k - 1],
                       next |-> IF k = Len(rest) THEN None ELSE rest[k + 1]]
           /\ Alarm(rest[k], now, late, intervals, freed)

BeginPassKeepingFlag ==
  /\ started /\ pass.at = "idle" /\ passed > 0
  /\ passed' = 0
  /\ Scan(None, timers, GetTicks, 0, interval, {})
  /\ UNCHANGED <<started, list, interval, list_changed, time>>

BeginPass ==
  /\ started /\ pass.at = "idle" /\ passed > 0
  /\ list_changed' = FALSE
  /\ passed' = 0
  /\ Scan(None, timers, GetTicks, 0, interval, {})
  /\ UNCHANGED <<started, list, interval, time>>

-----------------------------------------------------------------------------
(* The timer's function has returned ms *)

Abort(ms) ==
  /\ list_changed
  /\ pass' = NoPass
  /\ UNCHANGED <<list, alarms>>

Keep(ms) ==
  /\ ~list_changed
  /\ ms # 0 \/ ms = interval[pass.t]
  /\ LET new == [interval EXCEPT ![pass.t] = IF ms = @ THEN @ ELSE Rounded(ms)]
     IN  /\ interval' = new
         /\ Scan(pass.t, From(pass.next), pass.now, passed, new, {})
  /\ UNCHANGED list

CancelAnyhow(ms) ==
  /\ ms = 0 /\ ms # interval[pass.t]
  /\ timers' = Upto(pass.prev) \o From(pass.next)
  /\ heap' = heap \ {pass.t}
  /\ running' = running - 1
  /\ Scan(pass.prev, From(pass.next), pass.now, passed, interval, {pass.t})
  /\ interval' = Forgotten(interval, {pass.t})

CancelAndBreak(ms) ==
  /\ ~list_changed
  /\ ms = 0 /\ ms # interval[pass.t]
  /\ timers' = Upto(pass.prev) \o From(pass.next)
  /\ heap' = heap \ {pass.t}
  /\ running' = running - 1
  /\ Scan(None, <<>>, pass.now, passed, interval, {pass.t})
  /\ interval' = Forgotten(interval, {pass.t})

Cancel(ms) ==
  /\ ~list_changed
  /\ ms = 0 /\ ms # interval[pass.t]
  /\ timers' = Upto(pass.prev) \o From(pass.next)
  /\ heap' = heap \ {pass.t}
  /\ running' = running - 1
  /\ Scan(pass.prev, From(pass.next), pass.now, passed, interval, {pass.t})
  /\ interval' = Forgotten(interval, {pass.t})

Return ==
  /\ pass.at = "call"
  /\ \E ms \in Returns \cup {interval[pass.t]} : Abort(ms) \/ Keep(ms) \/ Cancel(ms)
  /\ UNCHANGED <<started, list_changed, time, passed>>

-----------------------------------------------------------------------------
(* SDL_AddTimerInternal at the head of what is left of the list.           *)
AddInternal(ms, rest, nodes, count) ==
  \E t \in Timers \ nodes :
    /\ timers' = <<t>> \o rest
    /\ heap' = nodes \cup {t}
    /\ running' = count + 1
    /\ interval' = [Forgotten(interval, heap \ nodes) EXCEPT ![t] = Rounded(ms)]
    /\ last_alarm' = [Forgotten(last_alarm, heap \ nodes) EXCEPT ![t] = GetTicks]
    /\ lag' = [Forgotten(lag, heap \ nodes) EXCEPT ![t] = 0]
    /\ list_changed' = TRUE

AddTimer(ms) ==
  /\ started
  /\ AddInternal(ms, timers, heap, running)
  /\ UNCHANGED <<started, pass, time, passed>>

Forget(nodes) ==
  /\ interval' = Forgotten(interval, nodes)
  /\ last_alarm' = Forgotten(last_alarm, nodes)
  /\ lag' = Forgotten(lag, nodes)

RemoveTimer(t) ==
  /\ \E i \in DOMAIN timers : timers[i] = t /\ timers' = RemoveAt(timers, i)
  /\ heap' = heap \ {t}
  /\ running' = running - 1
  /\ list_changed' = TRUE
  /\ Forget({t})
  /\ UNCHANGED <<started, pass, time, passed>>

(* SDL_SetTimer(0, NULL) frees the whole list if the count says there is   *)
(* one.                                                                    *)
ClearTimers ==
  IF running = 0 THEN UNCHANGED <<list, alarms, list_changed>>
  ELSE /\ timers' = <<>>
       /\ heap' = heap \ ToSet(timers)
       /\ running' = 0
       /\ list_changed' = TRUE
       /\ Forget(ToSet(timers))

SetTimer(ms) ==
  /\ started
  /\ IF running = 0 THEN AddInternal(ms, timers, heap, 0)
     ELSE AddInternal(ms, <<>>, heap \ ToSet(timers), 0)
  /\ UNCHANGED <<started, pass, time, passed>>

StopTimer ==
  /\ started
  /\ ClearTimers
  /\ UNCHANGED <<started, pass, time, passed>>

(* Before SDL_TimerInit, SDL_SetTimer fails in SDL_SYS_StartTimer after it *)
(* has set the count.                                                      *)
SetTimerTooEarly(ms) ==
  /\ ~started
  /\ running' = IF ms = 0 THEN 0 ELSE 1
  /\ UNCHANGED <<started, timers, heap, alarms, list_changed, pass, time, passed>>

TimerInit ==
  /\ ~started
  /\ started' = TRUE
  /\ UNCHANGED <<list, alarms, list_changed, pass, time, passed>>

TimerQuit ==
  /\ started
  /\ started' = FALSE
  /\ ClearTimers
  /\ passed' = 0
  /\ UNCHANGED <<pass, time>>

-----------------------------------------------------------------------------
Calling == pass.at = "call" /\ ~list_changed

Tick ==
  /\ passed < MaxLate
  /\ time' = (time + 1) % W
  /\ lag' = [t \in Timers |->
       IF t \in ToSet(timers) /\ lag[t] < MaxLag THEN lag[t] + 1 ELSE lag[t]]
  /\ passed' = IF started THEN passed + 1 ELSE passed
  /\ UNCHANGED <<started, list, interval, last_alarm, list_changed, pass>>

ThreadedTimerCheck == BeginPass \/ Return

Client ==
  \/ \E ms \in Intervals : AddTimer(ms) \/ SetTimer(ms)
  \/ \E t \in Timers : RemoveTimer(t)
  \/ StopTimer
  \/ TimerQuit

Next ==
  \/ Client \/ TimerInit
  \/ \E ms \in Intervals \cup {0} : SetTimerTooEarly(ms)
  \/ ThreadedTimerCheck
  \/ Tick

Spec == Init /\ [][Next]_vars

(* The alarm is periodic, functions return, and time goes on.  The alarm   *)
(* comes at most once a millisecond (BeginPass), and in time (Tick).       *)
FairSpec == Spec /\ WF_vars(ThreadedTimerCheck) /\ WF_vars(Tick)

-----------------------------------------------------------------------------
(***************************************************************************)
(* Properties                                                              *)
(***************************************************************************)
TypeOK ==
  /\ started \in BOOLEAN
  /\ timers \in Seq(Timers) /\ heap \subseteq Timers /\ running \in Nat
  /\ interval \in [Timers -> 0 .. W - 1]
  /\ last_alarm \in [Timers -> 0 .. W - 1]
  /\ list_changed \in BOOLEAN
  /\ pass \in Passes
  /\ time \in 0 .. W - 1
  /\ lag \in [Timers -> Int] /\ passed \in Nat

(* The list holds the timers that are allocated, each once, whatever was   *)
(* added and removed while the pass waited for a function to return; what  *)
(* a pass remembers of the list is still so when it goes on; and the count *)
(* that SDL_SetTimer goes by does not miss any (131-152, 254-262).         *)
ListSound ==
  /\ ToSet(timers) = heap /\ IsInjective(timers)
  /\ Calling => Upto(pass.prev) \o <<pass.t>> \o From(pass.next) = timers
  /\ running >= Len(timers)

(* The difference of two 32-bit times, read as an int, is the time that    *)
(* has gone by, to the millisecond that SDL_GetTicks loses, though both    *)
(* wrap, the clock at a place of its own, and an alarm may be ahead (117). *)
AgeKnown ==
  \A t \in ToSet(timers) : lag[t] < MaxLag =>
    Signed(GetTicks - last_alarm[t]) - lag[t] \in -1 .. 1

(* "Set a callback to run after the specified number of milliseconds has   *)
(* elapsed" (SDL_timer.h 58): no timer is called before its interval is    *)
(* over, less one timeslice.                                               *)
NotEarly == [][
  ThreadedTimerCheck /\ pass'.at = "call" =>
    LET late == IF pass.at = "call" THEN passed ELSE 0
    IN  lag[pass'.t] = MaxLag \/ lag[pass'.t] - late >= interval'[pass'.t] - Slice]_vars

(* A pass that is not cut short leaves no timer that was due.              *)
Punctual == [][
  ThreadedTimerCheck /\ pass'.at = "idle" /\ ~list_changed' =>
    LET late == IF pass.at = "call" THEN passed ELSE 0
    IN  \A t \in ToSet(timers') :
          lag'[t] = MaxLag \/ lag'[t] - late <= interval'[t] - Slice + 1]_vars

(* Unless the list goes on being changed, which cuts every pass short,     *)
(* each timer on it is called.                                             *)
EachCalled ==
  <>[][~Client]_vars =>
    \A t \in Timers :
      t \in ToSet(timers) ~> t \notin ToSet(timers) \/ (pass.at = "call" /\ pass.t = t)

=============================================================================
