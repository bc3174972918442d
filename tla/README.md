# VSPlayer in TLA+

VSPlayer (`src/FFmpeg/tests/VSPlayer/VSPlayer.c`) is the media player of the VSmm
repository: one C file over FFmpeg (demuxing, decoding) and SDL 1.2 (threads,
events, timers, overlays, audio), both carried in the tree and built for Visual
C. Nearly all of the repository's million lines is vendored; what is its own,
and what is hard about it, is how five threads share a few queues. This project
models that and the parts of SDL it rests on, checks it with TLC on small instances and proves its safety
properties with TLAPS for every value of the constants.

## 1. The system

### Threads and what they share

| Thread | Runs | Shares |
|---|---|---|
| main | `SDL_WaitEvent` loop; `alloc_picture`, `video_refresh_timer`, `stream_seek` | picture ring, event queue, `seek_req`/`seek_pos`, timer list |
| reader | `decode_thread` | both packet queues, `seek_req`/`seek_pos`, the flush packet |
| video | `video_thread`, `queue_picture` | `videoq`, picture ring, event queue |
| SDL audio | `SDL_RunAudio`, `audio_callback`, `audio_decode_frame` | `audioq`, the clocks, the device's buffers |
| SDL timer | `SDL_ThreadedTimerCheck`, `sdl_refresh_timer_cb` | timer list, event queue |

```
            seek_req, seek_pos                 REFRESH, ALLOC events
   main ------------------------> reader        ^              |
    ^                              |  \         |              v
    | pictq (shown)        videoq  |   \ audioq timer <--- main (AddTimer)
    |                              v    v
   video <-------------------------     audio callback
```

### Components

| Component | State | Operations | What makes it right | What makes it hard |
|---|---|---|---|---|
| Condition variable `SDL_syscond.c` | waiting, signals, two semaphores, a lock | wait, wait with limit, signal, broadcast | no wakeup lost, kept or given to nobody; every handshake ends | release of the mutex and sleep are not atomic; a limit may expire while a signal comes |
| Threads `SDL_thread.c`, `SDL_systhread.c`, `SDL_syssem.c` | list of threads, arguments and semaphore of a creation, error buffers | create, run, wait, kill, find the error buffer | nothing freed before its last use; a thread finds its own buffer | the new thread uses memory of the one that made it; ids of the system are used again |
| Timers `SDL_timer.c`, `SDL_systimer.c` | list, interval, last alarm, count | add, remove, set, init, quit, the pass over the list | none early, none forgotten, list and pass agree | 32-bit clock that wraps at its own place; the list changes while a timer's function runs |
| Event queue `SDL_events.c`, `SDL_expose.c` | ring of 128, ring of messages, filters | add, cut, peep, pump, push, ignore, filter, start, stop | FIFO, messages outlive their events, nothing ignored stays | cutting from the middle, two rings that wrap, loops that pump while they empty |
| Picture ring `pictq` | slots, two indexes, a count | `queue_picture`, `alloc_picture`, `video_refresh_timer` | FIFO, no slot used by two threads, overlay fits the picture | indexes and slots are used without the mutex; a request is answered by another thread through the event queue |
| Refresh chain | timers, refresh events | `schedule_refresh`, callback, `SDL_ThreadedTimerCheck` | always one refresh on its way | each refresh schedules the next; the callback runs without the list's mutex |
| Packet queues | list, byte count, mutex and condition | put, get, flush | counts its bytes, bounded, wakes its consumer | sizes are read without the mutex |
| Reader and seeking | `seek_req`, `seek_pos`, position in the file | `decode_thread`, `stream_seek` | the right position, no stale packet, decoders flushed | request and answer are plain fields of two threads; the queues are flushed while they are consumed |
| Flush packet | one static packet, its data's address | dup, put, compare, free | known to its consumers, data owned once | one block shared by several queue entries |
| Audio `VSPlayer.c`, `SDL_audio.c`, `SDL_dibaudio.c` | decoded frame and index, device buffers, semaphore, mixer lock | open, pause, lock, close, mix, callback, play | every sample once and in order, no buffer written while it plays, closing leaves nothing | frames and buffers differ in length; the device takes buffers behind the thread's back; flags are read without the lock |
| Semaphores and mutexes on Win32 | count, owner | wait, post, lock | as their users need them | the count is kept twice, and the poster may lose the semaphore |
| Clock `libvsmm/time.c` | epoch offset, first-call flag | `gettimeofday` | one epoch | first call not synchronised |
| Startup and shutdown | streams found, threads | `main`, `stream_component_open` | a queue has a consumer | fields of streams that are not there |
| Vendored: FFmpeg, ffplay, codecs, containers, live555, the rest of SDL | | | | out of scope |

## 2. The modules

| Module | Models | Instances | Proofs |
|---|---|---|---|
| `CondVar` | what `SDL_mutex.h` promises of a condition variable | | |
| `SDLCond` | `SDL_syscond.c` over Win32 mutexes and semaphores | `MCSDLCond` | `SDLCond_proofs` |
| `SDLCondAudience` | `SDLCond` and who waited when a signal was sent | `MCSDLCondAudience` | `SDLCond_proofs` |
| `SDLThread` | creation, list, end and error buffers of threads | `MCSDLThread` | `SDLThread_proofs` |
| `SDLTimers` | the list of timers, the pass over it and the clock | `MCSDLTimers` | `SDLTimers_proofs` |
| `EventQueue` | a bounded FIFO from which events of some kinds are taken | | |
| `SDLEvents` | the ring of events, the ring of messages and every call on them | `MCSDLEvents` | `SDLEvents_proofs` |
| `FrameQueue` | a bounded FIFO of pictures | | |
| `PictureQueue` | picture ring, overlay handshake, refresh chain, with the event queue and timers as far as they take part | `MCPictureQueue` | `PictureQueue_proofs` |
| `Demux` | packet queues, reader, seeking, the consumers' side | `MCDemux` | `Demux_proofs` |
| `FlushMarker` | who owns the data of the flush packet | `MCFlushMarker` | `FlushMarker_proofs` |
| `AudioStream` | samples heard in order and once | | |
| `AudioOutput` | `audio_callback`, SDL's mixing thread and the waveOut device | `MCAudioOutput` | `AudioOutput_proofs` |

`CondVar` is what the modules above it assume: waiting on a condition releases
the mutex and sleeps in one step, and a signal wakes one sleeper or is nothing.
`SDLCond` is shown to implement it, by TLC and by proof, so `PictureQueue` and
`Demux` may model a section under a mutex as one step, as none of theirs blocks
inside one. Each queue's condition has a single waiter, so a signal there is a
change of that waiter's place.

`EventQueue` stands to `SDLEvents`, `FrameQueue` to `PictureQueue` and
`AudioStream` to `AudioOutput` as `CondVar` to `SDLCond`: what the component
promises, without its indexes, slots or buffers. `PictureQueue` uses of the event
queue what `EventQueue` promises of one reader: events come out in order, and one
that finds the queue full is dropped.

**SDLCond.** `pc[t]` is the place of a thread in `SDL_CondWaitTimeout` (157-215),
`SDL_CondSignal` (80-101) or `SDL_CondBroadcast` (104-135); `acks[t]` how many
`wait_done` posts a signaller still expects. Each access to a semaphore, and each
section under `cond->lock`, is a step. `Timed` is the set of threads that wait
with a limit; theirs may expire at any time. A mutex is its owner, a semaphore
its count. A refinement mapping takes a thread that has been counted to a
sleeper of `CondVar`, and a posted token to a wakeup.

**SDLThread.** `mpc[m]` is the place of a thread that calls `SDL_CreateThread`,
`SDL_WaitThread` or `SDL_KillThread`, `mine[m]` the structure it works on, `pc[s]`
the place of the thread that was made with structure `s`. `SDL_SemPost` is two
steps: it counts in the semaphore's memory and then releases it (`PostCount`,
`PostRelease`). The release lets the creator go on, which destroys the semaphore
and frees the arguments, so nothing may be touched after it. Structures
and ids are small sets whose members are used again after they were freed. An
addition to the list may fail for want of memory, and so may the start of a
thread. A section under `thread_lock` is one step; the test of `SDL_Threads`
before it is another.

**SDLTimers.** `timers` is the list in the order of its links, `pass` what
`SDL_ThreadedTimerCheck` remembers while it calls a function with the mutex
released: `now`, `prev`, `t` and `next`. `From` and `Upto` follow the pointers as
they are, so a list that changed meanwhile is cut where the code would cut it.
`Return` is what follows the call, by one of three ways (`Abort`, `Keep`,
`Cancel`), and the loop on to the next timer that is due (`Scan`). All times are
numbers modulo `W`; `lag` and `passed` are true times beside them. The clock of
the system starts at `Start` and `GetTicks` is its difference to that, with the
millisecond it loses at the wrap. Calls of the list are made by other threads,
or by the function itself, at any time the mutex is free.

**SDLEvents.** The loop of `SDL_PeepEvents` is modelled event by event (`PeepTake`,
`PeepLook`, `PeepSkip`) with the queue's mutex held; `CutEvent` is its three cases.
System messages are in a ring of their own, and an event holds the index of its
message. `SDL_EventState` and `SDL_SetEventFilter` set their tables and then
empty the queue by polling, which itself pumps (`Discard`). `SDL_PrivateExpose`
is two critical sections. Other threads push events whenever the mutex is free.

**PictureQueue.** `vpc`, `mpc` and `tpc` are the places of the video, main and
timer threads. Every access to `pictq`, `pictq_size` or an index outside of the
mutex is a step of its own, and so are the use and the replacement of an
overlay, whose content is lost while it is converted into. Pictures are told
apart by identity, dimensions are a small set, and a header may change them
before any picture. `SDL_CreateYUVOverlay` may fail. The event queue has a
capacity, also takes the user's events, and drops what does not fit. `SDL_AddTimer`
may fail, and `schedule_refresh` does not look (867). `lost` remembers which of the
player's own events never come, dropped or without a timer. `armed` counts the
timers in SDL's list; `changed` is `list_changed`. The delay before a refresh is
left out: a timer may be due at any time.

**Demux.** A packet is its stream, its size and its epoch, the number of seeks
that had moved the file when it was read. `dpc` is the place of `decode_thread`,
`upc` of `stream_seek` (whose two stores are two steps), `cpc` of the two
consumers. `decoder` is the epoch of what a decoder holds, `Nothing` after
`avcodec_flush_buffers`. `av_seek_frame` may fail, `av_read_frame` may find the
end of the file or fail for good, and every `av_malloc` of a queue may fail, those
for the flush packet included: it may not be put at all, or be put without a copy
of its data, since the result of `av_dup_packet` does not keep it back (298). `flush_pkt`
is the marker with the address its data has, and a consumer knows it by that
address; once a copy is made, an entry that was put without one is taken for an
ordinary packet. `lostFlush` remembers the queues of both cases. Every packet's own
data is one address here, different from the marker's: that the allocator may give
a packet the block of a marker that was freed is `FlushMarker`'s matter. The order of the two stores of
`stream_seek` is the source's: the fields are plain, neither volatile nor under a
mutex, and the model assumes a build that keeps the order of the stores and
reads the fields anew on each pass of the reader's loop, which calls into FFmpeg
in between. Another build could break `SeekExact`.

**FlushMarker.** The same threads, with a packet reduced to the block that holds
its data. `Dup` is `av_dup_packet` and `Destruct` `av_destruct_packet`
(`libavcodec/avpacket.c`); the allocator gives any free block. Freeing a block
that is not allocated has no defined meaning, so the model ends there.

**AudioOutput.** `apc` is the place of `SDL_RunAudio`, `mpc` of the thread that
opens, pauses, locks and closes. A sample is its number in the order of decoding,
0 is silence. `queue` is what the device plays, `messages` the completions that
`FillSound` has not yet got, `sem` the count of `audio_sem`. `Decode` is
`audio_decode_frame` and `synchronize_audio`, `Copy` one pass of the loop of
`audio_callback`. What `synchronize_audio` decides depends on floating-point clocks;
the model lets it keep any length between `MinSize` and `MaxSize` and computes
these as the code does. `unread` counts the frames of the file that `decode_thread`
has still to put into `audioq`, `ready` those that are there; a file has at most
`MaxFrames`. When none is ready the decoder sleeps inside the callback, with
`mixer_lock` held (`SleepForPacket`, 501), until a packet is put (`PutPacket`). It
never fails: it would only once `quit` is set, so the branch that fills the
buffer with 1024 bytes of silence (534-538) is never taken.

### Left out on purpose

- `quit`. Its only assignment (line 1074) is followed by `exit(0)`, so no test of
  it is ever true while the player runs. That also means that `decode_thread`,
  after a read error, waits for ever at line 637: it would push the event that
  makes main set the flag only once the flag is set. The models end where it
  starts to wait, which is why `Demux` may deadlock (`CHECK_DEADLOCK FALSE`).
- A file without a video stream in `PictureQueue`; in `Demux` a consumer is at
  work only on the queue of an opened stream. Without one the video thread runs
  all the same and dereferences a null stream at its first packet (768, 778).
- `SDLCond` and `FlushMarker` also stop on their own: threads that all wait, a
  freed block. Their configurations say `CHECK_DEADLOCK FALSE` too.
- Creation and destruction of conditions, and their NULL arguments.
- In `SDLThread`, a thread killed while it holds `thread_lock`, and two first
  creations at once, which would make two locks.
- In `SDLTimers`, the systems without a timer thread, `SDL_Delay`, and a
  `SDL_TimerInit` that fails.
- In `SDLEvents`, the event thread, which Win32 has not (`CANT_THREAD_EVENTS`); the
  kinds of events that only post (SYSWM and EXPOSE, which do more, stand for all
  of the window system's); keyboard, mouse and joystick state.
- In `AudioOutput`, conversion of formats (the player asks for no other than its
  own), the fake stream, a `waveOutWrite` that fails, and DirectSound: see section 6.
  `DIB_CloseAudio` closes `audio_sem` before the device (194-203), and a message that
  comes in between counts in a handle that is closed; both are one step here.
  The mixing thread may sleep for ever at the end of the file, and whoever locks or
  closes the device then waits for it: hence `CHECK_DEADLOCK FALSE` there.

## 3. The runs

| Run | Instance | Shows |
|---|---|---|
| `cond` | three threads, all with a limit | counters, tokens and places agree (`SignalsAccounted`); a wakeup reaches a thread that waited when it was sent (`RestartsAWaiter`); `SDLCond` implements `CondVar`; signals and woken waits return unless a limited wait has to eat a signal |
| `cond_limit` | one thread with a limit | **violated**: one limited wait can block the condition for ever |
| `threads` | 2 makers, 2 structures, 2 ids, a list that must grow each time | nothing is freed before its last use, the list is sound, a thread finds its own error buffer, creation returns |
| `timers` | 2 timers of one interval, functions that return 0, 1 or the interval, a clock of 12 milliseconds that wraps at 4, passes up to 2 milliseconds late | list and pass agree, ages are right across the wrap, no timer early, none left behind by a pass, each called unless the list never rests |
| `events` | a ring of 4, 2 messages, bursts of 2 | the ring implements `EventQueue`; peeping is complete; a message lasts; nothing ignored is queued; at most one expose |
| `picture` | 2 slots, 2 pictures, 2 dimensions, 2 events, 2 refreshes | `SlotExclusion`, `OverlayFits`, `RefreshAlive`; the ring implements `FrameQueue`; a sleeping video thread goes on and every picture is shown, unless an event is dropped or a timer not made |
| `picture_oneshot` | the same with one dimension | **violated**: a timer whose callback returned 0 fires again |
| `demux` | audio, video and data stream, sizes 1 and 2, limit 1, 2 positions, 1 seek that moves the file (any number that fail), a marker that may not be put or not be copied | bytes counted and bounded, no lost wakeup, seeks exact, decoders flushed; seeks served and the reader goes on |
| `demux_audio_only` | one audio stream | **violated**: its packets go to the video queue |
| `marker_once` | 1 seek, 4 blocks, queues of 2 | the marker is recognised, blocks freed and read are allocated |
| `marker_twice` | 2 seeks | **violated**: the marker's block is freed twice |
| `audio` | 2 buffers of 2 samples, a file of 0 to 3 frames of 1 or 3, opened and closed any number of times | no buffer written while it plays, nothing left after closing, samples heard in order and once (`AudioStream`), closing returns and sound is heard, unless the file has ended and the callback sleeps |

The type invariants are not among the runs' properties: `TypeOK` of each module
that models code is proved.

### The bounds, and why they are enough

- Three threads on a condition are a signaller, the waiter it is meant for and
  one to steal the wakeup; a broadcast still wakes two.
- Two slots is the code's own `VIDEO_PICTURE_QUEUE_SIZE`. Two pictures tell
  order and repetition apart; two dimensions make the overlay change. A queue of
  two or three events fills up, which the real 127 do only after a long stall.
  `MaxRefresh` bounds the refreshes that the race in `SDL_ThreadedTimerCheck` can
  start; with two it happens once, and the second chain runs beside the first.
- Two makers with two structures and two ids let one make a thread while the other
  closes one, and let a structure and an id be given again at once; with a chunk
  of one the list has to grow, and may fail to, for each thread.
- Two timers are one that is called and one that is before or behind it; one that
  is removed and added again comes back in another place. Twelve milliseconds are
  several intervals of three, so that the clock wraps, and reaches its start, with
  alarms pending and ahead; `MaxLag`
  is the greatest age that a signed difference of such times can tell. The proofs are for every list, clock
  and lateness.
- A ring of four holds three events, so one can be cut before, between and behind
  others, across the end; messages wrap at another place than events.
- Two buffers are the code's own `NUM_BUFFERS`. Frames of 1 and 3 samples against
  buffers of 2 are shorter and longer, and leave a rest; three frames may be more
  than both buffers hold, so that the thread waits for the device, and fewer than one,
  so that it waits for a packet. `MaxFrames` bounds the file in the run only; the
  proofs are for any length.
- Packets of size 1 and 2 against a limit of 1 overshoot the limit and stop the
  reader. The data stream exercises the third branch of the routing. One seek
  that moves the file has all of the races between flush, marker and consumers,
  and failing ones, which do not count, ask again; the proofs are for any number.
- Four blocks let a freed block be used again by a packet of either queue while
  the marker is still under way; the second seek is what it takes to free twice.

### Fairness

Specifications with liveness assume that threads run: weak fairness of each
thread's steps as a whole (`Video`, `Handle`, `Timer`, `Reader`, `Consumer(q)`),
and of `stream_seek` once begun. SDL's loop polls, its timer ticks, and Windows
schedules every ready thread. Nobody has to press a key. `SDLCond` assumes strong
fairness of a thread that is inside of an operation, since a Win32 mutex or
semaphore that is free again and again is eventually granted; nobody has to
begin one, or to let an optional limit expire. What the queues need of each other, that the video thread eventually takes the
next packet, is assumed in `Demux` (fairness of `Consumer`) and shown in
`PictureQueue` (`VideoGoesOn`), as long as no event was dropped and no timer failed.

`SDLThread` has weak fairness of each maker inside of a call and of each made
thread: what a thread's own function does between start and end is taken to end.
`SDLTimers` has weak fairness of the pass and of time: the multimedia timer is
periodic, functions return, and `Tick` waits for a pass that is `MaxLate` behind.
`EachCalled` says by itself what the code needs besides: that the list is not
changed for ever. `AudioOutput` has weak fairness of the device, which plays what it
is given, of the mixing thread, of `decode_thread`, which reads the file to its end
(`PutPacket`), and of calls that were begun; the thread's lock is
strongly fair, since the application takes and gives it back any number of times.

### What the violations say

1. **`cond_limit`** (`SDL_syscond.c:194`). A wait that timed out and finds a signal
   out for it waits for the token with `cond->lock` held. If another waiter took
   the token, it needs that lock to go on, and so does everyone else. The comment
   at line 137 promises a wait of "at most 'ms' milliseconds". VSPlayer itself
   never waits with a limit.
2. **`picture_oneshot`** (`SDL_timer.c:133`). The main thread may handle a refresh
   event, and add the next timer, before the callback that pushed it has
   returned; the check then breaks off before it removes the old timer. Two
   refresh chains run from then on, and each picture is asked for twice as often.
3. **`demux_audio_only`** (`VSPlayer.c:623`). `videoStream` is 0 when there is no
   video, which is the index of the audio stream.
4. **`marker_twice`** (`VSPlayer.c:298`). The test `pkt != &flush_pkt` comes after
   the call it should guard, so the marker's data becomes an owned heap block.

Three more facts are written into the properties instead.

1. When the event queue overflows the refresh chain or the overlay handshake does
   stop, and when `SDL_AddTimer` finds no memory the refresh chain does (`lost`).
2. When the marker cannot be put for want of memory, or is put without a copy of its
   data, whose address then changes at the next put, a decoder is not flushed
   (`lostFlush`).
3. At the end of the file the audio callback sleeps for a packet that never comes,
   with the mixer's lock held (`Starved`). The samples already in the buffer are not
   played, and a call of `SDL_CloseAudio` or `SDL_LockAudio` waits for ever.
   VSPlayer itself calls neither: `exit(0)` ends it.

Two divergences were met without a run of their own, because they are plain from
one definition each. `VSPlayer.c:228` computes the smallest and largest length of a
correction with `90 / 100` and `110 / 100`, which integer division makes 0 and 1: the
correction that line 49 means to be ten per cent may drop all of a frame and never
adds to it (`MinSize`, `MaxSize`). And `SDL_timer.c:117` compares an interval as an
`int`, so that one of 2^31 + 10 milliseconds or more is always over. `IntervalsFit` excludes
such intervals: the theorems about ages assume it, and `timers` checks it of its instance.

### Mutants

Every property of a passing run is paired in `PROJECT.json` with a slip that
makes it fail: a definition such as `WaitForSpaceLate` or `CancelAnyhow`, which no
specification uses, beside the one it stands in for.

## 4. The proofs

Every safety property and every refinement that a run checks is proved. An
invariant is proved from an inductive one, `IInv`: `Init => IInv`,
`IInv /\ [Next]_vars => IInv'`, and the property from `IInv`. A property of steps
and a refinement are proved step by step under `IInv`, with one lemma per action.
Temporal steps are left to PTL. The assumptions are those on the constants that
the modules state (`SDLCondAssumption` and the like): finitely many threads, a ring
and queues of at least one place, sizes in `Nat`, distinguished values distinct.
TLC evaluates them on each run.

| Theorem | For every |
|---|---|
| `SDLCond_proofs!TypeCorrect`, `Accounted`, `Refinement`, `AudienceRestarted` | finite set of threads, any of them with a limit |
| `PictureQueue_proofs!TypeCorrect`, `RingCorrect`, `SlotsExclusive`, `OverlaysFit`, `AllocIsRequested`, `RefreshStaysAlive`, `Refinement` | length of the ring, capacity of the event queue, pictures, dimensions, bound on refreshes |
| `Demux_proofs!TypeCorrect`, `BytesCounted`, `QueuesBounded`, `NoLostWakeup`, `SeeksExact`, `FreshQueues`, `DecodersFlushed` | file, sizes, limit, positions and number of seeks |
| `Demux_proofs!PacketsRouted` | file with a stream of each kind |
| `SDLThread_proofs!TypeCorrect`, `MemoryStaysAlive`, `ListStaysSound`, `ErrBufIsOwn` | sets of makers, structures and ids, growth of the list |
| `SDLTimers_proofs!TypeCorrect`, `ListStaysSound` | set of timers, intervals, returned values, resolution and width of the clock |
| `SDLTimers_proofs!AgesAreKnown`, `CalledInTime`, `PassesArePunctual` | the same, and lateness of the passes, with intervals that fit in an `int` (`IntervalsFit`) |
| `SDLEvents_proofs!InductiveInvariant`, `TypeCorrect`, `NothingIgnoredStays`, `OneExpose`, `PeepFindsAll`, `PolledMessageStays`, `Refinement` | length of the ring, set of messages, number asked for, bound on events |
| `FlushMarker_proofs!TypeCorrect`, `MarkersKnown` | set of blocks, number of seeks, length of the queues |
| `FlushMarker_proofs!OneSeekFreesAllocated`, `OneSeekReadsAllocated` | set of blocks and length of the queues, with at most one seek |
| `AudioOutput_proofs!TypeCorrect`, `BuffersFree`, `NothingIsLeft`, `LockKeepsOut`, `Refinement` | number and length of buffers, sizes of frames, amount of sound |

**SDLCond.** The counters say nothing of who is where, so `IInv` adds that
`cond->waiting` is the number of threads counted in, and that the tokens and
woken threads together are the signals out. The cardinalities are followed one thread at a time with the
finite-set theorems. The refinement maps each step to one of `CondVar`'s or to
none. `RestartsAWaiter` speaks of a woken thread and needs a signaller to which it
answers. A woken thread is a signal out, and for every signal out somebody still
expects an acknowledgement: `Owed`, the acknowledgements expected, taken as a set of
pairs so that it can be counted, is as large as the `wait_done` tokens and the
signals together (`OwedCounted`). That this signaller meant the thread follows from
its holding the mutex, which keeps others from beginning to wait: whoever waits
then belongs to its audience (`AudienceStays`).

**PictureQueue.** `RingShape` and `SlotExclusion` need `Room`: the space the
video thread found under the mutex is still there later, because only it fills
the ring, and the main thread's picture is still there because only it empties
it. `OverlayFits` and `AllocRequested` need `AskedOnce`: at most one request for
an overlay is in the queue or being served, and only while the video thread
waits for it. That is why the write index the main thread reads without the
mutex does not move under it. For the refinement the ring is read from the read
index on, as the sequence of the pictures that wait (`Waiting`, with `Place` for
the slot of the k-th). A picture enters when the video thread raises the count and leaves when the
main thread has shown it, two steps before the count says so (`First`, `Unshown`).
`Stored` says that the video thread's picture is in its slot before index and
count are moved; no other write to a slot touches one that waits.

**Demux.** `RoomKept` carries the room the reader found to the put; `Handed`
carries the position from `stream_seek` to `decode_thread`, with `Requests` for
the rule that makes the plain fields safe: one side writes only while `seek_req`
is 0, the other reads and clears only while it is 1. For `DecoderFlushed` the
invariant follows each queue on its own (`EpochOf`): until it is flushed it is
one seek behind; `Settled` says that a decoder is up to date, or a marker is
ahead of its next packet, or the marker was lost, or is being put. The queue is
empty then (`Emptied`), so the marker comes first. `PacketsRouted` uses that the
natural numbers are well-founded to know that a last stream of a kind exists, and
`BytesAccounted` uses it once more: the sums of a queue are a function defined by
recursion, and that there is one with these values at every number is shown for the
set of the numbers up to which there is one. It leaves two facts: a packet put at
the end adds its size (`TotalAppend`), one taken from the front takes it away
(`TotalTail`).

**SDLThread.** The invariant gives every structure one owner at a time: `Exclusive`
and `Holding` say what each maker works on and that it is allocated, `Answering` that
until a new thread has posted the one that made it waits, which is why the
arguments live, and `NotRunning` that a maker frees only structures that no thread
runs on. `ErrBufIsOwn` needs `IdsOwned`: an id is the system's until the
handle is closed, and a structure keeps an id after that only while its maker has
yet to take it out of the list. That interval is the exception the property names.

**SDLTimers.** `PassPlaced` says that a pass under which the list has not changed is
at a place of the list and its other two pointers are the neighbours there.
Whoever changes the list sets `list_changed`, so only the pass itself must keep
it: going on from the next timer (`Continues`) and taking the called one out
(`Shorter`, `Taken`). The lemmas on sequences follow indexes, as those need no
induction. `Listed` has in addition that there are no timers before
`SDL_TimerInit`, without which a count set too early could miss some.

Ages need more, `Timely`. `Ages` says of each timer on the list that the clock's
distance to its last alarm is its true age modulo `W`, up to the millisecond that
`SDL_GetTicks` loses where the clock wraps. It could not be said of `GetTicks` itself,
which loses that millisecond and gets it back, so it is said of `Ticks`, which does not.
`Passing` carries the same for `now`, which the pass read before it called
functions that took time: how long ago that was, and that the timers the pass has
left behind were not due then. What a signed difference means is in three lemmas
(`AgeRead`, `CalledAge`, `NotCalledAge`); all of them need that an age and an interval stay
below half the width, for the age by `MaxLag` and `MaxLate`, for the interval by
`IntervalsFit`.

**SDLEvents.** The three cases of `CutEvent` are brought to one lemma (`Cut`): each
event that stays is the one that was in the next place, or in its own, as the place
lies behind the cut or not (`Moved`). Distances are counted from the head. `Counted` gives `PeepComplete`: what
the loop has passed over and not taken, while it is cutting out, matches nothing
(`Behind` is empty); it goes on from the place it cut, so that a place which moves
into it must not have been passed. `NothingIgnoredStays` rests on `Polling`: a poll takes the
first event if there is one, so the loop that discards ends with an empty ring. For
`HeldIntact` and the refinement the messages must outlive their events. `Linked` says
that every slot written after that of a queued event belongs to an event queued
behind it, and `Followed` the same of the one that was polled last; since fewer events are queued
than there are slots, the slot that is written next is none of theirs (`NotAllSent`,
`NextIsFree`). The refinement reads the ring from head to tail as a sequence (`Queue`):
taking a place out is `RemoveAt` (`Removed`), adding is `Append`.

**FlushMarker.** `Marked` says where the address of a marker is known: in a queue
or in a hand it is the one `flush_pkt.data` has since it was first put, and that is
no literal. It holds for any number of seeks. For the other two `OInv` names the
packets each consumer will still free (`Owns`, with place 0 for its hand): the data
of each is allocated (`OwnedLive`), and no two have the same (`OwnedOnce`). A
put adds one owner of one new block (`OneMore`), everything else leaves owners out
(`Fewer`). The marker's block has one owner because the video thread frees none
(`VideoKnown`), and only as long as the audio queue has had the marker once: `Early` is
where one seek comes in, and where `marker_twice` gets through.

**AudioOutput.** `Counted` is the balance of the semaphore: its count, the messages
under way and the buffers with the device make up all buffers but the one the
thread is about to fill. `Around` says which buffers the device has: those before
`next_buffer`, around the end of the ring. Together they leave no room for
`next_buffer` among them. `Alive` follows the thread through opening and closing.

The refinement reads what is on its way to the ear as one sequence: the buffers
the device has (`Sounding`), the filled part of the next one (`Begun`) and what is left
of the frame (`Rest`), with silence left out. Each action moves one boundary: `Copy` the
one between frame and buffer, `PlayAudio` the one between buffer and device, and
`Heard` is the step of `AudioStream` that results. `Filling` says when the buffer is
silent and when it is full, or a buffer might be given away half filled. `Samples` and `Joined`
are recursive functions; that they exist is shown for any function that goes
through a sequence (`Accumulates`, `Accumulated`), and what they do to a concatenation by
`ByAppending`, which is induction on the length, stated for a set of sequences.

### Only model-checked

Liveness, since TLAPS does not reason about fairness and ENABLED: `SignalReturns`,
`WokenReturns`, `CreateReturns`, `EachCalled`, `VideoGoesOn`, `QueuedIsShown`, `SeekServed`,
`ReaderGoesOn`, `CloseReturns`, `SoundIsHeard`.

The library's induction theorems take an operator and cannot be used either. Where
a proof needs induction on a list it is stated for a set of numbers or of
sequences instead, and follows from the naturals being well-founded.

## 5. The plan

Done: the condition variable, threads, timers, the event queue, the video output,
the input side, the flush packet, the audio output; each with its proofs. Left:
theorems about what several properties give together, such as the order of
pictures and the life of the refresh chain when no event is dropped and every timer is made.

## 6. Not modelled

The repository has close to a million lines, of which FFmpeg, the codec libraries,
the containers, live555 and most of SDL are upstream code that its own program
compiles in or does not use at all. They are sequential, consist mostly of
arithmetic on data and of tables, and are outside of what a model of states and
steps says anything about; a map of the models to lines therefore stays a small
share of the whole, whatever is added.

Of what VSPlayer runs, these are left out, each for a reason:

- The clocks (`get_audio_clock`, `get_video_clock`, the delay of a refresh) are
  floating-point sums of wall-clock times. What they decide is left open: any delay,
  any correction.
- `libvsmm`'s `gettimeofday` feeds only those clocks.
- SDL's DirectSound driver, which it tries before waveOut, has neither events nor
  counts: it fills the buffer behind the one that plays and polls. That no buffer is
  written while it plays rests there on the speed of the device, and cannot be
  shown.
- SDL's video drivers, drawing, the joystick, CD-ROM and file streams.
- A composition of `Demux` and `PictureQueue` through `videoq`, whose product of
  states is beyond TLC. Each is checked against what the other promises: `Demux`
  assumes a consumer that goes on, which `PictureQueue` shows, and `PictureQueue` a
  decoder that may give a picture at any time or never again.
- Startup, which is sequential, and shutdown, which is `exit(0)`.
