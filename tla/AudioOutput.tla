----------------------------- MODULE AudioOutput -----------------------------
(***************************************************************************)
(* The player's sound: audio_callback, which cuts decoded audio into the   *)
(* device's buffers (VSPlayer.c 192-266, 460-554), SDL's mixing thread and *)
(* the calls that open, pause, lock and close (SDL/src/audio/SDL_audio.c), *)
(* and the waveOut device with its two buffers (windib/SDL_dibaudio.c).    *)
(*                                                                         *)
(* Sound is a sequence of samples, numbered as they are decoded; 0 is      *)
(* silence.  A file has at most MaxFrames frames of it, and after the last *)
(* the decoder sleeps: it returns -1 (534-538) only when quit is set, and  *)
(* the only assignment to quit (1074) is followed by exit(0).  The clocks  *)
(* that decide how much synchronize_audio keeps are floating-point         *)
(* numbers, and may be anything.  What a seek does to the packets is in    *)
(* Demux.  Definitions that no other uses are slips the properties tell    *)
(* apart.                                                                  *)
(***************************************************************************)
EXTENDS Integers, Sequences, FiniteSets, SequencesExt

CONSTANTS
  NumBuffers, \* NUM_BUFFERS
  Chunk,      \* samples in a buffer, audio->spec.size
  FrameSizes, \* samples that one call of the decoder gives
  MaxFrames   \* bound on the frames of the file

ASSUME AudioOutputAssumption ==
  /\ NumBuffers \in Nat \ {0} /\ Chunk \in Nat \ {0}
  /\ FrameSizes \subseteq Nat \ {0} /\ MaxFrames \in Nat

VARIABLES
  apc,       \* where SDL_RunAudio is
  mpc,       \* where the thread that opens and closes is
  thread,    \* audio->thread is not NULL
  enabled, paused,
  lock,      \* who holds mixer_lock
  data,      \* what each buffer holds
  next_buffer,
  filled,    \* how much of the stream audio_callback has copied
  queue,     \* buffers the device is playing, the first one first
  messages,  \* WOM_DONE messages that FillSound has not got yet
  sem,       \* the count of audio_sem
  audio_buf, audio_buf_index,
  decoded,   \* samples decoded so far
  ready,     \* frames in the packets that audioq and the decoder have
  unread     \* frames that decode_thread has still to put into audioq

flags == <<thread, enabled, paused>>
device == <<queue, messages, sem>>
player == <<audio_buf, audio_buf_index, decoded, ready, unread>>
vars == <<apc, mpc, flags, lock, data, next_buffer, filled, device, player>>

Buffers == 0 .. NumBuffers - 1
Silence(n) == [i \in 1 .. n |-> 0]

AudioPlaces == {"none", "start", "loop", "test", "lock", "callback", "sleep", "unlock",
                "play", "wait", "drain", "ended"}
MainPlaces == {"closed", "create", "created", "open", "locked", "quit", "join",
               "destroy", "close"}

Init ==
  /\ apc = "none" /\ mpc = "closed"
  /\ thread = FALSE /\ enabled = FALSE /\ paused = FALSE
  /\ lock = "none"
  /\ data = [b \in Buffers |-> Silence(Chunk)]
  /\ next_buffer = 0 /\ filled = 0
  /\ queue = <<>> /\ messages = 0 /\ sem = 0
  /\ audio_buf = <<>> /\ audio_buf_index = 0 /\ decoded = 0
  /\ ready = 0 /\ unread \in 0 .. MaxFrames

A(from, to) == apc = from /\ apc' = to
M(from, to) == mpc = from /\ mpc' = to

-----------------------------------------------------------------------------
(* SDL_OpenAudio, over DIB_OpenAudio: one buffer less than there are may   *)
(* be filled while another is played.                                      *)
OpenAudioAllFree ==
  /\ M("closed", "create")
  /\ enabled' = TRUE /\ paused' = TRUE
  /\ data' = [b \in Buffers |-> Silence(Chunk)]
  /\ next_buffer' = 0 /\ filled' = 0 /\ sem' = NumBuffers
  /\ UNCHANGED <<apc, thread, lock, queue, messages, player>>

OpenAudio ==
  /\ M("closed", "create")
  /\ enabled' = TRUE /\ paused' = TRUE
  /\ data' = [b \in Buffers |-> Silence(Chunk)]
  /\ next_buffer' = 0 /\ filled' = 0 /\ sem' = NumBuffers - 1
  /\ UNCHANGED <<apc, thread, lock, queue, messages, player>>

CreateThread ==
  /\ M("create", "created")
  /\ apc' = "start"
  /\ UNCHANGED <<flags, lock, data, next_buffer, filled, device, player>>

(* No fake stream, or no thread: SDL_CloseAudio.                           *)
OpenFails ==
  /\ M("create", "quit")
  /\ UNCHANGED <<apc, flags, lock, data, next_buffer, filled, device, player>>

SetThread ==
  /\ M("created", "open")
  /\ thread' = TRUE
  /\ UNCHANGED <<apc, enabled, paused, lock, data, next_buffer, filled, device, player>>

PauseAudio(on) ==
  /\ mpc \in {"open", "locked"}
  /\ paused' = on
  /\ UNCHANGED <<apc, mpc, thread, enabled, lock, data, next_buffer, filled, device, player>>

LockAudio ==
  /\ M("open", "locked")
  /\ lock = "none"
  /\ lock' = "main"
  /\ UNCHANGED <<apc, flags, data, next_buffer, filled, device, player>>

UnlockAudio ==
  /\ M("locked", "open")
  /\ lock' = "none"
  /\ UNCHANGED <<apc, flags, data, next_buffer, filled, device, player>>

(* SDL_CloseAudio, which is SDL_AudioQuit *)
CloseAudio ==
  /\ M("open", "quit")
  /\ UNCHANGED <<apc, flags, lock, data, next_buffer, filled, device, player>>

DisableNot ==
  /\ M("quit", "join")
  /\ UNCHANGED <<apc, flags, lock, data, next_buffer, filled, device, player>>

Disable ==
  /\ M("quit", "join")
  /\ enabled' = FALSE
  /\ UNCHANGED <<apc, thread, paused, lock, data, next_buffer, filled, device, player>>

WaitThread ==
  /\ M("join", "destroy")
  /\ thread => apc = "ended"
  /\ apc' = "none" /\ thread' = FALSE
  /\ UNCHANGED <<enabled, paused, lock, data, next_buffer, filled, device, player>>

DestroyLock ==
  /\ M("destroy", "close")
  /\ lock' = "none"
  /\ UNCHANGED <<apc, flags, data, next_buffer, filled, device, player>>

(* DIB_CloseAudio.  waveOutClose ends the device's messages.               *)
CloseDevice ==
  /\ M("close", "closed")
  /\ messages' = 0 /\ sem' = 0
  /\ UNCHANGED <<apc, flags, lock, data, next_buffer, filled, queue, player>>

Main ==
  \/ OpenAudio \/ CreateThread \/ OpenFails \/ SetThread
  \/ PauseAudio(TRUE) \/ PauseAudio(FALSE) \/ LockAudio \/ UnlockAudio
  \/ CloseAudio \/ Disable \/ WaitThread \/ DestroyLock \/ CloseDevice

-----------------------------------------------------------------------------
(* SDL_RunAudio *)

Enter ==
  /\ A("start", "loop")
  /\ UNCHANGED <<mpc, flags, lock, data, next_buffer, filled, device, player>>

(* DIB_GetAudioBuf, and silence over all of the buffer *)
GetBuf ==
  /\ A("loop", "test")
  /\ enabled
  /\ data' = [data EXCEPT ![next_buffer] = Silence(Chunk)]
  /\ filled' = 0
  /\ UNCHANGED <<mpc, flags, lock, next_buffer, device, player>>

Leave ==
  /\ A("loop", "drain")
  /\ ~enabled
  /\ UNCHANGED <<mpc, flags, lock, data, next_buffer, filled, device, player>>

TestPausedWrong ==
  /\ apc = "test"
  /\ apc' = IF paused THEN "lock" ELSE "play"
  /\ UNCHANGED <<mpc, flags, lock, data, next_buffer, filled, device, player>>

TestPaused ==
  /\ apc = "test"
  /\ apc' = IF paused THEN "play" ELSE "lock"
  /\ UNCHANGED <<mpc, flags, lock, data, next_buffer, filled, device, player>>

LockMixer ==
  /\ A("lock", "callback")
  /\ lock = "none"
  /\ lock' = "audio"
  /\ UNCHANGED <<mpc, flags, data, next_buffer, filled, device, player>>

UnlockMixer ==
  /\ A("unlock", "play")
  /\ lock' = "none"
  /\ UNCHANGED <<mpc, flags, data, next_buffer, filled, device, player>>

(* DIB_PlayAudio: waveOutWrite queues the buffer.                          *)
PlayAudio ==
  /\ A("play", "wait")
  /\ queue' = Append(queue, next_buffer)
  /\ next_buffer' = (next_buffer + 1) % NumBuffers
  /\ filled' = 0
  /\ UNCHANGED <<mpc, flags, lock, data, messages, sem, player>>

WaitAudio ==
  /\ A("wait", "loop")
  /\ sem > 0
  /\ sem' = sem - 1
  /\ UNCHANGED <<mpc, flags, lock, data, next_buffer, filled, queue, messages, player>>

WaitDoneNot ==
  /\ A("drain", "ended")
  /\ UNCHANGED <<mpc, flags, lock, data, next_buffer, filled, device, player>>

WaitDone ==
  /\ A("drain", "ended")
  /\ queue = <<>>
  /\ UNCHANGED <<mpc, flags, lock, data, next_buffer, filled, device, player>>

-----------------------------------------------------------------------------
(* audio_callback, on the mixing thread with mixer_lock held *)

InCallback == apc = "callback" /\ filled < Chunk

Least(a, b) == IF a < b THEN a ELSE b

(* What synchronize_audio lets through: wanted_size is anything, and then  *)
(* no less than min_size and no more than max_size.  Integer division      *)
(* makes them none and all of the samples.                                 *)
MinSize(n) == n * ((100 - 10) \div 100)
MaxSize(n) == n * ((100 + 10) \div 100)

NeedsFrame == InCallback /\ audio_buf_index >= Len(audio_buf)

(* packet_queue_get with block = 1 finds audioq empty and sleeps, within   *)
(* the callback and with mixer_lock held (501, 369).                       *)
SleepForPacket ==
  /\ NeedsFrame /\ ready = 0
  /\ apc' = "sleep"
  /\ UNCHANGED <<mpc, flags, lock, data, next_buffer, filled, device, player>>

Decode(n) ==
  /\ NeedsFrame /\ ready > 0
  /\ \E kept \in MinSize(n) .. MaxSize(n) :
       audio_buf' = [i \in 1 .. kept |-> decoded + i]
  /\ audio_buf_index' = 0
  /\ decoded' = decoded + n
  /\ ready' = ready - 1
  /\ UNCHANGED <<apc, mpc, flags, lock, data, next_buffer, filled, device, unread>>

CopyWhole ==
  /\ InCallback /\ audio_buf_index < Len(audio_buf)
  /\ LET len1 == Least(Len(audio_buf) - audio_buf_index, Chunk - filled)
     IN  /\ data' = [data EXCEPT ![next_buffer] = [i \in 1 .. Chunk |->
              IF i \in filled + 1 .. filled + len1 THEN audio_buf[audio_buf_index + i - filled]
              ELSE @[i]]]
         /\ filled' = filled + len1
         /\ audio_buf_index' = Len(audio_buf)
  /\ UNCHANGED <<apc, mpc, flags, lock, next_buffer, device, audio_buf, decoded,
                 ready, unread>>

Copy ==
  /\ InCallback /\ audio_buf_index < Len(audio_buf)
  /\ LET len1 == Least(Len(audio_buf) - audio_buf_index, Chunk - filled)
     IN  /\ data' = [data EXCEPT ![next_buffer] = [i \in 1 .. Chunk |->
              IF i \in filled + 1 .. filled + len1 THEN audio_buf[audio_buf_index + i - filled]
              ELSE @[i]]]
         /\ filled' = filled + len1
         /\ audio_buf_index' = audio_buf_index + len1
  /\ UNCHANGED <<apc, mpc, flags, lock, next_buffer, device, audio_buf, decoded,
                 ready, unread>>

CallbackReturns ==
  /\ A("callback", "unlock")
  /\ filled = Chunk
  /\ UNCHANGED <<mpc, flags, lock, data, next_buffer, filled, device, player>>

Callback ==
  SleepForPacket \/ (\E n \in FrameSizes : Decode(n)) \/ Copy \/ CallbackReturns

RunAudio ==
  \/ Enter \/ GetBuf \/ Leave \/ TestPaused \/ LockMixer \/ Callback \/ UnlockMixer
  \/ PlayAudio \/ WaitAudio \/ WaitDone

-----------------------------------------------------------------------------
(* decode_thread puts one frame more into audioq and wakes the callback    *)
(* that sleeps on it: see Demux.                                           *)
PutPacket ==
  /\ unread > 0
  /\ unread' = unread - 1 /\ ready' = ready + 1
  /\ apc' = IF apc = "sleep" THEN "callback" ELSE apc
  /\ UNCHANGED <<mpc, flags, lock, data, next_buffer, filled, device, audio_buf,
                 audio_buf_index, decoded>>

(* The device has played its first buffer, and FillSound is told.          *)
BufferDone ==
  /\ queue # <<>>
  /\ queue' = Tail(queue)
  /\ messages' = messages + 1
  /\ UNCHANGED <<apc, mpc, flags, lock, data, next_buffer, filled, sem, player>>

FillSound ==
  /\ messages > 0
  /\ messages' = messages - 1
  /\ sem' = Least(sem + 1, NumBuffers)
  /\ UNCHANGED <<apc, mpc, flags, lock, data, next_buffer, filled, queue, player>>

Device == BufferDone \/ FillSound

Next == Main \/ RunAudio \/ PutPacket \/ Device

Spec == Init /\ [][Next]_vars

(* The device plays what it is given, decode_thread reads the file to its  *)
(* end, the mixing thread runs and gets a lock that is free again and      *)
(* again, and a call that was begun goes on.                               *)
FairSpec ==
  /\ Spec
  /\ WF_vars(Device) /\ WF_vars(PutPacket)
  /\ WF_vars(RunAudio) /\ SF_vars(LockMixer)
  /\ WF_vars(UnlockAudio \/ SetThread)
  /\ WF_vars(Disable \/ WaitThread \/ DestroyLock \/ CloseDevice)

-----------------------------------------------------------------------------
(***************************************************************************)
(* Properties                                                              *)
(***************************************************************************)
TypeOK ==
  /\ apc \in AudioPlaces /\ mpc \in MainPlaces
  /\ thread \in BOOLEAN /\ enabled \in BOOLEAN /\ paused \in BOOLEAN
  /\ lock \in {"none", "main", "audio"}
  /\ data \in [Buffers -> [1 .. Chunk -> Nat]]
  /\ next_buffer \in Buffers /\ filled \in 0 .. Chunk
  /\ queue \in Seq(Buffers) /\ messages \in 0 .. NumBuffers /\ sem \in 0 .. NumBuffers
  /\ audio_buf \in Seq(Nat) /\ audio_buf_index \in 0 .. Len(audio_buf)
  /\ decoded \in Nat /\ ready \in Nat /\ unread \in Nat

Writing == {"test", "lock", "callback", "sleep", "unlock", "play"}

(* The thread never writes to a buffer that the device is playing: the     *)
(* semaphore counts the others (SDL_dibaudio.c 147-170, 293).              *)
BufferFree ==
  /\ apc \in Writing => next_buffer \notin ToSet(queue)
  /\ IsInjective(queue)

(* "During a LockAudio/UnlockAudio pair, you can be guaranteed that the    *)
(* callback function is not running" (SDL_audio.h 262).                    *)
LockExcludes == apc \in {"callback", "sleep", "unlock"} => lock = "audio" /\ mpc # "locked"

(* What SDL_AudioQuit frees nobody uses any more: the mixing thread has    *)
(* ended, and the device plays none of the buffers (626-646).              *)
NothingLeft ==
  mpc \in {"destroy", "close", "closed"} => apc = "none" /\ queue = <<>>

Samples(s) ==
  LET kept[n \in 0 .. Len(s)] ==
        IF n = 0 THEN <<>>
        ELSE IF s[n] = 0 THEN kept[n - 1] ELSE Append(kept[n - 1], s[n])
  IN  kept[Len(s)]

Joined(buffers, contents) ==
  LET joined[n \in 0 .. Len(buffers)] ==
        IF n = 0 THEN <<>> ELSE joined[n - 1] \o contents[buffers[n]]
  IN  joined[Len(buffers)]

(* The samples that are kept are on their way in the buffers queued, the   *)
(* buffer being filled and what is left of audio_buf, in this order.       *)
flow ==
  Samples(Joined(queue, data)
          \o SubSeq(data[next_buffer], 1, filled)
          \o SubSeq(audio_buf, audio_buf_index + 1, Len(audio_buf)))

Stream == INSTANCE AudioStream

(* They are heard in order, once each (VSPlayer.c 529-553).                *)
ImplementsStream == Stream!Spec

(* The file has ended and the callback waits for a packet, for ever.       *)
Starved == apc = "sleep" /\ unread = 0

(* SDL_CloseAudio returns, once the device has played what it has; unless  *)
(* the callback sleeps for a packet after the end of the file, and the     *)
(* wait for its thread with it (501, SDL_audio.c 628).                     *)
CloseReturns == mpc = "quit" ~> mpc = "closed" \/ Starved

(* Sound that was decoded is heard, unless it is paused or closed, or the  *)
(* file ends before the buffer that holds it is full.                      *)
SoundIsHeard == \A k \in 1 .. MaxFrames * Max(FrameSizes) :
  k \in ToSet(flow) ~>
    \/ k \notin ToSet(flow)
    \/ paused \/ ~enabled
    \/ Starved /\ k \in ToSet(SubSeq(data[next_buffer], 1, filled))

=============================================================================
