------------------------- MODULE AudioOutput_proofs -------------------------
(***************************************************************************)
(* Proofs about AudioOutput for every number and length of the buffers,    *)
(* all sizes of frames, and every amount of sound.                         *)
(***************************************************************************)
EXTENDS AudioOutput, SequenceTheorems, WellFoundedInduction, TLAPS

(* The mixing thread exists between its creation and the wait for it, and  *)
(* it has played everything when it ends.                                  *)
Alive ==
  /\ mpc \in {"closed", "create", "destroy", "close"} => ~thread /\ apc = "none"
  /\ mpc = "created" => ~thread /\ apc # "none"
  /\ mpc \in {"open", "locked"} => thread /\ apc # "none"
  /\ mpc \in {"quit", "join"} => (thread <=> apc # "none")
  /\ apc \in {"none", "ended"} => queue = <<>>

Locked ==
  /\ lock = "audio" <=> apc \in {"callback", "sleep", "unlock"}
  /\ lock = "main" <=> mpc = "locked"

(* A buffer but one is with the device, in a message, or counted by the    *)
(* semaphore; all are while the thread waits for the next.                 *)
Counted ==
  sem + messages + Len(queue) =
    IF mpc = "closed" THEN 0 ELSE IF apc = "wait" THEN NumBuffers ELSE NumBuffers - 1

(* The device has the buffers before next_buffer, around the end.          *)
Back(n) == IF next_buffer < n THEN next_buffer - n + NumBuffers ELSE next_buffer - n

Around == \A i \in 1 .. Len(queue) : queue[i] = Back(Len(queue) - i + 1)

IInv == TypeOK /\ Alive /\ Locked /\ Counted /\ Around

-----------------------------------------------------------------------------
LEMMA Successor ==
  ASSUME NEW n \in Nat \ {0}, NEW i \in 0 .. n - 1
  PROVE  (i + 1) % n = IF i + 1 = n THEN 0 ELSE i + 1
  OBVIOUS

LEMMA InitIInv == Init => IInv
  <1> SUFFICES ASSUME Init PROVE IInv
    OBVIOUS
  <1> USE AudioOutputAssumption DEF Init
  <1>1. TypeOK
    BY DEF TypeOK, AudioPlaces, MainPlaces, Buffers, Silence
  <1>2. Alive /\ Locked /\ Counted /\ Around
    BY DEF Alive, Locked, Counted, Around
  <1> QED BY <1>1, <1>2 DEF IInv

(* What the device has is at most what the semaphore does not count.       *)
LEMMA Few ==
  ASSUME IInv
  PROVE  /\ Len(queue) \in 0 .. NumBuffers
         /\ apc # "wait" => Len(queue) < NumBuffers
         /\ sem + messages <= NumBuffers
  <1>1. Len(queue) \in Nat /\ sem \in Nat /\ messages \in Nat /\ NumBuffers \in Nat \ {0}
    BY AudioOutputAssumption DEF IInv, TypeOK
  <1>2. sem + messages + Len(queue) =
          IF mpc = "closed" THEN 0 ELSE IF apc = "wait" THEN NumBuffers ELSE NumBuffers - 1
    BY DEF IInv, Counted
  <1> QED BY <1>1, <1>2

(* The buffer to be filled next is not with the device.                    *)
LEMMA NotQueued ==
  ASSUME IInv, apc # "wait"
  PROVE  \A i \in 1 .. Len(queue) : queue[i] # next_buffer
  <1>1. \A i \in 1 .. Len(queue) :
          queue[i] = IF next_buffer < Len(queue) - i + 1
                     THEN next_buffer - (Len(queue) - i + 1) + NumBuffers
                     ELSE next_buffer - (Len(queue) - i + 1)
    BY DEF IInv, Around, Back
  <1>2. Len(queue) \in Nat /\ Len(queue) < NumBuffers
    BY Few
  <1>3. next_buffer \in 0 .. NumBuffers - 1 /\ NumBuffers \in Nat
    BY AudioOutputAssumption DEF IInv, TypeOK, Buffers
  <1> QED BY <1>1, <1>2, <1>3

LEMMA OpenAudioKeeps ==
  ASSUME IInv, OpenAudio
  PROVE  IInv'
  <1> USE AudioOutputAssumption DEF IInv, TypeOK, OpenAudio, M, flags, device, player
  <1>a. queue = <<>> /\ messages = 0
    <2>1. queue = <<>>
      BY DEF Alive
    <2> QED BY <2>1 DEF Counted
  <1>1. TypeOK'
    BY <1>a DEF AudioPlaces, MainPlaces, Silence, Buffers
  <1>2. Alive'
    BY DEF Alive
  <1>3. Locked'
    BY DEF Locked
  <1>4. Counted'
    BY <1>a DEF Counted, Alive
  <1>5. Around'
    BY <1>a DEF Around
  <1> QED BY <1>1, <1>2, <1>3, <1>4, <1>5

LEMMA CreateThreadKeeps ==
  ASSUME IInv, CreateThread
  PROVE  IInv'
  <1> USE AudioOutputAssumption DEF IInv, TypeOK, CreateThread, M, flags, device, player
  <1>1. TypeOK'
    BY DEF AudioPlaces, MainPlaces
  <1>2. Alive'
    BY DEF Alive
  <1>3. Locked'
    BY DEF Locked, Alive
  <1>4. Counted'
    BY DEF Counted, Alive
  <1>5. Around'
    BY DEF Around, Back
  <1> QED BY <1>1, <1>2, <1>3, <1>4, <1>5

LEMMA OpenFailsKeeps ==
  ASSUME IInv, OpenFails
  PROVE  IInv'
  <1> USE AudioOutputAssumption DEF IInv, TypeOK, OpenFails, M, flags, device, player
  <1>1. TypeOK'
    BY DEF AudioPlaces, MainPlaces
  <1>2. Alive'
    BY DEF Alive
  <1>3. Locked'
    BY DEF Locked
  <1>4. Counted'
    BY DEF Counted
  <1>5. Around'
    BY DEF Around, Back
  <1> QED BY <1>1, <1>2, <1>3, <1>4, <1>5

LEMMA SetThreadKeeps ==
  ASSUME IInv, SetThread
  PROVE  IInv'
  <1> USE AudioOutputAssumption DEF IInv, TypeOK, SetThread, M, flags, device, player
  <1>1. TypeOK'
    BY DEF AudioPlaces, MainPlaces
  <1>2. Alive'
    BY DEF Alive
  <1>3. Locked'
    BY DEF Locked
  <1>4. Counted'
    BY DEF Counted
  <1>5. Around'
    BY DEF Around, Back
  <1> QED BY <1>1, <1>2, <1>3, <1>4, <1>5

LEMMA PauseAudioKeeps ==
  ASSUME IInv, NEW on \in BOOLEAN, PauseAudio(on)
  PROVE  IInv'
  <1> USE AudioOutputAssumption DEF IInv, TypeOK, PauseAudio, M, flags, device, player
  <1>1. TypeOK'
    BY DEF AudioPlaces, MainPlaces
  <1>2. Alive'
    BY DEF Alive
  <1>3. Locked'
    BY DEF Locked
  <1>4. Counted'
    BY DEF Counted
  <1>5. Around'
    BY DEF Around, Back
  <1> QED BY <1>1, <1>2, <1>3, <1>4, <1>5

LEMMA LockAudioKeeps ==
  ASSUME IInv, LockAudio
  PROVE  IInv'
  <1> USE AudioOutputAssumption DEF IInv, TypeOK, LockAudio, M, flags, device, player
  <1>1. TypeOK'
    BY DEF AudioPlaces, MainPlaces
  <1>2. Alive'
    BY DEF Alive
  <1>3. Locked'
    BY DEF Locked
  <1>4. Counted'
    BY DEF Counted
  <1>5. Around'
    BY DEF Around, Back
  <1> QED BY <1>1, <1>2, <1>3, <1>4, <1>5

LEMMA UnlockAudioKeeps ==
  ASSUME IInv, UnlockAudio
  PROVE  IInv'
  <1> USE AudioOutputAssumption DEF IInv, TypeOK, UnlockAudio, M, flags, device, player
  <1>1. TypeOK'
    BY DEF AudioPlaces, MainPlaces
  <1>2. Alive'
    BY DEF Alive
  <1>3. Locked'
    BY DEF Locked
  <1>4. Counted'
    BY DEF Counted
  <1>5. Around'
    BY DEF Around, Back
  <1> QED BY <1>1, <1>2, <1>3, <1>4, <1>5

LEMMA CloseAudioKeeps ==
  ASSUME IInv, CloseAudio
  PROVE  IInv'
  <1> USE AudioOutputAssumption DEF IInv, TypeOK, CloseAudio, M, flags, device, player
  <1>1. TypeOK'
    BY DEF AudioPlaces, MainPlaces
  <1>2. Alive'
    BY DEF Alive
  <1>3. Locked'
    BY DEF Locked
  <1>4. Counted'
    BY DEF Counted
  <1>5. Around'
    BY DEF Around, Back
  <1> QED BY <1>1, <1>2, <1>3, <1>4, <1>5

LEMMA DisableKeeps ==
  ASSUME IInv, Disable
  PROVE  IInv'
  <1> USE AudioOutputAssumption DEF IInv, TypeOK, Disable, M, flags, device, player
  <1>1. TypeOK'
    BY DEF AudioPlaces, MainPlaces
  <1>2. Alive'
    BY DEF Alive
  <1>3. Locked'
    BY DEF Locked
  <1>4. Counted'
    BY DEF Counted
  <1>5. Around'
    BY DEF Around, Back
  <1> QED BY <1>1, <1>2, <1>3, <1>4, <1>5

LEMMA WaitThreadKeeps ==
  ASSUME IInv, WaitThread
  PROVE  IInv'
  <1> USE AudioOutputAssumption DEF IInv, TypeOK, WaitThread, M, flags, device, player
  <1>1. TypeOK'
    BY DEF AudioPlaces, MainPlaces
  <1>2. Alive'
    BY DEF Alive
  <1>3. Locked'
    BY DEF Locked, Alive
  <1>4. Counted'
    BY DEF Counted, Alive
  <1>5. Around'
    BY DEF Around, Back
  <1> QED BY <1>1, <1>2, <1>3, <1>4, <1>5

LEMMA DestroyLockKeeps ==
  ASSUME IInv, DestroyLock
  PROVE  IInv'
  <1> USE AudioOutputAssumption DEF IInv, TypeOK, DestroyLock, M, flags, device, player
  <1>1. TypeOK'
    BY DEF AudioPlaces, MainPlaces
  <1>2. Alive'
    BY DEF Alive
  <1>3. Locked'
    BY DEF Locked, Alive
  <1>4. Counted'
    BY DEF Counted, Alive
  <1>5. Around'
    BY DEF Around, Back
  <1> QED BY <1>1, <1>2, <1>3, <1>4, <1>5

LEMMA CloseDeviceKeeps ==
  ASSUME IInv, CloseDevice
  PROVE  IInv'
  <1> USE AudioOutputAssumption DEF IInv, TypeOK, CloseDevice, M, flags, device, player
  <1>1. TypeOK'
    BY DEF AudioPlaces, MainPlaces
  <1>2. Alive'
    BY DEF Alive
  <1>3. Locked'
    BY DEF Locked
  <1>4. Counted'
    BY DEF Counted, Alive
  <1>5. Around'
    BY DEF Around, Back
  <1> QED BY <1>1, <1>2, <1>3, <1>4, <1>5

LEMMA EnterKeeps ==
  ASSUME IInv, Enter
  PROVE  IInv'
  <1> USE AudioOutputAssumption DEF IInv, TypeOK, Enter, A, flags, device, player
  <1>1. TypeOK'
    BY DEF AudioPlaces, MainPlaces
  <1>2. Alive'
    BY DEF Alive
  <1>3. Locked'
    BY DEF Locked
  <1>4. Counted'
    BY DEF Counted
  <1>5. Around'
    BY DEF Around, Back
  <1> QED BY <1>1, <1>2, <1>3, <1>4, <1>5

LEMMA GetBufKeeps ==
  ASSUME IInv, GetBuf
  PROVE  IInv'
  <1> USE AudioOutputAssumption DEF IInv, TypeOK, GetBuf, A, flags, device, player
  <1>1. TypeOK'
    BY DEF AudioPlaces, MainPlaces, Silence
  <1>2. Alive'
    BY DEF Alive
  <1>3. Locked'
    BY DEF Locked
  <1>4. Counted'
    BY DEF Counted
  <1>5. Around'
    BY DEF Around, Back
  <1> QED BY <1>1, <1>2, <1>3, <1>4, <1>5

LEMMA LeaveKeeps ==
  ASSUME IInv, Leave
  PROVE  IInv'
  <1> USE AudioOutputAssumption DEF IInv, TypeOK, Leave, A, flags, device, player
  <1>1. TypeOK'
    BY DEF AudioPlaces, MainPlaces
  <1>2. Alive'
    BY DEF Alive
  <1>3. Locked'
    BY DEF Locked
  <1>4. Counted'
    BY DEF Counted
  <1>5. Around'
    BY DEF Around, Back
  <1> QED BY <1>1, <1>2, <1>3, <1>4, <1>5

LEMMA TestPausedKeeps ==
  ASSUME IInv, TestPaused
  PROVE  IInv'
  <1> USE AudioOutputAssumption DEF IInv, TypeOK, TestPaused, A, flags, device, player
  <1>1. TypeOK'
    BY DEF AudioPlaces, MainPlaces
  <1>2. Alive'
    BY DEF Alive
  <1>3. Locked'
    BY DEF Locked
  <1>4. Counted'
    BY DEF Counted
  <1>5. Around'
    BY DEF Around, Back
  <1> QED BY <1>1, <1>2, <1>3, <1>4, <1>5

LEMMA LockMixerKeeps ==
  ASSUME IInv, LockMixer
  PROVE  IInv'
  <1> USE AudioOutputAssumption DEF IInv, TypeOK, LockMixer, A, flags, device, player
  <1>1. TypeOK'
    BY DEF AudioPlaces, MainPlaces
  <1>2. Alive'
    BY DEF Alive
  <1>3. Locked'
    BY DEF Locked
  <1>4. Counted'
    BY DEF Counted
  <1>5. Around'
    BY DEF Around, Back
  <1> QED BY <1>1, <1>2, <1>3, <1>4, <1>5

LEMMA UnlockMixerKeeps ==
  ASSUME IInv, UnlockMixer
  PROVE  IInv'
  <1> USE AudioOutputAssumption DEF IInv, TypeOK, UnlockMixer, A, flags, device, player
  <1>1. TypeOK'
    BY DEF AudioPlaces, MainPlaces
  <1>2. Alive'
    BY DEF Alive
  <1>3. Locked'
    BY DEF Locked
  <1>4. Counted'
    BY DEF Counted
  <1>5. Around'
    BY DEF Around, Back
  <1> QED BY <1>1, <1>2, <1>3, <1>4, <1>5

LEMMA PlayAudioKeeps ==
  ASSUME IInv, PlayAudio
  PROVE  IInv'
  <1> USE AudioOutputAssumption DEF IInv, TypeOK, PlayAudio, A, flags, device, player
  <1>a. next_buffer' = IF next_buffer + 1 = NumBuffers THEN 0 ELSE next_buffer + 1
    BY Successor DEF Buffers
  <1>b. /\ next_buffer \in 0 .. NumBuffers - 1 /\ Len(queue) \in 0 .. NumBuffers - 1
        /\ NumBuffers \in Nat
    <2>1. apc = "play"
      OBVIOUS
    <2>2. next_buffer \in 0 .. NumBuffers - 1 /\ NumBuffers \in Nat
      BY DEF Buffers
    <2> HIDE DEF TypeOK, PlayAudio
    <2> QED BY <2>1, <2>2, Few
  <1>c. queue' = Append(queue, next_buffer) /\ queue \in Seq(Buffers) /\ next_buffer \in Buffers
    OBVIOUS
  <1>d. /\ queue' \in Seq(Buffers) /\ Len(queue') = Len(queue) + 1
        /\ \A i \in 1 .. Len(queue) : queue'[i] = queue[i]
        /\ queue'[Len(queue) + 1] = next_buffer
    <2> HIDE DEF IInv, TypeOK, PlayAudio
    <2> QED BY <1>c
  <1>e. /\ sem \in Nat /\ messages \in Nat /\ sem' = sem /\ messages' = messages
        /\ sem + messages + Len(queue) = NumBuffers - 1
        /\ mpc' # "closed" /\ apc' = "wait"
    <2>1. apc = "play" /\ apc' = "wait" /\ UNCHANGED <<sem, messages, mpc>>
      OBVIOUS
    <2>2. sem \in Nat /\ messages \in Nat
      OBVIOUS
    <2> HIDE DEF PlayAudio
    <2>3. mpc # "closed"
      BY <2>1 DEF Alive
    <2> QED BY <2>1, <2>2, <2>3 DEF Counted
  <1>1. TypeOK'
    <2>1. next_buffer' \in Buffers
      <3> HIDE DEF IInv, TypeOK, PlayAudio
      <3> QED BY <1>a, <1>b DEF Buffers
    <2> QED BY <2>1, <1>d DEF AudioPlaces, MainPlaces
  <1>2. Alive'
    BY DEF Alive
  <1>3. Locked'
    BY DEF Locked
  <1>4. Counted'
    <2> HIDE DEF IInv, TypeOK, PlayAudio
    <2> QED BY <1>b, <1>d, <1>e DEF Counted
  <1>5. Around'
    <2>1. \A i \in 1 .. Len(queue) : queue[i] = Back(Len(queue) - i + 1)
      BY DEF Around
    <2> HIDE DEF IInv, TypeOK, PlayAudio
    <2> SUFFICES ASSUME NEW i \in 1 .. Len(queue')
                 PROVE  queue'[i] = IF next_buffer' < Len(queue') - i + 1
                                    THEN next_buffer' - (Len(queue') - i + 1) + NumBuffers
                                    ELSE next_buffer' - (Len(queue') - i + 1)
      BY DEF Around, Back
    <2>2. CASE i = Len(queue) + 1
      BY <2>2, <1>a, <1>b, <1>d
    <2>3. CASE i \in 1 .. Len(queue)
      <3>1. queue'[i] = Back(Len(queue) - i + 1)
        BY <2>1, <2>3, <1>d
      <3> QED BY <2>3, <3>1, <1>a, <1>b, <1>d DEF Back
    <2> QED BY <2>2, <2>3, <1>b, <1>d
  <1> QED BY <1>1, <1>2, <1>3, <1>4, <1>5

LEMMA WaitAudioKeeps ==
  ASSUME IInv, WaitAudio
  PROVE  IInv'
  <1> USE AudioOutputAssumption DEF IInv, TypeOK, WaitAudio, A, flags, device, player
  <1>1. TypeOK'
    BY DEF AudioPlaces, MainPlaces
  <1>2. Alive'
    BY DEF Alive
  <1>3. Locked'
    BY DEF Locked
  <1>4. Counted'
    BY DEF Counted
  <1>5. Around'
    BY DEF Around, Back
  <1> QED BY <1>1, <1>2, <1>3, <1>4, <1>5

LEMMA WaitDoneKeeps ==
  ASSUME IInv, WaitDone
  PROVE  IInv'
  <1> USE AudioOutputAssumption DEF IInv, TypeOK, WaitDone, A, flags, device, player
  <1>1. TypeOK'
    BY DEF AudioPlaces, MainPlaces
  <1>2. Alive'
    BY DEF Alive
  <1>3. Locked'
    BY DEF Locked
  <1>4. Counted'
    BY DEF Counted
  <1>5. Around'
    BY DEF Around, Back
  <1> QED BY <1>1, <1>2, <1>3, <1>4, <1>5

LEMMA DecodeKeeps ==
  ASSUME IInv, NEW n \in FrameSizes, Decode(n)
  PROVE  IInv'
  <1> USE AudioOutputAssumption DEF IInv, TypeOK, Decode, NeedsFrame, InCallback, MinSize, MaxSize, flags, device, player
  <1>1. TypeOK'
    BY DEF AudioPlaces, MainPlaces
  <1>2. Alive'
    BY DEF Alive
  <1>3. Locked'
    BY DEF Locked
  <1>4. Counted'
    BY DEF Counted
  <1>5. Around'
    BY DEF Around, Back
  <1> QED BY <1>1, <1>2, <1>3, <1>4, <1>5

LEMMA SleepForPacketKeeps ==
  ASSUME IInv, SleepForPacket
  PROVE  IInv'
  <1> USE AudioOutputAssumption DEF IInv, TypeOK, SleepForPacket, NeedsFrame, InCallback, flags, device, player
  <1>1. TypeOK'
    BY DEF AudioPlaces, MainPlaces
  <1>2. Alive'
    BY DEF Alive
  <1>3. Locked'
    BY DEF Locked
  <1>4. Counted'
    BY DEF Counted
  <1>5. Around'
    BY DEF Around, Back
  <1> QED BY <1>1, <1>2, <1>3, <1>4, <1>5

LEMMA PutPacketKeeps ==
  ASSUME IInv, PutPacket
  PROVE  IInv'
  <1> USE AudioOutputAssumption DEF IInv, TypeOK, PutPacket, flags, device
  <1>1. TypeOK'
    BY DEF AudioPlaces, MainPlaces
  <1>2. Alive'
    BY DEF Alive
  <1>3. Locked'
    BY DEF Locked
  <1>4. Counted'
    BY DEF Counted
  <1>5. Around'
    BY DEF Around, Back
  <1> QED BY <1>1, <1>2, <1>3, <1>4, <1>5

LEMMA CopyKeeps ==
  ASSUME IInv, Copy
  PROVE  IInv'
  <1> USE AudioOutputAssumption DEF IInv, TypeOK, Copy, InCallback, flags, device, player
  <1> DEFINE len1 == Least(Len(audio_buf) - audio_buf_index, Chunk - filled)
  <1>a. /\ len1 \in Nat /\ len1 <= Len(audio_buf) - audio_buf_index
        /\ len1 <= Chunk - filled
    BY DEF Least
  <1>b. /\ filled' = filled + len1 /\ audio_buf_index' = audio_buf_index + len1
        /\ data' = [data EXCEPT ![next_buffer] = [i \in 1 .. Chunk |->
             IF i \in filled + 1 .. filled + len1 THEN audio_buf[audio_buf_index + i - filled]
             ELSE @[i]]]
    OBVIOUS
  <1>c. /\ filled \in 0 .. Chunk /\ audio_buf \in Seq(Nat)
        /\ audio_buf_index \in 0 .. Len(audio_buf) /\ Len(audio_buf) \in Nat
        /\ Chunk \in Nat /\ data[next_buffer] \in [1 .. Chunk -> Nat]
    OBVIOUS
  <1> HIDE DEF len1
  <1>1. TypeOK'
    <2>1. ASSUME NEW i \in 1 .. Chunk
          PROVE  (IF i \in filled + 1 .. filled + len1 THEN audio_buf[audio_buf_index + i - filled]
                  ELSE data[next_buffer][i]) \in Nat
      <3>1. CASE i \in filled + 1 .. filled + len1
        <4> HIDE DEF IInv, TypeOK, Copy
        <4>1. audio_buf_index + i - filled \in 1 .. Len(audio_buf)
          <5>1. /\ i \in Int /\ filled < i /\ i <= filled + len1
                /\ filled \in Int /\ audio_buf_index \in Nat /\ len1 \in Nat
            BY <1>a, <1>c, <3>1
          <5> QED BY <5>1, <1>a, <1>c
        <4> QED BY <1>c, <3>1, <4>1
      <3>2. CASE i \notin filled + 1 .. filled + len1
        BY <3>2
      <3> QED BY <3>1, <3>2
    <2>2. data' \in [Buffers -> [1 .. Chunk -> Nat]]
      BY <1>b, <2>1
    <2>3. filled' \in 0 .. Chunk /\ audio_buf_index' \in 0 .. Len(audio_buf)
      <3> HIDE DEF IInv, TypeOK, Copy
      <3> QED BY <1>a, <1>b, <1>c
    <2> QED BY <2>2, <2>3 DEF AudioPlaces, MainPlaces
  <1>2. Alive'
    BY DEF Alive
  <1>3. Locked'
    BY DEF Locked
  <1>4. Counted'
    BY DEF Counted
  <1>5. Around'
    BY DEF Around, Back
  <1> QED BY <1>1, <1>2, <1>3, <1>4, <1>5

LEMMA CallbackReturnsKeeps ==
  ASSUME IInv, CallbackReturns
  PROVE  IInv'
  <1> USE AudioOutputAssumption DEF IInv, TypeOK, CallbackReturns, A, flags, device, player
  <1>1. TypeOK'
    BY DEF AudioPlaces, MainPlaces
  <1>2. Alive'
    BY DEF Alive
  <1>3. Locked'
    BY DEF Locked
  <1>4. Counted'
    BY DEF Counted
  <1>5. Around'
    BY DEF Around, Back
  <1> QED BY <1>1, <1>2, <1>3, <1>4, <1>5

LEMMA BufferDoneKeeps ==
  ASSUME IInv, BufferDone
  PROVE  IInv'
  <1> USE AudioOutputAssumption DEF IInv, TypeOK, BufferDone, flags, device, player
  <1>a. queue # <<>> /\ queue \in Seq(Buffers) /\ queue' = Tail(queue) /\ UNCHANGED next_buffer
    OBVIOUS
  <1>b. /\ queue' \in Seq(Buffers) /\ Len(queue') = Len(queue) - 1 /\ Len(queue) \in Nat \ {0}
        /\ \A i \in 1 .. Len(queue') : queue'[i] = queue[i + 1]
    <2> HIDE DEF IInv, TypeOK, BufferDone
    <2> QED BY <1>a
  <1>c. /\ sem + messages + Len(queue) =
              IF mpc = "closed" THEN 0 ELSE IF apc = "wait" THEN NumBuffers ELSE NumBuffers - 1
        /\ sem \in Nat /\ messages \in Nat /\ NumBuffers \in Nat \ {0}
        /\ sem' = sem /\ messages' = messages + 1 /\ apc' = apc /\ mpc' = mpc
    BY DEF Counted
  <1>d. \A i \in 1 .. Len(queue) : queue[i] = Back(Len(queue) - i + 1)
    BY DEF Around
  <1>1. TypeOK'
    <2>1. messages' \in 0 .. NumBuffers
      <3> HIDE DEF IInv, TypeOK, BufferDone
      <3> QED BY <1>b, <1>c
    <2> QED BY <1>b, <2>1 DEF AudioPlaces, MainPlaces
  <1>2. Alive'
    BY DEF Alive
  <1>3. Locked'
    BY DEF Locked
  <1>4. Counted'
    <2> HIDE DEF IInv, TypeOK, BufferDone
    <2>1. sem' + messages' + Len(queue') = sem + messages + Len(queue)
      BY <1>b, <1>c
    <2> QED BY <2>1, <1>c DEF Counted
  <1>5. Around'
    <2> HIDE DEF IInv, TypeOK, BufferDone
    <2> SUFFICES ASSUME NEW i \in 1 .. Len(queue')
                 PROVE  queue'[i] = Back(Len(queue') - i + 1)
      BY <1>a DEF Around, Back
    <2>1. /\ i + 1 \in 1 .. Len(queue) /\ queue'[i] = queue[i + 1]
          /\ Len(queue) - (i + 1) + 1 = Len(queue') - i + 1
      BY <1>b
    <2> QED BY <2>1, <1>d
  <1> QED BY <1>1, <1>2, <1>3, <1>4, <1>5

LEMMA FillSoundKeeps ==
  ASSUME IInv, FillSound
  PROVE  IInv'
  <1> USE AudioOutputAssumption DEF IInv, TypeOK, FillSound, Least, flags, device, player
  <1>1. TypeOK'
    BY DEF AudioPlaces, MainPlaces
  <1>2. Alive'
    BY DEF Alive
  <1>3. Locked'
    BY DEF Locked
  <1>4. Counted'
    <2>1. /\ sem' = (IF sem + 1 < NumBuffers THEN sem + 1 ELSE NumBuffers)
          /\ messages' = messages - 1 /\ messages \in Nat \ {0} /\ sem \in Nat
          /\ NumBuffers \in Nat /\ sem + messages <= NumBuffers
      BY Few
    <2>2. sem' + messages' = sem + messages
      <3> HIDE DEF IInv, TypeOK, FillSound
      <3> QED BY <2>1
    <2>3. UNCHANGED <<queue, apc, mpc>>
      OBVIOUS
    <2> QED BY <2>2, <2>3 DEF Counted
  <1>5. Around'
    BY DEF Around, Back
  <1> QED BY <1>1, <1>2, <1>3, <1>4, <1>5

LEMMA NextIInv == IInv /\ [Next]_vars => IInv'
  <1> SUFFICES ASSUME IInv, [Next]_vars PROVE IInv'
    OBVIOUS
  <1>1. CASE UNCHANGED vars
    BY <1>1 DEF vars, flags, device, player, IInv, TypeOK, Alive, Locked, Counted, Around, Back
  <1>2. CASE Main
    BY <1>2, OpenAudioKeeps, CreateThreadKeeps, OpenFailsKeeps, SetThreadKeeps,
       PauseAudioKeeps, LockAudioKeeps, UnlockAudioKeeps, CloseAudioKeeps, DisableKeeps,
       WaitThreadKeeps, DestroyLockKeeps, CloseDeviceKeeps DEF Main
  <1>3. CASE RunAudio
    BY <1>3, EnterKeeps, GetBufKeeps, LeaveKeeps, TestPausedKeeps, LockMixerKeeps,
       SleepForPacketKeeps, DecodeKeeps, CopyKeeps, CallbackReturnsKeeps, UnlockMixerKeeps,
       PlayAudioKeeps, WaitAudioKeeps, WaitDoneKeeps DEF RunAudio, Callback
  <1>4. CASE Device
    BY <1>4, BufferDoneKeeps, FillSoundKeeps DEF Device
  <1> QED BY <1>1, <1>2, <1>3, <1>4, PutPacketKeeps DEF Next

LEMMA InductiveInvariant == Spec => []IInv
  BY InitIInv, NextIInv, PTL DEF Spec

-----------------------------------------------------------------------------
(* No index leaves its buffer, and the semaphore never counts more than    *)
(* there are buffers.                                                      *)
THEOREM TypeCorrect == Spec => []TypeOK
  <1>1. IInv => TypeOK
    BY DEF IInv
  <1> QED BY <1>1, InductiveInvariant, PTL

(* The buffer the mixing thread writes to is never with the device, and no *)
(* buffer is there twice (SDL_dibaudio.c 147-170, 293).                    *)
THEOREM BuffersFree == Spec => []BufferFree
  <1>1. ASSUME IInv PROVE BufferFree
    <2> USE <1>1, AudioOutputAssumption DEF IInv, TypeOK, Buffers
    <2>1. \A i \in 1 .. Len(queue) :
            queue[i] = IF next_buffer < Len(queue) - i + 1
                       THEN next_buffer - (Len(queue) - i + 1) + NumBuffers
                       ELSE next_buffer - (Len(queue) - i + 1)
      BY DEF Around, Back
    <2>2. Len(queue) \in 0 .. NumBuffers
      BY Few
    <2>3. /\ DOMAIN queue = 1 .. Len(queue)
          /\ next_buffer \in 0 .. NumBuffers - 1 /\ NumBuffers \in Nat
      OBVIOUS
    <2> HIDE <1>1 DEF IInv, TypeOK, Buffers
    <2>4. IsInjective(queue)
      <3> SUFFICES ASSUME NEW i \in 1 .. Len(queue), NEW j \in 1 .. Len(queue),
                          queue[i] = queue[j]
                   PROVE  i = j
        BY <2>3 DEF IsInjective
      <3> QED BY <2>1, <2>2, <2>3
    <2>5. ASSUME apc \in Writing PROVE next_buffer \notin ToSet(queue)
      <3>1. \A i \in 1 .. Len(queue) : queue[i] # next_buffer
        BY <1>1, <2>5, NotQueued DEF Writing
      <3> QED BY <2>3, <3>1 DEF ToSet
    <2> QED BY <2>4, <2>5 DEF BufferFree
  <1> QED BY <1>1, InductiveInvariant, PTL

(* When SDL_AudioQuit frees what the mixing thread works with, the thread  *)
(* has ended and the device has played its buffers (SDL_audio.c 622-646).  *)
THEOREM NothingIsLeft == Spec => []NothingLeft
  <1>1. IInv => NothingLeft
    BY DEF IInv, Alive, NothingLeft
  <1> QED BY <1>1, InductiveInvariant, PTL

(* No callback runs between SDL_LockAudio and SDL_UnlockAudio.             *)
THEOREM LockKeepsOut == Spec => []LockExcludes
  <1>1. IInv => LockExcludes
    BY DEF IInv, Locked, LockExcludes
  <1> QED BY <1>1, InductiveInvariant, PTL

-----------------------------------------------------------------------------
(* Every set of numbers has a least one, and so induction holds on sets of *)
(* numbers, and on sets of sequences.                                      *)
LEMMA LeastNumber ==
  ASSUME NEW S \in SUBSET Nat, S # {}
  PROVE  \E k \in S : \A m \in S : k <= m
  <1> DEFINE Less == OpToRel(<, Nat)
  <1>1. IsWellFoundedOn(Less, Nat)
    BY NatLessThanWellFounded
  <1>2. \A k, m \in Nat : m < k => <<m, k>> \in Less
    BY DEF OpToRel
  <1>3. PICK k \in S : \A m \in S : <<m, k>> \notin Less
    <2> HIDE DEF Less
    <2> QED BY <1>1, WFMin
  <1>4. \A m \in S : k <= m
    <2> SUFFICES ASSUME NEW m \in S PROVE k <= m
      OBVIOUS
    <2>1. k \in Nat /\ m \in Nat
      OBVIOUS
    <2>2. ~ m < k
      <3> HIDE DEF Less
      <3> QED BY <1>2, <1>3, <2>1
    <2> QED BY <2>1, <2>2
  <1> QED BY <1>4

LEMMA Upwards ==
  ASSUME NEW last \in Nat, NEW Good, 0 \in Good,
         \A n \in 1 .. last : n - 1 \in Good => n \in Good
  PROVE  \A n \in 0 .. last : n \in Good
  <1> DEFINE Bad == {n \in 0 .. last : n \notin Good}
  <1> SUFFICES ASSUME Bad # {} PROVE FALSE
    OBVIOUS
  <1>1. PICK k \in Bad : \A m \in Bad : k <= m
    <2>1. Bad \in SUBSET Nat
      OBVIOUS
    <2> HIDE DEF Bad
    <2> QED BY <2>1, LeastNumber
  <1>2. k \in 1 .. last /\ k - 1 \in 0 .. last
    OBVIOUS
  <1>3. k - 1 \in Good
    BY <1>1, <1>2
  <1> QED BY <1>2, <1>3

LEMMA ByAppending ==
  ASSUME NEW X, NEW Good, <<>> \in Good,
         \A s \in Seq(X), x \in X : s \in Good => Append(s, x) \in Good
  PROVE  \A s \in Seq(X) : s \in Good
  <1> SUFFICES ASSUME NEW s \in Seq(X) PROVE s \in Good
    OBVIOUS
  <1> DEFINE Start(n) == [i \in 1 .. n |-> s[i]]
             Long == {n \in Nat : n <= Len(s) => Start(n) \in Good}
  <1>0. Len(s) \in Nat /\ s = Start(Len(s))
    OBVIOUS
  <1>1. 0 \in Long
    <2>1. Start(0) = <<>>
      OBVIOUS
    <2> QED BY <2>1
  <1>2. ASSUME NEW n \in 1 .. Len(s), n - 1 \in Long PROVE n \in Long
    <2>1. n \in Nat /\ n - 1 \in Nat /\ n - 1 <= Len(s) /\ s[n] \in X
      BY <1>0
    <2>2. Start(n - 1) \in Good
      BY <1>2, <2>1
    <2>3. Start(n - 1) \in Seq(X)
      BY <1>0, <2>1
    <2>4. Start(n) = Append(Start(n - 1), s[n])
      BY <1>0, <2>1, <2>3
    <2>5. Start(n) \in Good
      <3> HIDE DEF Start
      <3> QED BY <2>1, <2>2, <2>3, <2>4
    <2> QED BY <2>1, <2>5
  <1>3. Len(s) \in Long
    <2>1. Len(s) \in 0 .. Len(s)
      BY <1>0
    <2> HIDE DEF Long
    <2> QED BY <1>0, <1>1, <1>2, <2>1, Upwards
  <1> QED BY <1>0, <1>3

-----------------------------------------------------------------------------
(* Going through a sequence and accumulating a value                       *)

Accumulates(f, s, from, step) ==
  /\ DOMAIN f = 0 .. Len(s)
  /\ f[0] = from
  /\ \A n \in 1 .. Len(s) : f[n] = step[<<f[n - 1], s[n]>>]

LEMMA Accumulated ==
  ASSUME NEW X, NEW T, NEW s \in Seq(X), NEW from \in T,
         NEW step \in [T \X X -> T]
  PROVE  \E f \in [0 .. Len(s) -> T] : Accumulates(f, s, from, step)
  <1> DEFINE Good == {r \in Seq(X) :
               \E f \in [0 .. Len(r) -> T] : Accumulates(f, r, from, step)}
  <1>1. <<>> \in Good
    <2>1. [n \in 0 .. 0 |-> from] \in [0 .. 0 -> T]
      OBVIOUS
    <2>2. Accumulates([n \in 0 .. 0 |-> from], <<>>, from, step)
      BY DEF Accumulates
    <2> QED BY <2>1, <2>2
  <1>2. ASSUME NEW r \in Seq(X), NEW x \in X, r \in Good PROVE Append(r, x) \in Good
    <2>1. PICK f \in [0 .. Len(r) -> T] : Accumulates(f, r, from, step)
      BY <1>2
    <2> DEFINE m == Len(r) + 1
               t == Append(r, x)
               g == [n \in 0 .. m |-> IF n = m THEN step[<<f[Len(r)], x>>] ELSE f[n]]
    <2>2. /\ t \in Seq(X) /\ Len(t) = m /\ t[m] = x /\ Len(r) \in Nat
          /\ \A n \in 1 .. Len(r) : t[n] = r[n]
      OBVIOUS
    <2> HIDE DEF t
    <2>3. step[<<f[Len(r)], x>>] \in T
      <3>1. Len(r) \in 0 .. Len(r)
        BY <2>2
      <3>2. f[Len(r)] \in T
        BY <3>1
      <3> QED BY <3>2
    <2>4. g \in [0 .. m -> T]
      BY <2>2, <2>3
    <2>5. g[0] = from
      BY <2>1, <2>2 DEF Accumulates
    <2>6. ASSUME NEW n \in 1 .. m PROVE g[n] = step[<<g[n - 1], t[n]>>]
      <3>1. CASE n = m
        <4>1. /\ m \in 0 .. m /\ Len(r) \in 0 .. m /\ Len(r) # m /\ m - 1 = Len(r)
          BY <2>2
        <4>2. g[m] = step[<<f[Len(r)], x>>] /\ g[Len(r)] = f[Len(r)]
          BY <4>1
        <4> HIDE DEF g
        <4> QED BY <3>1, <4>1, <4>2, <2>2
      <3>2. CASE n \in 1 .. Len(r)
        <4>1. f[n] = step[<<f[n - 1], r[n]>>]
          BY <2>1, <3>2 DEF Accumulates
        <4>2. g[n] = f[n] /\ g[n - 1] = f[n - 1]
          BY <2>2, <3>2
        <4> QED BY <4>1, <4>2, <2>2, <3>2
      <3> QED BY <3>1, <3>2, <2>2
    <2>7. Accumulates(g, t, from, step)
      <3> HIDE DEF g
      <3>1. DOMAIN g = 0 .. m
        BY <2>4
      <3> QED BY <3>1, <2>2, <2>5, <2>6 DEF Accumulates
    <2>8. t \in Good
      <3> HIDE DEF g
      <3> QED BY <2>2, <2>4, <2>7
    <2> QED BY <2>8 DEF t
  <1>3. s \in Good
    <2> HIDE DEF Good
    <2> QED BY <1>1, <1>2, ByAppending
  <1> QED BY <1>3

(* The last value does not depend on which function it is taken from.      *)
LEMMA AccumulatedOnce ==
  ASSUME NEW s, NEW r, NEW from, NEW step, NEW f, NEW g,
         Len(s) \in Nat, Len(r) \in Nat, Len(s) <= Len(r),
         \A n \in 1 .. Len(s) : r[n] = s[n],
         Accumulates(f, s, from, step), Accumulates(g, r, from, step)
  PROVE  f[Len(s)] = g[Len(s)]
  <1> DEFINE Good == {n \in Nat : f[n] = g[n]}
  <1>1. 0 \in Good
    BY DEF Accumulates
  <1>2. ASSUME NEW n \in 1 .. Len(s), n - 1 \in Good PROVE n \in Good
    <2>1. n \in 1 .. Len(r) /\ n \in Nat /\ r[n] = s[n]
      OBVIOUS
    <2>2. f[n] = step[<<f[n - 1], s[n]>>] /\ g[n] = step[<<g[n - 1], r[n]>>]
      BY <2>1 DEF Accumulates
    <2> QED BY <1>2, <2>1, <2>2
  <1>3. Len(s) \in Good
    <2>1. Len(s) \in 0 .. Len(s)
      OBVIOUS
    <2> HIDE DEF Good
    <2> QED BY <1>1, <1>2, <2>1, Upwards
  <1> QED BY <1>3

-----------------------------------------------------------------------------
(* What Samples and Joined make of a sequence                              *)

KeepOne == [p \in Seq(Nat) \X Nat |-> IF p[2] = 0 THEN p[1] ELSE Append(p[1], p[2])]

LEMMA SamplesOf ==
  ASSUME NEW s \in Seq(Nat)
  PROVE  \E f \in [0 .. Len(s) -> Seq(Nat)] :
           Accumulates(f, s, <<>>, KeepOne) /\ Samples(s) = f[Len(s)]
  <1> DEFINE Kept(f) == f = [n \in 0 .. Len(s) |->
               IF n = 0 THEN <<>>
               ELSE IF s[n] = 0 THEN f[n - 1] ELSE Append(f[n - 1], s[n])]
             f == CHOOSE f : Kept(f)
  <1>1. KeepOne \in [Seq(Nat) \X Nat -> Seq(Nat)]
    BY DEF KeepOne
  <1>2. Kept(f)
    <2>1. PICK g \in [0 .. Len(s) -> Seq(Nat)] : Accumulates(g, s, <<>>, KeepOne)
      <3>1. <<>> \in Seq(Nat)
        OBVIOUS
      <3> QED BY <1>1, <3>1, Accumulated
    <2>2. ASSUME NEW n \in 1 .. Len(s)
          PROVE  g[n] = IF s[n] = 0 THEN g[n - 1] ELSE Append(g[n - 1], s[n])
      <3>1. <<g[n - 1], s[n]>> \in Seq(Nat) \X Nat
        <4>1. n - 1 \in 0 .. Len(s) /\ s[n] \in Nat
          OBVIOUS
        <4>2. g[n - 1] \in Seq(Nat)
          BY <4>1
        <4> QED BY <4>1, <4>2
      <3>2. g[n] = KeepOne[<<g[n - 1], s[n]>>]
        BY <2>1 DEF Accumulates
      <3> QED BY <3>1, <3>2 DEF KeepOne
    <2>3. g[0] = <<>> /\ g = [n \in 0 .. Len(s) |-> g[n]]
      BY <2>1 DEF Accumulates
    <2>4. \A n \in 0 .. Len(s) : n = 0 \/ n \in 1 .. Len(s)
      OBVIOUS
    <2>5. Kept(g)
      BY <2>2, <2>3, <2>4
    <2> HIDE DEF Kept
    <2> QED BY <2>5
  <1> HIDE DEF f
  <1>3. /\ DOMAIN f = 0 .. Len(s) /\ f[0] = <<>>
        /\ \A n \in 1 .. Len(s) : f[n] = IF s[n] = 0 THEN f[n - 1] ELSE Append(f[n - 1], s[n])
    <2>1. 0 \in 0 .. Len(s) /\ \A n \in 1 .. Len(s) : n \in 0 .. Len(s) /\ n # 0
      OBVIOUS
    <2> QED BY <1>2, <2>1
  <1>4. \A n \in 0 .. Len(s) : f[n] \in Seq(Nat)
    <2> DEFINE Good == {n \in Nat : f[n] \in Seq(Nat)}
    <2>1. 0 \in Good
      <3>1. <<>> \in Seq(Nat)
        OBVIOUS
      <3> QED BY <1>3, <3>1
    <2>2. ASSUME NEW n \in 1 .. Len(s), n - 1 \in Good PROVE n \in Good
      <3>1. s[n] \in Nat /\ n \in Nat /\ f[n - 1] \in Seq(Nat)
        BY <2>2
      <3>2. Append(f[n - 1], s[n]) \in Seq(Nat)
        BY <3>1
      <3>3. f[n] \in Seq(Nat)
        BY <1>3, <3>1, <3>2
      <3> QED BY <3>1, <3>3
    <2>3. Len(s) \in Nat
      OBVIOUS
    <2>4. \A n \in 0 .. Len(s) : n \in Good
      <3> HIDE DEF Good
      <3> QED BY <2>1, <2>2, <2>3, Upwards
    <2> QED BY <2>4
  <1>5. Accumulates(f, s, <<>>, KeepOne)
    <2>1. ASSUME NEW n \in 1 .. Len(s) PROVE f[n] = KeepOne[<<f[n - 1], s[n]>>]
      <3>1. <<f[n - 1], s[n]>> \in Seq(Nat) \X Nat
        BY <1>4
      <3> QED BY <1>3, <3>1 DEF KeepOne
    <2> QED BY <1>3, <2>1 DEF Accumulates
  <1>6. Samples(s) = f[Len(s)]
    BY DEF Samples, f
  <1>7. f \in [0 .. Len(s) -> Seq(Nat)]
    <2>1. \E D, g : f = [n \in D |-> g[n]]
      BY <1>2
    <2> QED BY <1>3, <1>4, <2>1
  <1> QED BY <1>5, <1>6, <1>7

LEMMA SamplesTyped == ASSUME NEW s \in Seq(Nat) PROVE Samples(s) \in Seq(Nat)
  <1>1. Len(s) \in 0 .. Len(s)
    OBVIOUS
  <1> QED BY <1>1, SamplesOf

LEMMA SamplesEmpty == Samples(<<>>) = <<>>
  <1>1. <<>> \in Seq(Nat) /\ Len(<<>>) = 0
    OBVIOUS
  <1> QED BY <1>1, SamplesOf DEF Accumulates

LEMMA SamplesAppend ==
  ASSUME NEW s \in Seq(Nat), NEW x \in Nat
  PROVE  Samples(Append(s, x)) = IF x = 0 THEN Samples(s) ELSE Append(Samples(s), x)
  <1> DEFINE r == Append(s, x)
  <1>1. /\ r \in Seq(Nat) /\ Len(r) = Len(s) + 1 /\ r[Len(r)] = x /\ Len(s) \in Nat
        /\ \A n \in 1 .. Len(s) : r[n] = s[n]
    OBVIOUS
  <1> HIDE DEF r
  <1>2. PICK f \in [0 .. Len(s) -> Seq(Nat)] :
          Accumulates(f, s, <<>>, KeepOne) /\ Samples(s) = f[Len(s)]
    BY SamplesOf
  <1>3. PICK g \in [0 .. Len(r) -> Seq(Nat)] :
          Accumulates(g, r, <<>>, KeepOne) /\ Samples(r) = g[Len(r)]
    BY <1>1, SamplesOf
  <1>4. f[Len(s)] = g[Len(s)]
    BY <1>1, <1>2, <1>3, AccumulatedOnce
  <1>5. g[Len(r)] = KeepOne[<<g[Len(s)], x>>]
    <2>1. Len(r) \in 1 .. Len(r) /\ Len(r) - 1 = Len(s)
      BY <1>1
    <2> QED BY <1>1, <1>3, <2>1 DEF Accumulates
  <1>6. <<Samples(s), x>> \in Seq(Nat) \X Nat
    BY SamplesTyped
  <1>7. KeepOne[<<Samples(s), x>>] = IF x = 0 THEN Samples(s) ELSE Append(Samples(s), x)
    BY <1>6 DEF KeepOne
  <1> QED BY <1>2, <1>3, <1>4, <1>5, <1>7 DEF r

LEMMA SamplesConcat ==
  ASSUME NEW s \in Seq(Nat), NEW t \in Seq(Nat)
  PROVE  Samples(s \o t) = Samples(s) \o Samples(t)
  <1> DEFINE Good == {r \in Seq(Nat) : Samples(s \o r) = Samples(s) \o Samples(r)}
  <1>0. Samples(s) \in Seq(Nat)
    BY SamplesTyped
  <1>1. <<>> \in Good
    <2>1. s \o <<>> = s /\ Samples(s) \o <<>> = Samples(s) /\ <<>> \in Seq(Nat)
      BY <1>0
    <2> QED BY <2>1, SamplesEmpty
  <1>2. ASSUME NEW r \in Seq(Nat), NEW x \in Nat, r \in Good PROVE Append(r, x) \in Good
    <2>1. /\ Append(r, x) \in Seq(Nat) /\ s \o r \in Seq(Nat) /\ Samples(r) \in Seq(Nat)
          /\ s \o Append(r, x) = Append(s \o r, x)
      BY SamplesTyped
    <2>2. Samples(s) \o Append(Samples(r), x) = Append(Samples(s) \o Samples(r), x)
      BY <1>0, <2>1
    <2>3. Samples(s \o r) = Samples(s) \o Samples(r)
      BY <1>2
    <2>4. CASE x = 0
      <3>1. Samples(Append(s \o r, x)) = Samples(s \o r) /\ Samples(Append(r, x)) = Samples(r)
        BY <2>1, <2>4, SamplesAppend
      <3> QED BY <2>1, <2>3, <3>1
    <2>5. CASE x # 0
      <3>1. /\ Samples(Append(s \o r, x)) = Append(Samples(s \o r), x)
            /\ Samples(Append(r, x)) = Append(Samples(r), x)
        BY <2>1, <2>5, SamplesAppend
      <3> QED BY <2>1, <2>2, <2>3, <3>1
    <2> QED BY <2>4, <2>5
  <1>3. t \in Good
    <2> HIDE DEF Good
    <2> QED BY <1>1, <1>2, ByAppending
  <1> QED BY <1>3

(* Nothing is left of silence, and all of what is not.                     *)
LEMMA SamplesSilent ==
  ASSUME NEW s \in Seq(Nat), \A i \in 1 .. Len(s) : s[i] = 0
  PROVE  Samples(s) = <<>>
  <1> DEFINE Good == {r \in Seq(Nat) : (\A i \in 1 .. Len(r) : r[i] = 0) => Samples(r) = <<>>}
  <1>1. <<>> \in Good
    BY SamplesEmpty
  <1>2. ASSUME NEW r \in Seq(Nat), NEW x \in Nat, r \in Good PROVE Append(r, x) \in Good
    <2>1. /\ Append(r, x) \in Seq(Nat) /\ Len(r) \in Nat /\ Len(Append(r, x)) = Len(r) + 1
          /\ Append(r, x)[Len(r) + 1] = x /\ Len(r) + 1 \in 1 .. Len(r) + 1
          /\ \A i \in 1 .. Len(r) : Append(r, x)[i] = r[i] /\ i \in 1 .. Len(r) + 1
      OBVIOUS
    <2>2. ASSUME \A i \in 1 .. Len(r) + 1 : Append(r, x)[i] = 0
          PROVE  Samples(Append(r, x)) = <<>>
      <3>1. x = 0 /\ \A i \in 1 .. Len(r) : r[i] = 0
        BY <2>1, <2>2
      <3> QED BY <1>2, <3>1, SamplesAppend
    <2> QED BY <2>1, <2>2
  <1>3. s \in Good
    <2> HIDE DEF Good
    <2> QED BY <1>1, <1>2, ByAppending
  <1> QED BY <1>3

LEMMA SamplesLoud ==
  ASSUME NEW s \in Seq(Nat), \A i \in 1 .. Len(s) : s[i] # 0
  PROVE  Samples(s) = s
  <1> DEFINE Good == {r \in Seq(Nat) : (\A i \in 1 .. Len(r) : r[i] # 0) => Samples(r) = r}
  <1>1. <<>> \in Good
    BY SamplesEmpty
  <1>2. ASSUME NEW r \in Seq(Nat), NEW x \in Nat, r \in Good PROVE Append(r, x) \in Good
    <2>1. /\ Append(r, x) \in Seq(Nat) /\ Len(r) \in Nat /\ Len(Append(r, x)) = Len(r) + 1
          /\ Append(r, x)[Len(r) + 1] = x /\ Len(r) + 1 \in 1 .. Len(r) + 1
          /\ \A i \in 1 .. Len(r) : Append(r, x)[i] = r[i] /\ i \in 1 .. Len(r) + 1
      OBVIOUS
    <2>2. ASSUME \A i \in 1 .. Len(r) + 1 : Append(r, x)[i] # 0
          PROVE  Samples(Append(r, x)) = Append(r, x)
      <3>1. x # 0 /\ \A i \in 1 .. Len(r) : r[i] # 0
        BY <2>1, <2>2
      <3> QED BY <1>2, <3>1, SamplesAppend
    <2> QED BY <2>1, <2>2
  <1>3. s \in Good
    <2> HIDE DEF Good
    <2> QED BY <1>1, <1>2, ByAppending
  <1> QED BY <1>3

JoinOne(d) == [p \in Seq(Nat) \X DOMAIN d |-> p[1] \o d[p[2]]]

LEMMA JoinedOf ==
  ASSUME NEW X, NEW d \in [X -> Seq(Nat)], NEW q \in Seq(X)
  PROVE  \E f \in [0 .. Len(q) -> Seq(Nat)] :
           Accumulates(f, q, <<>>, JoinOne(d)) /\ Joined(q, d) = f[Len(q)]
  <1> DEFINE Together(f) == f = [n \in 0 .. Len(q) |->
               IF n = 0 THEN <<>> ELSE f[n - 1] \o d[q[n]]]
             f == CHOOSE f : Together(f)
  <1>0. \A n \in 1 .. Len(q) : q[n] \in X /\ d[q[n]] \in Seq(Nat)
    OBVIOUS
  <1>1. JoinOne(d) \in [Seq(Nat) \X X -> Seq(Nat)]
    BY DEF JoinOne
  <1>a. ASSUME NEW r \in Seq(Nat), NEW x \in X PROVE JoinOne(d)[<<r, x>>] = r \o d[x]
    <2>1. <<r, x>> \in Seq(Nat) \X DOMAIN d
      OBVIOUS
    <2> QED BY <2>1 DEF JoinOne
  <1>2. Together(f)
    <2>1. PICK g \in [0 .. Len(q) -> Seq(Nat)] : Accumulates(g, q, <<>>, JoinOne(d))
      <3>1. <<>> \in Seq(Nat)
        OBVIOUS
      <3> QED BY <1>1, <3>1, Accumulated
    <2>2. ASSUME NEW n \in 1 .. Len(q)
          PROVE  g[n] = g[n - 1] \o d[q[n]]
      <3>1. n - 1 \in 0 .. Len(q)
        OBVIOUS
      <3>2. g[n - 1] \in Seq(Nat)
        BY <3>1
      <3>3. g[n] = JoinOne(d)[<<g[n - 1], q[n]>>]
        BY <2>1 DEF Accumulates
      <3> QED BY <1>0, <1>a, <3>2, <3>3
    <2>3. g[0] = <<>> /\ g = [n \in 0 .. Len(q) |-> g[n]]
      BY <2>1 DEF Accumulates
    <2>4. \A n \in 0 .. Len(q) : n = 0 \/ n \in 1 .. Len(q)
      OBVIOUS
    <2>5. Together(g)
      BY <2>2, <2>3, <2>4
    <2> HIDE DEF Together
    <2> QED BY <2>5
  <1> HIDE DEF f
  <1>3. /\ DOMAIN f = 0 .. Len(q) /\ f[0] = <<>>
        /\ \A n \in 1 .. Len(q) : f[n] = f[n - 1] \o d[q[n]]
    <2>1. 0 \in 0 .. Len(q) /\ \A n \in 1 .. Len(q) : n \in 0 .. Len(q) /\ n # 0
      OBVIOUS
    <2> QED BY <1>2, <2>1
  <1>4. \A n \in 0 .. Len(q) : f[n] \in Seq(Nat)
    <2> DEFINE Good == {n \in Nat : f[n] \in Seq(Nat)}
    <2>1. 0 \in Good
      <3>1. <<>> \in Seq(Nat)
        OBVIOUS
      <3> QED BY <1>3, <3>1
    <2>2. ASSUME NEW n \in 1 .. Len(q), n - 1 \in Good PROVE n \in Good
      <3>1. n \in Nat /\ f[n - 1] \in Seq(Nat)
        BY <2>2
      <3>2. f[n - 1] \o d[q[n]] \in Seq(Nat)
        BY <1>0, <3>1
      <3>3. f[n] \in Seq(Nat)
        BY <1>3, <3>2
      <3> QED BY <3>1, <3>3
    <2>3. Len(q) \in Nat
      OBVIOUS
    <2>4. \A n \in 0 .. Len(q) : n \in Good
      <3> HIDE DEF Good
      <3> QED BY <2>1, <2>2, <2>3, Upwards
    <2> QED BY <2>4
  <1>5. Accumulates(f, q, <<>>, JoinOne(d))
    <2>1. ASSUME NEW n \in 1 .. Len(q) PROVE f[n] = JoinOne(d)[<<f[n - 1], q[n]>>]
      <3>1. n - 1 \in 0 .. Len(q)
        OBVIOUS
      <3> QED BY <1>0, <1>3, <1>4, <1>a, <3>1
    <2> QED BY <1>3, <2>1 DEF Accumulates
  <1>6. Joined(q, d) = f[Len(q)]
    BY DEF Joined, f
  <1>7. f \in [0 .. Len(q) -> Seq(Nat)]
    <2>1. \E D, g : f = [n \in D |-> g[n]]
      BY <1>2
    <2> QED BY <1>3, <1>4, <2>1
  <1> QED BY <1>5, <1>6, <1>7

LEMMA JoinedTyped ==
  ASSUME NEW X, NEW d \in [X -> Seq(Nat)], NEW q \in Seq(X)
  PROVE  Joined(q, d) \in Seq(Nat)
  <1>1. Len(q) \in 0 .. Len(q)
    OBVIOUS
  <1> QED BY <1>1, JoinedOf

LEMMA JoinedEmpty ==
  ASSUME NEW X, NEW d \in [X -> Seq(Nat)] PROVE Joined(<<>>, d) = <<>>
  <1>1. <<>> \in Seq(X) /\ Len(<<>>) = 0
    OBVIOUS
  <1>2. PICK f : Accumulates(f, <<>>, <<>>, JoinOne(d)) /\ Joined(<<>>, d) = f[0]
    <2> HIDE DEF Accumulates
    <2> QED BY <1>1, JoinedOf
  <1> QED BY <1>2 DEF Accumulates

LEMMA JoinedAppend ==
  ASSUME NEW X, NEW d \in [X -> Seq(Nat)], NEW q \in Seq(X), NEW x \in X
  PROVE  Joined(Append(q, x), d) = Joined(q, d) \o d[x]
  <1> DEFINE r == Append(q, x)
  <1>1. /\ r \in Seq(X) /\ Len(r) = Len(q) + 1 /\ r[Len(r)] = x /\ Len(q) \in Nat
        /\ \A n \in 1 .. Len(q) : r[n] = q[n]
    OBVIOUS
  <1> HIDE DEF r
  <1>2. PICK f :
          Accumulates(f, q, <<>>, JoinOne(d)) /\ Joined(q, d) = f[Len(q)]
    BY JoinedOf
  <1>3. PICK g :
          Accumulates(g, r, <<>>, JoinOne(d)) /\ Joined(r, d) = g[Len(r)]
    BY <1>1, JoinedOf
  <1>4. f[Len(q)] = g[Len(q)]
    <2>1. /\ Len(q) <= Len(r) /\ Len(r) \in Nat /\ Len(q) \in Nat
          /\ \A n \in 1 .. Len(q) : r[n] = q[n]
      BY <1>1
    <2>0. PICK step : step = JoinOne(d)
      OBVIOUS
    <2>2. Accumulates(f, q, <<>>, step) /\ Accumulates(g, r, <<>>, step)
      BY <1>2, <1>3, <2>0
    <2> QED BY <2>1, <2>2, AccumulatedOnce
  <1>5. g[Len(r)] = JoinOne(d)[<<g[Len(q)], x>>]
    <2>1. Len(r) \in 1 .. Len(r) /\ Len(r) - 1 = Len(q)
      BY <1>1
    <2> QED BY <1>1, <1>3, <2>1 DEF Accumulates
  <1>6. <<Joined(q, d), x>> \in Seq(Nat) \X DOMAIN d
    BY JoinedTyped
  <1>7. JoinOne(d)[<<Joined(q, d), x>>] = Joined(q, d) \o d[x]
    BY <1>6 DEF JoinOne
  <1> QED BY <1>2, <1>3, <1>4, <1>5, <1>7 DEF r

LEMMA ConcatAgain ==
  ASSUME NEW s \in Seq(Nat), NEW t \in Seq(Nat), NEW u \in Seq(Nat)
  PROVE  (s \o t) \o u = s \o (t \o u)
  BY ConcatAssociative

LEMMA JoinedTail ==
  ASSUME NEW X, NEW d \in [X -> Seq(Nat)], NEW q \in Seq(X), q # <<>>
  PROVE  Joined(q, d) = d[Head(q)] \o Joined(Tail(q), d)
  <1> DEFINE Good == {r \in Seq(X) : r # <<>> => Joined(r, d) = d[Head(r)] \o Joined(Tail(r), d)}
  <1>1. <<>> \in Good
    OBVIOUS
  <1>2. ASSUME NEW r \in Seq(X), NEW x \in X, r \in Good PROVE Append(r, x) \in Good
    <2>1. Joined(Append(r, x), d) = Joined(r, d) \o d[x] /\ d[x] \in Seq(Nat)
      BY JoinedAppend
    <2>2. CASE r = <<>>
      <3>1. Head(Append(r, x)) = x /\ Tail(Append(r, x)) = <<>>
        BY <2>2
      <3>2. Joined(r, d) = <<>> /\ Joined(Tail(Append(r, x)), d) = <<>>
        BY <2>2, <3>1, JoinedEmpty
      <3>3. <<>> \o d[x] = d[x] /\ d[x] \o <<>> = d[x]
        BY <2>1
      <3>4. Append(r, x) \in Seq(X)
        OBVIOUS
      <3> QED BY <2>1, <3>1, <3>2, <3>3, <3>4
    <2>3. CASE r # <<>>
      <3>1. /\ Head(Append(r, x)) = Head(r) /\ Head(r) \in X /\ Tail(r) \in Seq(X)
            /\ Tail(Append(r, x)) = Append(Tail(r), x) /\ Append(r, x) \in Seq(X)
        BY <2>3
      <3>2. Joined(r, d) = d[Head(r)] \o Joined(Tail(r), d)
        BY <1>2, <2>3
      <3>3. Joined(Append(Tail(r), x), d) = Joined(Tail(r), d) \o d[x]
        BY <3>1, JoinedAppend
      <3>4. d[Head(r)] \in Seq(Nat) /\ Joined(Tail(r), d) \in Seq(Nat)
        BY <3>1, JoinedTyped
      <3>5. (d[Head(r)] \o Joined(Tail(r), d)) \o d[x] = d[Head(r)] \o (Joined(Tail(r), d) \o d[x])
        BY <2>1, <3>4, ConcatAgain
      <3> QED BY <2>1, <3>1, <3>2, <3>3, <3>5
    <2> QED BY <2>2, <2>3
  <1>3. q \in Good
    <2> HIDE DEF Good
    <2> QED BY <1>1, <1>2, ByAppending
  <1> QED BY <1>3

(* Buffers that are not queued do not matter.                              *)
LEMMA JoinedAgree ==
  ASSUME NEW X, NEW d \in [X -> Seq(Nat)], NEW e \in [X -> Seq(Nat)], NEW q \in Seq(X),
         \A i \in 1 .. Len(q) : d[q[i]] = e[q[i]]
  PROVE  Joined(q, d) = Joined(q, e)
  <1> DEFINE Good == {r \in Seq(X) :
               (\A i \in 1 .. Len(r) : d[r[i]] = e[r[i]]) => Joined(r, d) = Joined(r, e)}
  <1>1. <<>> \in Good
    BY JoinedEmpty
  <1>2. ASSUME NEW r \in Seq(X), NEW x \in X, r \in Good PROVE Append(r, x) \in Good
    <2>1. /\ Append(r, x) \in Seq(X) /\ Len(r) \in Nat /\ Len(Append(r, x)) = Len(r) + 1
          /\ Append(r, x)[Len(r) + 1] = x /\ Len(r) + 1 \in 1 .. Len(r) + 1
          /\ \A i \in 1 .. Len(r) : Append(r, x)[i] = r[i] /\ i \in 1 .. Len(r) + 1
      OBVIOUS
    <2>2. ASSUME \A i \in 1 .. Len(r) + 1 : d[Append(r, x)[i]] = e[Append(r, x)[i]]
          PROVE  Joined(Append(r, x), d) = Joined(Append(r, x), e)
      <3>1. d[x] = e[x]
        BY <2>1, <2>2
      <3>a. ASSUME NEW i \in 1 .. Len(r) PROVE d[r[i]] = e[r[i]]
        BY <2>1, <2>2
      <3>2. Joined(r, d) = Joined(r, e)
        BY <1>2, <3>a
      <3>3. Joined(Append(r, x), d) = Joined(r, d) \o d[x]
        BY JoinedAppend
      <3>4. Joined(Append(r, x), e) = Joined(r, e) \o e[x]
        BY JoinedAppend
      <3> QED BY <3>1, <3>2, <3>3, <3>4
    <2> QED BY <2>1, <2>2
  <1>3. q \in Good
    <2> HIDE DEF Good
    <2> QED BY <1>1, <1>2, ByAppending
  <1> QED BY <1>3

(* Outside of a callback nothing of a buffer is filled, and what is given  *)
(* to the device is a full buffer or silence.                              *)
Filling ==
  /\ apc \notin {"callback", "sleep", "unlock", "play"} => filled = 0
  /\ apc \in {"test", "lock"} => data[next_buffer] = Silence(Chunk)
  /\ apc = "unlock" => filled = Chunk
  /\ apc = "play" =>
       filled = Chunk \/ (filled = 0 /\ data[next_buffer] = Silence(Chunk))

LEMMA FillingStep == IInv /\ Filling /\ [Next]_vars => Filling'
  <1> SUFFICES ASSUME IInv, Filling, [Next]_vars PROVE Filling'
    OBVIOUS
  <1> USE AudioOutputAssumption DEF Filling
  <1>0. data \in [Buffers -> [1 .. Chunk -> Nat]] /\ next_buffer \in Buffers
    BY DEF IInv, TypeOK
  <1>1. CASE UNCHANGED vars
    BY <1>1 DEF vars, flags, device, player
  <1>2. CASE OpenAudio
    <2>1. apc = "none" /\ apc' = "none" /\ filled' = 0
      BY <1>2 DEF OpenAudio, M, IInv, Alive
    <2> QED BY <2>1
  <1>3. CASE Main /\ ~OpenAudio
    <2>1. UNCHANGED <<data, next_buffer, filled>>
      BY <1>3 DEF Main, CreateThread, OpenFails, SetThread, PauseAudio, LockAudio, UnlockAudio,
         CloseAudio, Disable, WaitThread, DestroyLock, CloseDevice, M, device, player, flags
    <2>2. CASE UNCHANGED apc
      BY <2>1, <2>2
    <2>3. CASE CreateThread
      BY <2>1, <2>3 DEF CreateThread, M, IInv, Alive
    <2>4. CASE WaitThread
      BY <2>1, <2>4 DEF WaitThread, M, IInv, Alive
    <2> QED
      BY <1>3, <2>2, <2>3, <2>4 DEF Main, OpenFails, SetThread, PauseAudio, LockAudio, UnlockAudio,
         CloseAudio, Disable, DestroyLock, CloseDevice, M, device, player, flags
  <1>4. CASE GetBuf
    BY <1>0, <1>4 DEF GetBuf, A
  <1>5. CASE TestPaused
    BY <1>5 DEF TestPaused
  <1>6. CASE PlayAudio
    BY <1>6 DEF PlayAudio, A
  <1>7. CASE (\E n \in FrameSizes : Decode(n)) \/ SleepForPacket \/ Copy
    BY <1>7 DEF Decode, SleepForPacket, NeedsFrame, Copy, InCallback
  <1>8. CASE CallbackReturns
    BY <1>8 DEF CallbackReturns, A
  <1>9. CASE Enter \/ Leave \/ LockMixer \/ UnlockMixer \/ WaitAudio \/ WaitDone
    BY <1>9 DEF Enter, Leave, LockMixer, UnlockMixer, WaitAudio, WaitDone, A
  <1>10. CASE Device
    BY <1>10 DEF Device, BufferDone, FillSound
  <1>11. CASE PutPacket
    BY <1>11 DEF PutPacket
  <1> QED
    BY <1>1, <1>2, <1>3, <1>4, <1>5, <1>6, <1>7, <1>8, <1>9, <1>10, <1>11 DEF Next, RunAudio, Callback

-----------------------------------------------------------------------------
(* The three parts of flow                                                 *)
Filled(d, b, n) == SubSeq(d[b], 1, n)
Left(buf, n) == SubSeq(buf, n + 1, Len(buf))

LEMMA PartsTyped ==
  ASSUME NEW d \in [Buffers -> [1 .. Chunk -> Nat]],
         NEW buf \in Seq(Nat), NEW i \in 0 .. Len(buf)
  PROVE  /\ d \in [Buffers -> Seq(Nat)]
         /\ \A b \in Buffers : Len(d[b]) = Chunk /\ DOMAIN d[b] = 1 .. Chunk
         /\ \A b \in Buffers, n \in 0 .. Chunk : Filled(d, b, n) \in Seq(Nat)
         /\ Left(buf, i) \in Seq(Nat)
  <1> USE AudioOutputAssumption
  <1>1. Chunk \in Nat
    OBVIOUS
  <1>2. \A b \in Buffers : d[b] \in [1 .. Chunk -> Nat]
    OBVIOUS
  <1>3. \A b \in Buffers : d[b] \in Seq(Nat) /\ Len(d[b]) = Chunk /\ DOMAIN d[b] = 1 .. Chunk
    BY <1>1, <1>2
  <1>4. d \in [Buffers -> Seq(Nat)]
    BY <1>3
  <1>5. ASSUME NEW b \in Buffers, NEW n \in 0 .. Chunk PROVE Filled(d, b, n) \in Seq(Nat)
    BY <1>1, <1>3 DEF Filled
  <1>7. Left(buf, i) \in Seq(Nat)
    BY DEF Left
  <1> QED BY <1>3, <1>4, <1>5, <1>7

LEMMA NothingFilled ==
  ASSUME NEW s \in Seq(Nat) PROVE SubSeq(s, 1, 0) = <<>>
  OBVIOUS

LEMMA SilenceTyped ==
  ASSUME NEW n \in Nat
  PROVE  Silence(n) \in Seq(Nat) /\ Len(Silence(n)) = n /\ Samples(Silence(n)) = <<>>
  <1>1. Silence(n) \in Seq(Nat) /\ Len(Silence(n)) = n /\ \A i \in 1 .. n : Silence(n)[i] = 0
    BY DEF Silence
  <1> QED BY <1>1, SamplesSilent

(* Concatenation, kept folded.                                             *)
Cat(s, t) == s \o t

LEMMA CatTyped ==
  ASSUME NEW s \in Seq(Nat), NEW t \in Seq(Nat) PROVE Cat(s, t) \in Seq(Nat)
  BY DEF Cat

LEMMA CatAgain ==
  ASSUME NEW s \in Seq(Nat), NEW t \in Seq(Nat), NEW u \in Seq(Nat)
  PROVE  Cat(Cat(s, t), u) = Cat(s, Cat(t, u))
  BY ConcatAgain DEF Cat

LEMMA CatEmpty ==
  ASSUME NEW s \in Seq(Nat) PROVE Cat(s, <<>>) = s /\ Cat(<<>>, s) = s
  BY DEF Cat

LEMMA SamplesCat ==
  ASSUME NEW s \in Seq(Nat), NEW t \in Seq(Nat)
  PROVE  Samples(Cat(s, t)) = Cat(Samples(s), Samples(t))
  BY SamplesConcat DEF Cat

Begun == Filled(data, next_buffer, filled)
Rest == Left(audio_buf, audio_buf_index)
Sounding == Samples(Joined(queue, data))

InParts ==
  /\ flow = Cat(Cat(Sounding, Samples(Begun)), Samples(Rest))
  /\ Sounding \in Seq(Nat) /\ Samples(Begun) \in Seq(Nat) /\ Samples(Rest) \in Seq(Nat)
  /\ queue \in Seq(Buffers) /\ data \in [Buffers -> Seq(Nat)]
  /\ Begun \in Seq(Nat) /\ Rest \in Seq(Nat)

LEMMA Parts == TypeOK => InParts
  <1> SUFFICES ASSUME TypeOK PROVE InParts
    OBVIOUS
  <1>1. /\ queue \in Seq(Buffers) /\ data \in [Buffers -> Seq(Nat)]
        /\ Begun \in Seq(Nat) /\ Rest \in Seq(Nat)
    BY PartsTyped DEF TypeOK, Begun, Rest
  <1>2. flow = Samples(Cat(Cat(Joined(queue, data), Begun), Rest))
    BY DEF flow, Begun, Rest, Filled, Left, Cat
  <1>3. Joined(queue, data) \in Seq(Nat)
    BY <1>1, JoinedTyped
  <1>4. Cat(Joined(queue, data), Begun) \in Seq(Nat)
    BY <1>1, <1>3, CatTyped
  <1>5. flow = Cat(Cat(Sounding, Samples(Begun)), Samples(Rest))
    BY <1>1, <1>2, <1>3, <1>4, SamplesCat DEF Sounding
  <1>6. Sounding \in Seq(Nat) /\ Samples(Begun) \in Seq(Nat) /\ Samples(Rest) \in Seq(Nat)
    BY <1>1, <1>3, SamplesTyped DEF Sounding
  <1> QED BY <1>1, <1>5, <1>6 DEF InParts

LEMMA PartsPrimed == TypeOK' => InParts'
  BY Parts, PTL

LEMMA EmptyBegun ==
  ASSUME NEW d \in [Buffers -> Seq(Nat)], NEW b \in Buffers
  PROVE  Filled(d, b, 0) = <<>>
  <1>1. d[b] \in Seq(Nat)
    OBVIOUS
  <1> QED BY <1>1, NothingFilled DEF Filled

-----------------------------------------------------------------------------
Heard == [Stream!Decode \/ Stream!Hear]_<<flow, decoded>>

LEMMA IdleHeard ==
  ASSUME UNCHANGED <<queue, data, next_buffer, filled, audio_buf, audio_buf_index, decoded>>
  PROVE  Heard
  BY DEF Heard, flow

LEMMA OpenAudioHeard ==
  ASSUME IInv, IInv', Filling, OpenAudio
  PROVE  Heard
  <1>1. /\ apc = "none" /\ queue = <<>> /\ filled = 0
        /\ queue' = <<>> /\ filled' = 0 /\ Rest' = Rest /\ decoded' = decoded
        /\ next_buffer \in Buffers /\ next_buffer' \in Buffers
    BY DEF IInv, TypeOK, Alive, Filling, OpenAudio, M, player, Rest
  <1>2. InParts /\ InParts'
    BY Parts, PartsPrimed DEF IInv
  <1>3. Begun = <<>> /\ Begun' = <<>>
    BY <1>1, <1>2, EmptyBegun DEF InParts, Begun
  <1>4. Joined(queue, data) = <<>> /\ Joined(queue', data') = <<>>
    BY <1>1, <1>2, JoinedEmpty DEF InParts
  <1>5. Sounding' = Sounding
    BY <1>4 DEF Sounding
  <1> QED BY <1>1, <1>2, <1>3, <1>5 DEF InParts, Heard

(* A step that changes no other buffer than the next leaves what is queued *)
(* as it is.                                                               *)
LEMMA SoundingKept ==
  ASSUME IInv, IInv', apc # "wait", UNCHANGED queue,
         \A b \in Buffers : b # next_buffer => data'[b] = data[b]
  PROVE  Sounding' = Sounding
  <1>1. InParts /\ InParts'
    BY Parts, PartsPrimed DEF IInv
  <1>2. ASSUME NEW i \in 1 .. Len(queue) PROVE data[queue[i]] = data'[queue[i]]
    <2>1. queue[i] \in Buffers
      BY <1>1 DEF InParts
    <2>2. queue[i] # next_buffer
      BY NotQueued
    <2> QED BY <2>1, <2>2
  <1>3. Joined(queue, data) = Joined(queue, data')
    BY <1>1, <1>2, JoinedAgree DEF InParts
  <1> QED BY <1>3 DEF Sounding

LEMMA GetBufHeard ==
  ASSUME IInv, IInv', Filling, GetBuf
  PROVE  Heard
  <1>1. /\ apc = "loop" /\ filled = 0 /\ filled' = 0 /\ queue' = queue
        /\ next_buffer' = next_buffer /\ next_buffer \in Buffers
        /\ Rest' = Rest /\ decoded' = decoded
    BY DEF IInv, TypeOK, Filling, GetBuf, A, player, device, Rest
  <1>2. InParts /\ InParts'
    BY Parts, PartsPrimed DEF IInv
  <1>3. Begun = <<>> /\ Begun' = <<>>
    BY <1>1, <1>2, EmptyBegun DEF InParts, Begun
  <1>4. \A b \in Buffers : b # next_buffer => data'[b] = data[b]
    BY DEF GetBuf, IInv, TypeOK
  <1>5. Sounding' = Sounding
    BY <1>1, <1>4, SoundingKept
  <1> QED BY <1>1, <1>2, <1>3, <1>5 DEF InParts, Heard

LEMMA PlayAudioHeard ==
  ASSUME IInv, IInv', Filling, PlayAudio
  PROVE  Heard
  <1> DEFINE here == data[next_buffer]
  <1>1. /\ apc = "play" /\ queue' = Append(queue, next_buffer) /\ data' = data
        /\ filled' = 0 /\ next_buffer \in Buffers /\ next_buffer' \in Buffers
        /\ Rest' = Rest /\ decoded' = decoded
    BY DEF IInv, TypeOK, PlayAudio, A, player, Rest
  <1>2. InParts /\ InParts'
    BY Parts, PartsPrimed DEF IInv
  <1>3. Begun' = <<>>
    BY <1>1, <1>2, EmptyBegun DEF InParts, Begun
  <1>4. here \in Seq(Nat) /\ Len(here) = Chunk
    BY <1>1, <1>2, PartsTyped DEF InParts, IInv, TypeOK
  <1>5. Samples(here) = Samples(Begun)
    <2>1. CASE filled = Chunk
      <3>1. Begun = here
        <4> HIDE DEF here
        <4>1. Begun = SubSeq(here, 1, Len(here))
          BY <1>4, <2>1 DEF Begun, Filled, here
        <4> QED BY <1>4, <4>1
      <3> QED BY <3>1
    <2>2. CASE filled = 0 /\ here = Silence(Chunk)
      <3>1. Begun = <<>>
        BY <1>1, <1>2, <2>2, EmptyBegun DEF InParts, Begun
      <3>2. Samples(here) = <<>>
        BY <2>2, SilenceTyped, AudioOutputAssumption
      <3> QED BY <3>1, <3>2, SamplesEmpty
    <2> QED BY <1>1, <2>1, <2>2 DEF Filling
  <1>6. Sounding' = Cat(Sounding, Samples(Begun))
    <2>1. Joined(queue', data') = Cat(Joined(queue, data), here)
      BY <1>1, <1>2, JoinedAppend DEF InParts, Cat
    <2>2. Joined(queue, data) \in Seq(Nat)
      BY <1>2, JoinedTyped DEF InParts
    <2>3. Samples(Cat(Joined(queue, data), here)) = Cat(Sounding, Samples(here))
      BY <1>4, <2>2, SamplesCat DEF Sounding
    <2> QED BY <1>5, <2>1, <2>3 DEF Sounding
  <1>7. Cat(Sounding', Samples(Begun')) = Sounding'
    BY <1>2, <1>3, SamplesEmpty, CatEmpty DEF InParts
  <1> QED BY <1>1, <1>2, <1>6, <1>7 DEF InParts, Heard

(* What audio_buf is given is not in use yet, and nothing was left of it.  *)
LEMMA FrameRest ==
  ASSUME IInv, IInv', NEW samples \in Seq(Nat), NeedsFrame,
         audio_buf' = samples, audio_buf_index' = 0,
         UNCHANGED <<queue, data, next_buffer, filled>>
  PROVE  /\ InParts /\ InParts'
         /\ flow = Cat(Sounding, Samples(Begun))
         /\ flow' = Cat(flow, Samples(samples))
  <1>1. /\ audio_buf \in Seq(Nat) /\ audio_buf_index = Len(audio_buf)
        /\ audio_buf' = samples /\ audio_buf_index' = 0
        /\ Sounding' = Sounding /\ Begun' = Begun
    BY DEF IInv, TypeOK, NeedsFrame, Sounding, Begun
  <1>2. InParts /\ InParts'
    BY Parts, PartsPrimed DEF IInv
  <1>3. Rest = <<>>
    BY <1>1 DEF Rest, Left
  <1>4. Rest' = samples
    BY <1>1 DEF Rest, Left
  <1>5. Cat(Sounding, Samples(Begun)) \in Seq(Nat)
    BY <1>2, CatTyped DEF InParts
  <1>6. flow = Cat(Sounding, Samples(Begun))
    BY <1>2, <1>3, <1>5, SamplesEmpty, CatEmpty DEF InParts
  <1>7. flow' = Cat(Cat(Sounding, Samples(Begun)), Samples(samples))
    BY <1>1, <1>2, <1>4 DEF InParts
  <1> QED BY <1>2, <1>6, <1>7

LEMMA FlowTyped == ASSUME InParts PROVE flow \in Seq(Nat)
  <1>1. Cat(Sounding, Samples(Begun)) \in Seq(Nat)
    BY CatTyped DEF InParts
  <1> QED BY <1>1, CatTyped DEF InParts

LEMMA DecodeHeard ==
  ASSUME IInv, IInv', NEW n \in FrameSizes, Decode(n)
  PROVE  Heard
  <1>1. n \in Nat /\ MinSize(n) = 0 /\ MaxSize(n) = n /\ decoded \in Nat
    BY AudioOutputAssumption DEF MinSize, MaxSize, IInv, TypeOK
  <1>2. PICK kept \in MinSize(n) .. MaxSize(n) : audio_buf' = [i \in 1 .. kept |-> decoded + i]
    BY DEF Decode
  <1> DEFINE new == [i \in 1 .. kept |-> decoded + i]
  <1>3. kept \in 0 .. n /\ kept \in Nat
    BY <1>1, <1>2
  <1>4. new \in Seq(Nat) /\ Len(new) = kept /\ \A i \in 1 .. Len(new) : new[i] # 0
    BY <1>1, <1>3
  <1>5. /\ NeedsFrame /\ audio_buf' = new /\ audio_buf_index' = 0
        /\ UNCHANGED <<queue, data, next_buffer, filled>>
    BY <1>2 DEF Decode, device
  <1> HIDE DEF new
  <1>6. Samples(new) = new
    BY <1>4, SamplesLoud
  <1>7. flow' = Cat(flow, new)
    BY <1>4, <1>5, <1>6, FrameRest
  <1>8. flow' = flow \o [i \in 1 .. kept |-> decoded + i]
    BY <1>7 DEF Cat, new
  <1>9. decoded' = decoded + n
    BY DEF Decode
  <1> QED BY <1>3, <1>8, <1>9 DEF Heard, Stream!Decode

LEMMA PieceProperties ==
  ASSUME NEW s \in Seq(Nat), NEW i \in Nat, NEW n \in Nat, i + n <= Len(s)
  PROVE  /\ SubSeq(s, i + 1, i + n) \in Seq(Nat) /\ Len(SubSeq(s, i + 1, i + n)) = n
         /\ \A k \in 1 .. n : SubSeq(s, i + 1, i + n)[k] = s[i + k]
  <1> DEFINE first == i + 1
             last == i + n
  <1>1. Len(s) \in Nat /\ first \in Int /\ last \in Int
    OBVIOUS
  <1>2. \A k \in first .. last : k \in 1 .. Len(s)
    BY <1>1
  <1>3. \A k \in first .. last : s[k] \in Nat
    BY <1>2
  <1>4. n = IF first <= last THEN last - first + 1 ELSE 0
    OBVIOUS
  <1>5. \A k \in 1 .. n : k \in 1 .. last - first + 1 /\ first + k - 1 = i + k
    OBVIOUS
  <1> HIDE DEF first, last
  <1>6. /\ SubSeq(s, first, last) \in Seq(Nat)
        /\ Len(SubSeq(s, first, last)) = IF first <= last THEN last - first + 1 ELSE 0
        /\ \A k \in 1 .. last - first + 1 : SubSeq(s, first, last)[k] = s[first + k - 1]
    BY <1>1, <1>3, SubSeqProperties
  <1> QED BY <1>4, <1>5, <1>6 DEF first, last

LEMMA StartProperties ==
  ASSUME NEW s \in Seq(Nat), NEW n \in Nat, n <= Len(s)
  PROVE  /\ SubSeq(s, 1, n) \in Seq(Nat) /\ Len(SubSeq(s, 1, n)) = n
         /\ \A k \in 1 .. n : SubSeq(s, 1, n)[k] = s[k]
  <1>1. 0 \in Nat /\ 0 + n <= Len(s) /\ 0 + n = n /\ 0 + 1 = 1 /\ \A k \in 1 .. n : 0 + k = k
    OBVIOUS
  <1>2. /\ SubSeq(s, 0 + 1, 0 + n) \in Seq(Nat) /\ Len(SubSeq(s, 0 + 1, 0 + n)) = n
        /\ \A k \in 1 .. n : SubSeq(s, 0 + 1, 0 + n)[k] = s[0 + k]
    BY <1>1, PieceProperties
  <1> QED BY <1>1, <1>2

LEMMA RestOf ==
  ASSUME NEW s \in Seq(Nat), NEW t \in Seq(Nat), NEW n \in Nat, Len(s) = n + Len(t),
         \A i \in 1 .. Len(t) : t[i] = s[n + i]
  PROVE  t = SubSeq(s, n + 1, Len(s))
  <1> DEFINE r == SubSeq(s, n + 1, Len(s))
  <1>1. r \in Seq(Nat) /\ Len(r) = Len(t) /\ \A i \in 1 .. Len(t) : r[i] = s[n + i]
    <2>1. PICK m \in Nat : m = Len(t)
      OBVIOUS
    <2>2. n + m <= Len(s)
      BY <2>1
    <2> QED BY <2>1, <2>2, PieceProperties
  <1> HIDE DEF r
  <1>2. t = r
    BY <1>1, SeqEqual
  <1> QED BY <1>2 DEF r

(* What the device has played is gone, and everything else is left.        *)
LEMMA BufferDoneHeard ==
  ASSUME IInv, IInv', BufferDone
  PROVE  Heard
  <1> DEFINE gone == Samples(data[Head(queue)])
  <1>1. /\ queue # <<>> /\ queue' = Tail(queue) /\ data' = data
        /\ Begun' = Begun /\ Rest' = Rest /\ decoded' = decoded
    BY DEF BufferDone, player, Begun, Rest
  <1>2. InParts /\ InParts'
    BY Parts, PartsPrimed DEF IInv
  <1>3. Head(queue) \in Buffers
    BY <1>1, <1>2 DEF InParts
  <1>4. data[Head(queue)] \in Seq(Nat)
    BY <1>2, <1>3 DEF InParts
  <1>5. gone \in Seq(Nat)
    BY <1>4, SamplesTyped
  <1>6. Sounding = Cat(gone, Sounding')
    <2>1. Joined(queue, data) = Cat(data[Head(queue)], Joined(queue', data'))
      BY <1>1, <1>2, JoinedTail DEF InParts, Cat
    <2>2. Joined(queue', data') \in Seq(Nat)
      BY <1>2, JoinedTyped DEF InParts
    <2> QED BY <1>4, <2>1, <2>2, SamplesCat DEF Sounding
  <1> HIDE DEF gone
  <1>7. flow = Cat(gone, flow')
    <2>1. flow = Cat(Cat(Cat(gone, Sounding'), Samples(Begun)), Samples(Rest))
      BY <1>2, <1>6 DEF InParts
    <2>2. flow' = Cat(Cat(Sounding', Samples(Begun)), Samples(Rest))
      BY <1>1, <1>2 DEF InParts
    <2>3. /\ Sounding' \in Seq(Nat) /\ Samples(Begun) \in Seq(Nat) /\ Samples(Rest) \in Seq(Nat)
      BY <1>2 DEF InParts
    <2>4. Cat(Sounding', Samples(Begun)) \in Seq(Nat)
      BY <2>3, CatTyped
    <2>5. Cat(Cat(gone, Sounding'), Samples(Begun)) = Cat(gone, Cat(Sounding', Samples(Begun)))
      BY <1>5, <2>3, CatAgain
    <2>6. Cat(Cat(gone, Cat(Sounding', Samples(Begun))), Samples(Rest))
          = Cat(gone, Cat(Cat(Sounding', Samples(Begun)), Samples(Rest)))
      BY <1>5, <2>3, <2>4, CatAgain
    <2> QED BY <2>1, <2>2, <2>5, <2>6
  <1>8. flow \in Seq(Nat) /\ flow' \in Seq(Nat)
    <2>1. InParts' => (flow \in Seq(Nat))'
      BY FlowTyped, PTL
    <2> QED BY <1>2, <2>1, FlowTyped
  <1>9. CASE gone = <<>>
    <2>1. flow' = flow
      BY <1>7, <1>8, <1>9, CatEmpty
    <2> QED BY <1>1, <2>1 DEF Heard
  <1>10. CASE gone # <<>>
    <2>1. /\ Len(gone) \in Nat \ {0} /\ Len(gone) <= Len(flow)
          /\ flow' = SubSeq(flow, Len(gone) + 1, Len(flow))
      <3>1. PICK s \in Seq(Nat) : s = flow
        BY <1>8
      <3>2. PICK t \in Seq(Nat) : t = flow'
        BY <1>8
      <3>3. s = gone \o t
        BY <1>7, <3>1, <3>2 DEF Cat
      <3>4. /\ Len(gone) \in Nat \ {0} /\ Len(s) = Len(gone) + Len(t)
            /\ \A i \in 1 .. Len(t) : t[i] = s[Len(gone) + i]
        BY <1>5, <1>10, <3>3
      <3>5. t = SubSeq(s, Len(gone) + 1, Len(s))
        BY <3>2, <3>4, RestOf
      <3> QED BY <3>1, <3>2, <3>4, <3>5
    <2>2. Len(gone) \in 1 .. Len(flow)
      BY <1>8, <2>1
    <2>3. Stream!Hear
      BY <1>1, <2>1, <2>2 DEF Stream!Hear
    <2> QED BY <2>3 DEF Heard
  <1> QED BY <1>9, <1>10

LEMMA CatProperties ==
  ASSUME NEW s \in Seq(Nat), NEW t \in Seq(Nat)
  PROVE  /\ Cat(s, t) \in Seq(Nat) /\ Len(Cat(s, t)) = Len(s) + Len(t)
         /\ \A k \in 1 .. Len(s) + Len(t) :
              Cat(s, t)[k] = IF k <= Len(s) THEN s[k] ELSE t[k - Len(s)]
  BY DEF Cat

LEMMA LeftProperties ==
  ASSUME NEW s \in Seq(Nat), NEW i \in 0 .. Len(s)
  PROVE  /\ Left(s, i) \in Seq(Nat) /\ Len(Left(s, i)) = Len(s) - i
         /\ \A k \in 1 .. Len(s) - i : Left(s, i)[k] = s[i + k]
  <1>1. /\ i \in Nat /\ Len(s) - i \in Nat /\ i + (Len(s) - i) <= Len(s)
        /\ i + (Len(s) - i) = Len(s)
    OBVIOUS
  <1>2. PICK n \in Nat : n = Len(s) - i
    BY <1>1
  <1>3. i + n <= Len(s) /\ i + n = Len(s)
    BY <1>1, <1>2
  <1>4. /\ SubSeq(s, i + 1, i + n) \in Seq(Nat) /\ Len(SubSeq(s, i + 1, i + n)) = n
        /\ \A k \in 1 .. n : SubSeq(s, i + 1, i + n)[k] = s[i + k]
    BY <1>1, <1>3, PieceProperties
  <1> QED BY <1>2, <1>3, <1>4 DEF Left

LEMMA LeftSplits ==
  ASSUME NEW s \in Seq(Nat), NEW i \in 0 .. Len(s), NEW n \in 0 .. Len(s) - i
  PROVE  /\ SubSeq(s, i + 1, i + n) \in Seq(Nat)
         /\ Left(s, i + n) \in Seq(Nat)
         /\ Left(s, i) = Cat(SubSeq(s, i + 1, i + n), Left(s, i + n))
  <1> DEFINE piece == SubSeq(s, i + 1, i + n)
             rest == Left(s, i + n)
             whole == Left(s, i)
  <1>0. Len(s) \in Nat /\ i \in Nat /\ n \in Nat /\ i + n <= Len(s)
    OBVIOUS
  <1>1. piece \in Seq(Nat) /\ Len(piece) = n /\ \A k \in 1 .. n : piece[k] = s[i + k]
    BY <1>0, PieceProperties
  <1>2. rest \in Seq(Nat) /\ Len(rest) = Len(s) - i - n
        /\ \A k \in 1 .. Len(s) - i - n : rest[k] = s[i + n + k]
    <2>1. i + n \in 0 .. Len(s) /\ Len(s) - (i + n) = Len(s) - i - n
      BY <1>0
    <2> QED BY <2>1, LeftProperties
  <1>3. whole \in Seq(Nat) /\ Len(whole) = Len(s) - i
        /\ \A k \in 1 .. Len(s) - i : whole[k] = s[i + k]
    BY LeftProperties
  <1> HIDE DEF piece, rest, whole
  <1>4. /\ Cat(piece, rest) \in Seq(Nat) /\ Len(Cat(piece, rest)) = Len(s) - i
        /\ \A k \in 1 .. Len(s) - i :
             Cat(piece, rest)[k] = IF k <= n THEN piece[k] ELSE rest[k - n]
    <2>1. Len(piece) + Len(rest) = Len(s) - i
      BY <1>0, <1>1, <1>2
    <2>2. /\ Cat(piece, rest) \in Seq(Nat) /\ Len(Cat(piece, rest)) = Len(piece) + Len(rest)
          /\ \A k \in 1 .. Len(piece) + Len(rest) :
               Cat(piece, rest)[k] = IF k <= Len(piece) THEN piece[k] ELSE rest[k - Len(piece)]
      BY <1>1, <1>2, CatProperties
    <2>3. Len(piece) = n
      BY <1>1
    <2> QED BY <2>1, <2>2, <2>3
  <1>5. ASSUME NEW k \in 1 .. Len(s) - i PROVE whole[k] = Cat(piece, rest)[k]
    <2>1. CASE k <= n
      <3>1. k \in 1 .. n
        BY <1>0, <2>1
      <3> QED BY <1>1, <1>3, <1>4, <2>1, <3>1
    <2>2. CASE ~ k <= n
      <3>1. k - n \in 1 .. Len(s) - i - n /\ i + n + (k - n) = i + k
        BY <1>0, <2>2
      <3>2. rest[k - n] = s[i + k]
        BY <1>2, <3>1
      <3> QED BY <1>3, <1>4, <2>2, <3>2
    <2> QED BY <2>1, <2>2
  <1>6. whole = Cat(piece, rest)
    BY <1>3, <1>4, <1>5, SeqEqual
  <1> QED BY <1>1, <1>2, <1>6 DEF piece, rest, whole

LEMMA BegunGrows ==
  ASSUME NEW a \in Seq(Nat), NEW b \in Seq(Nat), Len(b) = Len(a),
         NEW f \in 0 .. Len(a), NEW n \in 0 .. Len(a) - f,
         NEW p \in Seq(Nat), Len(p) = n,
         \A k \in 1 .. f : b[k] = a[k], \A k \in 1 .. n : b[f + k] = p[k]
  PROVE  SubSeq(b, 1, f + n) = Cat(SubSeq(a, 1, f), p)
  <1> DEFINE old == SubSeq(a, 1, f)
             new == SubSeq(b, 1, f + n)
  <1>0. Len(a) \in Nat /\ f \in Nat /\ n \in Nat /\ f + n <= Len(a)
    OBVIOUS
  <1>1. old \in Seq(Nat) /\ Len(old) = f /\ \A k \in 1 .. f : old[k] = a[k]
    BY <1>0, StartProperties
  <1>2. new \in Seq(Nat) /\ Len(new) = f + n /\ \A k \in 1 .. f + n : new[k] = b[k]
    BY <1>0, StartProperties
  <1> HIDE DEF old, new
  <1>3. /\ Cat(old, p) \in Seq(Nat) /\ Len(Cat(old, p)) = f + n
        /\ \A k \in 1 .. f + n : Cat(old, p)[k] = IF k <= f THEN old[k] ELSE p[k - f]
    BY <1>1, CatProperties
  <1>4. ASSUME NEW k \in 1 .. f + n PROVE new[k] = Cat(old, p)[k]
    <2>1. CASE k <= f
      <3>1. k \in 1 .. f
        BY <1>0, <2>1
      <3> QED BY <1>1, <1>2, <1>3, <2>1, <3>1
    <2>2. CASE ~ k <= f
      <3>1. k - f \in 1 .. n /\ f + (k - f) = k
        BY <1>0, <2>2
      <3>2. b[f + (k - f)] = p[k - f]
        BY <3>1
      <3>3. b[k] = p[k - f]
        BY <3>1, <3>2
      <3> QED BY <1>2, <1>3, <2>2, <3>3
    <2> QED BY <2>1, <2>2
  <1>5. new = Cat(old, p)
    BY <1>2, <1>3, <1>4, SeqEqual
  <1> QED BY <1>5 DEF old, new

(* What is copied moves from audio_buf to the end of the buffer.           *)
LEMMA CopyHeard ==
  ASSUME IInv, IInv', Copy
  PROVE  Heard
  <1> DEFINE len1 == Least(Len(audio_buf) - audio_buf_index, Chunk - filled)
             piece == SubSeq(audio_buf, audio_buf_index + 1, audio_buf_index + len1)
             here == data[next_buffer]
             there == data'[next_buffer]
  <1>1. InParts /\ InParts'
    BY Parts, PartsPrimed DEF IInv
  <1>2. /\ data \in [Buffers -> [1 .. Chunk -> Nat]] /\ next_buffer \in Buffers
        /\ audio_buf \in Seq(Nat) /\ audio_buf_index \in 0 .. Len(audio_buf)
        /\ filled \in 0 .. Chunk /\ Chunk \in Nat
    BY AudioOutputAssumption DEF IInv, TypeOK
  <1>3. /\ apc = "callback" /\ filled' = filled + len1 /\ audio_buf_index' = audio_buf_index + len1
        /\ data' = [data EXCEPT ![next_buffer] = [i \in 1 .. Chunk |->
             IF i \in filled + 1 .. filled + len1 THEN audio_buf[audio_buf_index + i - filled]
             ELSE @[i]]]
        /\ queue' = queue /\ next_buffer' = next_buffer /\ audio_buf' = audio_buf
        /\ decoded' = decoded
    BY DEF Copy, InCallback, device
  <1>4. /\ audio_buf \in Seq(Nat) /\ here \in Seq(Nat) /\ Len(here) = Chunk
    BY <1>2, PartsTyped
  <1>5. /\ len1 \in 0 .. Len(audio_buf) - audio_buf_index /\ len1 \in 0 .. Chunk - filled
        /\ len1 \in Nat
    BY <1>2, <1>4 DEF Least
  <1>6. data' \in [Buffers -> [1 .. Chunk -> Nat]]
    BY DEF IInv, TypeOK
  <1>7. there \in Seq(Nat) /\ Len(there) = Chunk
    BY <1>2, <1>6, PartsTyped
  <1>8. there = [i \in 1 .. Chunk |->
          IF i \in filled + 1 .. filled + len1 THEN audio_buf[audio_buf_index + i - filled]
          ELSE here[i]]
    BY <1>2, <1>3
  <1>9. \A b \in Buffers : b # next_buffer => data'[b] = data[b]
    BY <1>2, <1>3
  <1> HIDE DEF len1, here, there
  <1>10. Sounding' = Sounding
    BY <1>3, <1>9, SoundingKept
  <1>11. piece \in Seq(Nat) /\ Len(piece) = len1
         /\ \A k \in 1 .. len1 : piece[k] = audio_buf[audio_buf_index + k]
    BY <1>2, <1>4, <1>5
  <1>12. Rest = Cat(piece, Rest')
    BY <1>2, <1>3, <1>4, <1>5, LeftSplits DEF Rest
  <1> HIDE DEF piece
  <1>13. Begun' = Cat(Begun, piece)
    <2>1. ASSUME NEW k \in 1 .. filled PROVE there[k] = here[k]
      <3>1. k \in 1 .. Chunk /\ k \notin filled + 1 .. filled + len1
        BY <1>2, <1>5
      <3> QED BY <1>8, <3>1
    <2>2. ASSUME NEW k \in 1 .. len1 PROVE there[filled + k] = piece[k]
      <3>1. /\ filled + k \in 1 .. Chunk /\ filled + k \in filled + 1 .. filled + len1
            /\ audio_buf_index + (filled + k) - filled = audio_buf_index + k
        BY <1>2, <1>5
      <3>2. there[filled + k] = audio_buf[audio_buf_index + (filled + k) - filled]
        BY <1>8, <3>1
      <3> QED BY <1>11, <3>1, <3>2
    <2>3. SubSeq(there, 1, filled + len1) = Cat(SubSeq(here, 1, filled), piece)
      <3>1. /\ Len(there) = Len(here) /\ filled \in 0 .. Len(here)
            /\ len1 \in 0 .. Len(here) - filled
        BY <1>2, <1>4, <1>5, <1>7
      <3> QED BY <1>4, <1>7, <1>11, <2>1, <2>2, <3>1, BegunGrows
    <2> QED BY <1>3, <2>3 DEF Begun, Filled, here, there
  <1>14. flow' = flow
    <2>1. /\ Sounding \in Seq(Nat) /\ Begun \in Seq(Nat) /\ Rest' \in Seq(Nat)
          /\ Samples(Begun) \in Seq(Nat) /\ Samples(Rest') \in Seq(Nat)
          /\ Samples(piece) \in Seq(Nat)
      BY <1>1, <1>11, SamplesTyped DEF InParts
    <2>2. Samples(Begun') = Cat(Samples(Begun), Samples(piece))
      BY <1>11, <1>13, <2>1, SamplesCat
    <2>3. Samples(Rest) = Cat(Samples(piece), Samples(Rest'))
      BY <1>11, <1>12, <2>1, SamplesCat
    <2>4. Cat(Sounding, Cat(Samples(Begun), Samples(piece)))
          = Cat(Cat(Sounding, Samples(Begun)), Samples(piece))
      BY <2>1, CatAgain
    <2>5. Cat(Sounding, Samples(Begun)) \in Seq(Nat)
      BY <2>1, CatTyped
    <2>6. Cat(Cat(Cat(Sounding, Samples(Begun)), Samples(piece)), Samples(Rest'))
          = Cat(Cat(Sounding, Samples(Begun)), Cat(Samples(piece), Samples(Rest')))
      BY <2>1, <2>5, CatAgain
    <2>7. flow = Cat(Cat(Sounding, Samples(Begun)), Samples(Rest))
      BY <1>1 DEF InParts
    <2>8. flow' = Cat(Cat(Sounding', Samples(Begun')), Samples(Rest'))
      BY <1>1 DEF InParts
    <2> QED BY <1>10, <2>2, <2>3, <2>4, <2>6, <2>7, <2>8
  <1> QED BY <1>3, <1>14 DEF Heard

-----------------------------------------------------------------------------
LEMMA StepHeard ==
  ASSUME IInv, IInv', Filling, [Next]_vars
  PROVE  Heard
  <1>1. CASE UNCHANGED vars
    BY <1>1, IdleHeard DEF vars, device, player
  <1>2. CASE Main /\ ~OpenAudio
    <2>1. UNCHANGED <<queue, data, next_buffer, filled, player>>
      BY <1>2 DEF Main, CreateThread, OpenFails, SetThread, PauseAudio, LockAudio, UnlockAudio,
         CloseAudio, Disable, WaitThread, DestroyLock, CloseDevice, device
    <2> QED BY <2>1, IdleHeard DEF player
  <1>3. CASE Enter \/ Leave \/ TestPaused \/ LockMixer \/ SleepForPacket \/ CallbackReturns
             \/ UnlockMixer \/ WaitAudio \/ WaitDone \/ FillSound
    <2>1. UNCHANGED <<queue, data, next_buffer, filled, player>>
      BY <1>3 DEF Enter, Leave, TestPaused, LockMixer, SleepForPacket, CallbackReturns, UnlockMixer, WaitAudio,
         WaitDone, FillSound, device
    <2> QED BY <2>1, IdleHeard DEF player
  <1>4. CASE PutPacket
    BY <1>4, IdleHeard DEF PutPacket, device
  <1> QED
    BY <1>1, <1>2, <1>3, <1>4, OpenAudioHeard, GetBufHeard, PlayAudioHeard, DecodeHeard,
       CopyHeard, BufferDoneHeard DEF Next, Main, RunAudio, Callback, Device

LEMMA InitHeard == Init => Stream!Init /\ Filling
  <1> SUFFICES ASSUME Init PROVE Stream!Init /\ Filling
    OBVIOUS
  <1>1. IInv
    BY InitIInv
  <1>2. InParts
    BY <1>1, Parts DEF IInv
  <1>3. /\ queue = <<>> /\ filled = 0 /\ audio_buf = <<>> /\ audio_buf_index = 0
        /\ apc = "none" /\ decoded = 0 /\ next_buffer \in Buffers
    BY <1>1 DEF Init, IInv, TypeOK
  <1>4. Begun = <<>>
    BY <1>2, <1>3, EmptyBegun DEF InParts, Begun
  <1>5. Rest = <<>>
    BY <1>3 DEF Rest, Left
  <1>6. Sounding = <<>>
    BY <1>2, <1>3, JoinedEmpty, SamplesEmpty DEF InParts, Sounding
  <1>7. flow = <<>>
    <2>1. <<>> \in Seq(Nat)
      OBVIOUS
    <2> QED BY <1>2, <1>4, <1>5, <1>6, <2>1, SamplesEmpty, CatEmpty DEF InParts
  <1> QED BY <1>3, <1>7 DEF Stream!Init, Filling

(* The decoded samples are heard in order and once each, whatever the      *)
(* lengths of frames and buffers, and through every opening and closing.   *)
THEOREM Refinement == Spec => ImplementsStream
  <1>1. Spec => [](IInv /\ Filling)
    BY InitIInv, InitHeard, NextIInv, FillingStep, PTL DEF Spec
  <1>2. IInv /\ IInv' /\ Filling /\ [Next]_vars => Heard
    BY StepHeard
  <1>3. Init => Stream!Init
    BY InitHeard
  <1>4. Heard => [Stream!Decode \/ Stream!Hear]_<<flow, decoded>>
    BY DEF Heard
  <1>5. Spec => Stream!Spec
    BY <1>1, <1>2, <1>3, <1>4, PTL DEF Spec, Stream!Spec
  <1> QED BY <1>5 DEF ImplementsStream

=============================================================================
