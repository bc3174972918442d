------------------------------- MODULE Demux -------------------------------
(***************************************************************************)
(* The input side of VSPlayer (FFmpeg/tests/VSPlayer/VSPlayer.c):          *)
(* decode_thread reads the file and fills one packet queue per kind of     *)
(* stream, the video thread and SDL's audio thread empty them, and the     *)
(* main thread asks for seeks.                                             *)
(*                                                                         *)
(* A packet is told apart by its stream, its size, and its epoch: how many *)
(* seeks had moved the file when it was read.  A section under a queue's   *)
(* mutex never blocks and is one step.  quit is left out: the only         *)
(* assignment to it (line 1074) is followed by exit(0).                    *)
(* Definitions that no other uses are slips the properties tell apart.     *)
(***************************************************************************)
EXTENDS Integers, Sequences

CONSTANTS
  FileStreams, \* the kind of each stream of the file, by index from 1;
               \* "data" stands for all that main could not open
  Sizes,       \* sizes of packets
  MaxSize,     \* MAX_AUDIOQ_SIZE and MAX_VIDEOQ_SIZE
  Targets,     \* positions the user seeks to
  MaxSeeks,    \* bound on the seeks
  Nothing      \* no value

ASSUME DemuxAssumption ==
  /\ FileStreams \in Seq({"audio", "video", "data"})
  /\ Sizes \subseteq Nat
  /\ MaxSize \in Nat
  /\ MaxSeeks \in Nat
  /\ Nothing \notin Targets \cup Nat

VARIABLES
  queue,     \* the packets of audioq and videoq
  bytes,     \* their size fields
  seek_req,  \* seek_req
  seek_pos,  \* seek_pos
  upc,       \* where stream_seek is
  wanted,    \* its pos
  pending,   \* history: the accepted seek that is still to be carried out
  epoch,     \* seeks that have moved the file so far
  dpc,       \* where decode_thread is
  target,    \* its seek_target
  packet,    \* its packet
  cpc,       \* where the two consumers are
  cpkt,      \* the packet each has taken
  decoder,   \* the epoch of what each decoder holds, Nothing after a flush
  flush_pkt, \* flush_pkt: the marker, one static packet
  lostFlush  \* queues that the flush packet could not be put into, or was put
             \* into without a copy of its data

queues == <<queue, bytes>>
seeks == <<seek_req, seek_pos, upc, wanted, pending>>
reader == <<epoch, dpc, target, packet>>
consumers == <<cpc, cpkt, decoder>>
marker == <<flush_pkt, lostFlush>>
vars == <<queues, seeks, reader, consumers, marker>>

Queues == {"audio", "video"}

Streams == DOMAIN FileStreams

Carries(q) == {i \in Streams : FileStreams[i] = q}

(* videoStream and audioStream after main has opened every stream: the     *)
(* last of its kind, or the first stream of the file if there is none,     *)
(* since the fields start at zero.                                         *)
StreamOf(q) == IF Carries(q) = {}
               THEN 1
               ELSE CHOOSE i \in Carries(q) : \A j \in Carries(q) : j <= i

Packet == [stream : Streams, size : Sizes, epoch : 0 .. MaxSeeks,
           data : {"own"}]

(* A marker has no bytes; its data is the literal "FLUSH", or the copy of  *)
(* it that the first av_dup_packet to succeed leaves in flush_pkt.         *)
Marker(address) == [stream |-> 0, size |-> 0, epoch |-> 0, data |-> address]

Markers == {Marker("literal"), Marker("copy")}

(* What av_free_packet leaves of a packet.                                 *)
Freed == Marker("none")

FlushPlace == [audio |-> "flushaudio", video |-> "flushvideo"]
PutPlace == [audio |-> "putaudio", video |-> "putvideo"]
AfterPut == [audio |-> "flushvideo", video |-> "sought"]

Moved == {"flushaudio", "putaudio", "flushvideo", "putvideo"}
Seeking == Moved \cup {"seek", "sought"}
UserPlaces == {"idle", "store", "request"}
DecodePlaces == Seeking \cup {"top", "request", "read", "put", "ended"}
ConsumerPlaces == {"get", "sleep", "got"}

-----------------------------------------------------------------------------
Init ==
  /\ flush_pkt = Marker("literal")
  /\ queue = [q \in Queues |-> <<>>]
  /\ bytes = [q \in Queues |-> 0]
  /\ seek_req = 0 /\ seek_pos = Nothing /\ pending = Nothing
  /\ upc = "idle" /\ wanted = Nothing
  /\ epoch = 0
  /\ dpc = "top" /\ target = Nothing /\ packet = flush_pkt
  /\ cpc = [q \in Queues |-> "get"]
  /\ cpkt = [q \in Queues |-> Freed]
  /\ decoder = [q \in Queues |-> Nothing]
  /\ lostFlush = {}

-----------------------------------------------------------------------------
(* The queues *)

PutSilently(q, p) ==
  /\ queue' = [queue EXCEPT ![q] = Append(@, p)]
  /\ bytes' = [bytes EXCEPT ![q] = @ + p.size]
  /\ UNCHANGED cpc

(* packet_queue_put under the mutex, its signal included.                  *)
Put(q, p) ==
  /\ queue' = [queue EXCEPT ![q] = Append(@, p)]
  /\ bytes' = [bytes EXCEPT ![q] = @ + p.size]
  /\ cpc' = [cpc EXCEPT ![q] = IF @ = "sleep" THEN "get" ELSE @]

FlushKeepingSize(q) ==
  /\ queue' = [queue EXCEPT ![q] = <<>>]
  /\ UNCHANGED bytes

Flush(q) ==
  /\ queue' = [queue EXCEPT ![q] = <<>>]
  /\ bytes' = [bytes EXCEPT ![q] = 0]

-----------------------------------------------------------------------------
(* decode_thread *)

CheckRoomEither ==
  /\ dpc = "top"
  /\ \E q \in Queues : bytes[q] <= MaxSize
  /\ dpc' = "request"
  /\ UNCHANGED <<queues, seeks, epoch, target, packet, consumers, marker>>

(* Lines 567-572: with a full queue it comes back here in 10 ms.           *)
CheckRoom ==
  /\ dpc = "top"
  /\ \A q \in Queues : bytes[q] <= MaxSize
  /\ dpc' = "request"
  /\ UNCHANGED <<queues, seeks, epoch, target, packet, consumers, marker>>

CheckRequest ==
  /\ dpc = "request"
  /\ \/ /\ seek_req = 1
        /\ target' = seek_pos
        /\ dpc' = "seek"
     \/ /\ seek_req = 0
        /\ dpc' = "read"
        /\ UNCHANGED target
  /\ UNCHANGED <<queues, seeks, epoch, packet, consumers, marker>>

(* av_seek_frame moves the file, or fails and leaves the queues alone.     *)
SeekFrame ==
  /\ dpc = "seek"
  /\ \/ /\ epoch' = epoch + 1
        /\ dpc' = "flushaudio"
     \/ /\ dpc' = "sought"
        /\ UNCHANGED epoch
  /\ pending' = Nothing
  /\ UNCHANGED <<queues, seek_req, seek_pos, upc, wanted, target, packet,
                 consumers, marker>>

FlushQueue(q) ==
  /\ dpc = FlushPlace[q]
  /\ Flush(q)
  /\ dpc' = PutPlace[q]
  /\ UNCHANGED <<seeks, epoch, target, packet, consumers, marker>>

PutFlushNever(q) ==
  /\ dpc = PutPlace[q]
  /\ dpc' = AfterPut[q]
  /\ UNCHANGED <<queues, seeks, epoch, target, packet, consumers, marker>>

(* packet_queue_put of the flush packet.  av_dup_packet may fail and the   *)
(* packet is put all the same; the list entry may have no memory; nobody   *)
(* looks at the result (298-303, 599, 605).                                *)
PutFlush(q) ==
  /\ dpc = PutPlace[q]
  /\ flush_pkt' \in {flush_pkt, Marker("copy")}
  /\ \/ /\ Put(q, flush_pkt')
        /\ lostFlush' = IF flush_pkt' = Marker("copy")
                        THEN lostFlush ELSE lostFlush \cup {q}
     \/ /\ lostFlush' = lostFlush \cup {q}
        /\ UNCHANGED <<queues, cpc>>
  /\ dpc' = AfterPut[q]
  /\ UNCHANGED <<seeks, epoch, target, packet, cpkt, decoder>>

EndSeekNever ==
  /\ dpc = "sought"
  /\ dpc' = "read"
  /\ UNCHANGED <<queues, seeks, epoch, target, packet, consumers, marker>>

EndSeek ==
  /\ dpc = "sought"
  /\ seek_req' = 0
  /\ dpc' = "read"
  /\ UNCHANGED <<queues, seek_pos, upc, wanted, pending, epoch, target,
                 packet, consumers, marker>>

(* A packet; or the end of the file, to be tried again in 100 ms; or an    *)
(* error, after which the thread waits to quit (613-619, 637).             *)
ReadFrame ==
  /\ dpc = "read"
  /\ \/ /\ \E i \in Streams, s \in Sizes :
             packet' = [stream |-> i, size |-> s, epoch |-> epoch,
                        data |-> "own"]
        /\ dpc' = "put"
     \/ dpc' = "top" /\ UNCHANGED packet
     \/ dpc' = "ended" /\ UNCHANGED packet
  /\ UNCHANGED <<queues, seeks, epoch, target, consumers, marker>>

(* Lines 622-634; without memory the packet is lost.                       *)
Route(i) == IF i = StreamOf("video") THEN {"video"}
            ELSE IF i = StreamOf("audio") THEN {"audio"}
            ELSE {}

RoutePacket ==
  /\ dpc = "put"
  /\ \/ \E q \in Route(packet.stream) : Put(q, packet)
     \/ UNCHANGED <<queues, cpc>>
  /\ dpc' = "top"
  /\ UNCHANGED <<seeks, epoch, target, packet, cpkt, decoder, marker>>

-----------------------------------------------------------------------------
BeginSeekAlways ==
  /\ upc = "idle"
  /\ epoch < MaxSeeks
  /\ wanted' \in Targets
  /\ upc' = "store"
  /\ UNCHANGED <<queues, seek_req, seek_pos, pending, reader, consumers,
                 marker>>

(* stream_seek, called by the main thread: a request while one is being    *)
(* served is ignored.                                                      *)
BeginSeek ==
  /\ upc = "idle"
  /\ seek_req = 0
  /\ epoch < MaxSeeks
  /\ wanted' \in Targets
  /\ upc' = "store"
  /\ UNCHANGED <<queues, seek_req, seek_pos, pending, reader, consumers,
                 marker>>

StorePos ==
  /\ upc = "store"
  /\ seek_pos' = wanted
  /\ upc' = "request"
  /\ UNCHANGED <<queues, seek_req, wanted, pending, reader, consumers,
                 marker>>

RequestSeek ==
  /\ upc = "request"
  /\ seek_req' = 1
  /\ pending' = wanted
  /\ upc' = "idle"
  /\ UNCHANGED <<queues, seek_pos, wanted, reader, consumers, marker>>

-----------------------------------------------------------------------------
(* The consumers: packet_queue_get and the loops round it in video_thread  *)
(* and audio_decode_frame.  Only the queue of an opened stream has one: a  *)
(* file without audio opens no audio device, and without video the video   *)
(* thread dereferences a null stream (768, 778), past which nothing is     *)
(* modelled.                                                               *)

Get(q) ==
  /\ cpc[q] = "get"
  /\ Carries(q) # {}
  /\ \/ /\ queue[q] # <<>>
        /\ queue' = [queue EXCEPT ![q] = Tail(@)]
        /\ bytes' = [bytes EXCEPT ![q] = @ - Head(queue[q]).size]
        /\ cpkt' = [cpkt EXCEPT ![q] = Head(queue[q])]
        /\ cpc' = [cpc EXCEPT ![q] = "got"]
     \/ /\ queue[q] = <<>>
        /\ cpc' = [cpc EXCEPT ![q] = "sleep"]
        /\ UNCHANGED <<queues, cpkt>>
  /\ UNCHANGED <<seeks, reader, decoder, marker>>

(* A marker is known by the address of its data: avcodec_flush_buffers.    *)
FlushDecoder(q) ==
  /\ cpc[q] = "got"
  /\ cpkt[q].data = flush_pkt.data
  /\ decoder' = [decoder EXCEPT ![q] = Nothing]
  /\ cpc' = [cpc EXCEPT ![q] = "get"]
  /\ UNCHANGED <<queues, seeks, reader, cpkt, marker>>

(* The packet is decoded and freed.  In a marker that is not recognised    *)
(* there is nothing to decode.                                             *)
Decode(q) ==
  /\ cpc[q] = "got"
  /\ cpkt[q].data # flush_pkt.data
  /\ decoder' = [decoder EXCEPT
                   ![q] = IF cpkt[q] \in Markers THEN @ ELSE cpkt[q].epoch]
  /\ cpkt' = [cpkt EXCEPT ![q] = Freed]
  /\ cpc' = [cpc EXCEPT ![q] = "get"]
  /\ UNCHANGED <<queues, seeks, reader, marker>>

-----------------------------------------------------------------------------
Reader ==
  \/ CheckRoom \/ CheckRequest \/ SeekFrame \/ EndSeek
  \/ ReadFrame \/ RoutePacket
  \/ \E q \in Queues : FlushQueue(q) \/ PutFlush(q)

User == BeginSeek \/ StorePos \/ RequestSeek

Consumer(q) == Get(q) \/ FlushDecoder(q) \/ Decode(q)

Next == Reader \/ User \/ \E q \in Queues : Consumer(q)

Spec == Init /\ [][Next]_vars

(* The threads keep running and stream_seek, once begun, ends.  Nobody     *)
(* need ask for a seek.                                                    *)
FairSpec ==
  /\ Spec
  /\ WF_vars(Reader)
  /\ WF_vars(StorePos \/ RequestSeek)
  /\ \A q \in Queues : WF_vars(Consumer(q))

-----------------------------------------------------------------------------
(***************************************************************************)
(* Properties                                                              *)
(***************************************************************************)
TypeOK ==
  /\ queue \in [Queues -> Seq(Packet \cup Markers)]
  /\ bytes \in [Queues -> Int]
  /\ seek_req \in {0, 1}
  /\ seek_pos \in Targets \cup {Nothing}
  /\ wanted \in Targets \cup {Nothing}
  /\ pending \in Targets \cup {Nothing}
  /\ target \in Targets \cup {Nothing}
  /\ epoch \in 0 .. MaxSeeks
  /\ upc \in UserPlaces /\ dpc \in DecodePlaces
  /\ packet \in Packet \cup Markers
  /\ cpc \in [Queues -> ConsumerPlaces]
  /\ cpkt \in [Queues -> Packet \cup Markers \cup {Freed}]
  /\ decoder \in [Queues -> 0 .. MaxSeeks \cup {Nothing}]
  /\ flush_pkt \in Markers
  /\ lostFlush \in SUBSET Queues

(* What the first n packets take, for each n.                              *)
Sums(packets) ==
  LET sum[n \in 0 .. Len(packets)] ==
        IF n = 0 THEN 0 ELSE sum[n - 1] + packets[n].size
  IN  sum

(* q->size is the sum of the sizes of the packets in the list, whatever    *)
(* puts, gets and flushes come together (314-315, 355-356, 388-391).       *)
BytesAccounted == \A q \in Queues : bytes[q] = Sums(queue[q])[Len(queue[q])]

(* A queue grows beyond its limit by less than one packet: the two sizes   *)
(* are read without a mutex, but only this thread makes them grow          *)
(* (567-572).                                                              *)
BytesBounded == \A q \in Queues :
  bytes[q] <= MaxSize \/ \E s \in Sizes : bytes[q] <= MaxSize + s

(* A consumer sleeps only while its queue is empty: no put goes unnoticed  *)
(* (316, 369).                                                             *)
SleepsOnlyWhenEmpty == \A q \in Queues :
  cpc[q] = "sleep" => queue[q] = <<>>

(* A decoder is never fed a packet from after a seek while it holds state  *)
(* from before it, unless the flush packet could not be put or not be      *)
(* copied: its address then changes while it is queued (298-303, 596-606,  *)
(* 504-508, 766-770).                                                      *)
DecoderFlushed == \A q \in Queues :
  cpc[q] = "got" /\ cpkt[q] \notin Markers =>
    decoder[q] \in {Nothing, cpkt[q].epoch} \/ q \in lostFlush

(* When a seek has been carried out, nothing read before it is left in the *)
(* queues (598, 604).                                                      *)
QueuesFresh ==
  dpc \notin Moved =>
    \A q \in Queues : \A k \in 1 .. Len(queue[q]) :
      queue[q][k] \notin Markers => queue[q][k].epoch = epoch

(* decode_thread seeks to the position of the request it serves, although  *)
(* seek_pos and seek_req are shared without a mutex (987-991, 575-578).    *)
SeekExact == dpc = "seek" => target = pending /\ pending # Nothing

(* "Is this a packet from the video stream?" (line 622): a queue gets only *)
(* packets of its kind.                                                    *)
RoutedByKind == \A q \in Queues : \A k \in 1 .. Len(queue[q]) :
  queue[q][k] \notin Markers => FileStreams[queue[q][k].stream] = q

(* A request to seek is served, unless reading fails for good (575-608).   *)
SeekServed == seek_req = 1 ~> seek_req = 0 \/ dpc = "ended"

(* A full queue does not stop the reader for ever (567-572).               *)
ReaderGoesOn == dpc = "top" ~> dpc = "request"

=============================================================================
