---------------------------- MODULE FlushMarker ----------------------------
(***************************************************************************)
(* Who owns the data of the flush packet of VSPlayer                       *)
(* (FFmpeg/tests/VSPlayer/VSPlayer.c), the marker a seek puts into both    *)
(* packet queues.  Consumers know it by the address of its data.           *)
(* packet_queue_put passes it to av_dup_packet like any other packet, so   *)
(* its data becomes a heap block that several owners then free.            *)
(*                                                                         *)
(* Demux models the same threads; here a packet is the block that holds    *)
(* its data, and the allocator may give any free block again.  What        *)
(* happens after a block is freed that was not allocated is undefined, and *)
(* the model stops there.  Definitions that no other uses are slips the    *)
(* properties tell apart.                                                  *)
(***************************************************************************)
EXTENDS Naturals, Sequences

CONSTANTS
  Blocks,      \* addresses the allocator gives
  Literal,     \* the address of the string "FLUSH"
  NULL,        \* no address
  MaxSeeks,    \* bound on the seeks
  QueueLimit   \* bound on the packets in a queue

ASSUME MarkerAssumption ==
  /\ Literal \notin Blocks /\ NULL \notin Blocks \cup {Literal}
  /\ MaxSeeks \in Nat /\ QueueLimit \in Nat \ {0}

VARIABLES
  live,    \* blocks that are allocated
  marker,  \* flush_pkt.data
  failed,  \* history: the marker could not be duplicated
  queue,   \* the packets of audioq and videoq
  seeks,   \* seeks made
  dpc,     \* where decode_thread is
  held,    \* the packet each consumer has
  cpc,     \* where the consumers are
  broken   \* a block was freed that was not allocated

vars == <<live, marker, failed, queue, seeks, dpc, held, cpc, broken>>

Queues == {"audio", "video"}

(* A packet is its data and whether it was put as the marker.              *)
NoPacket == [data |-> NULL, flush |-> FALSE]

ClearPlace == [audio |-> "clearaudio", video |-> "clearvideo"]
MarkPlace == [audio |-> "markaudio", video |-> "markvideo"]
AfterMark == [audio |-> "clearvideo", video |-> "read"]

-----------------------------------------------------------------------------
Init ==
  /\ live = {} /\ marker = Literal /\ failed = FALSE
  /\ queue = [q \in Queues |-> <<>>]
  /\ seeks = 0 /\ dpc = "read"
  /\ held = [q \in Queues |-> NoPacket]
  /\ cpc = [audio |-> "release", video |-> "get"]
  /\ broken = FALSE

(* av_destruct_packet for each packet of a list, one after the other: the  *)
(* literal and no data have no destructor.                                 *)
Destruct(packets) ==
  LET owned == {k \in DOMAIN packets : packets[k].data \in Blocks}
      freed == {packets[k].data : k \in owned}
      twice == \E j, k \in owned : j # k /\ packets[j].data = packets[k].data
  IN  /\ live' = live \ freed
      /\ broken' = (twice \/ ~ freed \subseteq live)

-----------------------------------------------------------------------------
(* decode_thread *)

(* av_read_frame and packet_queue_put: the packet's own block, or the copy *)
(* av_dup_packet makes of it.                                              *)
Read(q) ==
  /\ dpc = "read"
  /\ Len(queue[q]) < QueueLimit
  /\ \E b \in Blocks \ live :
       /\ live' = live \cup {b}
       /\ queue' = [queue EXCEPT ![q] = Append(@, [data |-> b, flush |-> FALSE])]
  /\ UNCHANGED <<marker, failed, seeks, dpc, held, cpc, broken>>

Seek ==
  /\ dpc = "read"
  /\ seeks < MaxSeeks
  /\ seeks' = seeks + 1
  /\ dpc' = ClearPlace["audio"]
  /\ UNCHANGED <<live, marker, failed, queue, held, cpc, broken>>

FreeKeeping(q) == Destruct(queue[q]) /\ UNCHANGED queue

(* packet_queue_flush                                                      *)
FreeAll(q) == Destruct(queue[q]) /\ queue' = [queue EXCEPT ![q] = <<>>]

Clear(q) ==
  /\ dpc = ClearPlace[q]
  /\ FreeAll(q)
  /\ dpc' = MarkPlace[q]
  /\ UNCHANGED <<marker, failed, seeks, held, cpc>>

DupAlways(data, copied) ==
  \/ /\ \E b \in Blocks \ live : marker' = b /\ live' = live \cup {b}
     /\ copied
     /\ UNCHANGED failed
  \/ /\ ~ copied
     /\ failed' = TRUE
     /\ UNCHANGED <<marker, live>>

(* av_dup_packet: data that no destructor owns yet is copied, if there is  *)
(* memory.                                                                 *)
Dup(data, copied) ==
  \/ /\ data = Literal /\ copied
     /\ \E b \in Blocks \ live : marker' = b /\ live' = live \cup {b}
     /\ UNCHANGED failed
  \/ /\ data = Literal /\ ~ copied
     /\ failed' = TRUE
     /\ UNCHANGED <<marker, live>>
  \/ /\ data # Literal /\ copied
     /\ UNCHANGED <<marker, live, failed>>

(* packet_queue_put of the marker: the test at 298 lets it pass although   *)
(* av_dup_packet failed; without memory for the list it is not put.        *)
Mark(q) ==
  /\ dpc = MarkPlace[q]
  /\ \E copied \in BOOLEAN : Dup(marker, copied)
  /\ \/ queue' = [queue EXCEPT ![q] =
                      Append(@, [data |-> marker', flush |-> TRUE])]
     \/ UNCHANGED queue
  /\ dpc' = AfterMark[q]
  /\ UNCHANGED <<seeks, held, cpc, broken>>

-----------------------------------------------------------------------------
(* The consumers *)

(* The audio thread frees the packet it had, marker or not, before it gets *)
(* the next (495-496).                                                     *)
Release ==
  /\ cpc.audio = "release"
  /\ Destruct(<<held.audio>>)
  /\ held' = [held EXCEPT !.audio = NoPacket]
  /\ cpc' = [cpc EXCEPT !.audio = "get"]
  /\ UNCHANGED <<marker, failed, queue, seeks, dpc>>

Get(q) ==
  /\ cpc[q] = "get"
  /\ queue[q] # <<>>
  /\ held' = [held EXCEPT ![q] = Head(queue[q])]
  /\ queue' = [queue EXCEPT ![q] = Tail(@)]
  /\ cpc' = [cpc EXCEPT ![q] = "compare"]
  /\ UNCHANGED <<live, marker, failed, seeks, dpc, broken>>

(* Lines 504 and 766.                                                      *)
Compare(q) ==
  /\ cpc[q] = "compare"
  /\ cpc' = [cpc EXCEPT ![q] = IF held[q].data = marker THEN "flush"
                               ELSE "decode"]
  /\ UNCHANGED <<live, marker, failed, queue, seeks, dpc, held, broken>>

VideoFlushFreeing ==
  /\ cpc.video = "flush"
  /\ Destruct(<<held.video>>)
  /\ cpc' = [cpc EXCEPT !.video = "get"]
  /\ UNCHANGED <<marker, failed, queue, seeks, dpc, held>>

(* avcodec_flush_buffers; the video thread does not free the packet.       *)
VideoFlush ==
  /\ cpc.video = "flush"
  /\ cpc' = [cpc EXCEPT !.video = "get"]
  /\ UNCHANGED <<live, marker, failed, queue, seeks, dpc, held, broken>>

AudioFlush ==
  /\ cpc.audio = "flush"
  /\ cpc' = [cpc EXCEPT !.audio = "release"]
  /\ UNCHANGED <<live, marker, failed, queue, seeks, dpc, held, broken>>

VideoDecode ==
  /\ cpc.video = "decode"
  /\ Destruct(<<held.video>>)
  /\ cpc' = [cpc EXCEPT !.video = "get"]
  /\ UNCHANGED <<marker, failed, queue, seeks, dpc, held>>

AudioDecode ==
  /\ cpc.audio = "decode"
  /\ cpc' = [cpc EXCEPT !.audio = "release"]
  /\ UNCHANGED <<live, marker, failed, queue, seeks, dpc, held, broken>>

-----------------------------------------------------------------------------
Reader == Seek \/ \E q \in Queues : Read(q) \/ Clear(q) \/ Mark(q)

Consumer ==
  \/ Release \/ AudioFlush \/ AudioDecode \/ VideoFlush \/ VideoDecode
  \/ \E q \in Queues : Get(q) \/ Compare(q)

Next == ~ broken /\ (Reader \/ Consumer)

Spec == Init /\ [][Next]_vars

-----------------------------------------------------------------------------
(***************************************************************************)
(* Properties                                                              *)
(***************************************************************************)
Packet ==
  [data : Blocks, flush : {FALSE}] \cup [data : Blocks \cup {Literal}, flush : {TRUE}]

TypeOK ==
  /\ live \subseteq Blocks /\ marker \in Blocks \cup {Literal} /\ failed \in BOOLEAN
  /\ queue \in [Queues -> Seq(Packet)]
  /\ seeks \in 0 .. MaxSeeks
  /\ dpc \in {"read", "clearaudio", "clearvideo", "markaudio", "markvideo"}
  /\ held \in [Queues -> Packet \cup {NoPacket}]
  /\ cpc \in [Queues -> {"release", "get", "compare", "flush", "decode"}]
  /\ broken \in BOOLEAN

(* The marker, wherever it meets its consumer, is known by its address,    *)
(* although flush_pkt.data changes when it is first put, unless it could   *)
(* not be duplicated then (298, 504, 766).                                 *)
MarkersRecognised == \A q \in Queues :
  cpc[q] = "decode" /\ held[q].flush => failed

(* "Free a memory block which has been allocated with av_malloc(z)() or    *)
(* av_realloc()" (libavutil/mem.h:98): what is freed is allocated.         *)
FreesAllocated == ~ broken

(* A decoder reads the data of a packet only while it is allocated.        *)
ReadsAllocated == \A q \in Queues :
  cpc[q] = "decode" /\ ~ held[q].flush => held[q].data \in live

=============================================================================
