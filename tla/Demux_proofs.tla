---------------------------- MODULE Demux_proofs ----------------------------
(***************************************************************************)
(* Proofs about Demux for every file, every set of sizes and positions,    *)
(* every limit of the queues and every number of seeks.                    *)
(***************************************************************************)
EXTENDS Demux, SequenceTheorems,
        WellFoundedInduction, TLAPS

(* A seek is asked for only while none is served, and serving one moves    *)
(* the file once.                                                          *)
Requests ==
  /\ dpc \in Seeking => seek_req = 1
  /\ upc # "idle" => seek_req = 0

Settling == Moved \cup {"sought"}

EpochRoom ==
  upc # "idle" \/ (seek_req = 1 /\ dpc \notin Settling) => epoch < MaxSeeks

(* The position goes from stream_seek to decode_thread unchanged.          *)
Handed ==
  /\ upc # "idle" => wanted # Nothing
  /\ upc = "request" => seek_pos = wanted
  /\ seek_req = 1 /\ dpc \notin Settling =>
       pending = seek_pos /\ pending # Nothing
  /\ dpc = "seek" => target = seek_pos

(* The room decode_thread found is still there when it puts the packet.    *)
RoomKept == dpc \notin {"top", "ended"} => \A q \in Queues : bytes[q] <= MaxSize

(* The packets of a queue were read after the last seek, or, until it is   *)
(* flushed, after the seek before.                                         *)
Unflushed == [audio |-> {"flushaudio"},
              video |-> {"flushaudio", "putaudio", "flushvideo"}]

EpochOf(q) == IF dpc \in Unflushed[q] THEN epoch - 1 ELSE epoch

AllOf(packets, e) == \A k \in 1 .. Len(packets) :
  packets[k] \notin Markers => packets[k].epoch = e

Fresh == /\ dpc = "put" => packet \in Packet /\ packet.epoch = epoch
         /\ \A q \in Queues : AllOf(queue[q], EpochOf(q))

QueuesSame == UNCHANGED <<queue, cpc, cpkt, decoder, marker>>

(* Before its next packet a decoder will be flushed, or it holds nothing   *)
(* older than that packet.                                                 *)
FlushAhead(q) == \/ queue[q] # <<>> /\ Head(queue[q]) \in Markers
                 \/ cpc[q] = "got" /\ cpkt[q] \in Markers

UpToDate(q) == /\ decoder[q] \in {Nothing, EpochOf(q)}
               /\ cpc[q] = "got" => cpkt[q].epoch = EpochOf(q)

Settled(q) == \/ q \in lostFlush
              \/ dpc = PutPlace[q]
              \/ FlushAhead(q)
              \/ UpToDate(q)

(* Where no flush packet was lost, every marker has the data of flush_pkt, *)
(* which is the copy: it is recognised.                                    *)
Known(p, f) == p \in Markers => p = Marker("copy") /\ f = Marker("copy")

MarkersKnown == \A q \in Queues \ lostFlush :
  /\ \A k \in 1 .. Len(queue[q]) : Known(queue[q][k], flush_pkt)
  /\ cpc[q] = "got" => Known(cpkt[q], flush_pkt)

(* A queue is empty when the flush packet is put into it.                  *)
Emptied == \A q \in Queues : dpc = PutPlace[q] => queue[q] = <<>>

FlushedInTime == DecoderFlushed /\ \A q \in Queues : Settled(q)

Control == TypeOK /\ Requests /\ EpochRoom
IInv == /\ Control /\ Handed /\ RoomKept /\ BytesBounded
        /\ SleepsOnlyWhenEmpty /\ Fresh /\ MarkersKnown /\ Emptied
        /\ FlushedInTime

-----------------------------------------------------------------------------
LEMMA FlushPacketApart == \A p \in Packet : p \notin Markers
  <1> SUFFICES ASSUME NEW p \in Packet PROVE p \notin Markers
    OBVIOUS
  <1>1. p.stream \in 1 .. Len(FileStreams)
    BY DemuxAssumption DEF Packet, Streams
  <1>2. p.stream # 0
    BY <1>1, DemuxAssumption
  <1> QED BY <1>2 DEF Markers, Marker

(* Outside of the seek itself no queue is about to be flushed or marked.   *)
LEMMA Elsewhere ==
  \A q \in Queues :
    \A p \in {"top", "request", "seek", "sought", "read", "put", "ended"} :
      p \notin Unflushed[q] /\ p # PutPlace[q]
  BY DEF Queues, Unflushed, PutPlace

LEMMA SizesOfPackets ==
  \A p \in Packet \cup Markers :
    p.size \in Nat /\ p.size \in Sizes \cup {0}
  <1> SUFFICES ASSUME NEW p \in Packet \cup Markers
               PROVE  p.size \in Nat /\ p.size \in Sizes \cup {0}
    OBVIOUS
  <1>1. CASE p \in Packet
    BY <1>1, DemuxAssumption DEF Packet
  <1>2. CASE p \in Markers
    BY <1>2 DEF Markers, Marker
  <1> QED BY <1>1, <1>2

LEMMA InitIInv == Init => IInv
  <1> SUFFICES ASSUME Init PROVE IInv
    OBVIOUS
  <1> USE DemuxAssumption DEF Init
  <1>1. TypeOK
    <2>1. flush_pkt \in Markers
      BY DEF Markers
    <2> QED BY <2>1 DEF TypeOK, UserPlaces, DecodePlaces, ConsumerPlaces
  <1>2. Requests /\ EpochRoom /\ Handed
    BY DEF Requests, EpochRoom, Handed, Seeking, Moved, Settling
  <1>3. RoomKept /\ BytesBounded /\ SleepsOnlyWhenEmpty
    BY DEF RoomKept, BytesBounded, SleepsOnlyWhenEmpty
  <1>4. Fresh
    BY DEF Fresh, AllOf
  <1>5. MarkersKnown /\ Emptied /\ FlushedInTime
    BY DEF MarkersKnown, Emptied, FlushedInTime, DecoderFlushed, Settled, UpToDate
  <1> QED BY <1>1, <1>2, <1>3, <1>4, <1>5 DEF IInv, Control

(* What a put does to a queue.                                             *)
LEMMA PutType ==
  ASSUME queue \in [Queues -> Seq(Packet \cup Markers)],
         bytes \in [Queues -> Int], cpc \in [Queues -> ConsumerPlaces],
         NEW q \in Queues, NEW p \in Packet \cup Markers, Put(q, p)
  PROVE  /\ queue' \in [Queues -> Seq(Packet \cup Markers)]
         /\ bytes' \in [Queues -> Int]
         /\ cpc' \in [Queues -> ConsumerPlaces]
  <1>1. Append(queue[q], p) \in Seq(Packet \cup Markers)
    OBVIOUS
  <1>2. bytes[q] + p.size \in Int
    BY SizesOfPackets
  <1> QED BY <1>1, <1>2 DEF Put, ConsumerPlaces

LEMMA TypeStep ==
  ASSUME Control, [Next]_vars
  PROVE  Control'
  <1> USE DemuxAssumption DEF Control, Requests, EpochRoom, Seeking, Moved,
        Settling, marker
  <1>1. CASE CheckRoom
    BY <1>1 DEF CheckRoom, TypeOK, DecodePlaces, queues, seeks, consumers
  <1>2. CASE CheckRequest
    BY <1>2 DEF CheckRequest, TypeOK, DecodePlaces, queues, seeks, consumers
  <1>3. CASE SeekFrame
    BY <1>3 DEF SeekFrame, TypeOK, DecodePlaces, queues, consumers
  <1>4. CASE EndSeek
    BY <1>4 DEF EndSeek, TypeOK, DecodePlaces, queues, consumers
  <1>5. CASE ReadFrame
    <2>1. packet' \in Packet \cup Markers
      BY <1>5 DEF ReadFrame, TypeOK, Packet
    <2> QED BY <1>5, <2>1 DEF ReadFrame, TypeOK, DecodePlaces, queues, seeks,
                              consumers
  <1>6. CASE RoutePacket
    <2>1. CASE \E q \in Route(packet.stream) : Put(q, packet)
      <3>1. PICK q \in Queues : Put(q, packet)
        BY <2>1 DEF Route, Queues
      <3>2. /\ queue' \in [Queues -> Seq(Packet \cup Markers)]
            /\ bytes' \in [Queues -> Int]
            /\ cpc' \in [Queues -> ConsumerPlaces]
        BY <3>1, PutType DEF TypeOK
      <3> QED BY <1>6, <3>2 DEF RoutePacket, TypeOK, DecodePlaces, seeks
    <2>2. CASE UNCHANGED <<queues, cpc>>
      BY <1>6, <2>2 DEF RoutePacket, TypeOK, DecodePlaces, seeks, queues
    <2> QED BY <1>6, <2>1, <2>2 DEF RoutePacket
  <1>7. ASSUME NEW q \in Queues, FlushQueue(q) PROVE Control'
    <2>1. dpc' \in {"putaudio", "putvideo"}
      BY <1>7 DEF FlushQueue, PutPlace, Queues
    <2>2. dpc \in {"flushaudio", "flushvideo"}
      BY <1>7 DEF FlushQueue, FlushPlace, Queues
    <2>3. <<>> \in Seq(Packet \cup Markers)
      OBVIOUS
    <2> QED BY <1>7, <2>1, <2>2, <2>3 DEF FlushQueue, Flush, TypeOK,
              DecodePlaces, seeks, consumers
  <1>8. ASSUME NEW q \in Queues, PutFlush(q) PROVE Control'
    <2>1. dpc' \in {"flushvideo", "sought"}
      BY <1>8 DEF PutFlush, AfterPut, Queues
    <2>2. dpc \in {"putaudio", "putvideo"}
      BY <1>8 DEF PutFlush, PutPlace, Queues
    <2>0. /\ flush_pkt' \in Markers /\ flush_pkt' \in Packet \cup Markers
          /\ lostFlush' \in SUBSET Queues
      BY <1>8 DEF PutFlush, TypeOK, Markers
    <2>3. CASE Put(q, flush_pkt')
      <3>1. /\ queue' \in [Queues -> Seq(Packet \cup Markers)]
            /\ bytes' \in [Queues -> Int]
            /\ cpc' \in [Queues -> ConsumerPlaces]
        BY <2>0, <2>3, PutType DEF TypeOK
      <3> QED BY <1>8, <2>0, <2>1, <2>2, <3>1 DEF PutFlush, TypeOK,
                DecodePlaces, seeks
    <2>4. CASE UNCHANGED <<queues, cpc>>
      BY <1>8, <2>0, <2>1, <2>2, <2>4 DEF PutFlush, TypeOK, DecodePlaces, seeks, queues
    <2> QED BY <1>8, <2>3, <2>4 DEF PutFlush
  <1>9. CASE BeginSeek
    BY <1>9 DEF BeginSeek, TypeOK, UserPlaces, DecodePlaces, queues, reader,
       consumers
  <1>10. CASE StorePos
    BY <1>10 DEF StorePos, TypeOK, UserPlaces, queues, reader, consumers
  <1>11. CASE RequestSeek
    BY <1>11 DEF RequestSeek, TypeOK, UserPlaces, queues, reader, consumers
  <1>12. ASSUME NEW q \in Queues, Get(q) PROVE Control'
    <2>1. CASE queue[q] # <<>> /\ queue' = [queue EXCEPT ![q] = Tail(@)]
               /\ bytes' = [bytes EXCEPT ![q] = @ - Head(queue[q]).size]
               /\ cpkt' = [cpkt EXCEPT ![q] = Head(queue[q])]
               /\ cpc' = [cpc EXCEPT ![q] = "got"]
      <3>1. /\ Head(queue[q]) \in Packet \cup Markers
            /\ Tail(queue[q]) \in Seq(Packet \cup Markers)
        BY <2>1 DEF TypeOK
      <3>2. bytes[q] - Head(queue[q]).size \in Int
        BY <3>1, SizesOfPackets DEF TypeOK
      <3> QED BY <1>12, <2>1, <3>1, <3>2 DEF Get, TypeOK, ConsumerPlaces,
                seeks, reader
    <2>2. CASE cpc' = [cpc EXCEPT ![q] = "sleep"] /\ UNCHANGED <<queues, cpkt>>
      BY <1>12, <2>2 DEF Get, TypeOK, ConsumerPlaces, seeks, reader, queues
    <2> QED BY <1>12, <2>1, <2>2 DEF Get
  <1>13. ASSUME NEW q \in Queues, FlushDecoder(q) PROVE Control'
    BY <1>13 DEF FlushDecoder, TypeOK, ConsumerPlaces, seeks, reader, queues
  <1>14. ASSUME NEW q \in Queues, Decode(q) PROVE Control'
    <2>1. cpkt[q].epoch \in 0 .. MaxSeeks
      BY DEF TypeOK, Packet, Markers, Freed, Marker
    <2> QED BY <1>14, <2>1 DEF Decode, TypeOK, ConsumerPlaces, seeks, reader,
              queues
  <1>15. CASE UNCHANGED vars
    BY <1>15 DEF vars, TypeOK, queues, seeks, reader, consumers
  <1> QED BY <1>1, <1>2, <1>3, <1>4, <1>5, <1>6, <1>7, <1>8, <1>9, <1>10,
             <1>11, <1>12, <1>13, <1>14, <1>15 DEF Next, Reader, User, Consumer

LEMMA HandedStep ==
  ASSUME Control, Handed, [Next]_vars
  PROVE  Handed'
  <1> USE DemuxAssumption DEF Control, Requests, EpochRoom, Handed, Seeking, Moved,
        Settling, TypeOK
  <1>1. CASE CheckRoom
    BY <1>1 DEF CheckRoom, seeks
  <1>2. CASE CheckRequest
    BY <1>2 DEF CheckRequest, seeks
  <1>3. CASE SeekFrame
    BY <1>3 DEF SeekFrame
  <1>4. CASE EndSeek
    BY <1>4 DEF EndSeek
  <1>5. CASE ReadFrame
    BY <1>5 DEF ReadFrame, seeks
  <1>6. CASE RoutePacket
    BY <1>6 DEF RoutePacket, seeks
  <1>7. ASSUME NEW q \in Queues, FlushQueue(q) PROVE Handed'
    BY <1>7 DEF FlushQueue, seeks, FlushPlace, PutPlace, Queues
  <1>8. ASSUME NEW q \in Queues, PutFlush(q) PROVE Handed'
    BY <1>8 DEF PutFlush, seeks, AfterPut, PutPlace, Queues
  <1>9. CASE BeginSeek
    BY <1>9 DEF BeginSeek, reader, UserPlaces
  <1>10. CASE StorePos
    BY <1>10 DEF StorePos, reader
  <1>11. CASE RequestSeek
    BY <1>11 DEF RequestSeek, reader
  <1>12. ASSUME NEW q \in Queues, Consumer(q) PROVE Handed'
    BY <1>12 DEF Consumer, Get, FlushDecoder, Decode, seeks, reader
  <1>13. CASE UNCHANGED vars
    BY <1>13 DEF vars, seeks, reader
  <1> QED BY <1>1, <1>2, <1>3, <1>4, <1>5, <1>6, <1>7, <1>8, <1>9, <1>10,
             <1>11, <1>12, <1>13 DEF Next, Reader, User

LEMMA RoomStep ==
  ASSUME Control, RoomKept, BytesBounded, [Next]_vars
  PROVE  RoomKept' /\ BytesBounded'
  <1> USE DemuxAssumption DEF Control, RoomKept, BytesBounded, TypeOK
  <1>1. CASE CheckRoom
    BY <1>1 DEF CheckRoom, queues
  <1>2. CASE CheckRequest
    BY <1>2 DEF CheckRequest, queues
  <1>3. CASE SeekFrame
    BY <1>3 DEF SeekFrame, queues
  <1>4. CASE EndSeek
    BY <1>4 DEF EndSeek, queues
  <1>5. CASE ReadFrame
    BY <1>5 DEF ReadFrame, queues
  <1>6. CASE RoutePacket
    <2>1. \A q \in Queues : bytes[q] <= MaxSize
      BY <1>6 DEF RoutePacket
    <2>2. dpc' = "top"
      BY <1>6 DEF RoutePacket
    <2>3. CASE \E q \in Route(packet.stream) : Put(q, packet)
      <3>1. PICK q \in Queues : Put(q, packet)
        BY <2>3 DEF Route, Queues
      <3>2. bytes' = [bytes EXCEPT ![q] = @ + packet.size]
        BY <3>1 DEF Put
      <3>3. packet.size \in Sizes \cup {0}
        BY SizesOfPackets
      <3>4. ASSUME NEW r \in Queues
            PROVE  bytes'[r] <= MaxSize
                   \/ \E n \in Sizes : bytes'[r] <= MaxSize + n
        <4>1. CASE bytes'[r] = bytes[r]
          BY <2>1, <4>1
        <4>2. CASE bytes'[r] = bytes[r] + packet.size /\ packet.size \in Sizes
          <5>1. bytes[r] \in Int /\ bytes[r] <= MaxSize /\ packet.size \in Int
            BY <2>1, SizesOfPackets
          <5>2. bytes'[r] <= MaxSize + packet.size
            BY <4>2, <5>1
          <5> QED BY <4>2, <5>2
        <4>3. CASE bytes'[r] = bytes[r] + packet.size /\ packet.size = 0
          BY <2>1, <4>3
        <4> QED BY <3>2, <3>3, <4>1, <4>2, <4>3
      <3> QED BY <2>2, <3>4
    <2>4. CASE UNCHANGED <<queues, cpc>>
      BY <2>1, <2>2, <2>4 DEF queues
    <2> QED BY <1>6, <2>3, <2>4 DEF RoutePacket
  <1>7. ASSUME NEW q \in Queues, FlushQueue(q)
        PROVE  RoomKept' /\ BytesBounded'
    <2>1. dpc \notin {"top", "ended"}
      BY <1>7 DEF FlushQueue, FlushPlace, Queues
    <2> QED BY <1>7, <2>1 DEF FlushQueue, Flush
  <1>8. ASSUME NEW q \in Queues, PutFlush(q)
        PROVE  RoomKept' /\ BytesBounded'
    <2>1. dpc \notin {"top", "ended"}
      BY <1>8 DEF PutFlush, PutPlace, Queues
    <2>2. flush_pkt'.size = 0
      BY <1>8 DEF PutFlush, Markers, Marker
    <2> QED BY <1>8, <2>1, <2>2 DEF PutFlush, Put, queues
  <1>9. CASE User
    BY <1>9 DEF User, BeginSeek, StorePos, RequestSeek, queues, reader
  <1>10. ASSUME NEW q \in Queues, Get(q)
         PROVE  RoomKept' /\ BytesBounded'
    <2>1. dpc' = dpc
      BY <1>10 DEF Get, reader
    <2>2. CASE queue[q] # <<>>
               /\ bytes' = [bytes EXCEPT ![q] = @ - Head(queue[q]).size]
      <3>1. Head(queue[q]) \in Packet \cup Markers
        BY <2>2
      <3>2. Head(queue[q]).size \in Nat
        BY <3>1, SizesOfPackets
      <3>3. \A r \in Queues : bytes'[r] <= bytes[r]
        BY <2>2, <3>2
      <3>4. \A r \in Queues : bytes'[r] \in Int
        BY <2>2, <3>2
      <3>5. RoomKept'
        BY <2>1, <3>3, <3>4
      <3>6. ASSUME NEW r \in Queues
            PROVE  bytes'[r] <= MaxSize
                   \/ \E n \in Sizes : bytes'[r] <= MaxSize + n
        <4>1. CASE bytes[r] <= MaxSize
          BY <3>3, <3>4, <4>1
        <4>2. ASSUME NEW n \in Sizes, bytes[r] <= MaxSize + n
              PROVE  bytes'[r] <= MaxSize + n
          <5>1. n \in Int /\ bytes[r] \in Int
            OBVIOUS
          <5> QED BY <3>3, <3>4, <4>2, <5>1
        <4> QED BY <4>1, <4>2
      <3> QED BY <3>5, <3>6
    <2>3. CASE UNCHANGED queues
      BY <2>1, <2>3 DEF queues
    <2> QED BY <1>10, <2>2, <2>3 DEF Get
  <1>11. ASSUME NEW q \in Queues, FlushDecoder(q) \/ Decode(q)
         PROVE  RoomKept' /\ BytesBounded'
    BY <1>11 DEF FlushDecoder, Decode, queues, reader
  <1>12. CASE UNCHANGED vars
    BY <1>12 DEF vars, queues, reader
  <1> QED BY <1>1, <1>2, <1>3, <1>4, <1>5, <1>6, <1>7, <1>8, <1>9, <1>10,
             <1>11, <1>12 DEF Next, Reader, Consumer

LEMMA SleepStep ==
  ASSUME Control, SleepsOnlyWhenEmpty, [Next]_vars
  PROVE  SleepsOnlyWhenEmpty'
  <1> USE DEF Control, SleepsOnlyWhenEmpty, TypeOK
  <1>1. ASSUME NEW q \in Queues, NEW p, Put(q, p)
        PROVE  SleepsOnlyWhenEmpty'
    BY <1>1 DEF Put
  <1>2. CASE RoutePacket
    BY <1>1, <1>2 DEF RoutePacket, Route, Queues, queues
  <1>3. ASSUME NEW q \in Queues, PutFlush(q) PROVE SleepsOnlyWhenEmpty'
    BY <1>1, <1>3 DEF PutFlush, queues
  <1>4. ASSUME NEW q \in Queues, FlushQueue(q) PROVE SleepsOnlyWhenEmpty'
    BY <1>4 DEF FlushQueue, Flush, consumers
  <1>5. CASE CheckRoom \/ CheckRequest \/ SeekFrame \/ EndSeek \/ ReadFrame
    BY <1>5 DEF CheckRoom, CheckRequest, SeekFrame, EndSeek, ReadFrame, queues,
       consumers
  <1>6. CASE User
    BY <1>6 DEF User, BeginSeek, StorePos, RequestSeek, queues, consumers
  <1>7. ASSUME NEW q \in Queues, Consumer(q) PROVE SleepsOnlyWhenEmpty'
    BY <1>7 DEF Consumer, Get, FlushDecoder, Decode, queues
  <1>8. CASE UNCHANGED vars
    BY <1>8 DEF vars, queues, consumers
  <1> QED BY <1>2, <1>3, <1>4, <1>5, <1>6, <1>7, <1>8 DEF Next, Reader

LEMMA AllOfEmpty == \A e : AllOf(<<>>, e)
  BY DEF AllOf

LEMMA AllOfAppend ==
  ASSUME NEW s \in Seq(Packet \cup Markers), NEW e, AllOf(s, e),
         NEW p \in Packet \cup Markers, p \in Markers \/ p.epoch = e
  PROVE  AllOf(Append(s, p), e)
  <1> SUFFICES ASSUME NEW k \in 1 .. Len(Append(s, p)),
                      Append(s, p)[k] \notin Markers
               PROVE  Append(s, p)[k].epoch = e
    BY DEF AllOf
  <1>1. CASE k = Len(s) + 1
    <2>1. Append(s, p)[k] = p
      BY <1>1
    <2> QED BY <2>1
  <1>2. CASE k \in 1 .. Len(s)
    <2>1. Append(s, p)[k] = s[k]
      BY <1>2
    <2> QED BY <1>2, <2>1 DEF AllOf
  <1> QED BY <1>1, <1>2

LEMMA AllOfTail ==
  ASSUME NEW s \in Seq(Packet \cup Markers), s # <<>>, NEW e, AllOf(s, e)
  PROVE  /\ AllOf(Tail(s), e)
         /\ Head(s) \in Markers \/ Head(s).epoch = e
  <1>1. ASSUME NEW k \in 1 .. Len(Tail(s)), Tail(s)[k] \notin Markers
        PROVE  Tail(s)[k].epoch = e
    <2>1. Tail(s)[k] = s[k + 1] /\ k + 1 \in 1 .. Len(s)
      OBVIOUS
    <2> QED BY <1>1, <2>1 DEF AllOf
  <1>2. Head(s) = s[1] /\ 1 \in 1 .. Len(s)
    OBVIOUS
  <1> QED BY <1>1, <1>2 DEF AllOf

LEMMA AppendMembers ==
  ASSUME NEW s \in Seq(Packet \cup Markers), NEW p \in Packet \cup Markers,
         NEW k \in 1 .. Len(Append(s, p))
  PROVE  \/ Append(s, p)[k] = p
         \/ k \in 1 .. Len(s) /\ Append(s, p)[k] = s[k]
  <1>1. CASE k = Len(s) + 1
    BY <1>1
  <1>2. CASE k \in 1 .. Len(s)
    BY <1>2
  <1> QED BY <1>1, <1>2

LEMMA TailMembers ==
  ASSUME NEW s \in Seq(Packet \cup Markers), s # <<>>
  PROVE  /\ \A k \in 1 .. Len(Tail(s)) :
              k + 1 \in 1 .. Len(s) /\ Tail(s)[k] = s[k + 1]
         /\ 1 \in 1 .. Len(s) /\ Head(s) = s[1]
  OBVIOUS

(* flush_pkt changes once at most, when its data is first copied.          *)
LEMMA NextFlushPacket ==
  ASSUME TypeOK, [Next]_vars
  PROVE  flush_pkt' \in Markers /\ flush_pkt' \in {flush_pkt, Marker("copy")}
  <1>1. ASSUME NEW q \in Queues, PutFlush(q)
        PROVE  flush_pkt' \in {flush_pkt, Marker("copy")}
    BY <1>1 DEF PutFlush
  <1>2. ASSUME NEW q \in Queues, FlushQueue(q) \/ Consumer(q)
        PROVE  flush_pkt' = flush_pkt
    BY <1>2 DEF FlushQueue, Consumer, Get, FlushDecoder, Decode, marker
  <1>3. ASSUME User \/ UNCHANGED vars PROVE flush_pkt' = flush_pkt
    BY <1>3 DEF User, BeginSeek, StorePos, RequestSeek, vars, queues, seeks,
       reader, consumers, marker
  <1>4. ASSUME \/ CheckRoom \/ CheckRequest \/ SeekFrame \/ EndSeek
               \/ ReadFrame \/ RoutePacket
        PROVE  flush_pkt' = flush_pkt
    BY <1>4 DEF CheckRoom, CheckRequest, SeekFrame, EndSeek, ReadFrame,
       RoutePacket, queues, seeks, consumers, marker
  <1>5. flush_pkt' \in {flush_pkt, Marker("copy")}
    BY <1>1, <1>2, <1>3, <1>4 DEF Next, Reader
  <1> QED BY <1>5 DEF TypeOK, Markers

(* The packets that count as new change only when the file moves and when  *)
(* a queue is flushed.                                                     *)
LEMMA FreshStep ==
  ASSUME Control, Fresh, [Next]_vars
  PROVE  Fresh'
  <1> USE DEF Fresh, EpochOf, Unflushed, Control, TypeOK
  <1>1. CASE CheckRoom \/ CheckRequest \/ EndSeek
    <2>1. /\ dpc \in {"top", "request", "sought"}
          /\ dpc' \in {"request", "seek", "read"}
          /\ UNCHANGED <<queue, epoch, packet>>
      BY <1>1 DEF CheckRoom, CheckRequest, EndSeek, queues
    <2>2. \A q \in Queues : dpc \notin Unflushed[q] /\ dpc' \notin Unflushed[q]
      BY <2>1, Elsewhere
    <2> QED BY <2>1, <2>2
  <1>2. CASE SeekFrame
    BY <1>2 DEF SeekFrame, queues, Queues
  <1>3. CASE ReadFrame
    <2>1. dpc' = "put" => packet' \in Packet /\ packet'.epoch = epoch'
      BY <1>3 DEF ReadFrame, Packet
    <2>2. \A q \in Queues : queue'[q] = queue[q] /\ EpochOf(q)' = EpochOf(q)
      <3>1. /\ dpc = "read" /\ dpc' \in {"put", "top", "ended"}
            /\ UNCHANGED <<queue, epoch>>
        BY <1>3 DEF ReadFrame, queues
      <3> QED BY <3>1, Elsewhere
    <2> QED BY <2>1, <2>2
  <1>4. CASE RoutePacket
    <2>1. dpc = "put" /\ dpc' = "top" /\ UNCHANGED epoch
      BY <1>4 DEF RoutePacket
    <2>0. \A q \in Queues : dpc \notin Unflushed[q] /\ dpc' \notin Unflushed[q]
      BY <2>1, Elsewhere
    <2>2. \A q \in Queues : EpochOf(q) = epoch /\ EpochOf(q)' = epoch
      BY <2>0, <2>1
    <2>3. ASSUME NEW q \in Queues PROVE AllOf(queue'[q], epoch)
      <3>1. CASE queue'[q] = queue[q]
        BY <2>2, <3>1
      <3>2. CASE queue'[q] = Append(queue[q], packet)
        <4>1. AllOf(queue[q], epoch) /\ packet.epoch = epoch
          BY <2>1, <2>2
        <4>2. queue[q] \in Seq(Packet \cup Markers)
          OBVIOUS
        <4>3. AllOf(Append(queue[q], packet), epoch)
          BY <4>1, <4>2, AllOfAppend
        <4> QED BY <3>2, <4>3
      <3> QED BY <1>4, <3>1, <3>2 DEF RoutePacket, Put, queues
    <2> QED BY <2>1, <2>2, <2>3
  <1>5. ASSUME NEW q \in Queues, FlushQueue(q) PROVE Fresh'
    <2>1. queue' = [queue EXCEPT ![q] = <<>>] /\ epoch' = epoch
      BY <1>5 DEF FlushQueue, Flush
    <2>2. dpc = FlushPlace[q] /\ dpc' = PutPlace[q]
      BY <1>5 DEF FlushQueue
    <2>3. ASSUME NEW r \in Queues, r # q
          PROVE  EpochOf(r)' = EpochOf(r) /\ queue'[r] = queue[r]
      BY <2>1, <2>2, <2>3 DEF FlushPlace, PutPlace, Queues
    <2>4. AllOf(queue'[q], EpochOf(q)')
      BY <2>1, AllOfEmpty
    <2>5. dpc' # "put"
      BY <2>2 DEF PutPlace, Queues
    <2> QED BY <2>3, <2>4, <2>5
  <1>6. ASSUME NEW q \in Queues, PutFlush(q) PROVE Fresh'
    <2>1. dpc = PutPlace[q] /\ dpc' = AfterPut[q] /\ epoch' = epoch
      BY <1>6 DEF PutFlush
    <2>2. \A r \in Queues : EpochOf(r)' = EpochOf(r)
      BY <2>1 DEF PutPlace, AfterPut, Queues
    <2>3. ASSUME NEW r \in Queues PROVE AllOf(queue'[r], EpochOf(r))
      <3>1. CASE queue'[r] = queue[r]
        BY <3>1
      <3>2. CASE queue'[r] = Append(queue[r], flush_pkt')
        <4>1. /\ flush_pkt' \in Markers
              /\ queue[r] \in Seq(Packet \cup Markers)
              /\ AllOf(queue[r], EpochOf(r))
          BY <1>6 DEF PutFlush, Markers
        <4>2. AllOf(Append(queue[r], flush_pkt'), EpochOf(r))
          BY <4>1, AllOfAppend
        <4> QED BY <3>2, <4>2
      <3> QED BY <1>6, <3>1, <3>2 DEF PutFlush, Put, queues
    <2>4. dpc' # "put"
      BY <2>1 DEF AfterPut, Queues
    <2> QED BY <2>2, <2>3, <2>4
  <1>7. CASE User
    BY <1>7 DEF User, BeginSeek, StorePos, RequestSeek, queues, reader
  <1>8. ASSUME NEW q \in Queues, Get(q) PROVE Fresh'
    <2>1. UNCHANGED <<dpc, epoch, packet>>
      BY <1>8 DEF Get, reader
    <2>2. ASSUME NEW r \in Queues PROVE AllOf(queue'[r], EpochOf(r))
      <3>1. CASE queue'[r] = queue[r]
        BY <3>1
      <3>2. CASE queue[r] # <<>> /\ queue'[r] = Tail(queue[r])
        <4>1. /\ queue[r] \in Seq(Packet \cup Markers)
              /\ AllOf(queue[r], EpochOf(r))
          OBVIOUS
        <4>2. AllOf(Tail(queue[r]), EpochOf(r))
          BY <3>2, <4>1, AllOfTail
        <4> QED BY <3>2, <4>2
      <3> QED BY <1>8, <3>1, <3>2 DEF Get, queues
    <2> QED BY <2>1, <2>2
  <1>9. ASSUME NEW q \in Queues, FlushDecoder(q) \/ Decode(q) PROVE Fresh'
    BY <1>9 DEF FlushDecoder, Decode, queues, reader
  <1>10. CASE UNCHANGED vars
    BY <1>10 DEF vars, queues, reader
  <1> QED BY <1>1, <1>2, <1>3, <1>4, <1>5, <1>6, <1>7, <1>8, <1>9, <1>10
          DEF Next, Reader, Consumer

LEMMA KnownStep ==
  ASSUME Control, Fresh, MarkersKnown, [Next]_vars
  PROVE  MarkersKnown'
  <1> USE DEF Control, TypeOK
  <1>1. \A p : Known(p, flush_pkt) => Known(p, flush_pkt')
    BY NextFlushPacket DEF Known
  <1>2. ASSUME UNCHANGED <<queue, cpc, cpkt, lostFlush>> PROVE MarkersKnown'
    BY <1>1, <1>2 DEF MarkersKnown
  <1>3. CASE CheckRoom \/ CheckRequest \/ SeekFrame \/ EndSeek \/ ReadFrame
    BY <1>2, <1>3 DEF CheckRoom, CheckRequest, SeekFrame, EndSeek, ReadFrame,
       queues, consumers, marker
  <1>4. CASE User \/ UNCHANGED vars
    BY <1>2, <1>4 DEF User, BeginSeek, StorePos, RequestSeek, vars, queues,
       consumers, marker
  <1>5. ASSUME NEW q \in Queues, NEW p \in Packet \cup Markers, Put(q, p),
               lostFlush \subseteq lostFlush', cpkt' = cpkt,
               q \in lostFlush' \/ Known(p, flush_pkt')
        PROVE  MarkersKnown'
    <2> SUFFICES ASSUME NEW r \in Queues, r \notin lostFlush'
                 PROVE  /\ \A k \in 1 .. Len(queue'[r]) : Known(queue'[r][k], flush_pkt')
                        /\ cpc'[r] = "got" => Known(cpkt'[r], flush_pkt')
      BY DEF MarkersKnown
    <2>1. /\ \A k \in 1 .. Len(queue[r]) : Known(queue[r][k], flush_pkt')
          /\ cpc[r] = "got" => Known(cpkt[r], flush_pkt')
      BY <1>1, <1>5 DEF MarkersKnown
    <2>2. cpc'[r] = "got" => cpc[r] = "got"
      BY <1>5 DEF Put
    <2>3. ASSUME NEW k \in 1 .. Len(queue'[r]) PROVE Known(queue'[r][k], flush_pkt')
      <3>1. CASE queue'[r] = queue[r]
        BY <2>1, <2>3, <3>1
      <3>2. ASSUME NEW j \in 1 .. Len(Append(queue[r], p)), r = q
            PROVE  Known(Append(queue[r], p)[j], flush_pkt')
        <4>1. queue[r] \in Seq(Packet \cup Markers)
          OBVIOUS
        <4>2. \/ Append(queue[r], p)[j] = p
              \/ j \in 1 .. Len(queue[r]) /\ Append(queue[r], p)[j] = queue[r][j]
          BY <3>2, <4>1, AppendMembers
        <4>3. Known(p, flush_pkt')
          BY <1>5, <3>2
        <4>4. ASSUME j \in 1 .. Len(queue[r]) PROVE Known(queue[r][j], flush_pkt')
          BY <2>1, <4>4
        <4> HIDE DEF Known
        <4> QED BY <4>2, <4>3, <4>4, Zenon
      <3>3. CASE r = q
        <4>1. queue'[r] = Append(queue[r], p)
          BY <1>5, <3>3 DEF Put
        <4> QED BY <2>3, <3>2, <3>3, <4>1
      <3>4. r # q => queue'[r] = queue[r]
        BY <1>5 DEF Put
      <3> QED BY <3>1, <3>3, <3>4
    <2> QED BY <1>5, <2>1, <2>2, <2>3
  <1>6. CASE RoutePacket
    <2>1. packet \in Packet /\ UNCHANGED <<cpkt, lostFlush>>
      BY <1>6 DEF RoutePacket, Fresh, marker
    <2>2. Known(packet, flush_pkt')
      BY <2>1, FlushPacketApart DEF Known
    <2>3. ASSUME NEW q \in Route(packet.stream), Put(q, packet) PROVE MarkersKnown'
      <3>1. q \in Queues
        BY <2>3 DEF Route, Queues
      <3> QED BY <1>5, <2>1, <2>2, <2>3, <3>1
    <2> QED BY <1>2, <1>6, <2>1, <2>3 DEF RoutePacket, queues
  <1>7. ASSUME NEW q \in Queues, PutFlush(q) PROVE MarkersKnown'
    <2>1. flush_pkt' \in Markers /\ cpkt' = cpkt /\ lostFlush \subseteq lostFlush'
      BY <1>7, NextFlushPacket DEF PutFlush
    <2>2. CASE Put(q, flush_pkt')
      <3>1. q \in lostFlush' \/ flush_pkt' = Marker("copy")
        BY <1>7 DEF PutFlush
      <3>2. q \in lostFlush' \/ Known(flush_pkt', flush_pkt')
        BY <3>1 DEF Known
      <3> QED BY <1>5, <2>1, <2>2, <3>2
    <2>3. CASE UNCHANGED <<queues, cpc>>
      BY <1>1, <2>1, <2>3 DEF MarkersKnown, queues
    <2> QED BY <1>7, <2>2, <2>3 DEF PutFlush
  <1>8. ASSUME NEW q \in Queues, FlushQueue(q) PROVE MarkersKnown'
    BY <1>1, <1>8 DEF FlushQueue, Flush, MarkersKnown, consumers, marker
  <1>9. ASSUME NEW q \in Queues, Get(q) PROVE MarkersKnown'
    <2>1. CASE cpc' = [cpc EXCEPT ![q] = "sleep"] /\ UNCHANGED <<queues, cpkt>>
      BY <1>1, <1>9, <2>1 DEF Get, MarkersKnown, queues, marker
    <2>2. CASE /\ queue[q] # <<>>
               /\ queue' = [queue EXCEPT ![q] = Tail(@)]
               /\ cpkt' = [cpkt EXCEPT ![q] = Head(queue[q])]
               /\ cpc' = [cpc EXCEPT ![q] = "got"]
      <3>1. lostFlush' = lostFlush
        BY <1>9 DEF Get, marker
      <3>2. /\ queue[q] \in Seq(Packet \cup Markers)
            /\ \A k \in 1 .. Len(Tail(queue[q])) :
                 k + 1 \in 1 .. Len(queue[q]) /\ Tail(queue[q])[k] = queue[q][k + 1]
            /\ 1 \in 1 .. Len(queue[q]) /\ Head(queue[q]) = queue[q][1]
        BY <2>2, TailMembers
      <3>3. ASSUME NEW r \in Queues \ lostFlush
            PROVE  /\ \A k \in 1 .. Len(queue'[r]) : Known(queue'[r][k], flush_pkt')
                   /\ cpc'[r] = "got" => Known(cpkt'[r], flush_pkt')
        <4>1. /\ \A k \in 1 .. Len(queue[r]) : Known(queue[r][k], flush_pkt')
              /\ cpc[r] = "got" => Known(cpkt[r], flush_pkt')
          BY <1>1, <3>3 DEF MarkersKnown
        <4>2. CASE r = q
          <5>1. queue'[r] = Tail(queue[q]) /\ cpkt'[r] = Head(queue[q])
            BY <2>2, <4>2
          <5> QED BY <3>2, <4>1, <4>2, <5>1
        <4>3. CASE r # q
          BY <2>2, <4>1, <4>3
        <4> QED BY <4>2, <4>3
      <3> QED BY <3>1, <3>3 DEF MarkersKnown
    <2> QED BY <1>9, <2>1, <2>2 DEF Get
  <1>10. ASSUME NEW q \in Queues, FlushDecoder(q) \/ Decode(q)
         PROVE  MarkersKnown'
    <2>1. /\ UNCHANGED <<queue, lostFlush>>
          /\ cpc' = [cpc EXCEPT ![q] = "get"]
          /\ \A r \in Queues \ {q} : cpkt'[r] = cpkt[r]
      BY <1>10 DEF FlushDecoder, Decode, queues, marker
    <2> QED BY <1>1, <2>1 DEF MarkersKnown
  <1> QED BY <1>3, <1>4, <1>6, <1>7, <1>8, <1>9, <1>10 DEF Next, Reader, Consumer

LEMMA EmptiedStep ==
  ASSUME Control, Emptied, [Next]_vars
  PROVE  Emptied'
  <1> USE DEF Emptied, Control, TypeOK, PutPlace, Queues
  <1>1. CASE CheckRoom \/ CheckRequest \/ EndSeek \/ ReadFrame
    BY <1>1 DEF CheckRoom, CheckRequest, EndSeek, ReadFrame, queues
  <1>2. CASE SeekFrame \/ RoutePacket
    BY <1>2 DEF SeekFrame, RoutePacket, queues
  <1>3. CASE User \/ UNCHANGED vars
    BY <1>3 DEF User, BeginSeek, StorePos, RequestSeek, vars, queues, reader
  <1>4. ASSUME NEW q \in Queues, FlushQueue(q) PROVE Emptied'
    BY <1>4 DEF FlushQueue, Flush
  <1>5. ASSUME NEW q \in Queues, PutFlush(q) PROVE Emptied'
    BY <1>5 DEF PutFlush, AfterPut
  <1>6. ASSUME NEW q \in Queues, Consumer(q) PROVE Emptied'
    BY <1>6 DEF Consumer, Get, FlushDecoder, Decode, queues, reader
  <1> QED BY <1>1, <1>2, <1>3, <1>4, <1>5, <1>6 DEF Next, Reader

(* A step that changes no queue, consumer or marker that was lost, and no  *)
(* epoch, leaves the decoders settled.                                     *)
LEMMA FlushedSame ==
  ASSUME FlushedInTime, QueuesSame,
         \A q \in Queues : /\ dpc = PutPlace[q] <=> dpc' = PutPlace[q]
                          /\ EpochOf(q)' = EpochOf(q)
  PROVE  FlushedInTime'
  BY DEF FlushedInTime, QueuesSame, DecoderFlushed, Settled, FlushAhead,
     UpToDate, queues, marker

LEMMA FlushStep ==
  ASSUME Control, Fresh, MarkersKnown, Emptied, FlushedInTime, [Next]_vars
  PROVE  FlushedInTime'
  <1> USE DEF Control, TypeOK, marker
  <1>1. CASE CheckRoom \/ CheckRequest \/ EndSeek \/ ReadFrame
    <2>1. /\ dpc \in {"top", "request", "sought", "read"}
          /\ dpc' \in {"request", "seek", "read", "put", "top", "ended"}
          /\ QueuesSame /\ UNCHANGED epoch
      BY <1>1 DEF CheckRoom, CheckRequest, EndSeek, ReadFrame, QueuesSame,
         consumers, queues
    <2>2. \A q \in Queues :
            /\ dpc # PutPlace[q] /\ dpc' # PutPlace[q]
            /\ dpc \notin Unflushed[q] /\ dpc' \notin Unflushed[q]
      BY <2>1, Elsewhere
    <2>3. \A q \in Queues : EpochOf(q)' = EpochOf(q)
      BY <2>1, <2>2 DEF EpochOf
    <2> QED BY <2>1, <2>2, <2>3, FlushedSame
  <1>2. CASE SeekFrame
    <2>1. QueuesSame
      BY <1>2 DEF SeekFrame, QueuesSame, consumers, queues
    <2>2. ASSUME NEW q \in Queues
          PROVE  /\ dpc # PutPlace[q] /\ dpc' # PutPlace[q]
                 /\ EpochOf(q)' = EpochOf(q)
      <3>1. dpc = "seek" /\ dpc \notin Unflushed[q] /\ dpc # PutPlace[q]
        BY <1>2, Elsewhere DEF SeekFrame
      <3>2. CASE dpc' = "sought" /\ epoch' = epoch
        BY <3>1, <3>2, Elsewhere DEF EpochOf
      <3>3. CASE dpc' = "flushaudio" /\ epoch' = epoch + 1
        <4>1. dpc' \in Unflushed[q] /\ dpc' # PutPlace[q]
          BY <3>3 DEF Unflushed, PutPlace, Queues
        <4> QED BY <3>1, <3>3, <4>1 DEF EpochOf
      <3> QED BY <1>2, <3>2, <3>3 DEF SeekFrame
    <2> QED BY <2>1, <2>2, FlushedSame
  <1>3. CASE User
    <2>1. QueuesSame /\ UNCHANGED <<dpc, epoch>>
      BY <1>3 DEF User, BeginSeek, StorePos, RequestSeek, QueuesSame, consumers,
         reader, queues
    <2> QED BY <2>1, FlushedSame DEF EpochOf
  <1>4. CASE UNCHANGED vars
    <2>1. QueuesSame /\ UNCHANGED <<dpc, epoch>>
      BY <1>4 DEF vars, QueuesSame, consumers, reader, queues
    <2> QED BY <2>1, FlushedSame DEF EpochOf
  <1>5. CASE RoutePacket
    <2>1. /\ dpc = "put" /\ dpc' = "top" /\ packet \in Packet
          /\ UNCHANGED <<epoch, cpkt, decoder, lostFlush>>
      BY <1>5 DEF RoutePacket, Fresh
    <2>2. \A q \in Queues :
            /\ dpc # PutPlace[q] /\ dpc' # PutPlace[q]
            /\ dpc \notin Unflushed[q] /\ dpc' \notin Unflushed[q]
      BY <2>1, Elsewhere
    <2>3. \A q \in Queues : EpochOf(q)' = EpochOf(q)
      BY <2>1, <2>2 DEF EpochOf
    <2>4. \A q \in Queues : cpc'[q] = "got" <=> cpc[q] = "got"
      BY <1>5 DEF RoutePacket, Put
    <2>5. ASSUME NEW q \in Queues, queue[q] # <<>>
          PROVE  queue'[q] # <<>> /\ Head(queue'[q]) = Head(queue[q])
      <3>1. CASE queue'[q] = queue[q]
        BY <2>5, <3>1
      <3>2. CASE queue'[q] = Append(queue[q], packet)
        <4>1. queue[q] \in Seq(Packet \cup Markers)
          OBVIOUS
        <4> QED BY <2>1, <2>5, <3>2, <4>1
      <3> QED BY <1>5, <3>1, <3>2 DEF RoutePacket, Put, queues
    <2>6. DecoderFlushed'
      BY <2>1, <2>4 DEF FlushedInTime, DecoderFlushed
    <2>7. ASSUME NEW q \in Queues PROVE Settled(q)'
      BY <2>1, <2>2, <2>3, <2>4, <2>5
         DEF FlushedInTime, Settled, FlushAhead, UpToDate
    <2> QED BY <2>6, <2>7 DEF FlushedInTime
  <1>6. ASSUME NEW q \in Queues, FlushQueue(q) PROVE FlushedInTime'
    <2>1. /\ dpc = FlushPlace[q] /\ dpc' = PutPlace[q]
          /\ queue' = [queue EXCEPT ![q] = <<>>]
          /\ UNCHANGED <<epoch, cpc, cpkt, decoder, lostFlush>>
      BY <1>6 DEF FlushQueue, Flush, consumers
    <2>2. ASSUME NEW r \in Queues, r # q
          PROVE  /\ EpochOf(r)' = EpochOf(r) /\ queue'[r] = queue[r]
                 /\ dpc # PutPlace[r]
      BY <2>1, <2>2 DEF FlushPlace, PutPlace, Queues, EpochOf, Unflushed
    <2>3. DecoderFlushed'
      BY <2>1 DEF FlushedInTime, DecoderFlushed
    <2>4. ASSUME NEW r \in Queues PROVE Settled(r)'
      <3>1. CASE r = q
        BY <2>1, <3>1 DEF Settled
      <3>2. CASE r # q
        BY <2>1, <2>2, <3>2 DEF FlushedInTime, Settled, FlushAhead, UpToDate
      <3> QED BY <3>1, <3>2
    <2> QED BY <2>3, <2>4 DEF FlushedInTime
  <1>7. ASSUME NEW q \in Queues, PutFlush(q) PROVE FlushedInTime'
    <2>1. /\ dpc = PutPlace[q] /\ dpc' = AfterPut[q]
          /\ UNCHANGED <<epoch, cpkt, decoder>>
      BY <1>7 DEF PutFlush
    <2>2. ASSUME NEW r \in Queues, r # q
          PROVE  /\ EpochOf(r)' = EpochOf(r) /\ queue'[r] = queue[r]
                 /\ dpc # PutPlace[r] /\ cpc'[r] = cpc[r]
      <3>1. EpochOf(r)' = EpochOf(r) /\ dpc # PutPlace[r]
        BY <2>1, <2>2 DEF PutPlace, AfterPut, Queues, EpochOf, Unflushed
      <3>2. queue'[r] = queue[r] /\ cpc'[r] = cpc[r]
        BY <1>7, <2>2 DEF PutFlush, Put, queues
      <3> QED BY <3>1, <3>2
    <2>3. \A r \in Queues : cpc'[r] = "got" <=> cpc[r] = "got"
      BY <1>7 DEF PutFlush, Put
    <2>4. lostFlush \subseteq lostFlush'
      BY <1>7 DEF PutFlush
    <2>5. DecoderFlushed'
      BY <2>1, <2>3, <2>4 DEF FlushedInTime, DecoderFlushed
    <2>6. Settled(q)'
      <3>1. CASE q \in lostFlush'
        BY <3>1 DEF Settled
      <3>2. CASE Put(q, flush_pkt')
        <4>1. queue'[q] = Append(queue[q], flush_pkt') /\ flush_pkt' \in Markers
          BY <1>7, <3>2 DEF Put, PutFlush, Markers
        <4>2. queue[q] = <<>>
          BY <2>1 DEF Emptied
        <4>3. queue'[q] # <<>> /\ Head(queue'[q]) \in Markers
          BY <4>1, <4>2
        <4> QED BY <4>3 DEF Settled, FlushAhead
      <3> QED BY <1>7, <3>1, <3>2 DEF PutFlush
    <2>7. ASSUME NEW r \in Queues, r # q PROVE Settled(r)'
      BY <2>1, <2>2, <2>4, <2>7
         DEF FlushedInTime, Settled, FlushAhead, UpToDate
    <2> QED BY <2>5, <2>6, <2>7 DEF FlushedInTime
  <1>8. ASSUME NEW q \in Queues, Get(q) PROVE FlushedInTime'
    <2>1. /\ cpc[q] = "get"
          /\ UNCHANGED <<dpc, epoch, decoder, lostFlush>>
      BY <1>8 DEF Get, reader
    <2>2. \A r \in Queues : EpochOf(r)' = EpochOf(r)
      BY <2>1 DEF EpochOf
    <2>3. CASE queue[q] = <<>> /\ cpc' = [cpc EXCEPT ![q] = "sleep"]
               /\ UNCHANGED <<queues, cpkt>>
      BY <2>1, <2>2, <2>3 DEF FlushedInTime, DecoderFlushed, Settled, FlushAhead,
         UpToDate, queues
    <2>4. CASE /\ queue[q] # <<>>
               /\ queue' = [queue EXCEPT ![q] = Tail(@)]
               /\ cpkt' = [cpkt EXCEPT ![q] = Head(queue[q])]
               /\ cpc' = [cpc EXCEPT ![q] = "got"]
      <3>1. /\ queue[q] \in Seq(Packet \cup Markers)
            /\ AllOf(queue[q], EpochOf(q))
        BY DEF Fresh
      <3>2. Head(queue[q]) \in Markers \/ Head(queue[q]).epoch = EpochOf(q)
        BY <2>4, <3>1, AllOfTail
      <3>3. dpc # PutPlace[q]
        BY <2>4 DEF Emptied
      <3>4. /\ cpkt'[q] = Head(queue[q]) /\ cpc'[q] = "got"
            /\ \A r \in Queues \ {q} : /\ cpkt'[r] = cpkt[r] /\ cpc'[r] = cpc[r]
                                      /\ queue'[r] = queue[r]
        BY <2>4
      <3>5. ASSUME NEW r \in Queues, r # q
            PROVE  /\ Settled(r)'
                   /\ cpc'[r] = "got" /\ cpkt'[r] \notin Markers =>
                        decoder'[r] \in {Nothing, cpkt'[r].epoch}
                        \/ r \in lostFlush'
        BY <2>1, <2>2, <3>4, <3>5 DEF FlushedInTime, DecoderFlushed, Settled,
           FlushAhead, UpToDate
      <3>6. CASE Head(queue[q]) \in Markers
        BY <3>4, <3>5, <3>6 DEF FlushedInTime, DecoderFlushed, Settled, FlushAhead
      <3>7. CASE Head(queue[q]) \notin Markers
        <4>1. q \in lostFlush \/ decoder[q] \in {Nothing, EpochOf(q)}
          BY <2>1, <3>3, <3>7 DEF FlushedInTime, Settled, FlushAhead, UpToDate
        <4>2. cpkt'[q].epoch = EpochOf(q)
          BY <3>2, <3>4, <3>7
        <4>3. Settled(q)'
          BY <2>1, <2>2, <4>1, <4>2 DEF Settled, UpToDate
        <4>4. decoder'[q] \in {Nothing, cpkt'[q].epoch} \/ q \in lostFlush'
          BY <2>1, <4>1, <4>2
        <4> QED BY <3>5, <4>3, <4>4 DEF FlushedInTime, DecoderFlushed
      <3> QED BY <3>6, <3>7
    <2> QED BY <1>8, <2>3, <2>4 DEF Get
  <1>9. ASSUME NEW q \in Queues, FlushDecoder(q) \/ Decode(q)
        PROVE  FlushedInTime'
    <2>1. /\ UNCHANGED <<dpc, epoch, queue, lostFlush>>
          /\ cpc[q] = "got" /\ cpc' = [cpc EXCEPT ![q] = "get"]
          /\ \A r \in Queues \ {q} : decoder'[r] = decoder[r] /\ cpkt'[r] = cpkt[r]
      BY <1>9 DEF FlushDecoder, Decode, reader, queues
    <2>2. \A r \in Queues : EpochOf(r)' = EpochOf(r)
      BY <2>1 DEF EpochOf
    <2>3. DecoderFlushed'
      BY <2>1 DEF FlushedInTime, DecoderFlushed
    <2>4. Settled(q)'
      <3>1. CASE FlushDecoder(q)
        <4>1. decoder'[q] = Nothing
          BY <3>1 DEF FlushDecoder
        <4> QED BY <2>1, <4>1 DEF Settled, UpToDate
      <3>2. CASE Decode(q)
        <4>1. CASE cpkt[q] \in Markers
          <5>1. cpkt[q].data # flush_pkt.data
            BY <3>2 DEF Decode
          <5>2. q \in lostFlush
            BY <2>1, <4>1, <5>1 DEF MarkersKnown, Known
          <5> QED BY <2>1, <5>2 DEF Settled
        <4>2. CASE cpkt[q] \notin Markers
          <5>1. decoder'[q] = cpkt[q].epoch
            BY <3>2, <4>2 DEF Decode
          <5> QED BY <2>1, <2>2, <4>2, <5>1 DEF FlushedInTime, Settled,
                    FlushAhead, UpToDate
        <4> QED BY <4>1, <4>2
      <3> QED BY <1>9, <3>1, <3>2
    <2>5. ASSUME NEW r \in Queues, r # q PROVE Settled(r)'
      BY <2>1, <2>2, <2>5 DEF FlushedInTime, Settled, FlushAhead, UpToDate
    <2> QED BY <2>3, <2>4, <2>5 DEF FlushedInTime
  <1> QED BY <1>1, <1>2, <1>3, <1>4, <1>5, <1>6, <1>7, <1>8, <1>9
          DEF Next, Reader, Consumer

-----------------------------------------------------------------------------
LEMMA Inductive == Spec => []IInv
  <1>1. IInv /\ [Next]_vars => IInv'
    BY TypeStep, HandedStep, RoomStep, SleepStep, FreshStep, KnownStep,
       EmptiedStep, FlushStep DEF IInv
  <1> QED BY InitIInv, <1>1, PTL DEF Spec

(* Every field keeps its type: the file moves at most once for each seek   *)
(* that stream_seek accepted (985-993, 575-608).                           *)
THEOREM TypeCorrect == Spec => []TypeOK
  <1>1. IInv => TypeOK
    BY DEF IInv, Control
  <1> QED BY <1>1, Inductive, PTL

(* No queue grows beyond its limit by more than one packet, although the   *)
(* sizes are read without a mutex (567-572).                               *)
THEOREM QueuesBounded == Spec => []BytesBounded
  <1>1. IInv => BytesBounded
    BY DEF IInv
  <1> QED BY <1>1, Inductive, PTL

(* A consumer never sleeps on a queue that holds a packet (316, 369).      *)
THEOREM NoLostWakeup == Spec => []SleepsOnlyWhenEmpty
  <1>1. IInv => SleepsOnlyWhenEmpty
    BY DEF IInv
  <1> QED BY <1>1, Inductive, PTL

(* decode_thread seeks to the position of the request it serves            *)
(* (575-578, 987-991).                                                     *)
THEOREM SeeksExact == Spec => []SeekExact
  <1>1. IInv => SeekExact
    BY DEF IInv, Control, Handed, SeekExact, Requests, Seeking, Settling, Moved
  <1> QED BY <1>1, Inductive, PTL

(* After a seek the queues hold no packet from before it (596-606).        *)
THEOREM FreshQueues == Spec => []QueuesFresh
  <1>1. IInv => QueuesFresh
    <2>1. dpc \notin Moved => \A q \in Queues : EpochOf(q) = epoch
      BY DEF Moved, Queues, EpochOf, Unflushed
    <2> QED BY <2>1 DEF IInv, Fresh, AllOf, QueuesFresh
  <1> QED BY <1>1, Inductive, PTL

(* No decoder decodes across a seek without having been flushed, unless    *)
(* the flush packet could not be put, or was put without a copy of its     *)
(* data (298-303, 596-606, 504-508, 766-770).                              *)
THEOREM DecodersFlushed == Spec => []DecoderFlushed
  <1>1. IInv => DecoderFlushed
    BY DEF IInv, FlushedInTime
  <1> QED BY <1>1, Inductive, PTL

(* Every set of numbers has a least one.                                   *)
LEMMA Least ==
  ASSUME NEW S \in SUBSET Nat, S # {}
  PROVE  \E k \in S : \A m \in S : k <= m
  <1> DEFINE Less == OpToRel(<, Nat)
  <1>1. IsWellFoundedOn(Less, Nat)
    BY NatLessThanWellFounded
  <1>2. \A k, m \in Nat : m < k => <<m, k>> \in Less
    BY DEF OpToRel
  <1>3. PICK k \in S : \A m \in S : <<m, k>> \notin Less
    <2> HIDE DEF Less
    <2> QED BY <1>1, WFMin
  <1>4. \A m \in S : k <= m
    <2> SUFFICES ASSUME NEW m \in S PROVE k <= m
      OBVIOUS
    <2>1. k \in Nat /\ m \in Nat
      OBVIOUS
    <2>2. ~ m < k
      <3> HIDE DEF Less
      <3> QED BY <1>2, <1>3, <2>1
    <2> QED BY <2>1, <2>2
  <1> QED BY <1>4

-----------------------------------------------------------------------------
(* With a stream of each kind, the last one is the one it is read from.    *)
LEMMA OpenedStream ==
  ASSUME NEW q \in Queues, Carries(q) # {}
  PROVE  StreamOf(q) \in Carries(q)
  <1> DEFINE n == Len(FileStreams)
             FromEnd == {k \in Nat : n - k \in Carries(q)}
  <1>1. n \in Nat /\ Carries(q) \subseteq 1 .. n
    BY DemuxAssumption DEF Carries, Streams
  <1>2. FromEnd \in SUBSET Nat
    OBVIOUS
  <1>3. FromEnd # {}
    <2>1. PICK i \in Carries(q) : TRUE
      OBVIOUS
    <2>2. n - i \in Nat /\ n - (n - i) = i
      BY <1>1, <2>1
    <2>3. n - i \in FromEnd
      BY <2>1, <2>2
    <2> QED BY <2>3
  <1>4. PICK k \in FromEnd : \A m \in FromEnd : k <= m
    <2> HIDE DEF FromEnd
    <2> QED BY <1>2, <1>3, Least
  <1>5. n - k \in Carries(q) /\ k \in Nat
    OBVIOUS
  <1>6. ASSUME NEW j \in Carries(q) PROVE j <= n - k
    <2>1. j \in 1 .. n
      BY <1>1
    <2>2. n - j \in Nat /\ n - (n - j) = j
      BY <1>1, <2>1
    <2>3. n - j \in FromEnd
      BY <2>2
    <2>4. k <= n - j
      BY <1>4, <2>3
    <2> QED BY <1>1, <1>5, <2>1, <2>4
  <1> HIDE DEF n, FromEnd
  <1>7. \E i \in Carries(q) : \A j \in Carries(q) : j <= i
    BY <1>5, <1>6
  <1> QED BY <1>7 DEF StreamOf

LEMMA RoutedStep ==
  ASSUME \A q \in Queues : Carries(q) # {}, TypeOK, RoutedByKind, [Next]_vars
  PROVE  RoutedByKind'
  <1> DEFINE OfKind(s, q) == \A k \in 1 .. Len(s) :
               s[k] \notin Markers => FileStreams[s[k].stream] = q
  <1>1. ASSUME NEW q \in Queues PROVE OfKind(queue[q], q) /\ queue[q] \in Seq(Packet \cup Markers)
    BY DEF RoutedByKind, TypeOK
  <1>2. ASSUME NEW q \in Queues, NEW p,
               p \in Markers \/ FileStreams[p.stream] = q
        PROVE  OfKind(Append(queue[q], p), q)
    <2> SUFFICES ASSUME NEW k \in 1 .. Len(Append(queue[q], p)),
                        Append(queue[q], p)[k] \notin Markers
                 PROVE  FileStreams[Append(queue[q], p)[k].stream] = q
      OBVIOUS
    <2>1. /\ Len(Append(queue[q], p)) = Len(queue[q]) + 1
          /\ Append(queue[q], p)[Len(queue[q]) + 1] = p
          /\ \A j \in 1 .. Len(queue[q]) : Append(queue[q], p)[j] = queue[q][j]
      BY <1>1
    <2>2. Len(queue[q]) \in Nat
      BY <1>1
    <2>3. CASE k = Len(queue[q]) + 1
      BY <1>2, <2>1, <2>3
    <2>4. CASE k \in 1 .. Len(queue[q])
      BY <1>1, <2>1, <2>4
    <2> QED BY <2>1, <2>2, <2>3, <2>4
  <1>3. ASSUME NEW q \in Queues, queue[q] # <<>>
        PROVE  OfKind(Tail(queue[q]), q)
    <2> SUFFICES ASSUME NEW k \in 1 .. Len(Tail(queue[q])),
                        Tail(queue[q])[k] \notin Markers
                 PROVE  FileStreams[Tail(queue[q])[k].stream] = q
      OBVIOUS
    <2>1. Tail(queue[q])[k] = queue[q][k + 1] /\ k + 1 \in 1 .. Len(queue[q])
      BY <1>1, <1>3
    <2> QED BY <1>1, <2>1
  <1>4. OfKind(<<>>, "audio") /\ OfKind(<<>>, "video")
    OBVIOUS
  <1>5. ASSUME NEW q \in Queues PROVE OfKind(queue'[q], q)
    <2>1. CASE queue'[q] = queue[q]
      BY <1>1, <2>1
    <2>2. CASE queue'[q] = <<>>
      BY <2>2
    <2>3. CASE queue[q] # <<>> /\ queue'[q] = Tail(queue[q])
      BY <1>3, <2>3
    <2>4. CASE queue'[q] = Append(queue[q], flush_pkt')
      <3>1. flush_pkt' \in Markers
        BY NextFlushPacket
      <3> QED BY <1>2, <2>4, <3>1
    <2>5. CASE q \in Route(packet.stream) /\ queue'[q] = Append(queue[q], packet)
      <3>1. packet.stream = StreamOf(q)
        BY <2>5 DEF Route
      <3>2. FileStreams[packet.stream] = q
        BY <3>1, OpenedStream DEF Carries
      <3> QED BY <1>2, <2>5, <3>2
    <2>6. \/ queue'[q] = queue[q] \/ queue'[q] = <<>>
          \/ queue[q] # <<>> /\ queue'[q] = Tail(queue[q])
          \/ queue'[q] = Append(queue[q], flush_pkt')
          \/ q \in Route(packet.stream) /\ queue'[q] = Append(queue[q], packet)
      <3> USE DEF TypeOK, queues, Queues
      <3>1. CASE CheckRoom \/ CheckRequest \/ SeekFrame \/ EndSeek \/ ReadFrame
        BY <3>1 DEF CheckRoom, CheckRequest, SeekFrame, EndSeek, ReadFrame
      <3>2. CASE RoutePacket
        BY <3>2 DEF RoutePacket, Put, Route
      <3>3. ASSUME NEW r \in Queues, FlushQueue(r) \/ PutFlush(r)
            PROVE  queue'[q] \in {queue[q], <<>>, Append(queue[q], flush_pkt')}
        BY <3>3 DEF FlushQueue, PutFlush, Flush, Put
      <3>4. CASE User \/ UNCHANGED vars
        BY <3>4 DEF User, BeginSeek, StorePos, RequestSeek, vars
      <3>5. ASSUME NEW r \in Queues, Consumer(r)
            PROVE  \/ queue'[q] = queue[q]
                   \/ queue[q] # <<>> /\ queue'[q] = Tail(queue[q])
        <4>1. CASE Get(r)
          <5>1. CASE queue[r] # <<>> /\ queue' = [queue EXCEPT ![r] = Tail(@)]
            BY <5>1
          <5>2. CASE UNCHANGED queues
            BY <5>2
          <5> QED BY <4>1, <5>1, <5>2 DEF Get
        <4>2. CASE FlushDecoder(r) \/ Decode(r)
          BY <4>2 DEF FlushDecoder, Decode
        <4> QED BY <3>5, <4>1, <4>2 DEF Consumer
      <3> QED BY <3>1, <3>2, <3>3, <3>4, <3>5 DEF Next, Reader
    <2> QED BY <2>1, <2>2, <2>3, <2>4, <2>5, <2>6
  <1> QED BY <1>5 DEF RoutedByKind

(* "Is this a packet from the video stream?" (622): where main opened a    *)
(* stream of each kind, each queue gets only packets of its kind.          *)
THEOREM PacketsRouted ==
  (\A q \in Queues : Carries(q) # {}) => (Spec => []RoutedByKind)
  <1> SUFFICES ASSUME \A q \in Queues : Carries(q) # {}
               PROVE  Spec => []RoutedByKind
    OBVIOUS
  <1>1. Init => RoutedByKind
    BY DEF Init, RoutedByKind
  <1>2. TypeOK /\ RoutedByKind /\ [Next]_vars => RoutedByKind'
    BY RoutedStep
  <1> QED BY <1>1, <1>2, TypeCorrect, PTL DEF Spec

-----------------------------------------------------------------------------
(* With a least number in every set, induction holds on sets of numbers.   *)
LEMMA Upwards ==
  ASSUME NEW last \in Nat, NEW Good, 0 \in Good,
         \A n \in 1 .. last : n - 1 \in Good => n \in Good
  PROVE  \A n \in 0 .. last : n \in Good
  <1> DEFINE Bad == {n \in 0 .. last : n \notin Good}
  <1> SUFFICES ASSUME Bad # {} PROVE FALSE
    OBVIOUS
  <1>1. PICK k \in Bad : \A m \in Bad : k <= m
    <2>1. Bad \in SUBSET Nat
      OBVIOUS
    <2> HIDE DEF Bad
    <2> QED BY <2>1, Least
  <1>2. k \in 1 .. last /\ k - 1 \in 0 .. last
    OBVIOUS
  <1>3. k - 1 \in Good
    BY <1>1, <1>2
  <1> QED BY <1>2, <1>3

-----------------------------------------------------------------------------
(* The sums of a queue                                                     *)
Listed == Packet \cup Markers

SumsUpTo(s, m) ==
  {f \in [0 .. m -> Int] : \A n \in 0 .. m : f[n] = IF n = 0 THEN 0 ELSE f[n - 1] + s[n].size}

LEMMA SizesOfListed ==
  ASSUME NEW s \in Seq(Listed), NEW n \in 1 .. Len(s)
  PROVE  s[n].size \in Int
  <1>1. s[n] \in Listed
    OBVIOUS
  <1> QED BY <1>1, SizesOfPackets DEF Listed

LEMMA SumsExist ==
  ASSUME NEW s \in Seq(Listed)
  PROVE  \E f : f = [n \in 0 .. Len(s) |-> IF n = 0 THEN 0 ELSE f[n - 1] + s[n].size]
  <1> DEFINE Good == {m \in Nat : SumsUpTo(s, m) # {}}
  <1>1. 0 \in Good
    <2>1. [n \in 0 .. 0 |-> 0] \in SumsUpTo(s, 0)
      BY DEF SumsUpTo
    <2> QED BY <2>1
  <1>2. ASSUME NEW m \in 1 .. Len(s), m - 1 \in Good PROVE m \in Good
    <2>1. PICK f \in SumsUpTo(s, m - 1) : TRUE
      BY <1>2
    <2>2. /\ m \in Nat /\ m # 0 /\ m - 1 \in 0 .. m - 1
          /\ \A n \in 0 .. m : n # m => n \in 0 .. m - 1
          /\ \A n \in 0 .. m - 1 : n # m
          /\ \A n \in 0 .. m : n # 0 => n - 1 \in 0 .. m - 1
      OBVIOUS
    <2>3. /\ \A n \in 0 .. m - 1 : f[n] \in Int
          /\ \A n \in 0 .. m - 1 : f[n] = IF n = 0 THEN 0 ELSE f[n - 1] + s[n].size
      BY <2>1 DEF SumsUpTo
    <2> DEFINE g == [n \in 0 .. m |-> IF n = m THEN f[m - 1] + s[m].size ELSE f[n]]
    <2>4. g \in [0 .. m -> Int]
      <3>1. f[m - 1] + s[m].size \in Int
        BY <2>2, <2>3, SizesOfListed
      <3> QED BY <2>2, <2>3, <3>1
    <2>5. \A n \in 0 .. m : g[n] = IF n = 0 THEN 0 ELSE g[n - 1] + s[n].size
      BY <2>2, <2>3
    <2>6. g \in SumsUpTo(s, m)
      BY <2>4, <2>5 DEF SumsUpTo
    <2> QED BY <2>2, <2>6
  <1>3. Len(s) \in Good
    <2>1. Len(s) \in Nat /\ Len(s) \in 0 .. Len(s)
      OBVIOUS
    <2> HIDE DEF Good
    <2> QED BY <1>1, <1>2, <2>1, Upwards
  <1>4. PICK f \in SumsUpTo(s, Len(s)) : TRUE
    BY <1>3
  <1>5. f = [n \in 0 .. Len(s) |-> IF n = 0 THEN 0 ELSE f[n - 1] + s[n].size]
    BY <1>4 DEF SumsUpTo
  <1> QED BY <1>5

LEMMA SumsDef ==
  ASSUME NEW s \in Seq(Listed)
  PROVE  Sums(s) = [n \in 0 .. Len(s) |-> IF n = 0 THEN 0 ELSE Sums(s)[n - 1] + s[n].size]
  <1> DEFINE Summed(f) ==
               f = [n \in 0 .. Len(s) |-> IF n = 0 THEN 0 ELSE f[n - 1] + s[n].size]
  <1>1. \E f : Summed(f)
    BY SumsExist
  <1>2. Sums(s) = CHOOSE f : Summed(f)
    BY DEF Sums
  <1>3. Summed(CHOOSE f : Summed(f))
    <2> HIDE DEF Summed
    <2> QED BY <1>1
  <1> QED BY <1>2, <1>3

LEMMA SumsTyped ==
  ASSUME NEW s \in Seq(Listed)
  PROVE  /\ Sums(s)[0] = 0
         /\ \A n \in 1 .. Len(s) : Sums(s)[n] = Sums(s)[n - 1] + s[n].size
         /\ \A n \in 0 .. Len(s) : Sums(s)[n] \in Int
  <1>1. /\ Sums(s)[0] = 0
        /\ \A n \in 1 .. Len(s) : Sums(s)[n] = Sums(s)[n - 1] + s[n].size
    <2> DEFINE f == Sums(s)
    <2>1. f = [n \in 0 .. Len(s) |-> IF n = 0 THEN 0 ELSE f[n - 1] + s[n].size]
      BY SumsDef
    <2> HIDE DEF f
    <2>2. /\ f[0] = 0
          /\ \A n \in 1 .. Len(s) : f[n] = f[n - 1] + s[n].size
      <3>1. 0 \in 0 .. Len(s) /\ \A n \in 1 .. Len(s) : n \in 0 .. Len(s) /\ n # 0
        OBVIOUS
      <3> QED BY <2>1, <3>1
    <2> QED BY <2>2 DEF f
  <1> DEFINE Good == {n \in Nat : Sums(s)[n] \in Int}
  <1>2. 0 \in Good
    BY <1>1
  <1>3. ASSUME NEW n \in 1 .. Len(s), n - 1 \in Good PROVE n \in Good
    BY <1>1, <1>3, SizesOfListed
  <1>4. \A n \in 0 .. Len(s) : n \in Good
    <2>1. Len(s) \in Nat
      OBVIOUS
    <2> HIDE DEF Good
    <2> QED BY <1>2, <1>3, <2>1, Upwards
  <1> QED BY <1>1, <1>4

Total(s) == Sums(s)[Len(s)]

LEMMA TotalEmpty == Total(<<>>) = 0
  <1>1. <<>> \in Seq(Listed) /\ Len(<<>>) = 0
    OBVIOUS
  <1> QED BY <1>1, SumsTyped DEF Total

LEMMA TotalAppend ==
  ASSUME NEW s \in Seq(Listed), NEW p \in Listed
  PROVE  Total(Append(s, p)) = Total(s) + p.size
  <1> DEFINE r == Append(s, p)
             Good == {n \in Nat : Sums(r)[n] = Sums(s)[n]}
  <1>1. /\ r \in Seq(Listed) /\ Len(r) = Len(s) + 1 /\ r[Len(r)] = p
        /\ \A n \in 1 .. Len(s) : r[n] = s[n] /\ n \in 1 .. Len(r)
    OBVIOUS
  <1> HIDE DEF r
  <1>2. 0 \in Good
    BY <1>1, SumsTyped
  <1>3. ASSUME NEW n \in 1 .. Len(s), n - 1 \in Good PROVE n \in Good
    <2>1. Sums(r)[n] = Sums(r)[n - 1] + r[n].size
      BY <1>1, SumsTyped
    <2>2. Sums(s)[n] = Sums(s)[n - 1] + s[n].size
      BY SumsTyped
    <2> QED BY <1>1, <1>3, <2>1, <2>2
  <1>4. \A n \in 0 .. Len(s) : n \in Good
    <2>1. Len(s) \in Nat
      OBVIOUS
    <2> HIDE DEF Good
    <2> QED BY <1>2, <1>3, <2>1, Upwards
  <1>5. Sums(r)[Len(s)] = Sums(s)[Len(s)]
    BY <1>4
  <1>6. Sums(r)[Len(r)] = Sums(r)[Len(r) - 1] + r[Len(r)].size /\ Len(r) - 1 = Len(s)
    <2>1. Len(r) \in 1 .. Len(r)
      BY <1>1
    <2> QED BY <1>1, <2>1, SumsTyped
  <1> QED BY <1>1, <1>5, <1>6 DEF Total, r

LEMMA TotalTail ==
  ASSUME NEW s \in Seq(Listed), s # <<>>
  PROVE  Total(Tail(s)) = Total(s) - Head(s).size
  <1> DEFINE r == Tail(s)
             Good == {n \in Nat : Sums(s)[n + 1] = s[1].size + Sums(r)[n]}
  <1>1. /\ r \in Seq(Listed) /\ Len(s) = Len(r) + 1 /\ Head(s) = s[1] /\ s[1] \in Listed
        /\ \A n \in 1 .. Len(r) : r[n] = s[n + 1] /\ n + 1 \in 1 .. Len(s)
    OBVIOUS
  <1>0. s[1].size \in Int
    BY <1>1, SizesOfPackets DEF Listed
  <1> HIDE DEF r
  <1>2. 0 \in Good
    <2>1. 1 \in 1 .. Len(s)
      BY <1>1
    <2>2. Sums(s)[1] = Sums(s)[1 - 1] + s[1].size /\ Sums(s)[0] = 0 /\ Sums(r)[0] = 0
      BY <1>1, <2>1, SumsTyped
    <2> QED BY <1>0, <2>2
  <1>3. ASSUME NEW n \in 1 .. Len(r), n - 1 \in Good PROVE n \in Good
    <2>1. Sums(r)[n] = Sums(r)[n - 1] + r[n].size /\ Sums(r)[n - 1] \in Int
      <3>1. n - 1 \in 0 .. Len(r)
        BY <1>1
      <3> QED BY <1>1, <3>1, SumsTyped
    <2>2. Sums(s)[n + 1] = Sums(s)[n + 1 - 1] + s[n + 1].size /\ n + 1 - 1 = n - 1 + 1
      BY <1>1, SumsTyped
    <2>3. s[n + 1].size \in Int
      BY <1>1, SizesOfListed
    <2> QED BY <1>0, <1>1, <1>3, <2>1, <2>2, <2>3
  <1>4. \A n \in 0 .. Len(r) : n \in Good
    <2>1. Len(r) \in Nat
      BY <1>1
    <2> HIDE DEF Good
    <2> QED BY <1>2, <1>3, <2>1, Upwards
  <1>5. Sums(s)[Len(r) + 1] = s[1].size + Sums(r)[Len(r)] /\ Sums(r)[Len(r)] \in Int
    <2>1. Len(r) \in 0 .. Len(r)
      BY <1>1
    <2> QED BY <1>1, <1>4, <2>1, SumsTyped
  <1> QED BY <1>0, <1>1, <1>5 DEF Total, r

LEMMA TotalTyped == ASSUME NEW s \in Seq(Listed) PROVE Total(s) \in Int
  BY SumsTyped DEF Total

-----------------------------------------------------------------------------
LEMMA BytesStep == TypeOK /\ BytesAccounted /\ [Next]_vars => BytesAccounted'
  <1> DEFINE Counted == \A q \in Queues : bytes[q] = Total(queue[q])
  <1>0. Counted <=> BytesAccounted
    BY DEF BytesAccounted, Total
  <1>a. Counted' <=> BytesAccounted'
    BY DEF BytesAccounted, Total
  <1> SUFFICES ASSUME TypeOK, Counted, [Next]_vars PROVE Counted'
    BY <1>0, <1>a
  <1> USE DEF TypeOK, Listed
  <1>1. ASSUME NEW q \in Queues, NEW p \in Listed, Put(q, p) PROVE Counted'
    <2>1. queue' = [queue EXCEPT ![q] = Append(@, p)] /\ bytes' = [bytes EXCEPT ![q] = @ + p.size]
      BY <1>1 DEF Put
    <2>2. Total(Append(queue[q], p)) = Total(queue[q]) + p.size
      BY TotalAppend
    <2> QED BY <2>1, <2>2
  <1>2. CASE UNCHANGED queues
    BY <1>2 DEF queues
  <1>3. ASSUME NEW q \in Queues, PutFlush(q) PROVE Counted'
    <2>1. flush_pkt' \in Listed
      BY <1>3 DEF PutFlush, Markers
    <2> QED BY <1>1, <1>2, <1>3, <2>1 DEF PutFlush
  <1>4. CASE RoutePacket
    BY <1>1, <1>2, <1>4 DEF RoutePacket, Route, Queues
  <1>5. ASSUME NEW q \in Queues, FlushQueue(q) PROVE Counted'
    BY <1>5, TotalEmpty DEF FlushQueue, Flush
  <1>6. ASSUME NEW q \in Queues, Get(q) PROVE Counted'
    <2>1. CASE UNCHANGED queues
      BY <1>2, <2>1
    <2>2. CASE /\ queue[q] # <<>>
               /\ queue' = [queue EXCEPT ![q] = Tail(@)]
               /\ bytes' = [bytes EXCEPT ![q] = @ - Head(queue[q]).size]
      <3>1. Total(Tail(queue[q])) = Total(queue[q]) - Head(queue[q]).size
        BY <2>2, TotalTail
      <3> QED BY <2>2, <3>1
    <2> QED BY <1>6, <2>1, <2>2 DEF Get
  <1>7. CASE CheckRoom \/ CheckRequest \/ SeekFrame \/ EndSeek \/ ReadFrame \/ User \/ UNCHANGED vars
    BY <1>2, <1>7 DEF CheckRoom, CheckRequest, SeekFrame, EndSeek, ReadFrame, User, BeginSeek,
       StorePos, RequestSeek, vars
  <1>8. ASSUME NEW q \in Queues, FlushDecoder(q) \/ Decode(q) PROVE Counted'
    BY <1>2, <1>8 DEF FlushDecoder, Decode
  <1> QED BY <1>3, <1>4, <1>5, <1>6, <1>7, <1>8 DEF Next, Reader, Consumer

(* However puts, gets and flushes come together, the size field of a queue *)
(* is the sum of the sizes of its packets.                                 *)
THEOREM BytesCounted == Spec => []BytesAccounted
  <1>1. Init => BytesAccounted
    BY TotalEmpty DEF Init, BytesAccounted, Total
  <1> QED BY <1>1, BytesStep, TypeCorrect, PTL DEF Spec

=============================================================================
