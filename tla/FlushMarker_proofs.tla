------------------------- MODULE FlushMarker_proofs -------------------------
(***************************************************************************)
(* Proofs about FlushMarker: for any number of seeks that the marker is    *)
(* recognised, and for one seek that no block is freed twice.              *)
(***************************************************************************)
EXTENDS FlushMarker, SequenceTheorems, TLAPS

(* A flush packet has the address by which it is known, and was put after  *)
(* that address changed for the only time.                                 *)
Known(p, m) == p.flush => p.data = m /\ m # Literal

Marked == ~ failed =>
  \A q \in Queues :
    /\ \A k \in DOMAIN queue[q] : Known(queue[q][k], marker)
    /\ Known(held[q], marker)
    /\ held[q].flush => cpc[q] # "decode"

MInv == TypeOK /\ Marked

-----------------------------------------------------------------------------
(* The packets that a consumer will free: in the queue, or in its hand at  *)
(* place 0.  The video thread frees no marker.                             *)
Frees(q) ==
  IF q = "audio" THEN {"compare", "flush", "decode", "release"} ELSE {"compare", "decode"}

PacketAt(q, k) == IF k = 0 THEN held[q] ELSE queue[q][k]

Owns(q, k) ==
  /\ IF k = 0 THEN cpc[q] \in Frees(q) ELSE k \in DOMAIN queue[q]
  /\ PacketAt(q, k).data \in Blocks
  /\ q = "video" => ~ PacketAt(q, k).flush

(* Every block to be freed is allocated, and freed by one owner only.      *)
OwnedLive == \A q \in Queues, k \in Nat : Owns(q, k) => PacketAt(q, k).data \in live

OwnedOnce == \A q, r \in Queues, j, k \in Nat :
  Owns(q, j) /\ Owns(r, k) /\ PacketAt(q, j).data = PacketAt(r, k).data => q = r /\ j = k

(* The address does not change once the video thread has the marker.       *)
Early ==
  /\ seeks = 0 => dpc = "read"
  /\ seeks = 0 \/ dpc \in {"clearaudio", "markaudio"} => marker = Literal

VideoKnown ==
  /\ \A k \in DOMAIN queue["video"] : queue["video"][k].flush =>
       queue["video"][k].data = marker /\ dpc = "read" /\ seeks = 1
  /\ held["video"].flush =>
       /\ held["video"].data = marker /\ dpc = "read" /\ seeks = 1
       /\ cpc["video"] # "decode"

OInv == TypeOK /\ OwnedLive /\ OwnedOnce /\ Early /\ VideoKnown /\ ~ broken

(* A consumer that looks at a packet has one.                              *)
Handed == \A q \in Queues : cpc[q] \in {"compare", "flush", "decode"} => held[q] \in Packet

-----------------------------------------------------------------------------
(* What the steps do to the state that the threads share.                  *)
LEMMA DestructOne ==
  ASSUME NEW p, Destruct(<<p>>)
  PROVE  /\ live' = IF p.data \in Blocks THEN live \ {p.data} ELSE live
         /\ broken' <=> p.data \in Blocks /\ p.data \notin live
         /\ broken' \in BOOLEAN
  <1> DEFINE ps == <<p>>
             owned == {k \in DOMAIN ps : ps[k].data \in Blocks}
             freed == {ps[k].data : k \in owned}
             twice == \E j, k \in owned : j # k /\ ps[j].data = ps[k].data
  <1>1. live' = live \ freed /\ broken' = (twice \/ ~ freed \subseteq live)
    BY DEF Destruct
  <1>2. DOMAIN ps = {1} /\ ps[1] = p
    OBVIOUS
  <1>3. owned = IF p.data \in Blocks THEN {1} ELSE {}
    BY <1>2
  <1>4. freed = IF p.data \in Blocks THEN {p.data} ELSE {}
    BY <1>2, <1>3
  <1>5. ~ twice
    BY <1>3
  <1> QED BY <1>1, <1>4, <1>5

LEMMA DestructAll ==
  ASSUME NEW ps, Destruct(ps)
  PROVE  /\ live' \subseteq live /\ broken' \in BOOLEAN
         /\ \A b \in live :
              b \in live' <=> ~ \E k \in DOMAIN ps : ps[k].data = b /\ b \in Blocks
         /\ broken' => \/ \E j, k \in DOMAIN ps : /\ j # k /\ ps[j].data = ps[k].data
                                                  /\ ps[j].data \in Blocks
                       \/ \E k \in DOMAIN ps : ps[k].data \in Blocks \ live
  BY DEF Destruct

(* packet_queue_put, as far as the queue goes.                             *)
PutInto(q, p) == queue' = [queue EXCEPT ![q] = Append(@, p)]

LEMMA Puts ==
  ASSUME TypeOK, NEW q \in Queues, NEW p \in Packet, PutInto(q, p)
  PROVE  /\ queue' \in [Queues -> Seq(Packet)]
         /\ \A r \in Queues \ {q} : queue'[r] = queue[r]
         /\ DOMAIN queue[q] \subseteq Nat \ {0}
         /\ \A k \in DOMAIN queue'[q] :
              \/ k \in DOMAIN queue[q] /\ queue'[q][k] = queue[q][k]
              \/ k = Len(queue[q]) + 1 /\ queue'[q][k] = p
         /\ Len(queue[q]) + 1 \in Nat
  <1>1. queue \in [Queues -> Seq(Packet)] /\ queue[q] \in Seq(Packet)
    BY DEF TypeOK
  <1>2. /\ queue'[q] = Append(queue[q], p) /\ queue'[q] \in Seq(Packet)
        /\ Len(queue'[q]) = Len(queue[q]) + 1
    BY <1>1 DEF PutInto
  <1>3. queue' \in [Queues -> Seq(Packet)] /\ \A r \in Queues \ {q} : queue'[r] = queue[r]
    BY <1>1, <1>2 DEF PutInto
  <1>4. /\ DOMAIN queue[q] = 1 .. Len(queue[q]) /\ Len(queue[q]) \in Nat
        /\ DOMAIN queue'[q] = 1 .. Len(queue[q]) + 1
    BY <1>1, <1>2
  <1>5. \A k \in 1 .. Len(queue[q]) : queue'[q][k] = queue[q][k]
    BY <1>1, <1>2
  <1>6. queue'[q][Len(queue[q]) + 1] = p
    BY <1>1, <1>2
  <1> QED BY <1>3, <1>4, <1>5, <1>6

LEMMA Gets ==
  ASSUME TypeOK, NEW q \in Queues, Get(q)
  PROVE  /\ cpc[q] = "get" /\ cpc' = [cpc EXCEPT ![q] = "compare"]
         /\ queue' \in [Queues -> Seq(Packet)]
         /\ held' \in [Queues -> Packet \cup {NoPacket}]
         /\ 1 \in DOMAIN queue[q] /\ held'[q] = queue[q][1]
         /\ \A r \in Queues \ {q} : queue'[r] = queue[r] /\ held'[r] = held[r]
         /\ \A k \in DOMAIN queue'[q] :
              k \in Nat \ {0} /\ k + 1 \in DOMAIN queue[q] /\ queue'[q][k] = queue[q][k + 1]
         /\ UNCHANGED <<live, marker, failed, seeks, dpc, broken>>
  <1>1. /\ queue \in [Queues -> Seq(Packet)] /\ queue[q] \in Seq(Packet)
        /\ held \in [Queues -> Packet \cup {NoPacket}]
    BY DEF TypeOK
  <1>2. queue[q] # << >> /\ queue' = [queue EXCEPT ![q] = Tail(@)]
        /\ held' = [held EXCEPT ![q] = Head(queue[q])]
    BY DEF Get
  <1>3. /\ Head(queue[q]) = queue[q][1] /\ Head(queue[q]) \in Packet
        /\ Tail(queue[q]) \in Seq(Packet) /\ Len(Tail(queue[q])) = Len(queue[q]) - 1
        /\ \A k \in 1 .. Len(Tail(queue[q])) : Tail(queue[q])[k] = queue[q][k + 1]
        /\ Len(queue[q]) \in Nat /\ Len(queue[q]) >= 1
        /\ DOMAIN queue[q] = 1 .. Len(queue[q])
        /\ DOMAIN Tail(queue[q]) = 1 .. Len(Tail(queue[q]))
    BY <1>1, <1>2, HeadTailProperties
  <1>4. queue'[q] = Tail(queue[q]) /\ held'[q] = queue[q][1]
    BY <1>1, <1>2, <1>3
  <1>5. /\ queue' \in [Queues -> Seq(Packet)]
        /\ held' \in [Queues -> Packet \cup {NoPacket}]
        /\ \A r \in Queues \ {q} : queue'[r] = queue[r] /\ held'[r] = held[r]
    BY <1>1, <1>2, <1>3
  <1>6. \A k \in DOMAIN queue'[q] :
          k \in Nat \ {0} /\ k + 1 \in DOMAIN queue[q] /\ queue'[q][k] = queue[q][k + 1]
    BY <1>3, <1>4
  <1> QED BY <1>3, <1>4, <1>5, <1>6 DEF Get

(* The marker that is put, and its address.                                *)
LEMMA Marks ==
  ASSUME TypeOK, NEW q \in Queues, Mark(q)
  PROVE  /\ \/ marker = Literal /\ marker' \in Blocks \ live /\ live' = live \cup {marker'}
               /\ failed' = failed
            \/ marker = Literal /\ failed' /\ UNCHANGED <<marker, live>>
            \/ marker # Literal /\ UNCHANGED <<marker, live, failed>>
         /\ failed' \in BOOLEAN /\ marker' \in Blocks \cup {Literal} /\ live' \subseteq Blocks
         /\ [data |-> marker', flush |-> TRUE] \in Packet
         /\ \/ PutInto(q, [data |-> marker', flush |-> TRUE])
            \/ queue' = queue
         /\ dpc = MarkPlace[q] /\ dpc' = AfterMark[q]
         /\ UNCHANGED <<seeks, held, cpc, broken>>
  <1>1. PICK copied \in BOOLEAN : Dup(marker, copied)
    BY DEF Mark
  <1>2. /\ \/ marker = Literal /\ marker' \in Blocks \ live /\ live' = live \cup {marker'}
              /\ failed' = failed
           \/ marker = Literal /\ failed' = TRUE /\ UNCHANGED <<marker, live>>
           \/ marker # Literal /\ UNCHANGED <<marker, live, failed>>
    BY <1>1 DEF Dup
  <1>3. /\ failed' \in BOOLEAN /\ marker' \in Blocks \cup {Literal} /\ live' \subseteq Blocks
    BY <1>2 DEF TypeOK
  <1>4. [data |-> marker', flush |-> TRUE] \in Packet
    BY <1>3 DEF Packet
  <1> QED BY <1>2, <1>3, <1>4 DEF Mark, PutInto

LEMMA InitM == Init => MInv
  <1> SUFFICES ASSUME Init PROVE MInv
    OBVIOUS
  <1>1. cpc \in [Queues -> {"release", "get", "compare", "flush", "decode"}]
    BY DEF Init, Queues
  <1>2. held \in [Queues -> Packet \cup {NoPacket}] /\ queue \in [Queues -> Seq(Packet)]
    BY DEF Init
  <1>3. seeks \in 0 .. MaxSeeks
    BY MarkerAssumption DEF Init
  <1>4. TypeOK
    BY <1>1, <1>2, <1>3 DEF Init, TypeOK
  <1> QED BY <1>4 DEF MInv, Init, Marked, Known, NoPacket

LEMMA TypeKeeps == TypeOK /\ [Next]_vars => TypeOK'
  <1> SUFFICES ASSUME TypeOK, [Next]_vars PROVE TypeOK'
    OBVIOUS
  <1> USE DEF TypeOK
  <1>1. ASSUME NEW q \in Queues, Read(q) PROVE TypeOK'
    <2>1. PICK b \in Blocks \ live :
            /\ live' = live \cup {b}
            /\ PutInto(q, [data |-> b, flush |-> FALSE])
      BY <1>1 DEF Read, PutInto
    <2>2. [data |-> b, flush |-> FALSE] \in Packet
      BY DEF Packet
    <2>3. queue' \in [Queues -> Seq(Packet)]
      BY <2>1, <2>2, Puts
    <2> QED BY <1>1, <2>1, <2>3 DEF Read
  <1>2. CASE Seek
    BY <1>2, MarkerAssumption DEF Seek, ClearPlace
  <1>3. ASSUME NEW q \in Queues, Clear(q) PROVE TypeOK'
    <2>1. live' \subseteq live /\ broken' \in BOOLEAN
      BY <1>3, DestructAll DEF Clear, FreeAll
    <2>2. queue' \in [Queues -> Seq(Packet)]
      BY <1>3 DEF Clear, FreeAll
    <2>3. dpc' \in {"markaudio", "markvideo"}
      BY <1>3 DEF Clear, MarkPlace, Queues
    <2> QED BY <1>3, <2>1, <2>2, <2>3 DEF Clear
  <1>4. ASSUME NEW q \in Queues, Mark(q) PROVE TypeOK'
    <2>1. queue' \in [Queues -> Seq(Packet)]
      BY <1>4, Marks, Puts
    <2>2. dpc' \in {"clearvideo", "read"}
      BY <1>4, Marks DEF AfterMark, Queues
    <2> QED BY <1>4, <2>1, <2>2, Marks
  <1>5. CASE Release
    <2>1. live' \subseteq live /\ broken' \in BOOLEAN
      BY <1>5, DestructAll DEF Release
    <2> QED BY <1>5, <2>1 DEF Release, Queues
  <1>6. ASSUME NEW q \in Queues, Get(q) PROVE TypeOK'
    <2>1. cpc' \in [Queues -> {"release", "get", "compare", "flush", "decode"}]
      BY <1>6 DEF Get
    <2> QED BY <1>6, <2>1, Gets
  <1>7. ASSUME NEW q \in Queues, Compare(q) PROVE TypeOK'
    BY <1>7 DEF Compare
  <1>8. CASE VideoFlush \/ AudioFlush \/ AudioDecode
    BY <1>8 DEF VideoFlush, AudioFlush, AudioDecode, Queues
  <1>9. CASE VideoDecode
    <2>1. live' \subseteq live /\ broken' \in BOOLEAN
      BY <1>9, DestructAll DEF VideoDecode
    <2> QED BY <1>9, <2>1 DEF VideoDecode, Queues
  <1>10. CASE UNCHANGED vars
    BY <1>10 DEF vars
  <1> QED
    BY <1>1, <1>2, <1>3, <1>4, <1>5, <1>6, <1>7, <1>8, <1>9, <1>10
       DEF Next, Reader, Consumer

LEMMA MarkedKeeps == MInv /\ [Next]_vars => Marked'
  <1> SUFFICES ASSUME MInv, [Next]_vars, ~ failed', NEW q \in Queues
               PROVE  /\ \A k \in DOMAIN queue'[q] : Known(queue'[q][k], marker')
                      /\ Known(held'[q], marker')
                      /\ held'[q].flush => cpc'[q] # "decode"
    BY DEF Marked
  <1> DEFINE Goal == /\ \A k \in DOMAIN queue'[q] : Known(queue'[q][k], marker')
                     /\ Known(held'[q], marker')
                     /\ held'[q].flush => cpc'[q] # "decode"
  <1>1. TypeOK /\ (~ failed => /\ \A k \in DOMAIN queue[q] : Known(queue[q][k], marker)
                               /\ Known(held[q], marker)
                               /\ held[q].flush => cpc[q] # "decode")
    BY DEF MInv, Marked
  <1>2. cpc \in [Queues -> {"release", "get", "compare", "flush", "decode"}]
        /\ held \in [Queues -> Packet \cup {NoPacket}]
    BY <1>1 DEF TypeOK
  <1>3. ASSUME NEW r \in Queues, Read(r) PROVE Goal
    <2>1. PICK b \in Blocks \ live :
            PutInto(r, [data |-> b, flush |-> FALSE])
      BY <1>3 DEF Read, PutInto
    <2>2. [data |-> b, flush |-> FALSE] \in Packet
      BY DEF Packet
    <2>3. \A k \in DOMAIN queue'[q] :
            \/ k \in DOMAIN queue[q] /\ queue'[q][k] = queue[q][k]
            \/ queue'[q][k] = [data |-> b, flush |-> FALSE]
      <3>1. CASE q = r
        BY <1>1, <2>1, <2>2, <3>1, Puts
      <3>2. CASE q # r
        BY <1>1, <2>1, <2>2, <3>2, Puts
      <3> QED BY <3>1, <3>2
    <2> QED BY <1>1, <1>3, <2>3 DEF Read, Known
  <1>4. CASE Seek
    BY <1>1, <1>4 DEF Seek
  <1>5. ASSUME NEW r \in Queues, Clear(r) PROVE Goal
    <2>1. \A k \in DOMAIN queue'[q] : k \in DOMAIN queue[q] /\ queue'[q][k] = queue[q][k]
      <3>1. queue' = [queue EXCEPT ![r] = << >>] /\ queue \in [Queues -> Seq(Packet)]
        BY <1>1, <1>5 DEF Clear, FreeAll, TypeOK
      <3>2. DOMAIN << >> = {}
        OBVIOUS
      <3> QED BY <3>1, <3>2
    <2> QED BY <1>1, <1>5, <2>1 DEF Clear
  <1>6. ASSUME NEW r \in Queues, Mark(r) PROVE Goal
    <2> DEFINE p == [data |-> marker', flush |-> TRUE]
    <2>1. /\ \/ marker = Literal /\ marker' \in Blocks
             \/ marker # Literal /\ marker' = marker
          /\ ~ failed /\ p \in Packet
          /\ PutInto(r, p) \/ queue' = queue
          /\ UNCHANGED <<held, cpc>>
      BY <1>1, <1>6, Marks
    <2>2. marker' # Literal
      BY <2>1, MarkerAssumption
    <2>3. Known(p, marker')
      BY <2>2 DEF Known
    <2>4. \A k \in DOMAIN queue'[q] :
            \/ k \in DOMAIN queue[q] /\ queue'[q][k] = queue[q][k]
            \/ queue'[q][k] = p
      <3> HIDE DEF p
      <3>1. CASE queue' = queue
        BY <3>1
      <3>2. CASE PutInto(r, p)
        <4>1. CASE q = r
          BY <1>1, <2>1, <3>2, <4>1, Puts
        <4>2. CASE q # r
          BY <1>1, <2>1, <3>2, <4>2, Puts
        <4> QED BY <4>1, <4>2
      <3> QED BY <2>1, <3>1, <3>2
    <2>5. \A x : Known(x, marker) => Known(x, marker')
      BY <2>1 DEF Known
    <2> HIDE DEF p
    <2> QED BY <1>1, <2>1, <2>3, <2>4, <2>5
  <1>7. CASE Release
    BY <1>1, <1>2, <1>7 DEF Release, NoPacket, Known, Queues
  <1>8. ASSUME NEW r \in Queues, Get(r) PROVE Goal
    <2>1. CASE q = r
      BY <1>1, <1>2, <1>8, <2>1, Gets
    <2>2. CASE q # r
      <3>1. /\ queue'[q] = queue[q] /\ held'[q] = held[q] /\ UNCHANGED <<marker, failed>>
            /\ cpc' = [cpc EXCEPT ![r] = "compare"]
        BY <1>1, <1>8, <2>2, Gets
      <3>2. cpc'[q] = cpc[q]
        BY <1>2, <2>2, <3>1
      <3> QED BY <1>1, <3>1, <3>2
    <2> QED BY <2>1, <2>2
  <1>9. ASSUME NEW r \in Queues, Compare(r) PROVE Goal
    <2>1. CASE q = r
      BY <1>1, <1>2, <1>9, <2>1 DEF Compare, Known
    <2>2. CASE q # r
      BY <1>1, <1>2, <1>9, <2>2 DEF Compare
    <2> QED BY <2>1, <2>2
  <1>10. CASE VideoFlush \/ AudioFlush \/ AudioDecode \/ VideoDecode
    BY <1>1, <1>2, <1>10 DEF VideoFlush, AudioFlush, AudioDecode, VideoDecode, Queues
  <1>11. CASE UNCHANGED vars
    BY <1>1, <1>11 DEF vars
  <1> QED
    BY <1>3, <1>4, <1>5, <1>6, <1>7, <1>8, <1>9, <1>10, <1>11 DEF Next, Reader, Consumer

(* The marker is known to the thread that gets it, however often the user  *)
(* seeks, if it could be duplicated (VSPlayer.c 298, 504, 766).            *)
THEOREM MarkersKnown == Spec => []MarkersRecognised
  <1>1. Init => MInv
    BY InitM
  <1>2. MInv /\ [Next]_vars => MInv'
    BY TypeKeeps, MarkedKeeps DEF MInv
  <1>3. MInv => MarkersRecognised
    BY DEF MInv, Marked, MarkersRecognised, TypeOK
  <1> QED BY <1>1, <1>2, <1>3, PTL DEF Spec

(* The threads' places and packets keep their types.                       *)
THEOREM TypeCorrect == Spec => []TypeOK
  <1>1. Init => TypeOK
    BY InitM DEF MInv
  <1> QED BY <1>1, TypeKeeps, PTL DEF Spec

-----------------------------------------------------------------------------
(* One seek.                                                               *)

(* Owners are fewer, and none owns what was freed.                         *)
LEMMA Fewer ==
  ASSUME OwnedLive, OwnedOnce,
         \A q \in Queues, k \in Nat : Owns(q, k)' =>
           /\ Owns(q, k) /\ PacketAt(q, k)' = PacketAt(q, k)
           /\ PacketAt(q, k).data \in live => PacketAt(q, k).data \in live'
  PROVE  OwnedLive' /\ OwnedOnce'
  <1>1. OwnedLive'
    BY DEF OwnedLive
  <1>2. OwnedOnce'
    <2> SUFFICES ASSUME NEW q \in Queues, NEW r \in Queues, NEW j \in Nat, NEW k \in Nat,
                        Owns(q, j)', Owns(r, k)',
                        PacketAt(q, j)'.data = PacketAt(r, k)'.data
                 PROVE  q = r /\ j = k
      BY DEF OwnedOnce
    <2> QED BY DEF OwnedOnce
  <1> QED BY <1>1, <1>2

(* A block that was free has one owner.                                    *)
LEMMA OneMore ==
  ASSUME OwnedLive, OwnedOnce, NEW b, b \notin live, live' = live \cup {b},
         NEW s \in Queues, NEW n \in Nat,
         \A q \in Queues, k \in Nat : Owns(q, k)' =>
           \/ Owns(q, k) /\ PacketAt(q, k)' = PacketAt(q, k)
           \/ q = s /\ k = n /\ PacketAt(q, k)'.data = b
  PROVE  OwnedLive' /\ OwnedOnce'
  <1>1. OwnedLive'
    BY DEF OwnedLive
  <1>2. OwnedOnce'
    <2> SUFFICES ASSUME NEW q \in Queues, NEW r \in Queues, NEW j \in Nat, NEW k \in Nat,
                        Owns(q, j)', Owns(r, k)',
                        PacketAt(q, j)'.data = PacketAt(r, k)'.data
                 PROVE  q = r /\ j = k
      BY DEF OwnedOnce
    <2>1. ASSUME NEW t \in Queues, NEW i \in Nat, Owns(t, i)
          PROVE  PacketAt(t, i).data # b
      BY <2>1 DEF OwnedLive
    <2> QED BY <2>1 DEF OwnedOnce
  <1> QED BY <1>1, <1>2

(* What a thread holds and will free has been allocated.                   *)
LEMMA InHand ==
  ASSUME OInv, NEW q \in Queues, cpc[q] \in Frees(q), held[q].data \in Blocks,
         q = "video" => cpc[q] = "decode"
  PROVE  Owns(q, 0)
  <1>1. q = "video" => ~ held[q].flush
    BY DEF OInv, VideoKnown
  <1> QED BY <1>1 DEF Owns, PacketAt

LEMMA InitO == Init => OInv
  <1> SUFFICES ASSUME Init PROVE OInv
    OBVIOUS
  <1>1. TypeOK
    BY InitM DEF MInv
  <1>2. \A q \in Queues, k \in Nat : ~ Owns(q, k)
    BY MarkerAssumption DEF Init, Owns, PacketAt, NoPacket, Queues
  <1>3. OwnedLive /\ OwnedOnce
    BY <1>2 DEF OwnedLive, OwnedOnce
  <1> QED BY <1>1, <1>3 DEF OInv, Init, Early, VideoKnown, NoPacket, Queues

LEMMA ReadKeeps ==
  ASSUME OInv, NEW s \in Queues, Read(s)
  PROVE  OwnedLive' /\ OwnedOnce' /\ Early' /\ VideoKnown' /\ ~ broken'
  <1>1. PICK b \in Blocks \ live :
          /\ live' = live \cup {b}
          /\ PutInto(s, [data |-> b, flush |-> FALSE])
    BY DEF Read, PutInto
  <1>2. /\ TypeOK /\ OwnedLive /\ OwnedOnce /\ [data |-> b, flush |-> FALSE] \in Packet
        /\ UNCHANGED <<marker, failed, seeks, dpc, held, cpc, broken>>
    BY DEF OInv, Packet, Read
  <1>3. /\ \A r \in Queues \ {s} : queue'[r] = queue[r]
        /\ DOMAIN queue[s] \subseteq Nat \ {0}
        /\ \A k \in DOMAIN queue'[s] :
             \/ k \in DOMAIN queue[s] /\ queue'[s][k] = queue[s][k]
             \/ k = Len(queue[s]) + 1 /\ queue'[s][k] = [data |-> b, flush |-> FALSE]
        /\ Len(queue[s]) + 1 \in Nat
    <2>1. PICK p \in Packet : p = [data |-> b, flush |-> FALSE]
      BY <1>2
    <2>2. TypeOK /\ PutInto(s, p)
      BY <1>1, <1>2, <2>1
    <2>3. /\ \A r \in Queues \ {s} : queue'[r] = queue[r]
          /\ DOMAIN queue[s] \subseteq Nat \ {0}
          /\ \A k \in DOMAIN queue'[s] :
               \/ k \in DOMAIN queue[s] /\ queue'[s][k] = queue[s][k]
               \/ k = Len(queue[s]) + 1 /\ queue'[s][k] = p
          /\ Len(queue[s]) + 1 \in Nat
      BY <2>2, Puts
    <2> QED BY <2>1, <2>3
  <1>4. ASSUME NEW q \in Queues, NEW k \in Nat, Owns(q, k)'
        PROVE  \/ Owns(q, k) /\ PacketAt(q, k)' = PacketAt(q, k)
               \/ q = s /\ k = Len(queue[s]) + 1 /\ PacketAt(q, k)'.data = b
    <2>1. CASE k = 0
      BY <1>2, <1>4, <2>1 DEF Owns, PacketAt
    <2>2. CASE k # 0 /\ q # s
      BY <1>3, <1>4, <2>2 DEF Owns, PacketAt
    <2>3. CASE k # 0 /\ q = s
      BY <1>3, <1>4, <2>3 DEF Owns, PacketAt
    <2> QED BY <2>1, <2>2, <2>3
  <1>5. OwnedLive' /\ OwnedOnce'
    BY <1>1, <1>2, <1>3, <1>4, OneMore
  <1>6. Early'
    BY <1>2 DEF OInv, Early
  <1>7. VideoKnown'
    <2>1. \A k \in DOMAIN queue'["video"] : queue'["video"][k].flush =>
            k \in DOMAIN queue["video"] /\ queue'["video"][k] = queue["video"][k]
      <3>1. CASE s = "video"
        BY <1>3, <3>1
      <3>2. CASE s # "video"
        <4>1. "video" \in Queues \ {s}
          BY <3>2 DEF Queues
        <4> QED BY <1>3, <4>1
      <3> QED BY <3>1, <3>2
    <2> QED BY <1>2, <2>1 DEF OInv, VideoKnown
  <1> QED BY <1>2, <1>5, <1>6, <1>7 DEF OInv

LEMMA SeekKeeps ==
  ASSUME MaxSeeks <= 1, OInv, Seek
  PROVE  OwnedLive' /\ OwnedOnce' /\ Early' /\ VideoKnown' /\ ~ broken'
  <1>1. /\ seeks = 0 /\ seeks' = 1 /\ dpc' = "clearaudio"
        /\ UNCHANGED <<live, marker, failed, queue, held, cpc, broken>>
    BY MarkerAssumption DEF OInv, TypeOK, Seek, ClearPlace
  <1>2. OwnedLive' /\ OwnedOnce'
    BY <1>1, Fewer DEF OInv, Owns, PacketAt
  <1>3. Early' /\ VideoKnown'
    BY <1>1 DEF OInv, Early, VideoKnown
  <1> QED BY <1>1, <1>2, <1>3 DEF OInv

LEMMA ClearKeeps ==
  ASSUME OInv, NEW s \in Queues, Clear(s)
  PROVE  OwnedLive' /\ OwnedOnce' /\ Early' /\ VideoKnown' /\ ~ broken'
  <1>1. /\ dpc = ClearPlace[s] /\ Destruct(queue[s])
        /\ queue' = [queue EXCEPT ![s] = << >>] /\ dpc' = MarkPlace[s]
        /\ UNCHANGED <<marker, failed, seeks, held, cpc>>
    BY DEF Clear, FreeAll
  <1>2. /\ dpc # "read" /\ queue \in [Queues -> Seq(Packet)] /\ queue[s] \in Seq(Packet)
        /\ DOMAIN queue[s] \subseteq Nat \ {0}
    BY <1>1 DEF ClearPlace, Queues, OInv, TypeOK
  <1>3. \A k \in DOMAIN queue[s] : queue[s][k].data \in Blocks =>
          Owns(s, k) /\ PacketAt(s, k) = queue[s][k] /\ k \in Nat /\ k # 0
    BY <1>2 DEF Owns, PacketAt, OInv, VideoKnown
  <1>4. ~ broken'
    <2>1. ~ \E j, k \in DOMAIN queue[s] : /\ j # k /\ queue[s][j].data = queue[s][k].data
                                          /\ queue[s][j].data \in Blocks
      BY <1>3 DEF OInv, OwnedOnce
    <2>2. ~ \E k \in DOMAIN queue[s] : queue[s][k].data \in Blocks \ live
      BY <1>3 DEF OInv, OwnedLive
    <2> QED BY <1>1, <2>1, <2>2, DestructAll
  <1>5. ASSUME NEW q \in Queues, NEW k \in Nat, Owns(q, k)'
        PROVE  /\ Owns(q, k) /\ PacketAt(q, k)' = PacketAt(q, k)
               /\ PacketAt(q, k).data \in live => PacketAt(q, k).data \in live'
    <2>1. DOMAIN queue'[s] = {} /\ \A r \in Queues \ {s} : queue'[r] = queue[r]
      <3>1. queue'[s] = << >> /\ \A r \in Queues \ {s} : queue'[r] = queue[r]
        BY <1>1, <1>2
      <3> QED BY <3>1
    <2>2. k = 0 \/ q # s
      BY <1>5, <2>1 DEF Owns
    <2>3. Owns(q, k) /\ PacketAt(q, k)' = PacketAt(q, k)
      BY <1>1, <1>5, <2>1, <2>2 DEF Owns, PacketAt
    <2>4. ~ \E i \in DOMAIN queue[s] :
              queue[s][i].data = PacketAt(q, k).data /\ PacketAt(q, k).data \in Blocks
      BY <1>3, <2>2, <2>3 DEF OInv, OwnedOnce
    <2> QED BY <1>1, <2>3, <2>4, DestructAll
  <1>6. OwnedLive' /\ OwnedOnce'
    BY <1>5, Fewer DEF OInv
  <1>7. Early'
    <2>1. dpc' = "markaudio" => dpc = "clearaudio"
      BY <1>1 DEF ClearPlace, MarkPlace, Queues
    <2>2. dpc' \in {"markaudio", "markvideo"}
      BY <1>1 DEF MarkPlace, Queues
    <2> QED BY <1>1, <1>2, <2>1, <2>2 DEF OInv, Early
  <1>8. VideoKnown'
    <2>1. ~ held["video"].flush /\ \A k \in DOMAIN queue["video"] : ~ queue["video"][k].flush
      BY <1>2 DEF OInv, VideoKnown
    <2>2. \A k \in DOMAIN queue'["video"] : ~ queue'["video"][k].flush
      <3>1. CASE s = "video"
        <4>1. queue'["video"] = << >>
          BY <1>1, <1>2, <3>1
        <4> QED BY <4>1
      <3>2. CASE s # "video"
        <4>1. queue'["video"] = queue["video"]
          BY <1>1, <1>2, <3>2 DEF Queues
        <4> QED BY <2>1, <4>1
      <3> QED BY <3>1, <3>2
    <2> QED BY <1>1, <2>1, <2>2 DEF VideoKnown
  <1> QED BY <1>4, <1>6, <1>7, <1>8

LEMMA MarkKeeps ==
  ASSUME MaxSeeks <= 1, OInv, NEW s \in Queues, Mark(s)
  PROVE  OwnedLive' /\ OwnedOnce' /\ Early' /\ VideoKnown' /\ ~ broken'
  <1> DEFINE p == [data |-> marker', flush |-> TRUE]
             n == Len(queue[s]) + 1
  <1>1. /\ \/ marker = Literal /\ marker' \in Blocks \ live /\ live' = live \cup {marker'}
           \/ marker = Literal /\ UNCHANGED <<marker, live>>
           \/ marker # Literal /\ UNCHANGED <<marker, live>>
        /\ p \in Packet
        /\ PutInto(s, p) \/ queue' = queue
        /\ dpc = MarkPlace[s] /\ dpc' = AfterMark[s]
        /\ UNCHANGED <<seeks, held, cpc, broken>>
    BY Marks DEF OInv
  <1>2. /\ dpc # "read" /\ seeks = 1 /\ n \in Nat /\ n # 0
        /\ s = "audio" => dpc = "markaudio" /\ dpc' = "clearvideo" /\ marker = Literal
        /\ s = "video" => dpc' = "read"
    <2>1. /\ dpc # "read"
          /\ s = "audio" => dpc = "markaudio" /\ dpc' = "clearvideo"
          /\ s = "video" => dpc' = "read"
      BY <1>1 DEF MarkPlace, AfterMark, Queues
    <2>2. seeks = 1 /\ Len(queue[s]) \in Nat
      BY <2>1, MarkerAssumption DEF OInv, Early, TypeOK
    <2> QED BY <2>1, <2>2 DEF OInv, Early
  <1>3. \A q \in Queues : \A k \in DOMAIN queue'[q] :
          \/ k \in DOMAIN queue[q] /\ queue'[q][k] = queue[q][k]
          \/ q = s /\ k = n /\ queue'[q][k] = p
    <2> HIDE DEF p, n
    <2>1. CASE queue' = queue
      BY <2>1
    <2>2. CASE PutInto(s, p)
      BY <1>1, <2>2, Puts DEF OInv, n
    <2> QED BY <1>1, <2>1, <2>2
  <1>4. p.data = marker' /\ p.flush
    OBVIOUS
  <1> HIDE DEF p, n
  <1>5. ASSUME NEW q \in Queues, NEW k \in Nat, Owns(q, k)'
        PROVE  \/ Owns(q, k) /\ PacketAt(q, k)' = PacketAt(q, k)
               \/ q = s /\ k = n /\ s = "audio" /\ PacketAt(q, k)'.data = marker'
                  /\ marker' \in Blocks
    <2>1. CASE k = 0
      BY <1>1, <1>5, <2>1 DEF Owns, PacketAt
    <2>2. CASE k # 0
      <3>1. k \in DOMAIN queue'[q] /\ PacketAt(q, k)' = queue'[q][k]
        BY <1>5, <2>2 DEF Owns, PacketAt
      <3>2. CASE k \in DOMAIN queue[q] /\ queue'[q][k] = queue[q][k]
        BY <1>5, <2>2, <3>1, <3>2 DEF Owns, PacketAt
      <3>3. CASE q = s /\ k = n /\ queue'[q][k] = p
        BY <1>4, <1>5, <3>1, <3>3 DEF Owns, Queues
      <3> QED BY <1>3, <3>1, <3>2, <3>3
    <2> QED BY <2>1, <2>2
  <1>6. OwnedLive' /\ OwnedOnce'
    <2>1. CASE marker = Literal /\ marker' \in Blocks \ live /\ live' = live \cup {marker'}
      BY <1>2, <1>5, <2>1, OneMore DEF OInv
    <2>2. CASE UNCHANGED <<marker, live>>
      <3>1. s = "audio" => marker' \notin Blocks
        BY <1>2, <2>2, MarkerAssumption
      <3> QED BY <1>5, <2>2, <3>1, Fewer DEF OInv
    <2> QED BY <1>1, <2>1, <2>2
  <1>7. Early'
    BY <1>1, <1>2 DEF Early, Queues
  <1>8. VideoKnown'
    <2>1. ~ held["video"].flush /\ \A k \in DOMAIN queue["video"] : ~ queue["video"][k].flush
      BY <1>2 DEF OInv, VideoKnown
    <2>2. \A k \in DOMAIN queue'["video"] : queue'["video"][k].flush =>
            s = "video" /\ queue'["video"][k] = p
      BY <1>3, <2>1 DEF Queues
    <2> QED BY <1>1, <1>2, <1>4, <2>1, <2>2 DEF VideoKnown
  <1> QED BY <1>1, <1>6, <1>7, <1>8 DEF OInv

LEMMA GetKeeps ==
  ASSUME OInv, NEW s \in Queues, Get(s)
  PROVE  OwnedLive' /\ OwnedOnce' /\ Early' /\ VideoKnown' /\ ~ broken'
  <1>1. /\ cpc[s] = "get" /\ cpc' = [cpc EXCEPT ![s] = "compare"]
        /\ 1 \in DOMAIN queue[s] /\ held'[s] = queue[s][1]
        /\ \A r \in Queues \ {s} : queue'[r] = queue[r] /\ held'[r] = held[r]
        /\ \A k \in DOMAIN queue'[s] :
             k \in Nat \ {0} /\ k + 1 \in DOMAIN queue[s] /\ queue'[s][k] = queue[s][k + 1]
        /\ UNCHANGED <<live, marker, failed, seeks, dpc, broken>>
    BY Gets DEF OInv
  <1>2. cpc'[s] = "compare" /\ \A r \in Queues \ {s} : cpc'[r] = cpc[r]
    BY <1>1 DEF OInv, TypeOK
  <1> DEFINE was(q, k) == IF q = s THEN k + 1 ELSE k
  <1>3. ASSUME NEW q \in Queues, NEW k \in Nat, Owns(q, k)'
        PROVE  Owns(q, was(q, k)) /\ PacketAt(q, k)' = PacketAt(q, was(q, k))
               /\ was(q, k) \in Nat
    <2>1. CASE q # s
      BY <1>1, <1>2, <1>3, <2>1 DEF Owns, PacketAt
    <2>2. CASE q = s /\ k = 0
      <3>1. PacketAt(q, k)' = queue[s][1] /\ PacketAt(q, 1) = queue[s][1]
        BY <1>1, <2>2 DEF PacketAt
      <3> QED BY <1>1, <1>3, <2>2, <3>1 DEF Owns
    <2>3. CASE q = s /\ k # 0
      <3>1. k \in DOMAIN queue'[s] /\ PacketAt(q, k)' = queue'[s][k]
        BY <1>3, <2>3 DEF Owns, PacketAt
      <3>2. k + 1 \in DOMAIN queue[s] /\ k + 1 # 0 /\ PacketAt(q, k + 1) = queue[s][k + 1]
        BY <1>1, <2>3, <3>1 DEF PacketAt
      <3> QED BY <1>1, <1>3, <2>3, <3>1, <3>2 DEF Owns
    <2> QED BY <2>1, <2>2, <2>3
  <1>4. OwnedLive'
    BY <1>1, <1>3 DEF OInv, OwnedLive
  <1>5. OwnedOnce'
    <2> SUFFICES ASSUME NEW q \in Queues, NEW r \in Queues, NEW j \in Nat, NEW k \in Nat,
                        Owns(q, j)', Owns(r, k)',
                        PacketAt(q, j)'.data = PacketAt(r, k)'.data
                 PROVE  q = r /\ j = k
      BY DEF OwnedOnce
    <2>1. q = r /\ was(q, j) = was(r, k)
      <3> HIDE DEF was
      <3> QED BY <1>3 DEF OInv, OwnedOnce
    <2> QED BY <2>1
  <1>6. Early'
    BY <1>1 DEF OInv, Early
  <1>7. VideoKnown'
    <2>1. CASE s = "video"
      BY <1>1, <1>2, <2>1 DEF OInv, VideoKnown
    <2>2. CASE s # "video"
      <3>1. "video" \in Queues \ {s}
        BY <2>2 DEF Queues
      <3> QED BY <1>1, <1>2, <3>1 DEF OInv, VideoKnown
    <2> QED BY <2>1, <2>2
  <1> QED BY <1>1, <1>4, <1>5, <1>6, <1>7 DEF OInv

(* The steps of a consumer that frees nothing.                             *)
LEMMA StepKeeps ==
  ASSUME OInv, NEW s \in Queues, NEW place, cpc' = [cpc EXCEPT ![s] = place],
         place \in Frees(s) => cpc[s] \in Frees(s),
         s = "video" /\ held[s].flush => place # "decode",
         UNCHANGED <<live, marker, failed, queue, seeks, dpc, held, broken>>
  PROVE  OwnedLive' /\ OwnedOnce' /\ Early' /\ VideoKnown' /\ ~ broken'
  <1>1. cpc'[s] = place /\ \A r \in Queues \ {s} : cpc'[r] = cpc[r]
    BY DEF OInv, TypeOK
  <1>2. ASSUME NEW q \in Queues, NEW k \in Nat, Owns(q, k)'
        PROVE  Owns(q, k) /\ PacketAt(q, k)' = PacketAt(q, k)
    BY <1>1, <1>2 DEF Owns, PacketAt
  <1>3. OwnedLive' /\ OwnedOnce'
    BY <1>2, Fewer DEF OInv
  <1>4. Early' /\ VideoKnown'
    BY <1>1 DEF OInv, Early, VideoKnown, Queues
  <1> QED BY <1>3, <1>4 DEF OInv

(* The audio thread frees what it had, the video thread what it decoded.   *)
LEMMA FreeKeeps ==
  ASSUME OInv, NEW s \in Queues, cpc[s] \in Frees(s), s = "video" => cpc[s] = "decode",
         Destruct(<<held[s]>>), cpc' = [cpc EXCEPT ![s] = "get"],
         held' \in {held, [held EXCEPT ![s] = NoPacket]},
         UNCHANGED <<marker, failed, queue, seeks, dpc>>
  PROVE  OwnedLive' /\ OwnedOnce' /\ Early' /\ VideoKnown' /\ ~ broken'
  <1>1. /\ live' = IF held[s].data \in Blocks THEN live \ {held[s].data} ELSE live
        /\ broken' <=> held[s].data \in Blocks /\ held[s].data \notin live
    BY DestructOne
  <1>2. held[s].data \in Blocks => Owns(s, 0) /\ PacketAt(s, 0) = held[s]
    BY InHand DEF PacketAt
  <1>3. ~ broken'
    BY <1>1, <1>2 DEF OInv, OwnedLive
  <1>4. /\ cpc'[s] = "get" /\ \A r \in Queues \ {s} : cpc'[r] = cpc[r]
        /\ held'[s] = held[s] \/ held'[s] = NoPacket
        /\ \A r \in Queues \ {s} : held'[r] = held[r]
    BY DEF OInv, TypeOK
  <1>5. ASSUME NEW q \in Queues, NEW k \in Nat, Owns(q, k)'
        PROVE  /\ Owns(q, k) /\ PacketAt(q, k)' = PacketAt(q, k)
               /\ PacketAt(q, k).data \in live => PacketAt(q, k).data \in live'
    <2>1. q # s \/ k # 0
      BY <1>4, <1>5 DEF Owns, Frees
    <2>2. Owns(q, k) /\ PacketAt(q, k)' = PacketAt(q, k)
      BY <1>4, <1>5, <2>1 DEF Owns, PacketAt
    <2>3. held[s].data \in Blocks => PacketAt(q, k).data # held[s].data
      BY <1>2, <2>1, <2>2 DEF OInv, OwnedOnce
    <2> QED BY <1>1, <2>2, <2>3
  <1>6. OwnedLive' /\ OwnedOnce'
    BY <1>5, Fewer DEF OInv
  <1>7. Early'
    BY DEF OInv, Early
  <1>8. VideoKnown'
    <2>1. held'["video"] = held["video"] \/ held'["video"] = NoPacket
      BY <1>4 DEF Queues
    <2>2. cpc'["video"] = cpc["video"] \/ cpc'["video"] = "get"
      BY <1>4 DEF Queues
    <2> QED BY <2>1, <2>2 DEF OInv, VideoKnown, NoPacket
  <1> QED BY <1>3, <1>6, <1>7, <1>8

LEMMA NextO == ASSUME MaxSeeks <= 1 PROVE OInv /\ [Next]_vars => OInv'
  <1> SUFFICES ASSUME OInv, [Next]_vars PROVE OInv'
    OBVIOUS
  <1>1. TypeOK'
    BY TypeKeeps DEF OInv
  <1> SUFFICES OwnedLive' /\ OwnedOnce' /\ Early' /\ VideoKnown' /\ ~ broken'
    BY <1>1 DEF OInv
  <1>2. CASE Reader
    BY <1>2, ReadKeeps, SeekKeeps, ClearKeeps, MarkKeeps DEF Reader
  <1>3. CASE Consumer
    <2>1. "audio" \in Queues /\ "video" \in Queues
      BY DEF Queues
    <2>2. CASE Release
      BY <2>1, <2>2, FreeKeeps DEF Release, Frees
    <2>3. CASE VideoDecode
      BY <2>1, <2>3, FreeKeeps DEF VideoDecode, Frees
    <2>4. CASE AudioFlush \/ AudioDecode
      BY <2>1, <2>4, StepKeeps DEF AudioFlush, AudioDecode, Frees
    <2>5. CASE VideoFlush
      BY <2>1, <2>5, StepKeeps DEF VideoFlush, Frees
    <2>6. ASSUME NEW q \in Queues, Compare(q)
          PROVE  OwnedLive' /\ OwnedOnce' /\ Early' /\ VideoKnown' /\ ~ broken'
      <3> DEFINE place == IF held[q].data = marker THEN "flush" ELSE "decode"
      <3>1. /\ cpc[q] = "compare" /\ cpc' = [cpc EXCEPT ![q] = place]
            /\ UNCHANGED <<live, marker, failed, queue, seeks, dpc, held, broken>>
        BY <2>6 DEF Compare
      <3>2. cpc[q] \in Frees(q)
        BY <3>1 DEF Frees
      <3>3. q = "video" /\ held[q].flush => place # "decode"
        BY DEF OInv, VideoKnown
      <3> HIDE DEF place
      <3> QED BY <3>1, <3>2, <3>3, StepKeeps
    <2> QED BY <1>3, <2>2, <2>3, <2>4, <2>5, <2>6, GetKeeps DEF Consumer
  <1>4. CASE UNCHANGED vars
    <2>1. UNCHANGED <<live, marker, queue, seeks, dpc, held, cpc, broken>>
      BY <1>4 DEF vars
    <2>2. OwnedLive' /\ OwnedOnce'
      BY <2>1, Fewer DEF OInv, Owns, PacketAt
    <2>3. Early' /\ VideoKnown' /\ ~ broken'
      BY <2>1 DEF OInv, Early, VideoKnown
    <2> QED BY <2>2, <2>3
  <1> QED BY <1>2, <1>3, <1>4 DEF Next

LEMMA HandedNext == TypeOK /\ Handed /\ [Next]_vars => Handed'
  <1> SUFFICES ASSUME TypeOK, Handed, [Next]_vars, NEW q \in Queues,
                      cpc'[q] \in {"compare", "flush", "decode"}
               PROVE  held'[q] \in Packet
    BY DEF Handed
  <1> USE DEF Handed, TypeOK
  <1>1. CASE Reader
    BY <1>1 DEF Reader, Read, Seek, Clear, Mark
  <1>2. ASSUME NEW r \in Queues, Get(r) PROVE held'[q] \in Packet
    <2>1. /\ 1 \in DOMAIN queue[r] /\ held'[r] = queue[r][1] /\ queue[r] \in Seq(Packet)
          /\ \A t \in Queues \ {r} : held'[t] = held[t]
          /\ cpc' = [cpc EXCEPT ![r] = "compare"]
      BY <1>2, Gets
    <2> QED BY <2>1
  <1>3. ASSUME NEW r \in Queues, Compare(r) PROVE held'[q] \in Packet
    BY <1>3 DEF Compare
  <1>4. CASE Release \/ AudioFlush \/ AudioDecode \/ VideoFlush \/ VideoDecode
    BY <1>4 DEF Release, AudioFlush, AudioDecode, VideoFlush, VideoDecode, Queues
  <1>5. CASE UNCHANGED vars
    BY <1>5 DEF vars
  <1> QED BY <1>1, <1>2, <1>3, <1>4, <1>5 DEF Next, Consumer

(* With one seek, every block that is freed is allocated, whatever the     *)
(* order in which the threads get to it (libavutil/mem.h 98).              *)
THEOREM OneSeekFreesAllocated == ASSUME MaxSeeks <= 1 PROVE Spec => []FreesAllocated
  <1>1. OInv => FreesAllocated
    BY DEF OInv, FreesAllocated
  <1> QED BY <1>1, InitO, NextO, PTL DEF Spec

(* With one seek, a packet is decoded while its data is allocated          *)
(* (VSPlayer.c 504, 766).                                                  *)
THEOREM OneSeekReadsAllocated == ASSUME MaxSeeks <= 1 PROVE Spec => []ReadsAllocated
  <1>1. Init => Handed
    BY DEF Init, Handed, Queues
  <1>2. OInv /\ Handed /\ [Next]_vars => Handed'
    BY HandedNext DEF OInv
  <1>3. OInv /\ Handed => ReadsAllocated
    <2> SUFFICES ASSUME OInv, Handed, NEW q \in Queues, cpc[q] = "decode", ~ held[q].flush
                 PROVE  held[q].data \in live
      BY DEF ReadsAllocated
    <2>1. cpc[q] \in Frees(q)
      BY DEF Frees
    <2>2. held[q].data \in Blocks
      BY DEF Handed, Packet
    <2>3. Owns(q, 0) /\ PacketAt(q, 0) = held[q]
      BY <2>1, <2>2, InHand DEF PacketAt
    <2> QED BY <2>3 DEF OInv, OwnedLive
  <1> QED BY <1>1, <1>2, <1>3, InitO, NextO, PTL DEF Spec

=============================================================================
