-------------------------- MODULE SDLEvents_proofs --------------------------
(***************************************************************************)
(* Proofs about SDLEvents for a ring of any length, every burst and any    *)
(* set of messages.                                                        *)
(***************************************************************************)
EXTENDS SDLEvents, FiniteSetTheorems, SequenceTheorems, TLAPS

(* A place holds an event if and only if it is in the queue.               *)
Filled == \A i \in Ring :
  IF Occupied(i) THEN event[i] \in Entries ELSE event[i] = Blank

(* An event's message has been stored.                                     *)
Told == \A i \in Ring : event[i].kind = "sys" => wmmsg[event[i].slot] \in Messages

(* Events are added and read only while the queue is active, and a reader  *)
(* is not behind the end of the queue.                                     *)
Working ==
  /\ ~active => head = tail
  /\ peep # "none" \/ call # "idle" => active
  /\ Locked => Dist(head, spot) <= Dist(head, tail)

(* A poll takes the first event, unless there is none.                     *)
Polling ==
  peep = "poll" =>
    /\ call = "drain" /\ mask = Kinds /\ want = 1 /\ get
    /\ used = 0 => spot = head

Exposed(i) == Occupied(i) /\ event[i].kind = "expose"

Once == \A i, j \in Ring : Exposed(i) /\ Exposed(j) => i = j

(* The loop that pulls out the old expose events has left none behind it,  *)
(* and none at all once it has found one.                                  *)
Pulled ==
  /\ peep = "post" => \A i \in Ring : ~ Exposed(i)
  /\ peep = "expose" =>
       /\ mask = {"expose"} /\ get /\ want > 0
       /\ \A i \in Ring : Exposed(i) => used = 0 /\ Dist(head, spot) <= Dist(head, i)

IInv ==
  /\ TypeOK /\ Filled /\ Told /\ Working /\ Polling /\ NoneIgnored /\ Once /\ Pulled

(* Nothing that matches was passed over, when events are cut out; else what *)
(* was passed over is what was counted.                                    *)
Asked(i) == Occupied(i) /\ event[i].kind \in mask
Behind == {i \in Ring : Asked(i) /\ Dist(head, i) < Dist(head, spot)}
Counted == Locked => IF get THEN Behind = {} ELSE Cardinality(Behind) = used

(* The slots stored to after slot a, w being the next.                     *)
Later(a, w) == {s \in Ring : s # a /\ Dist(a, s) <= Dist(a, Pred(w))}
Sent(i) == Occupied(i) /\ event[i].kind = "sys"

(* They are those of the events queued after the one with the message at a, *)
(* and of all that are queued when that one has just been polled.          *)
Linked ==
  \A i \in Ring : Sent(i) =>
    \A s \in Later(event[i].slot, wmmsg_next) : \E j \in Ring :
      Sent(j) /\ event[j].slot = s /\ Dist(head, i) < Dist(head, j)
Followed ==
  held # Nothing =>
    \A s \in Later(held.slot, wmmsg_next) : \E j \in Ring : Sent(j) /\ event[j].slot = s

JInv == IInv /\ Counted /\ Linked /\ Followed /\ HeldIntact

-----------------------------------------------------------------------------
(* Going round the ring.                                                   *)
LEMMA ModIs ==
  ASSUME NEW n \in Nat \ {0}, NEW x \in 0 .. 2 * n - 1
  PROVE  x % n = IF x < n THEN x ELSE x - n
  OBVIOUS

LEMMA DistIs == \A i, j \in Ring :
  Dist(i, j) = IF i <= j THEN j - i ELSE j - i + M
  <1> SUFFICES ASSUME NEW i \in Ring, NEW j \in Ring
               PROVE  Dist(i, j) = IF i <= j THEN j - i ELSE j - i + M
    OBVIOUS
  <1> DEFINE x == j - i + M
  <1>1. M \in Nat \ {0} /\ x \in 0 .. 2 * M - 1 /\ i \in Int /\ j \in Int
    BY SDLEventsAssumption DEF Ring
  <1>2. Dist(i, j) = x % M
    BY DEF Dist
  <1> HIDE DEF x
  <1>3. x % M = IF x < M THEN x ELSE x - M
    BY <1>1, ModIs
  <1> QED BY <1>1, <1>2, <1>3 DEF x

LEMMA SuccIs == \A i \in Ring : Succ(i) \in Ring /\ Succ(i) = IF i = M - 1 THEN 0 ELSE i + 1
  <1> SUFFICES ASSUME NEW i \in Ring
               PROVE  Succ(i) \in Ring /\ Succ(i) = IF i = M - 1 THEN 0 ELSE i + 1
    OBVIOUS
  <1> DEFINE x == i + 1
  <1>1. M \in Nat \ {0} /\ M > 1 /\ x \in 0 .. 2 * M - 1 /\ i \in 0 .. M - 1
    BY SDLEventsAssumption DEF Ring
  <1>2. Succ(i) = x % M
    BY DEF Succ
  <1> HIDE DEF x
  <1>3. x % M = IF x < M THEN x ELSE x - M
    BY <1>1, ModIs
  <1> QED BY <1>1, <1>2, <1>3 DEF x, Ring

LEMMA PredIs == \A i \in Ring : Pred(i) \in Ring /\ Pred(i) = IF i = 0 THEN M - 1 ELSE i - 1
  <1> SUFFICES ASSUME NEW i \in Ring
               PROVE  Pred(i) \in Ring /\ Pred(i) = IF i = 0 THEN M - 1 ELSE i - 1
    OBVIOUS
  <1> DEFINE x == i + M - 1
  <1>1. M \in Nat \ {0} /\ M > 1 /\ x \in 0 .. 2 * M - 1 /\ i \in 0 .. M - 1
    BY SDLEventsAssumption DEF Ring
  <1>2. Pred(i) = x % M
    BY DEF Pred
  <1> HIDE DEF x
  <1>3. x % M = IF x < M THEN x ELSE x - M
    BY <1>1, ModIs
  <1> QED BY <1>1, <1>2, <1>3 DEF x, Ring

(* Places counted from h: one is reached from another by as many steps as  *)
(* there are between them.                                                 *)
LEMMA Placed ==
  ASSUME NEW h \in Ring
  PROVE  /\ M \in Nat /\ M > 1 /\ Dist(h, h) = 0
         /\ \A i \in Ring : Dist(h, i) \in 0 .. M - 1
         /\ \A i, j \in Ring : Dist(h, i) = Dist(h, j) => i = j
         /\ \A i \in Ring : Dist(h, i) < M - 1 => Dist(h, Succ(i)) = Dist(h, i) + 1
         /\ \A i \in Ring : Dist(h, i) > 0 => Dist(h, Pred(i)) = Dist(h, i) - 1
         /\ \A i, j \in Ring : Dist(i, j) =
              IF Dist(h, i) <= Dist(h, j) THEN Dist(h, j) - Dist(h, i)
              ELSE Dist(h, j) - Dist(h, i) + M
  <1>1. M \in Nat /\ M > 1 /\ h \in 0 .. M - 1 /\ Ring = 0 .. M - 1
    BY SDLEventsAssumption DEF Ring
  <1>2. \A i \in Ring : Dist(h, i) = IF h <= i THEN i - h ELSE i - h + M
    BY DistIs
  <1>3. Dist(h, h) = 0 /\ \A i \in Ring : Dist(h, i) \in 0 .. M - 1
    BY <1>1, <1>2
  <1>4. \A i, j \in Ring : Dist(h, i) = Dist(h, j) => i = j
    BY <1>1, <1>2
  <1>5. ASSUME NEW i \in Ring, Dist(h, i) < M - 1
        PROVE  Dist(h, Succ(i)) = Dist(h, i) + 1
    <2>1. Succ(i) \in Ring /\ Succ(i) = IF i = M - 1 THEN 0 ELSE i + 1
      BY SuccIs
    <2> QED BY <1>1, <1>2, <1>5, <2>1
  <1>6. ASSUME NEW i \in Ring, Dist(h, i) > 0
        PROVE  Dist(h, Pred(i)) = Dist(h, i) - 1
    <2>1. Pred(i) \in Ring /\ Pred(i) = IF i = 0 THEN M - 1 ELSE i - 1
      BY PredIs
    <2> QED BY <1>1, <1>2, <1>6, <2>1
  <1>7. ASSUME NEW i \in Ring, NEW j \in Ring
        PROVE  Dist(i, j) = IF Dist(h, i) <= Dist(h, j) THEN Dist(h, j) - Dist(h, i)
                            ELSE Dist(h, j) - Dist(h, i) + M
    <2>1. Dist(i, j) = IF i <= j THEN j - i ELSE j - i + M
      BY DistIs
    <2> QED BY <1>1, <1>2, <2>1
  <1> QED BY <1>1, <1>3, <1>4, <1>5, <1>6, <1>7

LEMMA HasRoom ==
  ASSUME head \in Ring, tail \in Ring, Succ(tail) # head
  PROVE  Dist(head, tail) < M - 1
  <1>1. Dist(head, tail) \in 0 .. M - 1 /\ M \in Nat
    BY Placed
  <1>2. Pred(head) \in Ring /\ Succ(Pred(head)) = head
    BY SDLEventsAssumption, SuccIs, PredIs DEF Ring
  <1>3. Dist(head, Pred(head)) = M - 1
    <2>1. Pred(head) = IF head = 0 THEN M - 1 ELSE head - 1
      BY PredIs
    <2>2. Dist(head, Pred(head)) =
            IF head <= Pred(head) THEN Pred(head) - head ELSE Pred(head) - head + M
      BY <1>2, DistIs
    <2> QED BY SDLEventsAssumption, <2>1, <2>2 DEF Ring
  <1>4. tail # Pred(head)
    BY <1>2
  <1>5. Dist(head, tail) # M - 1
    BY <1>2, <1>3, <1>4, Placed
  <1> QED BY <1>1, <1>5

(* An event that is added is at the old tail, and moves no other.          *)
LEMMA RoomAtTail ==
  ASSUME head \in Ring, tail \in Ring, Succ(tail) # head, head' = head, tail' = Succ(tail)
  PROVE  /\ ~ Occupied(tail)
         /\ \A i \in Ring : Occupied(i)' <=> Occupied(i) \/ i = tail
  <1>1. /\ Dist(head, tail) \in 0 .. M - 1 /\ M \in Nat
        /\ Dist(head, tail) < M - 1 => Dist(head, Succ(tail)) = Dist(head, tail) + 1
    BY Placed
  <1>2. Dist(head, tail) < M - 1
    BY HasRoom
  <1>3. ~ Occupied(tail)
    BY <1>1 DEF Occupied
  <1>4. ASSUME NEW i \in Ring PROVE Occupied(i)' <=> Occupied(i) \/ i = tail
    <2>1. Dist(head, i) \in 0 .. M - 1 /\ (Dist(head, i) = Dist(head, tail) => i = tail)
      BY Placed
    <2>2. Occupied(i)' <=> Dist(head, i) < Dist(head, Succ(tail))
      BY DEF Occupied, Dist
    <2>3. Occupied(i) <=> Dist(head, i) < Dist(head, tail)
      BY DEF Occupied
    <2> QED BY <1>1, <1>2, <2>1, <2>2, <2>3
  <1> QED BY <1>3, <1>4

(* What SDL_AddEvent does when there is room.                              *)
Adds(kind, msg, e) ==
  /\ e.kind = kind
  /\ event' = [event EXCEPT ![tail] = e]
  /\ tail' = Succ(tail) /\ added' = 1
  /\ \/ /\ kind = "sys" /\ e.slot = wmmsg_next
        /\ wmmsg' = [wmmsg EXCEPT ![wmmsg_next] = msg]
        /\ wmmsg_next' = Succ(wmmsg_next)
     \/ kind # "sys" /\ UNCHANGED <<wmmsg, wmmsg_next>>

LEMMA Adding ==
  ASSUME wmmsg_next \in Ring, NEW kind \in Kinds, NEW msg,
         AddEvent(kind, msg), Succ(tail) # head
  PROVE  \E e \in Entries : Adds(kind, msg, e)
  <1>1. CASE kind = "sys"
    <2>1. [kind |-> kind, slot |-> wmmsg_next] \in Entries
      BY <1>1 DEF Entries
    <2> QED BY <1>1, <2>1 DEF AddEvent, Adds
  <1>2. CASE kind # "sys"
    <2>1. [kind |-> kind, slot |-> M] \in Entries
      BY <1>2 DEF Entries
    <2> QED BY <1>2, <2>1 DEF AddEvent, Adds
  <1> QED BY <1>1, <1>2

LEMMA Added ==
  ASSUME TypeOK, Filled, Told, NEW kind \in Kinds, NEW msg,
         kind = "sys" => msg \in Messages, AddEvent(kind, msg), head' = head
  PROVE  /\ tail' \in Ring /\ event' \in [Ring -> Entries \cup {Blank}]
         /\ wmmsg' \in [Ring -> Messages \cup {Nothing}] /\ wmmsg_next' \in Ring
         /\ added' \in {0, 1}
         /\ Filled' /\ Told'
         /\ \A i \in Ring : Occupied(i)' =>
              \/ Occupied(i) /\ event'[i] = event[i]
              \/ i = tail /\ event'[i].kind = kind
  <1>1. /\ head \in Ring /\ tail \in Ring /\ event \in [Ring -> Entries \cup {Blank}]
        /\ wmmsg \in [Ring -> Messages \cup {Nothing}] /\ wmmsg_next \in Ring
    BY DEF TypeOK
  <1>2. CASE Succ(tail) = head
    <2>1. added' = 0 /\ UNCHANGED <<tail, event, wmmsg, wmmsg_next>>
      BY <1>2 DEF AddEvent
    <2>2. Filled' /\ Told'
      BY <2>1 DEF Filled, Told, Occupied
    <2>3. \A i \in Ring : Occupied(i)' => Occupied(i)
      BY <2>1 DEF Occupied
    <2> QED BY <1>1, <2>1, <2>2, <2>3
  <1>3. CASE Succ(tail) # head
    <2>1. PICK e \in Entries : Adds(kind, msg, e)
      BY <1>1, <1>3, Adding
    <2> USE DEF Adds
    <2>2. tail' \in Ring /\ wmmsg_next' \in Ring /\ added' \in {0, 1}
      BY <1>1, <2>1, SuccIs
    <2>3. event' \in [Ring -> Entries \cup {Blank}]
      BY <1>1, <2>1
    <2>4. wmmsg' \in [Ring -> Messages \cup {Nothing}]
      BY <1>1, <2>1
    <2>5. ~ Occupied(tail) /\ \A i \in Ring : Occupied(i)' <=> Occupied(i) \/ i = tail
      BY <1>1, <1>3, <2>1, RoomAtTail
    <2>6. \A i \in Ring : event'[i] = IF i = tail THEN e ELSE event[i]
      BY <1>1, <2>1
    <2>7. Filled'
      <3> SUFFICES ASSUME NEW i \in Ring
                   PROVE  IF Occupied(i)' THEN event'[i] \in Entries ELSE event'[i] = Blank
        BY DEF Filled
      <3> QED BY <2>1, <2>5, <2>6 DEF Filled
    <2>8. Told'
      <3> SUFFICES ASSUME NEW i \in Ring, event'[i].kind = "sys"
                   PROVE  wmmsg'[event'[i].slot] \in Messages
        BY DEF Told
      <3>1. \A k \in Ring : wmmsg[k] \in Messages => wmmsg'[k] \in Messages
        BY <1>1, <2>1
      <3>2. CASE i = tail
        BY <1>1, <2>1, <2>6, <3>2
      <3>3. CASE i # tail
        <4>1. event'[i] = event[i] /\ wmmsg[event[i].slot] \in Messages
          BY <2>6, <3>3 DEF Told
        <4>2. event[i].slot \in Ring
          <5>1. event[i] \in Entries \cup {Blank} /\ event[i].kind = "sys"
            BY <1>1, <4>1
          <5> QED BY <5>1 DEF Entries, Blank
        <4> QED BY <3>1, <4>1, <4>2
      <3> QED BY <3>2, <3>3
    <2>9. \A i \in Ring : Occupied(i)' =>
            \/ Occupied(i) /\ event'[i] = event[i]
            \/ i = tail /\ event'[i].kind = kind
      BY <2>1, <2>5, <2>6
    <2> QED BY <2>2, <2>3, <2>4, <2>7, <2>8, <2>9
  <1> QED BY <1>2, <1>3

-----------------------------------------------------------------------------
(* Where an event was before the one at spot was cut out.                  *)
Moved(i) == IF spot # head /\ Succ(spot) # tail /\ Dist(spot, i) < Dist(spot, Pred(tail))
            THEN Succ(i) ELSE i

(* The queue is one shorter, and who was before spot still is.             *)
LEMMA Placing ==
  ASSUME head \in Ring, tail \in Ring, spot \in Ring, Occupied(spot), CutEvent
  PROVE  /\ head' \in Ring /\ tail' \in Ring /\ spot' \in Ring
         /\ Dist(head', spot') <= Dist(head', tail')
         /\ Dist(head', tail') = Dist(head, tail) - 1
         /\ \A i \in Ring : Occupied(i)' =>
              /\ Moved(i) \in Ring /\ Occupied(Moved(i)) /\ Moved(i) # spot
              /\ Dist(head', spot') <= Dist(head', i) <=> Dist(head, spot) <= Dist(head, Moved(i))
         /\ \A i \in Ring : Occupied(i)' => Dist(head, Moved(i)) =
              IF Dist(head', i) < Dist(head, spot) THEN Dist(head', i) ELSE Dist(head', i) + 1
         /\ \A i, j \in Ring : Occupied(i)' /\ Occupied(j)' /\ Moved(i) = Moved(j) => i = j
         /\ \A j \in Ring : Occupied(j) /\ j # spot =>
              \E i \in Ring : Occupied(i)' /\ Moved(i) = j
         /\ \A i \in Ring : Occupied(i)' <=>
              IF spot = head THEN Occupied(i) /\ i # spot ELSE Occupied(i) /\ i # Pred(tail)
         /\ \A i \in Ring : Moved(i) # i => Occupied(i)'
         /\ Occupied(Pred(tail)) /\ (Succ(spot) = tail => Pred(tail) = spot)
  <1> DEFINE p(i) == Dist(head, i)
  <1>1. /\ M \in Nat /\ M > 1 /\ p(head) = 0
        /\ \A i \in Ring : p(i) \in 0 .. M - 1
        /\ \A i, j \in Ring : p(i) = p(j) => i = j
        /\ \A i \in Ring : p(i) < M - 1 => p(Succ(i)) = p(i) + 1
        /\ \A i \in Ring : p(i) > 0 => p(Pred(i)) = p(i) - 1
    BY Placed
  <1>2. \A i, j \in Ring : Dist(i, j) = IF p(i) <= p(j) THEN p(j) - p(i) ELSE p(j) - p(i) + M
    BY Placed
  <1>3. \A i \in Ring : Succ(i) \in Ring /\ Pred(i) \in Ring
    BY SuccIs, PredIs
  <1>4. p(spot) < p(tail)
    BY DEF Occupied
  <1>5. \A i \in Ring : /\ Occupied(i) <=> p(i) < p(tail)
                        /\ Occupied(i)' <=> Dist(head', i) < Dist(head', tail')
    BY DEF Occupied, Dist
  <1> HIDE DEF p
  <1>6. p(Pred(tail)) = p(tail) - 1 /\ p(Succ(spot)) = p(spot) + 1 /\ Pred(tail) \in Ring
    BY <1>1, <1>3, <1>4
  <1>7. Occupied(Pred(tail)) /\ (Succ(spot) = tail => Pred(tail) = spot)
    BY <1>1, <1>5, <1>6
  <1>8. CASE CutHead
    <2>1. spot = head /\ head' = Succ(head) /\ spot' = Succ(head) /\ tail' = tail
      BY <1>8 DEF CutHead
    <2>2. \A i : Moved(i) = i
      BY <2>1 DEF Moved
    <2>3. Succ(head) \in Ring /\ p(Succ(head)) = 1
      BY <1>1, <1>3, <1>6, <2>1
    <2>4. ASSUME NEW i \in Ring
          PROVE  Dist(head', i) = IF p(i) > 0 THEN p(i) - 1 ELSE M - 1
      <3>1. Dist(Succ(head), i) = IF p(Succ(head)) <= p(i) THEN p(i) - p(Succ(head))
                                  ELSE p(i) - p(Succ(head)) + M
        BY <1>2, <2>3
      <3>2. Dist(head', i) = Dist(Succ(head), i)
        BY <2>1
      <3>3. p(i) \in 0 .. M - 1
        BY <1>1
      <3> QED BY <1>1, <2>3, <3>1, <3>2, <3>3
    <2>5. \A i \in Ring : Occupied(i)' <=> Occupied(i) /\ i # spot
      BY <1>1, <1>4, <1>5, <2>1, <2>4
    <2>6. Dist(head', spot') <= Dist(head', tail') /\ Dist(head', tail') = p(tail) - 1
      BY <1>1, <1>4, <2>1, <2>3, <2>4
    <2>7. \A i \in Ring : p(spot) <= p(i) /\ Dist(head', spot') <= Dist(head', i)
      BY <1>1, <2>1, <2>3, <2>4
    <2>8. \A i \in Ring : Occupied(i)' =>
            /\ Moved(i) \in Ring /\ Occupied(Moved(i)) /\ Moved(i) # spot
            /\ Dist(head', spot') <= Dist(head', i) <=> p(spot) <= p(Moved(i))
      BY <2>2, <2>5, <2>7
    <2>9. ASSUME NEW i \in Ring, Occupied(i)'
          PROVE  p(Moved(i)) =
                   IF Dist(head', i) < p(spot) THEN Dist(head', i) ELSE Dist(head', i) + 1
      <3>1. i # head /\ p(i) # p(head)
        BY <1>1, <2>1, <2>5, <2>9
      <3> QED BY <1>1, <2>1, <2>2, <2>4, <3>1
    <2> QED BY <1>7, <2>1, <2>2, <2>3, <2>5, <2>6, <2>8, <2>9 DEF p
  <1>9. CASE spot # head /\ (CutLast \/ CutMiddle)
    <2>1. head' = head /\ spot' = spot /\ tail' = Pred(tail)
      BY <1>7, <1>9 DEF CutLast, CutMiddle
    <2>2. Dist(head', tail') = p(tail) - 1 /\ \A i : Dist(head', i) = p(i)
      BY <1>6, <2>1 DEF p
    <2>3. \A i \in Ring : Occupied(i)' <=> p(i) < p(tail) - 1
      BY <1>5, <2>2
    <2>4. \A i \in Ring : Occupied(i)' <=> Occupied(i) /\ i # Pred(tail)
      BY <1>1, <1>5, <1>6, <2>3
    <2>5. Dist(head', spot') <= Dist(head', tail')
      BY <1>1, <1>4, <2>1, <2>2
    <2>6. ASSUME NEW i \in Ring
          PROVE  /\ p(i) < p(spot) => Moved(i) = i
                 /\ p(i) >= p(tail) - 1 => Moved(i) = i
                 /\ p(spot) <= p(i) /\ p(i) < p(tail) - 1 =>
                      Moved(i) = Succ(i) /\ p(Moved(i)) = p(i) + 1 /\ Moved(i) \in Ring
      <3>1. p(i) \in 0 .. M - 1 /\ p(spot) \in 0 .. M - 1 /\ p(tail) \in 0 .. M - 1
        BY <1>1
      <3>2. Dist(spot, i) = IF p(spot) <= p(i) THEN p(i) - p(spot) ELSE p(i) - p(spot) + M
        BY <1>2
      <3>3. Dist(spot, Pred(tail)) = p(tail) - 1 - p(spot)
        BY <1>1, <1>2, <1>4, <1>6, <3>1
      <3>4. Succ(spot) = tail => p(tail) = p(spot) + 1
        BY <1>6
      <3>5. p(tail) = p(spot) + 1 => Succ(spot) = tail
        BY <1>1, <1>3, <1>6
      <3>6. p(spot) <= p(i) /\ p(i) < p(tail) - 1 => p(Succ(i)) = p(i) + 1 /\ Succ(i) \in Ring
        BY <1>1, <1>3, <3>1
      <3>7. Dist(spot, i) < Dist(spot, Pred(tail)) <=> p(spot) <= p(i) /\ p(i) < p(tail) - 1
        BY <1>1, <1>4, <3>1, <3>2, <3>3
      <3>8. Moved(i) = IF p(spot) <= p(i) /\ p(i) < p(tail) - 1 THEN Succ(i) ELSE i
        BY <1>1, <1>9, <3>1, <3>4, <3>7 DEF Moved
      <3> QED BY <3>1, <3>6, <3>8
    <2>7. ASSUME NEW i \in Ring, Occupied(i)'
          PROVE  /\ Moved(i) \in Ring /\ Occupied(Moved(i)) /\ Moved(i) # spot
                 /\ Dist(head', spot') <= Dist(head', i) <=> p(spot) <= p(Moved(i))
      <3>1. p(i) \in 0 .. M - 1 /\ p(spot) \in 0 .. M - 1 /\ p(tail) \in 0 .. M - 1
        BY <1>1
      <3>2. p(i) < p(tail) - 1 /\ Dist(head', spot') = p(spot) /\ Dist(head', i) = p(i)
        BY <2>1, <2>2, <2>3, <2>7
      <3>3. CASE p(i) < p(spot)
        BY <1>5, <2>6, <3>1, <3>2, <3>3
      <3>4. CASE p(spot) <= p(i)
        <4>1. Moved(i) \in Ring /\ p(Moved(i)) = p(i) + 1
          BY <2>6, <3>2, <3>4
        <4> QED BY <1>5, <3>1, <3>2, <3>4, <4>1
      <3> QED BY <3>1, <3>3, <3>4
    <2>8. ASSUME NEW i \in Ring, NEW j \in Ring, Occupied(i)', Occupied(j)', Moved(i) = Moved(j)
          PROVE  i = j
      <3>1. p(i) \in 0 .. M - 1 /\ p(j) \in 0 .. M - 1 /\ p(spot) \in 0 .. M - 1
        BY <1>1
      <3>2. p(i) < p(tail) - 1 /\ p(j) < p(tail) - 1
        BY <2>3, <2>8
      <3>3. p(Moved(i)) = IF p(i) < p(spot) THEN p(i) ELSE p(i) + 1
        BY <2>6, <3>1, <3>2
      <3>4. p(Moved(j)) = IF p(j) < p(spot) THEN p(j) ELSE p(j) + 1
        BY <2>6, <3>1, <3>2
      <3>5. p(i) = p(j)
        BY <2>8, <3>1, <3>3, <3>4
      <3> QED BY <1>1, <3>5
    <2>9. \A i \in Ring : Moved(i) # i => Occupied(i)'
      BY <1>1, <2>3, <2>6
    <2>10. ASSUME NEW i \in Ring, Occupied(i)'
           PROVE  p(Moved(i)) =
                    IF Dist(head', i) < p(spot) THEN Dist(head', i) ELSE Dist(head', i) + 1
      <3>1. p(i) \in 0 .. M - 1 /\ p(spot) \in 0 .. M - 1 /\ p(tail) \in 0 .. M - 1
        BY <1>1
      <3>2. p(i) < p(tail) - 1 /\ Dist(head', i) = p(i)
        BY <2>2, <2>3, <2>10
      <3> QED BY <2>6, <3>1, <3>2
    <2>11. ASSUME NEW j \in Ring, Occupied(j), j # spot
           PROVE  \E i \in Ring : Occupied(i)' /\ Moved(i) = j
      <3>1. /\ p(j) \in 0 .. M - 1 /\ p(spot) \in 0 .. M - 1 /\ p(tail) \in 0 .. M - 1
            /\ p(j) < p(tail) /\ p(j) # p(spot)
        BY <1>1, <1>5, <2>11
      <3>2. CASE p(j) < p(spot)
        BY <1>4, <2>3, <2>6, <3>1, <3>2
      <3>3. CASE p(j) > p(spot)
        <4>1. Pred(j) \in Ring /\ p(Pred(j)) = p(j) - 1
          BY <1>1, <1>3, <3>1, <3>3
        <4>2. /\ Moved(Pred(j)) \in Ring /\ p(Moved(Pred(j))) = p(Pred(j)) + 1
              /\ Occupied(Pred(j))'
          BY <2>3, <2>6, <3>1, <3>3, <4>1
        <4>3. Moved(Pred(j)) = j
          BY <1>1, <3>1, <4>1, <4>2
        <4> QED BY <4>1, <4>2, <4>3
      <3> QED BY <3>1, <3>2, <3>3
    <2> QED BY <1>6, <1>7, <1>9, <2>1, <2>2, <2>4, <2>5, <2>7, <2>8, <2>9, <2>10, <2>11 DEF p
  <1> QED BY <1>8, <1>9 DEF CutEvent, CutLast, CutMiddle

LEMMA Cut ==
  ASSUME TypeOK, Filled, Occupied(spot), CutEvent
  PROVE  /\ event' \in [Ring -> Entries \cup {Blank}]
         /\ Filled'
         /\ \A i \in Ring : Occupied(i)' => event'[i] = event[Moved(i)]
  <1>1. /\ head \in Ring /\ tail \in Ring /\ spot \in Ring
        /\ event \in [Ring -> Entries \cup {Blank}]
    BY DEF TypeOK
  <1>2. /\ \A i \in Ring : Occupied(i)' <=>
             IF spot = head THEN Occupied(i) /\ i # spot ELSE Occupied(i) /\ i # Pred(tail)
        /\ \A i \in Ring : Moved(i) # i => Occupied(i)'
        /\ Occupied(Pred(tail)) /\ (Succ(spot) = tail => Pred(tail) = spot)
    BY <1>1, Placing
  <1>8. /\ event' \in [Ring -> Entries \cup {Blank}]
        /\ \A i \in Ring : event'[i] =
             IF Occupied(i)' THEN event[Moved(i)] ELSE IF Occupied(i) THEN Blank ELSE event[i]
    <2>1. CASE CutHead \/ CutLast
      <3>1. event' = [event EXCEPT ![spot] = Blank] /\ \A i : Moved(i) = i
        BY <2>1 DEF CutHead, CutLast, Moved
      <3>2. \A i \in Ring : Occupied(i)' <=> Occupied(i) /\ i # spot
        BY <1>2, <2>1 DEF CutHead, CutLast
      <3>3. \A i \in Ring : event'[i] = IF i = spot THEN Blank ELSE event[i]
        BY <1>1, <3>1
      <3>4. event' \in [Ring -> Entries \cup {Blank}]
        BY <1>1, <3>1
      <3> QED BY <3>1, <3>2, <3>3, <3>4
    <2>2. CASE CutMiddle
      <3>1. spot # head /\ Succ(spot) # tail /\ event' = Shifted(Pred(tail))
        BY <2>2 DEF CutMiddle
      <3>2. \A i : Moved(i) = IF Dist(spot, i) < Dist(spot, Pred(tail)) THEN Succ(i) ELSE i
        BY <3>1 DEF Moved
      <3>3. \A i \in Ring : Succ(i) \in Ring /\ Succ(i) # i
        BY SDLEventsAssumption, SuccIs DEF Ring
      <3>4. \A i \in Ring : event'[i] =
              IF Dist(spot, i) < Dist(spot, Pred(tail)) THEN event[Succ(i)]
              ELSE IF i = Pred(tail) THEN Blank ELSE event[i]
        BY <3>1 DEF Shifted
      <3>5. event' \in [Ring -> Entries \cup {Blank}]
        BY <1>1, <3>1, <3>3 DEF Shifted
      <3>6. ASSUME NEW i \in Ring
            PROVE  event'[i] = IF Occupied(i)' THEN event[Moved(i)]
                               ELSE IF Occupied(i) THEN Blank ELSE event[i]
        BY <1>2, <3>1, <3>2, <3>3, <3>4
      <3> QED BY <3>5, <3>6
    <2> QED BY <2>1, <2>2 DEF CutEvent
  <1>9. Filled'
    <2> SUFFICES ASSUME NEW i \in Ring
                 PROVE  IF Occupied(i)' THEN event'[i] \in Entries ELSE event'[i] = Blank
      BY DEF Filled
    <2>1. CASE Occupied(i)'
      <3>1. Moved(i) \in Ring /\ Occupied(Moved(i))
        BY <1>1, <2>1, Placing
      <3> QED BY <1>8, <2>1, <3>1 DEF Filled
    <2>2. CASE ~ Occupied(i)'
      BY <1>8, <2>2 DEF Filled
    <2> QED BY <2>1, <2>2
  <1> QED BY <1>8, <1>9

-----------------------------------------------------------------------------
(* A step that leaves the ring and its messages alone.                     *)
LEMMA Same ==
  ASSUME IInv, UNCHANGED <<head, tail, event, wmmsg>>
  PROVE  /\ Filled' /\ Told' /\ Once'
         /\ \A i : Occupied(i)' <=> Occupied(i)
         /\ \A i : Exposed(i)' <=> Exposed(i)
  <1>1. \A i : (Occupied(i)' <=> Occupied(i)) /\ (Exposed(i)' <=> Exposed(i))
    BY DEF Exposed, Occupied, Dist
  <1>2. Filled'
    BY <1>1 DEF IInv, Filled
  <1>3. Told'
    BY DEF IInv, Told
  <1>4. Once'
    BY <1>1 DEF IInv, Once
  <1> QED BY <1>1, <1>2, <1>3, <1>4

LEMMA Empty ==
  ASSUME TypeOK, head = tail, NEW i \in Ring
  PROVE  ~ Occupied(i)
  <1>1. head \in Ring
    BY DEF TypeOK
  <1>2. Dist(head, i) \in 0 .. M - 1 /\ Dist(head, tail) = 0
    BY <1>1, Placed
  <1> QED BY <1>2 DEF Occupied

(* The loop of SDL_PeepEvents reads within the queue.                      *)
LEMMA AtSpot ==
  ASSUME IInv, Locked, More
  PROVE  /\ Occupied(spot) /\ event[spot] \in Entries
         /\ head \in Ring /\ tail \in Ring /\ spot \in Ring
         /\ Succ(spot) \in Ring /\ Dist(head, Succ(spot)) = Dist(head, spot) + 1
         /\ Dist(head, Succ(spot)) <= Dist(head, tail)
  <1>1. head \in Ring /\ tail \in Ring /\ spot \in Ring
    BY DEF IInv, TypeOK
  <1>2. /\ Dist(head, spot) \in 0 .. M - 1 /\ Dist(head, tail) \in 0 .. M - 1 /\ M \in Nat
        /\ Dist(head, spot) = Dist(head, tail) => spot = tail
        /\ Dist(head, spot) < M - 1 => Dist(head, Succ(spot)) = Dist(head, spot) + 1
    BY <1>1, Placed
  <1>3. Dist(head, spot) <= Dist(head, tail) /\ spot # tail
    BY DEF IInv, Working, More
  <1>4. Dist(head, spot) < Dist(head, tail)
    BY <1>2, <1>3
  <1>5. Occupied(spot)
    BY <1>4 DEF Occupied
  <1>6. event[spot] \in Entries
    BY <1>1, <1>5 DEF IInv, Filled
  <1> QED BY <1>1, <1>2, <1>4, <1>5, <1>6, SuccIs

LEMMA InitIInv == Init => IInv
  <1> SUFFICES ASSUME Init PROVE IInv
    OBVIOUS
  <1>1. 0 \in Ring /\ Burst \in Nat
    BY SDLEventsAssumption DEF Ring
  <1>2. TypeOK
    <2>1. /\ event \in [Ring -> Entries \cup {Blank}]
          /\ wmmsg \in [Ring -> Messages \cup {Nothing}]
      BY DEF Init
    <2>2. enabled \in SUBSET Pumped /\ accept \in SUBSET Pumped
      BY DEF Init
    <2>3. want \in 0 .. Burst /\ used \in 0 .. Burst
      BY <1>1 DEF Init
    <2> QED BY <1>1, <2>1, <2>2, <2>3 DEF Init, TypeOK
  <1>3. \A i \in Ring : ~ Occupied(i) /\ event[i] = Blank
    BY <1>2, Empty DEF Init
  <1>4. Filled /\ Told /\ NoneIgnored /\ Once
    BY <1>3 DEF Filled, Told, NoneIgnored, Once, Exposed, Blank
  <1>5. Working /\ Polling /\ Pulled
    BY DEF Init, Working, Polling, Pulled, Locked
  <1> QED BY <1>2, <1>4, <1>5 DEF IInv

LEMMA PeepTakeKeeps == IInv /\ PeepTake => IInv'
  <1> SUFFICES ASSUME IInv, PeepTake PROVE IInv'
    OBVIOUS
  <1>1. /\ Locked /\ More /\ Hit /\ get /\ CutEvent
        /\ used' = used + 1 /\ held' = Holding
        /\ UNCHANGED <<active, wmmsg, wmmsg_next, added, policy, call, peep, mask, want, get>>
    BY DEF PeepTake
  <1>2. /\ Occupied(spot) /\ event[spot] \in Entries
        /\ head \in Ring /\ tail \in Ring /\ spot \in Ring
    BY <1>1, AtSpot
  <1>3. /\ head' \in Ring /\ tail' \in Ring /\ spot' \in Ring
        /\ Dist(head', spot') <= Dist(head', tail')
        /\ \A i \in Ring : Occupied(i)' =>
             Moved(i) \in Ring /\ Occupied(Moved(i)) /\ Moved(i) # spot
        /\ \A i, j \in Ring : Occupied(i)' /\ Occupied(j)' /\ Moved(i) = Moved(j) => i = j
    BY <1>1, <1>2, Placing
  <1>4. /\ event' \in [Ring -> Entries \cup {Blank}]
        /\ Filled'
        /\ \A i \in Ring : Occupied(i)' => event'[i] = event[Moved(i)]
    BY <1>1, <1>2, Cut DEF IInv
  <1>5. TypeOK'
    <2>1. held' \in [slot : Ring, msg : Messages] \cup {Nothing}
      <3>1. held \in [slot : Ring, msg : Messages] \cup {Nothing}
        BY DEF IInv, TypeOK
      <3>2. ASSUME event[spot].kind = "sys"
            PROVE  event[spot].slot \in Ring /\ wmmsg[event[spot].slot] \in Messages
        BY <1>2, <3>2 DEF IInv, Told, Entries
      <3> QED BY <1>1, <3>1, <3>2 DEF Holding
    <2>2. used' \in 0 .. Burst
      BY <1>1, SDLEventsAssumption DEF IInv, TypeOK, More
    <2> QED BY <1>1, <1>3, <1>4, <2>1, <2>2 DEF IInv, TypeOK, policy
  <1>6. Told'
    <2> SUFFICES ASSUME NEW i \in Ring, event'[i].kind = "sys"
                 PROVE  wmmsg'[event'[i].slot] \in Messages
      BY DEF Told
    <2>1. Occupied(i)'
      BY <1>4 DEF Filled, Blank
    <2> QED BY <1>1, <1>3, <1>4, <2>1 DEF IInv, Told
  <1>7. Working'
    <2>1. active'
      BY <1>1 DEF IInv, Working, Locked
    <2>2. (Dist(head, spot) <= Dist(head, tail))'
      BY <1>3 DEF Dist
    <2> QED BY <2>1, <2>2 DEF Working
  <1>8. Polling'
    <2>1. used' # 0
      BY <1>1 DEF IInv, TypeOK
    <2> QED BY <1>1, <2>1 DEF IInv, Polling
  <1>9. NoneIgnored'
    BY <1>1, <1>3, <1>4 DEF IInv, NoneIgnored, Posts, policy
  <1>10. \A i \in Ring : Exposed(i)' => Exposed(Moved(i)) /\ Occupied(i)'
    BY <1>3, <1>4 DEF Exposed
  <1>11. Once'
    <2> SUFFICES ASSUME NEW i \in Ring, NEW j \in Ring, Exposed(i)', Exposed(j)'
                 PROVE  i = j
      BY DEF Once
    <2> QED BY <1>3, <1>10 DEF IInv, Once
  <1>12. Pulled'
    <2>1. peep' # "post"
      BY <1>1 DEF Locked
    <2>2. CASE peep' # "expose"
      BY <2>1, <2>2 DEF Pulled
    <2>3. CASE peep' = "expose"
      <3>1. mask' = {"expose"} /\ get' /\ want' > 0
        BY <1>1, <2>3 DEF IInv, Pulled
      <3>2. Exposed(spot)
        BY <1>1, <1>2, <3>1 DEF Hit, Exposed
      <3>3. \A i \in Ring : ~ Exposed(i)'
        BY <1>2, <1>3, <1>10, <3>2 DEF IInv, Once
      <3> QED BY <2>1, <3>1, <3>3 DEF Pulled
    <2> QED BY <2>2, <2>3
  <1> QED BY <1>4, <1>5, <1>6, <1>7, <1>8, <1>9, <1>11, <1>12 DEF IInv

LEMMA PeepLookKeeps == IInv /\ PeepLook => IInv'
  <1> SUFFICES ASSUME IInv, PeepLook PROVE IInv'
    OBVIOUS
  <1>1. /\ Locked /\ More /\ ~ get
        /\ used' = used + 1 /\ spot' = Succ(spot)
        /\ UNCHANGED <<queue, added, policy, call, peep, mask, want, get, held>>
    BY DEF PeepLook
  <1>2. UNCHANGED <<active, head, tail, event, wmmsg, wmmsg_next, enabled, accept>>
    BY <1>1 DEF queue, policy
  <1>3. Succ(spot) \in Ring /\ Dist(head, Succ(spot)) <= Dist(head, tail)
    BY <1>1, AtSpot
  <1>4. /\ Filled' /\ Told' /\ Once'
        /\ \A i : Occupied(i)' <=> Occupied(i)
    BY <1>2, Same
  <1>5. TypeOK'
    <2>1. used' \in 0 .. Burst
      BY <1>1, SDLEventsAssumption DEF IInv, TypeOK, More
    <2> QED BY <1>1, <1>2, <1>3, <2>1 DEF IInv, TypeOK
  <1>6. Working'
    <2>1. active'
      BY <1>1, <1>2 DEF IInv, Working, Locked
    <2>2. (Dist(head, spot) <= Dist(head, tail))'
      BY <1>1, <1>2, <1>3 DEF Dist
    <2> QED BY <2>1, <2>2 DEF Working
  <1>7. NoneIgnored'
    BY <1>1, <1>2, <1>4 DEF IInv, NoneIgnored, Posts
  <1>8. peep' = "app"
    BY <1>1 DEF IInv, Locked, Polling, Pulled
  <1>9. Polling' /\ Pulled'
    BY <1>8 DEF Polling, Pulled
  <1> QED BY <1>4, <1>5, <1>6, <1>7, <1>9 DEF IInv

LEMMA PeepSkipKeeps == IInv /\ PeepSkip => IInv'
  <1> SUFFICES ASSUME IInv, PeepSkip PROVE IInv'
    OBVIOUS
  <1>1. /\ Locked /\ More /\ ~ Hit /\ spot' = Succ(spot)
        /\ UNCHANGED <<queue, added, policy, call, peep, mask, want, get, used, held>>
    BY DEF PeepSkip
  <1>2. UNCHANGED <<active, head, tail, event, wmmsg, wmmsg_next, enabled, accept>>
    BY <1>1 DEF queue, policy
  <1>3. /\ event[spot] \in Entries
        /\ head \in Ring /\ spot \in Ring /\ Succ(spot) \in Ring
        /\ Dist(head, Succ(spot)) = Dist(head, spot) + 1
        /\ Dist(head, Succ(spot)) <= Dist(head, tail)
    BY <1>1, AtSpot
  <1>4. /\ Filled' /\ Told' /\ Once'
        /\ \A i : Occupied(i)' <=> Occupied(i)
        /\ \A i : Exposed(i)' <=> Exposed(i)
    BY <1>2, Same
  <1>5. TypeOK'
    BY <1>1, <1>2, <1>3 DEF IInv, TypeOK
  <1>6. Working'
    <2>1. active'
      BY <1>1, <1>2 DEF IInv, Working, Locked
    <2>2. (Dist(head, spot) <= Dist(head, tail))'
      BY <1>1, <1>2, <1>3 DEF Dist
    <2> QED BY <2>1, <2>2 DEF Working
  <1>7. NoneIgnored'
    BY <1>1, <1>2, <1>4 DEF IInv, NoneIgnored, Posts
  <1>8. Polling'
    <2>1. event[spot].kind \in Kinds
      BY <1>3 DEF Entries, Kinds
    <2>2. peep' # "poll"
      BY <1>1, <2>1 DEF IInv, Polling, Hit
    <2> QED BY <2>2 DEF Polling
  <1>9. Pulled'
    <2>1. CASE peep' # "expose"
      BY <1>1, <2>1 DEF Pulled, Locked
    <2>2. CASE peep' = "expose"
      <3>1. /\ mask = {"expose"} /\ get /\ want > 0
            /\ \A i \in Ring : Exposed(i) => used = 0 /\ Dist(head, spot) <= Dist(head, i)
        BY <1>1, <2>2 DEF IInv, Pulled
      <3>2. event[spot].kind # "expose"
        BY <1>1, <3>1 DEF Hit
      <3>3. ASSUME NEW i \in Ring, Exposed(i)
            PROVE  used = 0 /\ Dist(head, Succ(spot)) <= Dist(head, i)
        <4>1. i # spot
          BY <3>2, <3>3 DEF Exposed
        <4>2. /\ Dist(head, i) \in 0 .. M - 1 /\ Dist(head, spot) \in 0 .. M - 1
              /\ Dist(head, i) = Dist(head, spot) => i = spot
          BY <1>3, Placed
        <4> QED BY <1>3, <3>1, <3>3, <4>1, <4>2
      <3>4. \A i : (Dist(head, spot) <= Dist(head, i))' <=>
                   Dist(head, Succ(spot)) <= Dist(head, i)
        BY <1>1, <1>2 DEF Dist
      <3>5. \A i \in Ring : Exposed(i)' => used' = 0 /\ (Dist(head, spot) <= Dist(head, i))'
        BY <1>1, <1>4, <3>3, <3>4
      <3> QED BY <1>1, <2>2, <3>1, <3>5 DEF Pulled
    <2> QED BY <2>1, <2>2
  <1> QED BY <1>4, <1>5, <1>6, <1>7, <1>8, <1>9 DEF IInv

LEMMA EndPeepKeeps == IInv /\ EndPeep => IInv'
  <1> SUFFICES ASSUME IInv, EndPeep PROVE IInv'
    OBVIOUS
  <1>1. /\ Locked /\ ~ More
        /\ call' = IF peep = "poll" /\ used = 0 THEN "idle" ELSE call
        /\ peep' = IF peep = "expose" THEN "post" ELSE "none"
        /\ mask' = {} /\ want' = 0 /\ get' = FALSE /\ spot' = 0 /\ used' = 0
        /\ UNCHANGED <<queue, added, policy, held>>
    BY DEF EndPeep
  <1>2. UNCHANGED <<active, head, tail, event, wmmsg, wmmsg_next, enabled, accept>>
    BY <1>1 DEF queue, policy
  <1>3. /\ Filled' /\ Told' /\ Once'
        /\ \A i : Occupied(i)' <=> Occupied(i)
        /\ \A i : Exposed(i)' <=> Exposed(i)
    BY <1>2, Same
  <1>4. TypeOK'
    <2>1. 0 \in Ring /\ 0 \in 0 .. Burst
      BY SDLEventsAssumption DEF Ring
    <2> QED BY <1>1, <1>2, <2>1 DEF IInv, TypeOK
  <1>5. peep' # "poll" /\ ~ Locked'
    BY <1>1 DEF Locked
  <1>6. Working'
    <2>1. active'
      BY <1>1, <1>2 DEF IInv, Working, Locked
    <2> QED BY <1>5, <2>1 DEF Working
  <1>7. Polling'
    BY <1>5 DEF Polling
  <1>8. NoneIgnored'
    <2>1. CASE peep = "poll" /\ used = 0
      <3>1. want = 1 /\ spot = head
        BY <2>1 DEF IInv, Polling
      <3>2. head = tail
        BY <1>1, <2>1, <3>1 DEF More
      <3>3. \A i \in Ring : ~ Occupied(i)'
        BY <1>3, <3>2, Empty DEF IInv
      <3> QED BY <3>3 DEF NoneIgnored
    <2>2. CASE ~ (peep = "poll" /\ used = 0)
      BY <1>1, <1>2, <1>3, <2>2 DEF IInv, NoneIgnored, Posts
    <2> QED BY <2>1, <2>2
  <1>9. Pulled'
    <2>1. peep' # "expose"
      BY <1>5 DEF Locked
    <2>2. ASSUME peep = "expose", NEW i \in Ring, Exposed(i)
          PROVE  FALSE
      <3>1. want > 0 /\ used = 0 /\ Dist(head, spot) <= Dist(head, i)
        BY <2>2 DEF IInv, Pulled
      <3>2. spot = tail
        BY <1>1, <3>1 DEF More
      <3>3. head \in Ring /\ tail \in Ring
        BY DEF IInv, TypeOK
      <3>4. Dist(head, i) \in 0 .. M - 1 /\ Dist(head, tail) \in 0 .. M - 1
        BY <3>3, Placed
      <3>5. Dist(head, i) < Dist(head, tail)
        BY <2>2 DEF Exposed, Occupied
      <3> QED BY <3>1, <3>2, <3>4, <3>5
    <2> QED BY <1>1, <1>3, <2>1, <2>2 DEF Pulled
  <1> QED BY <1>3, <1>4, <1>6, <1>7, <1>8, <1>9 DEF IInv

(* Adding an event that may be posted, an expose event when there is none. *)
LEMMA AddKeeps ==
  ASSUME IInv, NEW kind \in Kinds, NEW msg, kind = "sys" => msg \in Messages,
         AddEvent(kind, msg), ~ Locked, active, peep' \in {"none", peep},
         kind \in Pumped => Posts(kind),
         kind = "expose" => peep' = "none" /\ \A i \in Ring : ~ Exposed(i),
         UNCHANGED <<active, head, policy, call, scan, held>>
  PROVE  IInv'
  <1>1. UNCHANGED <<active, head, enabled, accept, call, mask, want, get, spot, used, held>>
    BY DEF policy, scan
  <1>2. /\ tail' \in Ring /\ event' \in [Ring -> Entries \cup {Blank}]
        /\ wmmsg' \in [Ring -> Messages \cup {Nothing}] /\ wmmsg_next' \in Ring
        /\ added' \in {0, 1}
        /\ Filled' /\ Told'
        /\ \A i \in Ring : Occupied(i)' =>
             \/ Occupied(i) /\ event'[i] = event[i]
             \/ i = tail /\ event'[i].kind = kind
    BY <1>1, Added DEF IInv
  <1>3. peep' \in {"none", "post"}
    BY DEF IInv, TypeOK, Locked
  <1>4. TypeOK'
    BY <1>1, <1>2, <1>3 DEF IInv, TypeOK
  <1>5. Working' /\ Polling'
    BY <1>1, <1>3 DEF Working, Polling, Locked
  <1>6. NoneIgnored'
    BY <1>1, <1>2 DEF IInv, NoneIgnored, Posts
  <1>7. \A i \in Ring : Exposed(i)' => Exposed(i) \/ (kind = "expose" /\ i = tail)
    BY <1>2 DEF Exposed
  <1>8. Once'
    BY <1>7 DEF IInv, Once
  <1>9. Pulled'
    BY <1>3, <1>7 DEF IInv, Pulled
  <1> QED BY <1>2, <1>4, <1>5, <1>6, <1>8, <1>9 DEF IInv

LEMMA PumpSysKeeps == \A msg \in Messages : IInv /\ PumpSys(msg) => IInv'
  <1> SUFFICES ASSUME NEW msg \in Messages, IInv, PumpSys(msg) PROVE IInv'
    OBVIOUS
  <1>1. "sys" \in Kinds /\ ~ Locked /\ peep' = "none"
    BY DEF PumpSys, Locked, Kinds
  <1> QED BY <1>1, AddKeeps DEF PumpSys

LEMMA PushEventKeeps == IInv /\ PushEvent => IInv'
  <1> SUFFICES ASSUME IInv, PushEvent PROVE IInv'
    OBVIOUS
  <1>1. "user" \in Kinds /\ "user" \notin Pumped
    BY DEF Kinds, Pumped
  <1> QED BY <1>1, AddKeeps DEF PushEvent

LEMMA PostExposeKeeps == IInv /\ PostExpose => IInv'
  <1> SUFFICES ASSUME IInv, PostExpose PROVE IInv'
    OBVIOUS
  <1>1. /\ peep = "post" /\ peep' = "none" /\ ~ Locked /\ active
        /\ UNCHANGED <<active, head, policy, call, scan, held>>
    BY DEF PostExpose, Locked, IInv, Working
  <1>2. CASE Posts("expose") /\ AddEvent("expose", Nothing)
    <2>1. "expose" \in Kinds /\ \A i \in Ring : ~ Exposed(i)
      BY <1>1 DEF Kinds, IInv, Pulled
    <2> QED BY <1>1, <1>2, <2>1, AddKeeps
  <1>3. CASE UNCHANGED <<tail, event, wmmsg, wmmsg_next, added>>
    <2>1. UNCHANGED <<enabled, accept, mask, want, get, spot, used>>
      BY <1>1 DEF policy, scan
    <2>2. /\ Filled' /\ Told' /\ Once'
          /\ \A i : Occupied(i)' <=> Occupied(i)
      BY <1>1, <1>3, Same
    <2>3. TypeOK'
      BY <1>1, <1>3, <2>1 DEF IInv, TypeOK
    <2>4. Working' /\ Polling' /\ Pulled'
      BY <1>1 DEF Working, Polling, Pulled, Locked
    <2>5. NoneIgnored'
      BY <1>1, <1>3, <2>1, <2>2 DEF IInv, NoneIgnored, Posts
    <2> QED BY <2>2, <2>3, <2>4, <2>5 DEF IInv
  <1> QED BY <1>2, <1>3 DEF PostExpose

(* Entering SDL_PeepEvents, at the head of the queue.                      *)
LEMMA BeginKeeps ==
  ASSUME IInv, active, NEW kinds \in SUBSET Kinds, NEW n \in 1 .. Burst, NEW cut \in BOOLEAN,
         BeginPeep(kinds, n, cut), peep' \in {"app", "poll", "expose"},
         peep' = "poll" => call = "drain" /\ kinds = Kinds /\ n = 1 /\ cut,
         peep' = "expose" => kinds = {"expose"} /\ cut,
         UNCHANGED <<queue, added, policy, call, held>>
  PROVE  IInv'
  <1>1. mask' = kinds /\ want' = n /\ get' = cut /\ spot' = head /\ used' = 0
    BY DEF BeginPeep
  <1>2. UNCHANGED <<active, head, tail, event, wmmsg, wmmsg_next, enabled, accept>>
    BY DEF queue, policy
  <1>3. /\ Filled' /\ Told' /\ Once'
        /\ \A i : Occupied(i)' <=> Occupied(i)
    BY <1>2, Same
  <1>4. head \in Ring /\ tail \in Ring /\ n > 0 /\ n \in 0 .. Burst /\ 0 \in 0 .. Burst
    BY SDLEventsAssumption DEF IInv, TypeOK
  <1>5. TypeOK'
    BY <1>1, <1>2, <1>4 DEF IInv, TypeOK
  <1>6. \A i \in Ring : (Dist(head, spot) <= Dist(head, i))'
    <2>1. \A i \in Ring : Dist(head, head) <= Dist(head, i)
      BY <1>4, Placed
    <2> QED BY <1>1, <1>2, <2>1 DEF Dist
  <1>7. Working'
    <2>1. (Dist(head, spot) <= Dist(head, tail))'
      <3>1. Dist(head, head) <= Dist(head, tail)
        BY <1>4, Placed
      <3> QED BY <1>1, <1>2, <3>1 DEF Dist
    <2> QED BY <1>2, <2>1 DEF Working
  <1>8. Polling'
    BY <1>1, <1>2 DEF Polling
  <1>9. NoneIgnored'
    BY <1>2, <1>3 DEF IInv, NoneIgnored, Posts
  <1>10. Pulled'
    BY <1>1, <1>4, <1>6 DEF Pulled
  <1> QED BY <1>3, <1>5, <1>7, <1>8, <1>9, <1>10 DEF IInv

LEMMA PumpExposeKeeps == IInv /\ PumpExpose => IInv'
  <1> SUFFICES ASSUME IInv, PumpExpose PROVE IInv'
    OBVIOUS
  <1>1. Burst \in 1 .. Burst /\ {"expose"} \in SUBSET Kinds /\ TRUE \in BOOLEAN
    BY SDLEventsAssumption DEF Kinds
  <1> QED BY <1>1, BeginKeeps DEF PumpExpose

LEMMA PeepKeeps ==
  \A kinds \in SUBSET Kinds, n \in 1 .. Burst, cut \in BOOLEAN :
    IInv /\ Peep(kinds, n, cut) => IInv'
  <1> SUFFICES ASSUME NEW kinds \in SUBSET Kinds, NEW n \in 1 .. Burst, NEW cut \in BOOLEAN,
                      IInv, Peep(kinds, n, cut)
               PROVE  IInv'
    OBVIOUS
  <1> QED BY BeginKeeps DEF Peep

LEMMA DiscardKeeps == IInv /\ Discard => IInv'
  <1> SUFFICES ASSUME IInv, Discard PROVE IInv'
    OBVIOUS
  <1>1. 1 \in 1 .. Burst /\ Kinds \in SUBSET Kinds /\ TRUE \in BOOLEAN
    BY SDLEventsAssumption
  <1>2. active
    BY DEF Discard, IInv, Working
  <1> QED BY <1>1, <1>2, BeginKeeps DEF Discard

(* What is ruled out is discarded before the call returns.                 *)
LEMMA PolicyKeeps ==
  ASSUME IInv, active, peep = "none", peep' = "none", call' = "drain",
         enabled' \in SUBSET Pumped, accept' \in SUBSET Pumped,
         UNCHANGED <<queue, added, scan, held>>
  PROVE  IInv'
  <1>1. UNCHANGED <<active, head, tail, event, wmmsg, wmmsg_next, mask, want, get, spot, used>>
    BY DEF queue, scan
  <1>2. Filled' /\ Told' /\ Once'
    BY <1>1, Same
  <1>3. TypeOK'
    BY <1>1 DEF IInv, TypeOK
  <1>4. Working' /\ Polling' /\ Pulled' /\ NoneIgnored'
    BY <1>1 DEF Working, Polling, Pulled, NoneIgnored, Locked
  <1> QED BY <1>2, <1>3, <1>4 DEF IInv

LEMMA EventStateKeeps == \A kinds \in SUBSET Pumped : IInv /\ EventState(kinds) => IInv'
  <1> SUFFICES ASSUME NEW kinds \in SUBSET Pumped, IInv, EventState(kinds) PROVE IInv'
    OBVIOUS
  <1>1. enabled' \in SUBSET Pumped /\ accept' \in SUBSET Pumped
    BY DEF EventState, IInv, TypeOK
  <1> QED BY <1>1, PolicyKeeps DEF EventState

LEMMA SetEventFilterKeeps == \A kinds \in SUBSET Pumped : IInv /\ SetEventFilter(kinds) => IInv'
  <1> SUFFICES ASSUME NEW kinds \in SUBSET Pumped, IInv, SetEventFilter(kinds) PROVE IInv'
    OBVIOUS
  <1>1. enabled' \in SUBSET Pumped /\ accept' \in SUBSET Pumped
    BY DEF SetEventFilter, IInv, TypeOK
  <1> QED BY <1>1, PolicyKeeps DEF SetEventFilter

LEMMA StopEventLoopKeeps == IInv /\ StopEventLoop => IInv'
  <1> SUFFICES ASSUME IInv, StopEventLoop PROVE IInv'
    OBVIOUS
  <1>1. /\ call = "idle" /\ peep = "none"
        /\ active' = FALSE /\ head' = 0 /\ tail' = 0 /\ wmmsg_next' = 0
        /\ event' = [i \in Ring |-> Blank] /\ held' = Nothing
        /\ UNCHANGED <<wmmsg, added, enabled, accept, call, peep, mask, want, get, spot, used>>
    BY DEF StopEventLoop, policy, scan
  <1>2. 0 \in Ring
    BY SDLEventsAssumption DEF Ring
  <1>3. TypeOK'
    BY <1>1, <1>2 DEF IInv, TypeOK
  <1>4. \A i \in Ring : ~ Occupied(i)'
    <2> SUFFICES ASSUME NEW i \in Ring PROVE ~ Occupied(i)'
      OBVIOUS
    <2>1. Dist(0, i) \in 0 .. M - 1 /\ Dist(0, 0) = 0
      BY <1>2, Placed
    <2>2. ~ (Dist(0, i) < Dist(0, 0))
      BY <2>1
    <2> QED BY <1>1, <2>2 DEF Occupied, Dist
  <1>5. \A i \in Ring : event'[i] = Blank /\ event'[i].kind = "none"
    BY <1>1 DEF Blank
  <1>6. Filled' /\ Told' /\ Once' /\ NoneIgnored'
    BY <1>4, <1>5 DEF Filled, Told, Once, NoneIgnored, Exposed
  <1>7. Working' /\ Polling' /\ Pulled'
    BY <1>1 DEF Working, Polling, Pulled, Locked
  <1> QED BY <1>3, <1>6, <1>7 DEF IInv

LEMMA StartEventLoopKeeps == IInv /\ StartEventLoop => IInv'
  <1> SUFFICES ASSUME IInv, StartEventLoop PROVE IInv'
    OBVIOUS
  <1>1. /\ ~ active /\ active' = TRUE
        /\ enabled' = Pumped \ {"sys"} /\ accept' = Pumped
        /\ UNCHANGED <<head, tail, event, wmmsg, wmmsg_next, added, call, peep,
                       mask, want, get, spot, used, held>>
    BY DEF StartEventLoop, scan
  <1>2. head = tail /\ peep = "none"
    BY <1>1 DEF IInv, Working
  <1>3. /\ Filled' /\ Told' /\ Once'
        /\ \A i : Occupied(i)' <=> Occupied(i)
    BY <1>1, Same
  <1>4. TypeOK'
    BY <1>1 DEF IInv, TypeOK
  <1>5. NoneIgnored'
    BY <1>2, <1>3, Empty DEF IInv, NoneIgnored
  <1>6. Working' /\ Polling' /\ Pulled'
    BY <1>1, <1>2 DEF Working, Polling, Pulled, Locked
  <1> QED BY <1>3, <1>4, <1>5, <1>6 DEF IInv

LEMMA NextIInv == IInv /\ [Next]_vars => IInv'
  <1> SUFFICES ASSUME IInv, [Next]_vars PROVE IInv'
    OBVIOUS
  <1>1. CASE Pump
    BY <1>1, PumpSysKeeps, PumpExposeKeeps, PostExposeKeeps DEF Pump
  <1>2. CASE PeepEvents
    BY <1>2, PeepTakeKeeps, PeepLookKeeps, PeepSkipKeeps, EndPeepKeeps DEF PeepEvents
  <1>3. CASE Configure
    <2>1. ASSUME NEW kinds \in {{"sys"}, {"expose"}, Pumped}, EventState(kinds) PROVE IInv'
      <3>1. kinds \in SUBSET Pumped
        BY DEF Pumped
      <3> QED BY <2>1, <3>1, EventStateKeeps
    <2>2. ASSUME NEW kinds \in {Pumped, {"sys"}}, SetEventFilter(kinds) PROVE IInv'
      <3>1. kinds \in SUBSET Pumped
        BY DEF Pumped
      <3> QED BY <2>2, <3>1, SetEventFilterKeeps
    <2> QED BY <1>3, <2>1, <2>2, DiscardKeeps DEF Configure
  <1>4. CASE PushEvent
    BY <1>4, PushEventKeeps
  <1>5. ASSUME NEW kinds \in {{"sys"}, {"user"}, Kinds}, NEW n \in 1 .. Burst,
               NEW cut \in BOOLEAN, Peep(kinds, n, cut)
        PROVE  IInv'
    <2>1. kinds \in SUBSET Kinds
      BY DEF Kinds
    <2> QED BY <1>5, <2>1, PeepKeeps
  <1>6. CASE StopEventLoop
    BY <1>6, StopEventLoopKeeps
  <1>7. CASE StartEventLoop
    BY <1>7, StartEventLoopKeeps
  <1>8. CASE UNCHANGED vars
    <2>1. UNCHANGED <<active, head, tail, event, wmmsg, wmmsg_next, added, enabled, accept,
                      call, peep, mask, want, get, spot, used, held>>
      BY <1>8 DEF vars, queue, policy, scan
    <2>2. /\ Filled' /\ Told' /\ Once'
          /\ \A i : (Occupied(i)' <=> Occupied(i)) /\ (Exposed(i)' <=> Exposed(i))
      BY <2>1, Same
    <2>3. TypeOK'
      BY <2>1 DEF IInv, TypeOK
    <2>4. Working' /\ Polling'
      BY <2>1 DEF IInv, Working, Polling, Locked, Dist
    <2>5. NoneIgnored'
      BY <2>1, <2>2 DEF IInv, NoneIgnored, Posts
    <2>6. Pulled'
      <3>1. \A i : (Dist(head, spot) <= Dist(head, i))' <=> Dist(head, spot) <= Dist(head, i)
        BY <2>1 DEF Dist
      <3> QED BY <2>1, <2>2, <3>1 DEF IInv, Pulled
    <2> QED BY <2>2, <2>3, <2>4, <2>5, <2>6 DEF IInv
  <1> QED BY <1>1, <1>2, <1>3, <1>4, <1>5, <1>6, <1>7, <1>8 DEF Next

-----------------------------------------------------------------------------
(* What has been sent and passed over.                                     *)
LEMMA SameSent ==
  ASSUME JInv, UNCHANGED <<head, tail, event, wmmsg, wmmsg_next, held>>
  PROVE  Linked' /\ Followed' /\ HeldIntact'
  <1>1. /\ \A i : Sent(i)' <=> Sent(i)
        /\ \A i, j : (Dist(head, i) < Dist(head, j))' <=> Dist(head, i) < Dist(head, j)
    BY DEF Sent, Occupied, Dist
  <1>2. Linked'
    BY <1>1 DEF JInv, Linked
  <1>3. Followed'
    BY <1>1 DEF JInv, Followed
  <1>4. HeldIntact'
    BY DEF JInv, HeldIntact
  <1> QED BY <1>2, <1>3, <1>4

(* There are not events enough in a queue with room to hold all messages   *)
(* but one.                                                                *)
LEMMA NotAllSent ==
  ASSUME TypeOK, Succ(tail) # head, NEW w \in Ring,
         \A s \in Ring \ {w} : \E j \in Ring : Sent(j) /\ event[j].slot = s
  PROVE  FALSE
  <1>1. head \in Ring /\ tail \in Ring /\ M \in Nat /\ M > 1 /\ Ring = 0 .. M - 1
    BY SDLEventsAssumption DEF TypeOK, Ring
  <1>2. Pred(head) \in Ring /\ Succ(Pred(head)) = head /\ Pred(head) # tail
    BY <1>1, SuccIs, PredIs
  <1>3. ~ Occupied(Pred(head)) /\ ~ Occupied(tail)
    <2>1. Pred(head) = IF head = 0 THEN M - 1 ELSE head - 1
      BY <1>1, PredIs
    <2>2. Dist(head, Pred(head)) =
            IF head <= Pred(head) THEN Pred(head) - head ELSE Pred(head) - head + M
      BY <1>1, <1>2, DistIs
    <2>3. Dist(head, Pred(head)) = M - 1
      BY <1>1, <2>1, <2>2
    <2>4. Dist(head, tail) \in 0 .. M - 1
      BY <1>1, Placed
    <2> QED BY <1>1, <2>3, <2>4 DEF Occupied
  <1> DEFINE S == Ring \ {w}
             T == (Ring \ {tail}) \ {Pred(head)}
             f == [s \in S |-> CHOOSE j \in T : event[j].slot = s]
  <1>4. IsFiniteSet(Ring) /\ Cardinality(Ring) = M
    <2>1. 0 \in Int /\ M - 1 \in Int
      BY <1>1
    <2>2. IsFiniteSet(0 .. M - 1) /\ Cardinality(0 .. M - 1) = IF 0 > M - 1 THEN 0 ELSE M - 1 - 0 + 1
      BY <2>1, FS_Interval
    <2> QED BY <1>1, <2>2
  <1>5. IsFiniteSet(S) /\ Cardinality(S) = M - 1
    BY <1>4, FS_RemoveElement
  <1>6. IsFiniteSet(Ring \ {tail}) /\ Cardinality(Ring \ {tail}) = M - 1
    BY <1>1, <1>4, FS_RemoveElement
  <1>7. IsFiniteSet(T) /\ Cardinality(T) = M - 1 - 1
    BY <1>2, <1>6, FS_RemoveElement
  <1>8. \A s \in S : f[s] \in T /\ event[f[s]].slot = s
    <2> SUFFICES ASSUME NEW s \in S PROVE f[s] \in T /\ event[f[s]].slot = s
      OBVIOUS
    <2>1. \E j \in T : event[j].slot = s
      BY <1>3 DEF Sent
    <2> QED BY <2>1
  <1>9. f \in [S -> T]
    BY <1>8
  <1>10. Cardinality(T) < Cardinality(S)
    BY <1>1, <1>5, <1>7
  <1> HIDE DEF S, T, f
  <1>11. \E x, y \in S : x # y /\ f[x] = f[y]
    BY <1>5, <1>7, <1>9, <1>10, FS_PigeonHole
  <1> QED BY <1>8, <1>11

(* The slot that is stored to next holds no message in use.                *)
LEMMA NextIsFree ==
  ASSUME JInv, Succ(tail) # head
  PROVE  /\ \A i \in Ring : Sent(i) => event[i].slot # wmmsg_next
         /\ held # Nothing => held.slot # wmmsg_next
  <1>1. TypeOK /\ wmmsg_next \in Ring
    BY DEF JInv, IInv, TypeOK
  <1>2. Later(wmmsg_next, wmmsg_next) = Ring \ {wmmsg_next}
    <2>1. Pred(wmmsg_next) \in Ring
      BY <1>1, PredIs
    <2>2. Pred(wmmsg_next) = IF wmmsg_next = 0 THEN M - 1 ELSE wmmsg_next - 1
      BY <1>1, PredIs
    <2>3. Dist(wmmsg_next, Pred(wmmsg_next)) =
            IF wmmsg_next <= Pred(wmmsg_next) THEN Pred(wmmsg_next) - wmmsg_next
            ELSE Pred(wmmsg_next) - wmmsg_next + M
      BY <1>1, <2>1, DistIs
    <2>4. Dist(wmmsg_next, Pred(wmmsg_next)) = M - 1
      BY <1>1, <2>2, <2>3, SDLEventsAssumption DEF Ring
    <2>5. \A s \in Ring : Dist(wmmsg_next, s) <= M - 1
      BY <1>1, Placed
    <2> QED BY <2>4, <2>5 DEF Later
  <1>3. ASSUME NEW i \in Ring, Sent(i), event[i].slot = wmmsg_next PROVE FALSE
    <2>1. \A s \in Ring \ {wmmsg_next} : \E j \in Ring : Sent(j) /\ event[j].slot = s
      BY <1>2, <1>3 DEF JInv, Linked
    <2> QED BY <1>1, <2>1, NotAllSent
  <1>4. ASSUME held # Nothing, held.slot = wmmsg_next PROVE FALSE
    <2>1. \A s \in Ring \ {wmmsg_next} : \E j \in Ring : Sent(j) /\ event[j].slot = s
      BY <1>2, <1>4 DEF JInv, Followed
    <2> QED BY <1>1, <2>1, NotAllSent
  <1> QED BY <1>3, <1>4

LEMMA AddSent ==
  ASSUME JInv, NEW kind \in Kinds, NEW msg, kind = "sys" => msg \in Messages,
         AddEvent(kind, msg), UNCHANGED <<head, held>>
  PROVE  Linked' /\ Followed' /\ HeldIntact'
  <1>1. /\ head \in Ring /\ tail \in Ring /\ event \in [Ring -> Entries \cup {Blank}]
        /\ wmmsg \in [Ring -> Messages \cup {Nothing}] /\ wmmsg_next \in Ring
        /\ held \in [slot : Ring, msg : Messages] \cup {Nothing}
    BY DEF JInv, IInv, TypeOK
  <1>2. CASE Succ(tail) = head
    BY <1>2, SameSent DEF AddEvent
  <1>3. CASE Succ(tail) # head
    <2>1. PICK e \in Entries : Adds(kind, msg, e)
      BY <1>1, <1>3, Adding
    <2> USE DEF Adds
    <2>2. ~ Occupied(tail) /\ \A i \in Ring : Occupied(i)' <=> Occupied(i) \/ i = tail
      BY <1>1, <1>3, <2>1, RoomAtTail
    <2>3. \A i \in Ring : event'[i] = IF i = tail THEN e ELSE event[i]
      BY <1>1, <2>1
    <2>4. \A i \in Ring : Sent(i)' <=> Sent(i) \/ (i = tail /\ kind = "sys")
      BY <2>1, <2>2, <2>3 DEF Sent
    <2>5. \A i \in Ring : Sent(i) => i # tail /\ event'[i] = event[i]
      BY <2>2, <2>3 DEF Sent
    <2>6. \A i, j : (Dist(head, i) < Dist(head, j))' <=> Dist(head, i) < Dist(head, j)
      BY DEF Dist
    <2>7. \A i \in Ring : Sent(i) => event[i].slot \in Ring
      <3> SUFFICES ASSUME NEW i \in Ring, Sent(i) PROVE event[i].slot \in Ring
        OBVIOUS
      <3>1. event[i] \in Entries /\ event[i].kind = "sys"
        BY DEF Sent, JInv, IInv, Filled
      <3> QED BY <3>1 DEF Entries
    <2>8. CASE kind # "sys"
      <3>1. wmmsg_next' = wmmsg_next
        BY <2>1, <2>8
      <3>2. \A i \in Ring : Sent(i)' <=> Sent(i)
        BY <2>4, <2>8
      <3>3. Linked'
        BY <2>5, <2>6, <3>1, <3>2 DEF JInv, Linked
      <3>4. Followed'
        <4>1. ASSUME held # Nothing, NEW s \in Later(held.slot, wmmsg_next)
              PROVE  \E j \in Ring : Sent(j)' /\ event'[j].slot = s
          BY <2>5, <3>2, <4>1 DEF JInv, Followed
        <4> QED BY <3>1, <4>1 DEF Followed
      <3>5. HeldIntact'
        BY <2>1, <2>8 DEF JInv, HeldIntact
      <3> QED BY <3>3, <3>4, <3>5
    <2>9. CASE kind = "sys"
      <3>1. wmmsg_next' = Succ(wmmsg_next) /\ Pred(Succ(wmmsg_next)) = wmmsg_next
        <4>1. /\ Succ(wmmsg_next) \in Ring
              /\ Succ(wmmsg_next) = IF wmmsg_next = M - 1 THEN 0 ELSE wmmsg_next + 1
          BY <1>1, SuccIs
        <4>2. Pred(Succ(wmmsg_next)) =
                IF Succ(wmmsg_next) = 0 THEN M - 1 ELSE Succ(wmmsg_next) - 1
          BY <4>1, PredIs
        <4> QED BY <1>1, <2>1, <2>9, <4>1, <4>2, SDLEventsAssumption DEF Ring
      <3>2. ASSUME NEW a \in Ring, a # wmmsg_next
            PROVE  Later(a, wmmsg_next') = Later(a, wmmsg_next) \cup {wmmsg_next}
        <4>1. /\ \A i \in Ring : Dist(a, i) \in 0 .. M - 1
              /\ Dist(a, a) = 0 /\ (Dist(a, wmmsg_next) = Dist(a, a) => wmmsg_next = a)
              /\ Dist(a, wmmsg_next) > 0 =>
                   Dist(a, Pred(wmmsg_next)) = Dist(a, wmmsg_next) - 1
              /\ \A i \in Ring : Dist(a, i) = Dist(a, wmmsg_next) => i = wmmsg_next
          BY <1>1, Placed
        <4>2. Dist(a, Pred(wmmsg_next)) = Dist(a, wmmsg_next) - 1
          BY <1>1, <3>2, <4>1
        <4>3. Later(a, wmmsg_next) =
                {s \in Ring : s # a /\ Dist(a, s) <= Dist(a, Pred(wmmsg_next))}
          BY DEF Later
        <4>4. Later(a, wmmsg_next') = {s \in Ring : s # a /\ Dist(a, s) <= Dist(a, wmmsg_next)}
          BY <3>1 DEF Later
        <4>5. \A s \in Ring : Dist(a, s) <= Dist(a, wmmsg_next) <=>
                Dist(a, s) <= Dist(a, Pred(wmmsg_next)) \/ s = wmmsg_next
          BY <1>1, <4>1, <4>2
        <4> QED BY <1>1, <3>2, <4>3, <4>4, <4>5
      <3>4. Later(wmmsg_next, wmmsg_next') = {}
        <4>1. /\ Dist(wmmsg_next, wmmsg_next) = 0
              /\ \A i \in Ring : /\ Dist(wmmsg_next, i) \in 0 .. M - 1
                                 /\ Dist(wmmsg_next, i) = Dist(wmmsg_next, wmmsg_next) =>
                                      i = wmmsg_next
          BY <1>1, Placed
        <4>2. \A s \in Ring : s # wmmsg_next =>
                ~ (Dist(wmmsg_next, s) <= Dist(wmmsg_next, wmmsg_next))
          BY <4>1
        <4> QED BY <3>1, <4>2 DEF Later
      <3>5. \A i \in Ring : Sent(i) => event[i].slot # wmmsg_next
        BY <1>3, NextIsFree
      <3>6. held # Nothing => held.slot # wmmsg_next
        BY <1>3, NextIsFree
      <3>7. PICK t \in Ring : t = tail /\ Sent(t)' /\ event'[t].slot = wmmsg_next
        BY <1>1, <2>1, <2>3, <2>4, <2>9
      <3>8. Linked'
        <4> SUFFICES ASSUME NEW i \in Ring, Sent(i)', NEW s \in Later(event'[i].slot, wmmsg_next')
                     PROVE  \E j \in Ring :
                       Sent(j)' /\ event'[j].slot = s /\ Dist(head, i) < Dist(head, j)
          BY <2>6 DEF Linked
        <4>1. CASE i = tail
          BY <3>4, <3>7, <4>1
        <4>2. CASE i # tail
          <5>1. Sent(i) /\ event'[i] = event[i] /\ event[i].slot \in Ring
            BY <2>4, <2>5, <2>7, <4>2
          <5>2. s \in Later(event[i].slot, wmmsg_next) \/ s = wmmsg_next
            BY <3>2, <3>5, <5>1
          <5>3. CASE s = wmmsg_next
            <6>1. Dist(head, i) < Dist(head, tail)
              BY <5>1 DEF Sent, Occupied
            <6> QED BY <1>1, <3>7, <5>3, <6>1
          <5>4. CASE s \in Later(event[i].slot, wmmsg_next)
            <6>1. PICK j \in Ring : Sent(j) /\ event[j].slot = s /\ Dist(head, i) < Dist(head, j)
              BY <5>1, <5>4 DEF JInv, Linked
            <6>2. Sent(j)' /\ event'[j].slot = s
              BY <2>4, <2>5, <6>1
            <6> QED BY <6>1, <6>2
          <5> QED BY <5>2, <5>3, <5>4
        <4> QED BY <4>1, <4>2
      <3>9. Followed'
        <4> SUFFICES ASSUME held # Nothing, NEW s \in Later(held.slot, wmmsg_next')
                     PROVE  \E j \in Ring : Sent(j)' /\ event'[j].slot = s
          BY DEF Followed
        <4>1. held.slot \in Ring
          BY <1>1
        <4>2. s \in Later(held.slot, wmmsg_next) \/ s = wmmsg_next
          BY <3>2, <3>6, <4>1
        <4>3. CASE s = wmmsg_next
          BY <1>1, <3>7, <4>3
        <4>4. CASE s \in Later(held.slot, wmmsg_next)
          <5>1. PICK j \in Ring : Sent(j) /\ event[j].slot = s
            BY <4>4 DEF JInv, Followed
          <5>2. Sent(j)' /\ event'[j].slot = s
            BY <2>4, <2>5, <5>1
          <5> QED BY <5>2
        <4> QED BY <4>2, <4>3, <4>4
      <3>10. HeldIntact'
        <4> SUFFICES ASSUME held # Nothing PROVE wmmsg'[held.slot] = held.msg
          BY DEF HeldIntact
        <4>1. held.slot \in Ring /\ wmmsg[held.slot] = held.msg
          BY <1>1 DEF JInv, HeldIntact
        <4> QED BY <1>1, <2>1, <2>9, <3>6, <4>1
      <3> QED BY <3>8, <3>9, <3>10
    <2> QED BY <2>8, <2>9
  <1> QED BY <1>2, <1>3

LEMMA TakeSent ==
  ASSUME JInv, PeepTake
  PROVE  Counted' /\ Linked' /\ Followed' /\ HeldIntact'
  <1>1. /\ Locked /\ More /\ Hit /\ get /\ CutEvent
        /\ held' = Holding
        /\ UNCHANGED <<wmmsg, wmmsg_next, mask, get>>
    BY DEF PeepTake
  <1>2. /\ Occupied(spot) /\ event[spot] \in Entries
        /\ head \in Ring /\ tail \in Ring /\ spot \in Ring
    BY <1>1, AtSpot DEF JInv
  <1>3. /\ head' \in Ring
        /\ \A i \in Ring : Occupied(i)' =>
             /\ Moved(i) \in Ring /\ Occupied(Moved(i)) /\ Moved(i) # spot
             /\ Dist(head', spot') <= Dist(head', i) <=> Dist(head, spot) <= Dist(head, Moved(i))
        /\ \A i \in Ring : Occupied(i)' => Dist(head, Moved(i)) =
             IF Dist(head', i) < Dist(head, spot) THEN Dist(head', i) ELSE Dist(head', i) + 1
        /\ \A j \in Ring : Occupied(j) /\ j # spot =>
             \E i \in Ring : Occupied(i)' /\ Moved(i) = j
        /\ spot' \in Ring
    BY <1>1, <1>2, Placing
  <1>4. \A i \in Ring : Occupied(i)' => event'[i] = event[Moved(i)]
    BY <1>1, <1>2, Cut DEF JInv, IInv
  <1>5. /\ \A i \in Ring : Dist(head, i) \in 0 .. M - 1 /\ Dist(head', i) \in 0 .. M - 1
        /\ \A i, j \in Ring : Dist(head, i) = Dist(head, j) => i = j
    BY <1>2, <1>3, Placed
  <1>6. \A i \in Ring : Asked(i) => ~ (Dist(head, i) < Dist(head, spot))
    BY <1>1 DEF JInv, Counted, Behind
  <1>7. Counted'
    <2>1. ASSUME NEW i \in Ring, Asked(i)', Dist(head', i) < Dist(head', spot')
          PROVE  FALSE
      <3>1. Occupied(i)' /\ Asked(Moved(i)) /\ Moved(i) \in Ring
        BY <1>1, <1>3, <1>4, <2>1 DEF Asked
      <3>2. ~ (Dist(head, spot) <= Dist(head, Moved(i)))
        BY <1>3, <1>5, <2>1, <3>1
      <3>3. Dist(head, Moved(i)) < Dist(head, spot)
        BY <1>2, <1>5, <3>1, <3>2
      <3> QED BY <1>6, <3>1, <3>3
    <2>2. \A i : (Dist(head, i) < Dist(head, spot))' <=> Dist(head', i) < Dist(head', spot')
      BY DEF Dist
    <2>3. Behind' = {}
      BY <2>1, <2>2 DEF Behind
    <2> QED BY <1>1, <2>3 DEF Counted
  <1>8. \A i \in Ring : Sent(i)' =>
          Sent(Moved(i)) /\ Moved(i) \in Ring /\ event'[i] = event[Moved(i)] /\ Moved(i) # spot
    BY <1>3, <1>4 DEF Sent
  <1>9. \A j \in Ring : Sent(j) /\ j # spot => \E i \in Ring : Sent(i)' /\ Moved(i) = j
    BY <1>3, <1>4 DEF Sent
  <1>10. wmmsg_next' = wmmsg_next
    BY <1>1
  <1>11. ASSUME NEW i \in Ring, NEW j \in Ring, Occupied(i)', Occupied(j)',
                Dist(head, Moved(i)) < Dist(head, Moved(j))
         PROVE  Dist(head', i) < Dist(head', j)
    <2>1. /\ Dist(head, Moved(i)) =
               IF Dist(head', i) < Dist(head, spot) THEN Dist(head', i) ELSE Dist(head', i) + 1
          /\ Dist(head, Moved(j)) =
               IF Dist(head', j) < Dist(head, spot) THEN Dist(head', j) ELSE Dist(head', j) + 1
      BY <1>3, <1>11
    <2>2. Dist(head', i) \in 0 .. M - 1 /\ Dist(head', j) \in 0 .. M - 1
          /\ Dist(head, spot) \in 0 .. M - 1
      BY <1>2, <1>5
    <2> QED BY <1>11, <2>1, <2>2
  <1>12. Linked'
    <2>1. ASSUME NEW i \in Ring, Sent(i)', NEW s \in Later(event'[i].slot, wmmsg_next')
          PROVE  \E j \in Ring :
                   Sent(j)' /\ event'[j].slot = s /\ Dist(head', i) < Dist(head', j)
      <3>1. /\ Sent(Moved(i)) /\ Moved(i) \in Ring /\ event'[i] = event[Moved(i)]
            /\ Moved(i) # spot /\ s \in Later(event[Moved(i)].slot, wmmsg_next)
        BY <1>8, <1>10, <2>1
      <3>2. PICK k \in Ring :
              Sent(k) /\ event[k].slot = s /\ Dist(head, Moved(i)) < Dist(head, k)
        BY <3>1 DEF JInv, Linked
      <3>3. k # spot
        <4>1. ASSUME k = spot PROVE FALSE
          <5>1. Asked(Moved(i))
            BY <1>1, <3>1, <3>2, <4>1 DEF Hit, Asked, Sent
          <5> QED BY <1>6, <3>1, <3>2, <4>1, <5>1
        <4> QED BY <4>1
      <3>4. PICK j \in Ring : Sent(j)' /\ Moved(j) = k
        BY <1>9, <3>2, <3>3
      <3>5. Dist(head', i) < Dist(head', j)
        BY <1>11, <2>1, <3>2, <3>4 DEF Sent
      <3>6. event'[j].slot = s
        BY <1>8, <3>2, <3>4
      <3> QED BY <3>4, <3>5, <3>6
    <2>2. \A i, j : (Dist(head, i) < Dist(head, j))' <=> Dist(head', i) < Dist(head', j)
      BY DEF Dist
    <2> QED BY <2>1, <2>2 DEF Linked
  <1>13. Followed' /\ HeldIntact'
    <2>1. CASE event[spot].kind # "sys"
      <3>1. held' = held
        BY <1>1, <2>1 DEF Holding
      <3>2. ASSUME held # Nothing, NEW s \in Later(held.slot, wmmsg_next)
            PROVE  \E j \in Ring : Sent(j)' /\ event'[j].slot = s
        <4>1. PICK k \in Ring : Sent(k) /\ event[k].slot = s
          BY <3>2 DEF JInv, Followed
        <4>2. k # spot
          BY <2>1, <4>1 DEF Sent
        <4> QED BY <1>8, <1>9, <4>1, <4>2
      <3>3. Followed'
        BY <1>10, <3>1, <3>2 DEF Followed
      <3>4. HeldIntact'
        BY <1>1, <3>1 DEF JInv, HeldIntact
      <3> QED BY <3>3, <3>4
    <2>2. CASE event[spot].kind = "sys" /\ peep = "app" /\ want = 1
      <3>1. held' = [slot |-> event[spot].slot, msg |-> wmmsg[event[spot].slot]]
        BY <1>1, <2>2 DEF Holding
      <3>2. held'.slot = event[spot].slot /\ held'.msg = wmmsg[event[spot].slot]
        BY <3>1
      <3>3. HeldIntact'
        BY <1>1, <3>2 DEF HeldIntact
      <3>4. ASSUME NEW s \in Later(event[spot].slot, wmmsg_next)
            PROVE  \E j \in Ring : Sent(j)' /\ event'[j].slot = s
        <4>1. PICK k \in Ring :
                Sent(k) /\ event[k].slot = s /\ Dist(head, spot) < Dist(head, k)
          BY <1>2, <2>2, <3>4 DEF JInv, Linked, Sent
        <4>2. k # spot
          BY <1>2, <1>5, <4>1
        <4> QED BY <1>8, <1>9, <4>1, <4>2
      <3>5. Followed'
        BY <1>10, <3>2, <3>4 DEF Followed
      <3> QED BY <3>3, <3>5
    <2>3. CASE event[spot].kind = "sys" /\ ~ (peep = "app" /\ want = 1)
      <3>1. held' = Nothing
        BY <1>1, <2>3 DEF Holding
      <3> QED BY <3>1 DEF Followed, HeldIntact
    <2> QED BY <2>1, <2>2, <2>3
  <1> QED BY <1>7, <1>12, <1>13

LEMMA BehindFinite == IsFiniteSet(Behind)
  <1>1. 0 \in Int /\ M - 1 \in Int
    BY SDLEventsAssumption
  <1>2. IsFiniteSet(0 .. M - 1)
    BY <1>1, FS_Interval
  <1>3. Behind \in SUBSET (0 .. M - 1)
    BY DEF Behind, Ring
  <1> QED BY <1>2, <1>3, FS_Subset

(* Going on to the next event, which is counted if it is one asked for.    *)
LEMMA PassSpot ==
  ASSUME JInv, Locked, More, spot' = Succ(spot),
         UNCHANGED <<head, tail, event, mask>>
  PROVE  Behind' = IF Hit THEN Behind \cup {spot} ELSE Behind
  <1>1. /\ Occupied(spot) /\ head \in Ring /\ spot \in Ring
        /\ Dist(head, Succ(spot)) = Dist(head, spot) + 1
    BY AtSpot DEF JInv
  <1>2. /\ \A i \in Ring : Dist(head, i) \in 0 .. M - 1
        /\ \A i \in Ring : Dist(head, i) = Dist(head, spot) => i = spot
    BY <1>1, Placed
  <1>3. \A i \in Ring : Dist(head, i) < Dist(head, Succ(spot)) <=>
          Dist(head, i) < Dist(head, spot) \/ i = spot
    BY <1>1, <1>2
  <1>4. /\ \A i : Asked(i)' <=> Asked(i)
        /\ \A i : (Dist(head, i) < Dist(head, spot))' <=> Dist(head, i) < Dist(head, Succ(spot))
    BY DEF Asked, Occupied, Dist
  <1>5. Behind' = {i \in Ring : Asked(i) /\ (Dist(head, i) < Dist(head, spot) \/ i = spot)}
    BY <1>3, <1>4 DEF Behind
  <1>6. Asked(spot) <=> Hit
    BY <1>1 DEF Asked, Hit
  <1> QED BY <1>1, <1>5, <1>6 DEF Behind

LEMMA LookSent ==
  ASSUME JInv, PeepLook
  PROVE  Counted' /\ Linked' /\ Followed' /\ HeldIntact'
  <1>1. /\ Locked /\ More /\ Hit /\ ~ get /\ used' = used + 1 /\ spot' = Succ(spot)
        /\ UNCHANGED <<head, tail, event, wmmsg, wmmsg_next, mask, get, held>>
    BY DEF PeepLook, queue
  <1>2. Linked' /\ Followed' /\ HeldIntact'
    BY <1>1, SameSent
  <1>3. Behind' = Behind \cup {spot}
    BY <1>1, PassSpot
  <1>4. spot \notin Behind
    <2>1. head \in Ring /\ spot \in Ring
      BY DEF JInv, IInv, TypeOK
    <2>2. Dist(head, spot) \in 0 .. M - 1
      BY <2>1, Placed
    <2> QED BY <2>2 DEF Behind
  <1>5. Cardinality(Behind') = Cardinality(Behind) + 1
    BY <1>3, <1>4, BehindFinite, FS_AddElement
  <1>6. Cardinality(Behind) = used
    BY <1>1 DEF JInv, Counted
  <1>7. Cardinality(Behind)' = used'
    BY <1>1, <1>5, <1>6
  <1> QED BY <1>1, <1>2, <1>7 DEF Counted

LEMMA SkipSent ==
  ASSUME JInv, PeepSkip
  PROVE  Counted' /\ Linked' /\ Followed' /\ HeldIntact'
  <1>1. /\ Locked /\ More /\ ~ Hit /\ spot' = Succ(spot)
        /\ UNCHANGED <<head, tail, event, wmmsg, wmmsg_next, mask, get, used, held>>
    BY DEF PeepSkip, queue
  <1>2. Linked' /\ Followed' /\ HeldIntact'
    BY <1>1, SameSent
  <1>3. Behind' = Behind
    BY <1>1, PassSpot
  <1>4. IF get THEN Behind = {} ELSE Cardinality(Behind) = used
    BY <1>1 DEF JInv, Counted
  <1>5. Cardinality(Behind)' = Cardinality(Behind)
    BY <1>3
  <1> QED BY <1>1, <1>2, <1>3, <1>4, <1>5 DEF Counted

LEMMA BeginSent ==
  ASSUME JInv, NEW kinds, NEW n, NEW cut, BeginPeep(kinds, n, cut), UNCHANGED <<queue, held>>
  PROVE  Counted' /\ Linked' /\ Followed' /\ HeldIntact'
  <1>1. /\ spot' = head /\ used' = 0 /\ head \in Ring
        /\ UNCHANGED <<head, tail, event, wmmsg, wmmsg_next, held>>
    BY DEF BeginPeep, queue, JInv, IInv, TypeOK
  <1>2. Linked' /\ Followed' /\ HeldIntact'
    BY <1>1, SameSent
  <1>3. \A i \in Ring : ~ (Dist(head, i) < Dist(head, head))
    BY <1>1, Placed
  <1>4. \A i : (Dist(head, i) < Dist(head, spot))' <=> Dist(head, i) < Dist(head, head)
    BY <1>1 DEF Dist
  <1>5. Behind' = {}
    BY <1>3, <1>4 DEF Behind
  <1>6. Cardinality(Behind)' = 0
    BY <1>5, FS_EmptySet
  <1> QED BY <1>1, <1>2, <1>5, <1>6 DEF Counted

LEMMA InitJInv == Init => JInv
  <1> SUFFICES ASSUME Init PROVE JInv
    OBVIOUS
  <1>1. IInv
    BY InitIInv
  <1>2. \A i \in Ring : event[i].kind # "sys"
    BY DEF Init, Blank
  <1> QED BY <1>1, <1>2 DEF Init, JInv, Counted, Locked, Linked, Sent, Followed, HeldIntact

LEMMA NextJInv == JInv /\ [Next]_vars => JInv'
  <1> SUFFICES ASSUME JInv, [Next]_vars PROVE JInv'
    OBVIOUS
  <1>1. IInv'
    BY NextIInv DEF JInv
  <1> DEFINE Goal == Counted' /\ Linked' /\ Followed' /\ HeldIntact'
  <1> SUFFICES Goal
    BY <1>1 DEF JInv
  <1>2. CASE PeepEvents
    <2>1. CASE PeepTake
      BY <2>1, TakeSent
    <2>2. CASE PeepLook
      BY <2>2, LookSent
    <2>3. CASE PeepSkip
      BY <2>3, SkipSent
    <2>4. CASE EndPeep
      <3>1. ~ Locked' /\ UNCHANGED <<head, tail, event, wmmsg, wmmsg_next, held>>
        BY <2>4 DEF EndPeep, Locked, queue
      <3> QED BY <3>1, SameSent DEF Counted
    <2> QED BY <1>2, <2>1, <2>2, <2>3, <2>4 DEF PeepEvents
  <1>3. CASE Pump
    <2>1. CASE PumpExpose
      BY <2>1, BeginSent DEF PumpExpose
    <2>2. CASE PostExpose
      <3>1. ~ Locked' /\ UNCHANGED <<head, held>>
        BY <2>2 DEF PostExpose, Locked
      <3>2. CASE AddEvent("expose", Nothing)
        <4>1. "expose" \in Kinds
          BY DEF Kinds
        <4> QED BY <3>1, <3>2, <4>1, AddSent DEF Counted
      <3>3. CASE UNCHANGED <<tail, event, wmmsg, wmmsg_next, added>>
        BY <3>1, <3>3, SameSent DEF Counted
      <3> QED BY <2>2, <3>2, <3>3 DEF PostExpose
    <2>3. ASSUME NEW msg \in Messages, PumpSys(msg) PROVE Goal
      <3>1. ~ Locked' /\ UNCHANGED <<head, held>> /\ AddEvent("sys", msg) /\ "sys" \in Kinds
        BY <2>3 DEF PumpSys, Locked, Kinds
      <3> QED BY <3>1, AddSent DEF Counted
    <2> QED BY <1>3, <2>1, <2>2, <2>3 DEF Pump
  <1>4. CASE Configure
    <2>1. ASSUME NEW kinds, EventState(kinds) \/ SetEventFilter(kinds) PROVE Goal
      <3>1. ~ Locked' /\ UNCHANGED <<head, tail, event, wmmsg, wmmsg_next, held>>
        BY <2>1 DEF EventState, SetEventFilter, Locked, queue
      <3> QED BY <3>1, SameSent DEF Counted
    <2>2. CASE Discard
      BY <2>2, BeginSent DEF Discard
    <2> QED BY <1>4, <2>1, <2>2 DEF Configure
  <1>5. CASE PushEvent
    <2>1. ~ Locked' /\ UNCHANGED <<head, held>> /\ AddEvent("user", Nothing) /\ "user" \in Kinds
      BY <1>5 DEF PushEvent, Locked, Kinds
    <2> QED BY <2>1, AddSent DEF Counted
  <1>6. ASSUME NEW kinds, NEW n, NEW cut, Peep(kinds, n, cut) PROVE Goal
    BY <1>6, BeginSent DEF Peep
  <1>7. CASE StopEventLoop
    <2>1. ~ Locked' /\ held' = Nothing /\ \A i \in Ring : event'[i].kind = "none"
      BY <1>7 DEF StopEventLoop, Locked, Blank
    <2> QED BY <2>1 DEF Counted, Linked, Sent, Followed, HeldIntact
  <1>8. CASE StartEventLoop
    <2>1. ~ Locked' /\ UNCHANGED <<head, tail, event, wmmsg, wmmsg_next, held>>
      BY <1>8 DEF StartEventLoop, Locked, JInv, IInv, Working
    <2> QED BY <2>1, SameSent DEF Counted
  <1>9. CASE UNCHANGED vars
    <2>1. UNCHANGED <<head, tail, event, wmmsg, wmmsg_next, held, mask, get, spot, used, peep>>
      BY <1>9 DEF vars, queue, scan
    <2>2. Behind' = Behind /\ (Locked' <=> Locked)
      BY <2>1 DEF Behind, Asked, Occupied, Dist, Locked
    <2>3. Cardinality(Behind)' = Cardinality(Behind)
      BY <2>2
    <2>4. Counted'
      BY <2>1, <2>2, <2>3 DEF JInv, Counted
    <2> QED BY <2>1, <2>4, SameSent
  <1> QED BY <1>2, <1>3, <1>4, <1>5, <1>6, <1>7, <1>8, <1>9 DEF Next

-----------------------------------------------------------------------------
(* The inductive invariant of the event queue.                             *)
THEOREM InductiveInvariant == Spec => []IInv
  <1>1. Init => IInv
    BY InitIInv
  <1>2. IInv /\ [Next]_vars => IInv'
    BY NextIInv
  <1> QED BY <1>1, <1>2, PTL DEF Spec

(* The ring's places and the loop's locals stay within their bounds        *)
(* (SDL_events.c 264-365).                                                 *)
THEOREM TypeCorrect == Spec => []TypeOK
  <1>1. IInv => TypeOK
    BY DEF IInv
  <1> QED BY <1>1, InductiveInvariant, PTL

(* Nothing that SDL_EventState or SDL_SetEventFilter ruled out is queued   *)
(* once it has returned (SDL_events.c 422-481).                            *)
THEOREM NothingIgnoredStays == Spec => []NoneIgnored
  <1>1. IInv => NoneIgnored
    BY DEF IInv
  <1> QED BY <1>1, InductiveInvariant, PTL

(* At most one expose event waits, though it is pulled out in one call and *)
(* posted in another (SDL_expose.c 36-38).                                 *)
THEOREM OneExpose == Spec => []ExposeOnce
  <1>1. IInv => ExposeOnce
    <2> SUFFICES ASSUME IInv PROVE ExposeOnce
      OBVIOUS
    <2> DEFINE E == {i \in Ring : Occupied(i) /\ event[i].kind = "expose"}
    <2>1. CASE E = {}
      <3>1. Cardinality(E) = 0
        BY <2>1, FS_EmptySet
      <3> QED BY <3>1 DEF ExposeOnce
    <2>2. CASE E # {}
      <3>1. PICK i : i \in E
        BY <2>2
      <3>2. E = {i}
        BY <3>1 DEF IInv, Once, Exposed
      <3>3. Cardinality(E) = 1
        BY <3>2, FS_Singleton
      <3> QED BY <3>3 DEF ExposeOnce
    <2> QED BY <2>1, <2>2
  <1> QED BY <1>1, InductiveInvariant, PTL

(* When SDL_PeepEvents stops short of the number asked for, it has read    *)
(* every event that matches (SDL_events.c 340-354).                        *)
THEOREM PeepFindsAll == Spec => []PeepComplete
  <1>1. JInv => PeepComplete
    <2> SUFFICES ASSUME JInv, Locked, ~ More, used < want
                 PROVE  IF get THEN Matching = {} ELSE Cardinality(Matching) = used
      BY DEF PeepComplete
    <2>1. spot = tail
      BY DEF More
    <2>2. Matching = Behind
      BY <2>1 DEF Matching, Behind, Asked, Occupied
    <2>3. IF get THEN Behind = {} ELSE Cardinality(Behind) = used
      BY DEF JInv, Counted
    <2> QED BY <2>2, <2>3
  <1> QED BY <1>1, InitJInv, NextJInv, PTL DEF Spec

(* The message of the system event that was polled last is not overwritten *)
(* before another is polled (SDL_events.c 275-281).                        *)
THEOREM PolledMessageStays == Spec => []HeldIntact
  <1>1. JInv => HeldIntact
    BY DEF JInv
  <1> QED BY <1>1, InitJInv, NextJInv, PTL DEF Spec

-----------------------------------------------------------------------------
(***************************************************************************)
(* Refinement of EventQueue                                                *)
(***************************************************************************)
QEvents == [kind : {"sys"}, msg : Messages] \cup [kind : Kinds \ {"sys"}, msg : {Nothing}]

Place(k) == (head + k - 1) % M

Entry(i) ==
  [kind |-> event[i].kind,
   msg |-> IF event[i].kind = "sys" THEN wmmsg[event[i].slot] ELSE Nothing]

(* The abstract queue lists the places that are in use, from head on.      *)
Lined ==
  /\ Queue \in Seq(QEvents)
  /\ Len(Queue) = Dist(head, tail)
  /\ \A i \in Ring : Occupied(i) => Queue[Dist(head, i) + 1] = Entry(i)
  /\ \A k \in 1 .. Dist(head, tail) : \E i \in Ring : Occupied(i) /\ Dist(head, i) + 1 = k

LEMMA PlaceIs ==
  ASSUME head \in Ring, NEW k \in 1 .. M
  PROVE  Place(k) \in Ring /\ Dist(head, Place(k)) = k - 1
  <1> DEFINE x == head + k - 1
  <1>1. M \in Nat \ {0} /\ x \in 0 .. 2 * M - 1 /\ head \in 0 .. M - 1
    BY SDLEventsAssumption DEF Ring
  <1>2. Place(k) = x % M
    BY DEF Place
  <1> HIDE DEF x
  <1>3. x % M = IF x < M THEN x ELSE x - M
    BY <1>1, ModIs
  <1>4. Place(k) \in Ring
    BY <1>1, <1>2, <1>3 DEF Ring, x
  <1>5. Dist(head, Place(k)) =
          IF head <= Place(k) THEN Place(k) - head ELSE Place(k) - head + M
    BY <1>4, DistIs
  <1> QED BY <1>1, <1>2, <1>3, <1>4, <1>5 DEF x

LEMMA LinedUp == IInv => Lined
  <1> SUFFICES ASSUME IInv PROVE Lined
    OBVIOUS
  <1>1. head \in Ring /\ tail \in Ring /\ event \in [Ring -> Entries \cup {Blank}]
    BY DEF IInv, TypeOK
  <1>2. /\ Dist(head, tail) \in 0 .. M - 1 /\ M \in Nat
        /\ \A i \in Ring : Dist(head, i) \in 0 .. M - 1
        /\ \A i, j \in Ring : Dist(head, i) = Dist(head, j) => i = j
    BY <1>1, Placed
  <1>3. \A k \in 1 .. Dist(head, tail) :
          Place(k) \in Ring /\ Dist(head, Place(k)) = k - 1 /\ Occupied(Place(k))
    <2> SUFFICES ASSUME NEW k \in 1 .. Dist(head, tail)
                 PROVE  Place(k) \in Ring /\ Dist(head, Place(k)) = k - 1 /\ Occupied(Place(k))
      OBVIOUS
    <2>1. k \in 1 .. M
      BY <1>2
    <2>2. Place(k) \in Ring /\ Dist(head, Place(k)) = k - 1
      BY <1>1, <2>1, PlaceIs
    <2> QED BY <1>2, <2>2 DEF Occupied
  <1>4. Queue = [k \in 1 .. Dist(head, tail) |-> Entry(Place(k))]
    BY DEF Queue, Entry, Place
  <1>5. \A i \in Ring : Occupied(i) => Entry(i) \in QEvents
    <2> SUFFICES ASSUME NEW i \in Ring, Occupied(i) PROVE Entry(i) \in QEvents
      OBVIOUS
    <2>1. event[i] \in Entries
      BY DEF IInv, Filled
    <2>2. CASE event[i].kind = "sys"
      <3>1. wmmsg[event[i].slot] \in Messages
        BY <2>2 DEF IInv, Told
      <3> QED BY <2>2, <3>1 DEF Entry, QEvents
    <2>3. CASE event[i].kind # "sys"
      <3>1. event[i].kind \in Kinds \ {"sys"}
        BY <2>1, <2>3 DEF Entries
      <3> QED BY <2>3, <3>1 DEF Entry, QEvents
    <2> QED BY <2>2, <2>3
  <1>6. Queue \in [1 .. Dist(head, tail) -> QEvents]
    BY <1>3, <1>4, <1>5
  <1>7. Queue \in Seq(QEvents) /\ Len(Queue) = Dist(head, tail)
    BY <1>2, <1>6
  <1>8. \A k \in 1 .. Dist(head, tail) : \E i \in Ring : Occupied(i) /\ Dist(head, i) + 1 = k
    BY <1>2, <1>3
  <1>9. ASSUME NEW i \in Ring, Occupied(i)
        PROVE  Queue[Dist(head, i) + 1] = Entry(i)
    <2> DEFINE k == Dist(head, i) + 1
    <2>1. k \in 1 .. Dist(head, tail)
      BY <1>2, <1>9 DEF Occupied
    <2>2. Place(k) = i
      BY <1>2, <1>3, <2>1
    <2> QED BY <1>4, <2>1, <2>2
  <1> QED BY <1>7, <1>8, <1>9 DEF Lined

LEMMA LinedUpNext == IInv /\ [Next]_vars => Lined'
  BY NextIInv, LinedUp, PTL

(* A sequence from which one element is missing.                           *)
LEMMA Removed ==
  ASSUME NEW S, NEW q \in Seq(S), NEW r \in Seq(S), NEW n \in 1 .. Len(q),
         Len(r) = Len(q) - 1,
         \A k \in 1 .. Len(r) : r[k] = IF k < n THEN q[k] ELSE q[k + 1]
  PROVE  r = Abstract!RemoveAt(q, n)
  <1> DEFINE a == SubSeq(q, 1, n - 1)
             b == SubSeq(q, n + 1, Len(q))
  <1>1. Len(q) \in Nat /\ n \in Int /\ \A i \in 1 .. Len(q) : q[i] \in S
    BY LenProperties
  <1>2. /\ a \in Seq(S) /\ Len(a) = n - 1
        /\ \A i \in 1 .. n - 1 : a[i] = q[i]
    <2>1. 1 \in Int /\ n - 1 \in Int /\ \A i \in 1 .. n - 1 : q[i] \in S
      BY <1>1
    <2>2. /\ a \in Seq(S) /\ Len(a) = IF 1 <= n - 1 THEN n - 1 - 1 + 1 ELSE 0
          /\ \A i \in 1 .. n - 1 - 1 + 1 : a[i] = q[1 + i - 1]
      BY <2>1, SubSeqProperties
    <2> QED BY <1>1, <2>2
  <1>3. /\ b \in Seq(S) /\ Len(b) = Len(q) - n
        /\ \A i \in 1 .. Len(q) - n : b[i] = q[n + i]
    <2>1. n + 1 \in Int /\ Len(q) \in Int /\ \A i \in n + 1 .. Len(q) : q[i] \in S
      BY <1>1
    <2>2. /\ b \in Seq(S) /\ Len(b) = IF n + 1 <= Len(q) THEN Len(q) - (n + 1) + 1 ELSE 0
          /\ \A i \in 1 .. Len(q) - (n + 1) + 1 : b[i] = q[n + 1 + i - 1]
      BY <2>1, SubSeqProperties
    <2> QED BY <1>1, <2>2
  <1> HIDE DEF a, b
  <1>4. /\ a \o b \in Seq(S) /\ Len(a \o b) = Len(a) + Len(b)
        /\ \A i \in 1 .. Len(a) + Len(b) :
             (a \o b)[i] = IF i <= Len(a) THEN a[i] ELSE b[i - Len(a)]
    BY <1>2, <1>3, ConcatProperties
  <1>5. Len(a \o b) = Len(r)
    BY <1>1, <1>2, <1>3, <1>4
  <1>6. \A i \in 1 .. Len(r) : r[i] = (a \o b)[i]
    <2> SUFFICES ASSUME NEW i \in 1 .. Len(r) PROVE r[i] = (a \o b)[i]
      OBVIOUS
    <2>1. (a \o b)[i] = IF i <= n - 1 THEN a[i] ELSE b[i - (n - 1)]
      BY <1>1, <1>2, <1>3, <1>4
    <2>2. CASE i < n
      BY <1>1, <1>2, <2>1, <2>2
    <2>3. CASE i >= n
      <3>1. i - (n - 1) \in 1 .. Len(q) - n /\ n + (i - (n - 1)) = i + 1
        BY <1>1, <2>3
      <3>2. b[i - (n - 1)] = q[i + 1]
        BY <1>3, <3>1
      <3> QED BY <1>1, <2>1, <2>3, <3>2
    <2>4. i < n \/ i >= n
      <3>1. i \in Int /\ n \in Int
        BY <1>1
      <3> QED BY <3>1
    <2> QED BY <2>2, <2>3, <2>4
  <1>7. r = a \o b
    BY <1>4, <1>5, <1>6, SeqEqual
  <1> QED BY <1>7 DEF Abstract!RemoveAt, a, b

LEMMA SameQueue ==
  ASSUME UNCHANGED <<head, tail, event, wmmsg, mask, added, active>>
  PROVE  UNCHANGED Abstract!qvars
  BY DEF Abstract!qvars, Queue, Dist

LEMMA RefinesTake ==
  ASSUME JInv, Lined', PeepTake
  PROVE  Abstract!Take
  <1>1. /\ Locked /\ More /\ Hit /\ get /\ CutEvent
        /\ UNCHANGED <<active, wmmsg, mask, added>>
    BY DEF PeepTake
  <1>2. /\ Occupied(spot) /\ event[spot] \in Entries
        /\ head \in Ring /\ tail \in Ring /\ spot \in Ring
    BY <1>1, AtSpot DEF JInv
  <1>3. /\ head' \in Ring /\ Dist(head', tail') = Dist(head, tail) - 1
        /\ \A i \in Ring : Occupied(i)' =>
             /\ Moved(i) \in Ring /\ Occupied(Moved(i))
             /\ Dist(head, Moved(i)) =
                  IF Dist(head', i) < Dist(head, spot) THEN Dist(head', i) ELSE Dist(head', i) + 1
    BY <1>1, <1>2, Placing
  <1>4. \A i \in Ring : Occupied(i)' => event'[i] = event[Moved(i)]
    BY <1>1, <1>2, Cut DEF JInv, IInv
  <1>5. Lined /\ active
    BY <1>1, LinedUp DEF JInv, IInv, Working, Locked
  <1>6. /\ Dist(head, tail) \in 0 .. M - 1 /\ M \in Nat
        /\ \A i \in Ring : Dist(head, i) \in 0 .. M - 1 /\ Dist(head', i) \in 0 .. M - 1
    BY <1>2, <1>3, Placed
  <1> DEFINE n == Dist(head, spot) + 1
  <1>7. n \in 1 .. Len(Queue) /\ Queue[n] = Entry(spot)
    BY <1>2, <1>5, <1>6 DEF Lined, Occupied
  <1>8. Queue[n].kind \in mask
    BY <1>1, <1>7 DEF Entry, Hit
  <1>9. ASSUME NEW j \in 1 .. n - 1 PROVE Queue[j].kind \notin mask
    <2>1. j \in 1 .. Dist(head, tail) /\ j < n
      BY <1>5, <1>7 DEF Lined
    <2>2. PICK i \in Ring : Occupied(i) /\ Dist(head, i) + 1 = j
      BY <1>5, <2>1 DEF Lined
    <2>3. Queue[j].kind = event[i].kind
      <3>1. Queue[Dist(head, i) + 1] = Entry(i)
        BY <1>5, <2>2 DEF Lined
      <3>2. Entry(i).kind = event[i].kind
        BY DEF Entry
      <3> QED BY <2>2, <3>1, <3>2
    <2>4. Dist(head, i) < Dist(head, spot)
      BY <1>2, <1>6, <2>1, <2>2
    <2> QED BY <1>1, <2>2, <2>3, <2>4 DEF JInv, Counted, Behind, Asked
  <1>10. /\ Queue' \in Seq(QEvents) /\ Len(Queue') = Len(Queue) - 1
         /\ \A i \in Ring : Occupied(i)' => Queue'[Dist(head', i) + 1] = Entry(i)'
         /\ \A k \in 1 .. Len(Queue') : \E i \in Ring : Occupied(i)' /\ Dist(head', i) + 1 = k
    <2>1. /\ Queue' \in Seq(QEvents)'
          /\ Len(Queue') = Dist(head', tail')
          /\ \A i \in Ring : Occupied(i)' => Queue'[Dist(head', i) + 1] = Entry(i)'
          /\ \A k \in 1 .. Dist(head', tail') :
               \E i \in Ring : Occupied(i)' /\ Dist(head', i) + 1 = k
      BY DEF Lined, Dist
    <2>2. Len(Queue) = Dist(head, tail)
      BY <1>5 DEF Lined
    <2> QED BY <1>3, <2>1, <2>2
  <1>11. ASSUME NEW k \in 1 .. Len(Queue')
         PROVE  Queue'[k] = IF k < n THEN Queue[k] ELSE Queue[k + 1]
    <2>1. PICK i \in Ring : Occupied(i)' /\ Dist(head', i) + 1 = k
      BY <1>10
    <2>2. Queue'[k] = Entry(i)'
      BY <1>10, <2>1
    <2>3. Entry(i)' = Entry(Moved(i))
      BY <1>1, <1>4, <2>1 DEF Entry
    <2>4. Queue[Dist(head, Moved(i)) + 1] = Entry(Moved(i))
      BY <1>3, <1>5, <2>1 DEF Lined
    <2>5. Dist(head, Moved(i)) + 1 = IF k < n THEN k ELSE k + 1
      <3>1. Dist(head, Moved(i)) =
              IF Dist(head', i) < Dist(head, spot) THEN Dist(head', i) ELSE Dist(head', i) + 1
        BY <1>3, <2>1
      <3>2. Dist(head', i) \in 0 .. M - 1 /\ Dist(head, spot) \in 0 .. M - 1
        BY <1>2, <1>6
      <3>3. k < n <=> Dist(head', i) < Dist(head, spot)
        BY <1>6, <2>1, <3>2
      <3> QED BY <1>6, <2>1, <3>1, <3>2, <3>3
    <2> QED BY <2>2, <2>3, <2>4, <2>5
  <1>12. Queue' = Abstract!RemoveAt(Queue, n)
    <2>1. Queue \in Seq(QEvents)
      BY <1>5 DEF Lined
    <2> HIDE DEF n
    <2> QED BY <1>7, <1>10, <1>11, <2>1, Removed
  <1>13. n \in DOMAIN Queue
    <2>1. DOMAIN Queue = 1 .. Len(Queue)
      BY <1>5 DEF Lined
    <2> QED BY <1>7, <2>1
  <1> HIDE DEF n
  <1> QED BY <1>1, <1>5, <1>8, <1>9, <1>12, <1>13 DEF Abstract!Take

LEMMA RefinesAdd ==
  ASSUME JInv, Lined', NEW kind \in Kinds, NEW msg,
         IF kind = "sys" THEN msg \in Messages ELSE msg = Nothing,
         AddEvent(kind, msg), active, UNCHANGED <<active, head, mask>>
  PROVE  Abstract!Next
  <1>1. head \in Ring /\ tail \in Ring /\ event \in [Ring -> Entries \cup {Blank}]
        /\ wmmsg \in [Ring -> Messages \cup {Nothing}] /\ wmmsg_next \in Ring
    BY DEF JInv, IInv, TypeOK
  <1>2. Lined
    BY LinedUp DEF JInv
  <1>3. /\ Dist(head, tail) \in 0 .. M - 1 /\ M \in Nat
        /\ Dist(head, tail) < M - 1 => Dist(head, Succ(tail)) = Dist(head, tail) + 1
        /\ Dist(head, head) = 0
    BY <1>1, Placed
  <1>4. CASE Succ(tail) = head
    <2>1. Dist(head, tail) = M - 1
      BY <1>3, <1>4
    <2>2. Len(Queue) = M - 1
      BY <1>2, <2>1 DEF Lined
    <2>3. added' = 0 /\ UNCHANGED <<tail, event, wmmsg>>
      BY <1>4 DEF AddEvent
    <2>4. Queue' = Queue
      BY <2>3 DEF Queue, Dist
    <2>5. Abstract!Refuse
      BY <2>2, <2>3, <2>4 DEF Abstract!Refuse
    <2> QED BY <2>5 DEF Abstract!Next
  <1>5. CASE Succ(tail) # head
    <2>1. PICK e \in Entries : Adds(kind, msg, e)
      BY <1>1, <1>5, Adding
    <2>2. ~ Occupied(tail) /\ \A i \in Ring : Occupied(i)' <=> Occupied(i) \/ i = tail
      BY <1>1, <1>5, <2>1, RoomAtTail DEF Adds
    <2>3. Dist(head, tail) < M - 1
      BY <1>1, <1>5, HasRoom
    <2>4. Dist(head', tail') = Dist(head, tail) + 1 /\ \A i : Dist(head', i) = Dist(head, i)
      BY <1>3, <2>1, <2>3 DEF Adds
    <2> DEFINE new == [kind |-> kind, msg |-> msg]
    <2>5. \A i \in Ring : Occupied(i) => Entry(i)' = Entry(i)
      <3> SUFFICES ASSUME NEW i \in Ring, Occupied(i) PROVE Entry(i)' = Entry(i)
        OBVIOUS
      <3>1. event'[i] = event[i]
        BY <1>1, <2>1, <2>2 DEF Adds
      <3>2. CASE event[i].kind = "sys"
        <4>1. event[i].slot # wmmsg_next /\ event[i].slot \in Ring
          <5>1. event[i] \in Entries
            BY DEF JInv, IInv, Filled
          <5> QED BY <1>5, <3>2, <5>1, NextIsFree DEF Sent, Entries
        <4>2. wmmsg'[event[i].slot] = wmmsg[event[i].slot]
          BY <1>1, <2>1, <4>1 DEF Adds
        <4> QED BY <3>1, <4>2 DEF Entry
      <3>3. CASE event[i].kind # "sys"
        BY <3>1, <3>3 DEF Entry
      <3> QED BY <3>2, <3>3
    <2>6. \A i \in Ring : i = tail => Entry(i)' = new
      <3> SUFFICES ASSUME NEW i \in Ring, i = tail PROVE Entry(i)' = new
        OBVIOUS
      <3>1. event'[i] = e /\ e.kind = kind
        BY <1>1, <2>1 DEF Adds
      <3>2. kind = "sys" => wmmsg'[e.slot] = msg
        BY <1>1, <2>1 DEF Adds
      <3> QED BY <3>1, <3>2 DEF Entry
    <2>7. /\ Queue \in Seq(QEvents) /\ Len(Queue) = Dist(head, tail)
          /\ \A i \in Ring : Occupied(i) => Queue[Dist(head, i) + 1] = Entry(i)
          /\ \A k \in 1 .. Dist(head, tail) :
               \E i \in Ring : Occupied(i) /\ Dist(head, i) + 1 = k
      BY <1>2 DEF Lined
    <2>8. /\ Queue' \in Seq(QEvents) /\ Len(Queue') = Dist(head', tail')
          /\ \A i \in Ring : Occupied(i)' => Queue'[Dist(head', i) + 1] = Entry(i)'
      BY DEF Lined, Dist
    <2>9. new \in QEvents
      BY DEF QEvents
    <2>10. Append(Queue, new) \in Seq(QEvents) /\ Len(Append(Queue, new)) = Len(Queue) + 1
      BY <2>7, <2>9
    <2>11. ASSUME NEW k \in 1 .. Len(Queue') PROVE Queue'[k] = Append(Queue, new)[k]
      <3>1. k \in 1 .. Dist(head, tail) + 1
        BY <2>4, <2>8, <2>11
      <3>2. CASE k = Dist(head, tail) + 1
        <4>1. Queue'[k] = new
          BY <1>1, <2>2, <2>4, <2>6, <2>8, <3>2
        <4>2. Append(Queue, new)[k] = new
          BY <2>7, <2>9, <3>2
        <4> QED BY <4>1, <4>2
      <3>3. CASE k # Dist(head, tail) + 1
        <4>1. k \in 1 .. Dist(head, tail)
          BY <1>3, <3>1, <3>3
        <4>2. PICK i \in Ring : Occupied(i) /\ Dist(head, i) + 1 = k
          BY <2>7, <4>1
        <4>3. Queue'[k] = Queue[k]
          BY <2>2, <2>4, <2>5, <2>7, <2>8, <4>2
        <4>4. Append(Queue, new)[k] = Queue[k]
          BY <2>7, <2>9, <4>1
        <4> QED BY <4>3, <4>4
      <3> QED BY <3>2, <3>3
    <2>12. Queue' = Append(Queue, new)
      <3>1. Len(Queue') = Len(Append(Queue, new))
        BY <2>4, <2>7, <2>8, <2>10
      <3> HIDE DEF new
      <3> QED BY <2>8, <2>10, <2>11, <3>1, SeqEqual
    <2>13. Len(Queue) < M - 1
      BY <2>3, <2>7
    <2>14. added' = 1
      BY <2>1 DEF Adds
    <2>15. Abstract!Post(new)
      BY <2>12, <2>13, <2>14 DEF Abstract!Post
    <2> QED BY <2>9, <2>15 DEF Abstract!Next, QEvents
  <1> QED BY <1>4, <1>5

LEMMA RefinesAsk ==
  ASSUME active, NEW kinds \in SUBSET Kinds, mask' = kinds,
         UNCHANGED <<head, tail, event, wmmsg, added, active>>
  PROVE  Abstract!Next
  <1>1. Queue' = Queue
    BY DEF Queue, Dist
  <1>2. Abstract!Ask(kinds)
    BY <1>1 DEF Abstract!Ask
  <1> QED BY <1>2 DEF Abstract!Next

LEMMA RefinesInit == Init => Abstract!Init
  <1> SUFFICES ASSUME Init PROVE Abstract!Init
    OBVIOUS
  <1>1. Lined /\ head \in Ring
    BY InitIInv, LinedUp DEF IInv, TypeOK
  <1>2. Dist(head, tail) = 0
    BY <1>1, Placed DEF Init
  <1>3. Queue = << >>
    BY <1>1, <1>2, EmptySeq DEF Lined
  <1> QED BY <1>3 DEF Init, Abstract!Init

LEMMA RefinesNext == JInv /\ [Next]_vars => [Abstract!Next]_(Abstract!qvars)
  <1> SUFFICES ASSUME JInv, [Next]_vars PROVE [Abstract!Next]_(Abstract!qvars)
    OBVIOUS
  <1>1. Lined'
    BY LinedUpNext DEF JInv
  <1>2. CASE PeepEvents
    <2>1. CASE PeepTake
      <3>1. Abstract!Take
        BY <1>1, <2>1, RefinesTake
      <3> QED BY <3>1 DEF Abstract!Next
    <2>2. CASE PeepLook \/ PeepSkip
      <3>1. UNCHANGED <<head, tail, event, wmmsg, mask, added, active>>
        BY <2>2 DEF PeepLook, PeepSkip, queue
      <3> QED BY <3>1, SameQueue
    <2>3. CASE EndPeep
      <3>1. /\ active /\ mask' = {} /\ {} \in SUBSET Kinds
            /\ UNCHANGED <<head, tail, event, wmmsg, added, active>>
        BY <2>3 DEF EndPeep, queue, JInv, IInv, Working, Locked
      <3> QED BY <3>1, RefinesAsk
    <2> QED BY <1>2, <2>1, <2>2, <2>3 DEF PeepEvents
  <1>3. CASE Pump
    <2>1. CASE PumpExpose
      <3>1. /\ active /\ mask' = {"expose"} /\ {"expose"} \in SUBSET Kinds
            /\ UNCHANGED <<head, tail, event, wmmsg, added, active>>
        BY <2>1 DEF PumpExpose, BeginPeep, queue, Kinds
      <3> QED BY <3>1, RefinesAsk
    <2>2. CASE PostExpose
      <3>1. active /\ UNCHANGED <<active, head, mask>>
        BY <2>2 DEF PostExpose, scan, JInv, IInv, Working
      <3>2. CASE AddEvent("expose", Nothing)
        <4>1. "expose" \in Kinds
          BY DEF Kinds
        <4> QED BY <1>1, <3>1, <3>2, <4>1, RefinesAdd
      <3>3. CASE UNCHANGED <<tail, event, wmmsg, wmmsg_next, added>>
        BY <3>1, <3>3, SameQueue
      <3> QED BY <2>2, <3>2, <3>3 DEF PostExpose
    <2>3. ASSUME NEW msg \in Messages, PumpSys(msg) PROVE Abstract!Next
      <3>1. /\ active /\ UNCHANGED <<active, head, mask>>
            /\ AddEvent("sys", msg) /\ "sys" \in Kinds
        BY <2>3 DEF PumpSys, scan, Kinds
      <3> QED BY <1>1, <3>1, RefinesAdd
    <2> QED BY <1>3, <2>1, <2>2, <2>3 DEF Pump
  <1>4. CASE Configure
    <2>1. ASSUME NEW kinds, EventState(kinds) \/ SetEventFilter(kinds)
          PROVE  UNCHANGED Abstract!qvars
      <3>1. UNCHANGED <<head, tail, event, wmmsg, mask, added, active>>
        BY <2>1 DEF EventState, SetEventFilter, queue, scan
      <3> QED BY <3>1, SameQueue
    <2>2. CASE Discard
      <3>1. /\ active /\ mask' = Kinds /\ Kinds \in SUBSET Kinds
            /\ UNCHANGED <<head, tail, event, wmmsg, added, active>>
        BY <2>2 DEF Discard, BeginPeep, queue, JInv, IInv, Working
      <3> QED BY <3>1, RefinesAsk
    <2> QED BY <1>4, <2>1, <2>2 DEF Configure
  <1>5. CASE PushEvent
    <2>1. /\ active /\ UNCHANGED <<active, head, mask>>
          /\ AddEvent("user", Nothing) /\ "user" \in Kinds
      BY <1>5 DEF PushEvent, scan, Kinds
    <2>2. Abstract!Next
      BY <1>1, <2>1, RefinesAdd
    <2> QED BY <2>2
  <1>6. ASSUME NEW kinds \in SUBSET Kinds, NEW n, NEW cut, Peep(kinds, n, cut)
        PROVE  Abstract!Next
    <2>1. /\ active /\ mask' = kinds
          /\ UNCHANGED <<head, tail, event, wmmsg, added, active>>
      BY <1>6 DEF Peep, BeginPeep, queue
    <2> QED BY <2>1, RefinesAsk
  <1>7. CASE StopEventLoop
    <2>1. /\ active /\ active' = FALSE /\ head' = 0 /\ tail' = 0
          /\ UNCHANGED <<mask, added>>
      BY <1>7 DEF StopEventLoop, scan
    <2>2. Dist(head', tail') = 0
      <3>1. 0 \in Ring
        BY SDLEventsAssumption DEF Ring
      <3>2. Dist(0, 0) = 0
        BY <3>1, Placed
      <3> QED BY <2>1, <3>2
    <2>3. Queue' \in Seq(QEvents) /\ Len(Queue') = 0
      BY <1>1, <2>2 DEF Lined, Dist
    <2>4. Queue' = << >>
      BY <2>3, EmptySeq
    <2>5. Abstract!Stop
      BY <2>1, <2>4 DEF Abstract!Stop
    <2> QED BY <2>5 DEF Abstract!Next
  <1>8. CASE StartEventLoop
    <2>1. ~ active /\ active' = TRUE /\ UNCHANGED <<head, tail, event, wmmsg, mask, added>>
      BY <1>8 DEF StartEventLoop, scan
    <2>2. Queue' = Queue
      BY <2>1 DEF Queue, Dist
    <2>3. Abstract!Start
      BY <2>1, <2>2 DEF Abstract!Start
    <2> QED BY <2>3 DEF Abstract!Next
  <1>9. CASE UNCHANGED vars
    <2>1. UNCHANGED <<head, tail, event, wmmsg, mask, added, active>>
      BY <1>9 DEF vars, queue, scan
    <2> QED BY <2>1, SameQueue
  <1>10. {{"sys"}, {"user"}, Kinds} \subseteq SUBSET Kinds
    BY DEF Kinds
  <1> QED BY <1>2, <1>3, <1>4, <1>5, <1>6, <1>7, <1>8, <1>9, <1>10 DEF Next

(* The ring of any length, with events cut from its middle, is a queue     *)
(* that keeps the order of its events and the messages they came with      *)
(* (SDL_events.c 264-365).                                                 *)
THEOREM Refinement == Spec => ImplementsQueue
  BY RefinesInit, RefinesNext, InitJInv, NextJInv, PTL
     DEF Spec, ImplementsQueue, Abstract!Spec

=============================================================================
