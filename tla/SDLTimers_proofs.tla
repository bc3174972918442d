-------------------------- MODULE SDLTimers_proofs --------------------------
(***************************************************************************)
(* Proofs about SDLTimers for every set of timers, every interval and      *)
(* returned value, every resolution and every width of the clock; those    *)
(* about ages need the intervals to be readable as ints (IntervalsFit).    *)
(***************************************************************************)
EXTENDS SDLTimers, SequenceTheorems, TLAPS

(* A pass that the list has not changed under is at a place of it, and its *)
(* two other pointers are the neighbours.                                  *)
Placed(call, s, p) ==
  /\ call.t = s[p]
  /\ call.prev = IF p = 1 THEN None ELSE s[p - 1]
  /\ call.next = IF p = Len(s) THEN None ELSE s[p + 1]

PassPlaced == Calling => \E p \in DOMAIN timers : Placed(pass, timers, p)

PassTyped == pass.at = "call" => pass.t \in Timers

Listed ==
  /\ ToSet(timers) = heap /\ IsInjective(timers)
  /\ running >= Len(timers)
  /\ ~started => timers = <<>>

IInv == TypeOK /\ Listed /\ PassTyped /\ PassPlaced


-----------------------------------------------------------------------------
(* Arithmetic modulo W, and the types of what the program computes.        *)
LEMMA ModTyped ==
  ASSUME NEW x \in Int, NEW n \in Nat \ {0}
  PROVE  x % n \in 0 .. n - 1
  OBVIOUS

LEMMA MultipleBelow ==
  ASSUME NEW x \in Nat, NEW n \in Nat \ {0}
  PROVE  (x \div n) * n \in 0 .. x
  OBVIOUS

LEMMA RoundedTyped ==
  ASSUME NEW ms \in 0 .. W - 1
  PROVE  Rounded(ms) \in 0 .. W - 1
  <1> USE SDLTimersAssumption
  <1> DEFINE x == (ms + Resolution - 1) % W
  <1>1. x \in 0 .. W - 1
    BY ModTyped
  <1> HIDE DEF x
  <1>2. (x \div Resolution) * Resolution \in 0 .. x
    BY <1>1, MultipleBelow
  <1>3. Rounded(ms) = (x \div Resolution) * Resolution
    BY DEF Rounded, x
  <1> QED BY <1>1, <1>2, <1>3

LEMMA TicksTyped ==
  ASSUME time \in 0 .. W - 1
  PROVE  GetTicks \in 0 .. W - 1
  BY SDLTimersAssumption DEF GetTicks

-----------------------------------------------------------------------------
(* The list around a place of it.                                          *)
LEMMA PlaceOf ==
  ASSUME timers \in Seq(Timers), IsInjective(timers), NEW p \in 1 .. Len(timers)
  PROVE  /\ Upto(timers[p]) = SubSeq(timers, 1, p)
         /\ From(timers[p]) = SubSeq(timers, p, Len(timers))
  <1>1. timers[p] \in ToSet(timers) /\ timers[p] # None
    BY SDLTimersAssumption DEF ToSet
  <1>2. (CHOOSE i \in DOMAIN timers : timers[i] = timers[p]) = p
    BY DEF IsInjective
  <1> QED BY <1>1, <1>2 DEF Upto, From

LEMMA Neighbours ==
  ASSUME timers \in Seq(Timers), IsInjective(timers), NEW p \in 1 .. Len(timers),
         Placed(pass, timers, p)
  PROVE  /\ Upto(pass.prev) = SubSeq(timers, 1, p - 1)
         /\ From(pass.next) = SubSeq(timers, p + 1, Len(timers))
  <1>1. Upto(pass.prev) = SubSeq(timers, 1, p - 1)
    <2>1. CASE p = 1
      <3>1. pass.prev = None /\ SubSeq(timers, 1, p - 1) = <<>>
        BY <2>1 DEF Placed
      <3> QED BY <3>1 DEF Upto
    <2>2. CASE p # 1
      BY <2>2, PlaceOf DEF Placed
    <2> QED BY <2>1, <2>2
  <1>2. From(pass.next) = SubSeq(timers, p + 1, Len(timers))
    <2>1. CASE p = Len(timers)
      <3>1. pass.next = None /\ SubSeq(timers, p + 1, Len(timers)) = <<>>
        BY <2>1 DEF Placed
      <3> QED BY <3>1 DEF From
    <2>2. CASE p # Len(timers)
      BY <2>2, PlaceOf DEF Placed
    <2> QED BY <2>1, <2>2
  <1> QED BY <1>1, <1>2

LEMMA Parts ==
  ASSUME NEW s \in Seq(Timers), NEW p \in 1 .. Len(s)
  PROVE  /\ SubSeq(s, 1, p - 1) \in Seq(Timers) /\ Len(SubSeq(s, 1, p - 1)) = p - 1
         /\ \A i \in 1 .. p - 1 : SubSeq(s, 1, p - 1)[i] = s[i]
         /\ SubSeq(s, p + 1, Len(s)) \in Seq(Timers)
         /\ Len(SubSeq(s, p + 1, Len(s))) = Len(s) - p
         /\ \A i \in 1 .. Len(s) - p : SubSeq(s, p + 1, Len(s))[i] = s[p + i]
  <1>1. \A i \in 1 .. p - 1 : s[i] \in Timers
    OBVIOUS
  <1>2. \A i \in p + 1 .. Len(s) : s[i] \in Timers
    OBVIOUS
  <1>3. /\ SubSeq(s, 1, p - 1) \in Seq(Timers) /\ Len(SubSeq(s, 1, p - 1)) = p - 1
        /\ \A i \in 1 .. p - 1 : SubSeq(s, 1, p - 1)[i] = s[i]
    BY <1>1, SubSeqProperties
  <1>4. /\ SubSeq(s, p + 1, Len(s)) \in Seq(Timers)
        /\ Len(SubSeq(s, p + 1, Len(s))) = Len(s) - p
        /\ \A i \in 1 .. Len(s) - p : SubSeq(s, p + 1, Len(s))[i] = s[p + i]
    BY <1>2, SubSeqProperties
  <1> QED BY <1>3, <1>4

LEMMA Behind ==
  ASSUME NEW s \in Seq(Timers), NEW p \in 1 .. Len(s), NEW rest,
         rest = SubSeq(s, p + 1, Len(s))
  PROVE  /\ rest \in Seq(Timers) /\ Len(rest) = Len(s) - p
         /\ \A i \in 1 .. Len(s) - p : rest[i] = s[p + i]
  BY Parts, Zenon

LEMMA Whole ==
  ASSUME NEW s \in Seq(Timers), NEW p \in 1 .. Len(s)
  PROVE  SubSeq(s, 1, p - 1) \o <<s[p]>> \o SubSeq(s, p + 1, Len(s)) = s
  <1>1. <<s[p]>> = SubSeq(s, p, p)
    OBVIOUS
  <1>2. SubSeq(s, 1, p - 1) \o SubSeq(s, p, p) = SubSeq(s, 1, p)
    <2>1. 1 \in 1 .. Len(s) + 1 /\ p - 1 \in 1 - 1 .. Len(s) /\ p \in p - 1 .. Len(s) /\ p - 1 + 1 = p
      OBVIOUS
    <2> QED BY <2>1, ConcatAdjacentSubSeq
  <1>3. SubSeq(s, 1, p) \o SubSeq(s, p + 1, Len(s)) = SubSeq(s, 1, Len(s))
    <2>1. 1 \in 1 .. Len(s) + 1 /\ p \in 1 - 1 .. Len(s) /\ Len(s) \in p .. Len(s)
      OBVIOUS
    <2> QED BY <2>1, ConcatAdjacentSubSeq
  <1> QED BY <1>1, <1>2, <1>3, SubSeqFull

LEMMA Joined ==
  ASSUME NEW a \in Seq(Timers), NEW b \in Seq(Timers)
  PROVE  /\ a \o b \in Seq(Timers) /\ Len(a \o b) = Len(a) + Len(b)
         /\ \A i \in 1 .. Len(a) + Len(b) : (a \o b)[i] = IF i <= Len(a) THEN a[i] ELSE b[i - Len(a)]
  OBVIOUS

LEMMA JoinedAround ==
  ASSUME NEW s \in Seq(Timers), NEW p \in 1 .. Len(s), NEW a \in Seq(Timers),
         NEW b \in Seq(Timers), Len(a) = p - 1, Len(b) = Len(s) - p
  PROVE  /\ a \o b \in Seq(Timers)
         /\ Len(a \o b) = Len(s) - 1
         /\ \A i \in 1 .. Len(s) - 1 : (a \o b)[i] = IF i < p THEN a[i] ELSE b[i - p + 1]
  <1>1. a \o b \in Seq(Timers)
    BY Joined
  <1>2. Len(a \o b) = Len(a) + Len(b)
    BY Joined
  <1>3. Len(a) + Len(b) = Len(s) - 1
    OBVIOUS
  <1>4. ASSUME NEW i \in 1 .. Len(s) - 1 PROVE (a \o b)[i] = IF i < p THEN a[i] ELSE b[i - p + 1]
    <2>1. (a \o b)[i] = IF i <= Len(a) THEN a[i] ELSE b[i - Len(a)]
      BY <1>3, Joined
    <2>2. (i <= Len(a) <=> i < p) /\ i - Len(a) = i - p + 1
      OBVIOUS
    <2> QED BY <2>1, <2>2
  <1> QED BY <1>1, <1>2, <1>3, <1>4

Without(u, s, p) ==
  /\ Len(u) = Len(s) - 1
  /\ \A i \in 1 .. Len(u) : u[i] = IF i < p THEN s[i] ELSE s[i + 1]

LEMMA Taken ==
  ASSUME NEW s \in Seq(Timers), IsInjective(s), NEW p \in 1 .. Len(s),
         NEW u \in Seq(Timers), Without(u, s, p)
  PROVE  IsInjective(u) /\ ToSet(u) = ToSet(s) \ {s[p]}
  <1>0. /\ Len(u) = Len(s) - 1
        /\ \A i \in 1 .. Len(u) : u[i] = IF i < p THEN s[i] ELSE s[i + 1]
    BY DEF Without
  <1>1. /\ p \in Nat /\ Len(s) \in Nat /\ 1 <= p /\ p <= Len(s)
        /\ DOMAIN u = 1 .. Len(u) /\ DOMAIN s = 1 .. Len(s)
    OBVIOUS
  <1> DEFINE from(i) == IF i < p THEN i ELSE i + 1
  <1>2. \A i \in 1 .. Len(u) : /\ u[i] = s[from(i)]
                               /\ from(i) \in 1 .. Len(s) /\ from(i) # p
    BY <1>0, <1>1
  <1>3. \A i, j \in 1 .. Len(u) : from(i) = from(j) => i = j
    BY <1>0, <1>1
  <1>4. ASSUME NEW j \in 1 .. Len(s), j # p PROVE \E i \in 1 .. Len(u) : from(i) = j
    <2>1. CASE j < p
      <3>1. j \in 1 .. Len(u) /\ from(j) = j
        BY <1>0, <1>1, <2>1
      <3> QED BY <3>1
    <2>2. CASE j > p
      <3>1. j - 1 \in 1 .. Len(u) /\ from(j - 1) = j
        BY <1>0, <1>1, <2>2
      <3> QED BY <3>1
    <2> QED BY <1>1, <1>4, <2>1, <2>2
  <1> HIDE DEF from
  <1>5. IsInjective(u)
    <2> SUFFICES ASSUME NEW i \in 1 .. Len(u), NEW j \in 1 .. Len(u), u[i] = u[j]
                 PROVE  i = j
      BY <1>1 DEF IsInjective
    <2>1. s[from(i)] = s[from(j)] /\ from(i) \in 1 .. Len(s) /\ from(j) \in 1 .. Len(s)
      BY <1>2
    <2>2. from(i) = from(j)
      BY <1>1, <2>1 DEF IsInjective
    <2> QED BY <1>3, <2>2
  <1>6. ToSet(u) \subseteq ToSet(s) \ {s[p]}
    BY <1>1, <1>2 DEF ToSet, IsInjective
  <1>7. ToSet(s) \ {s[p]} \subseteq ToSet(u)
    <2> SUFFICES ASSUME NEW j \in 1 .. Len(s), s[j] # s[p] PROVE s[j] \in ToSet(u)
      BY <1>1 DEF ToSet
    <2>1. PICK i \in 1 .. Len(u) : from(i) = j
      BY <1>4
    <2> QED BY <1>1, <1>2, <2>1 DEF ToSet
  <1> QED BY <1>5, <1>6, <1>7

LEMMA Shorter ==
  ASSUME NEW s \in Seq(Timers), IsInjective(s), NEW p \in 1 .. Len(s)
  PROVE  \E u \in Seq(Timers) :
           /\ u = SubSeq(s, 1, p - 1) \o SubSeq(s, p + 1, Len(s))
           /\ Without(u, s, p) /\ IsInjective(u) /\ ToSet(u) = ToSet(s) \ {s[p]}
  <1>a. PICK a \in Seq(Timers) :
          /\ a = SubSeq(s, 1, p - 1) /\ Len(a) = p - 1
          /\ \A i \in 1 .. p - 1 : a[i] = s[i]
    BY Parts
  <1>b. PICK b \in Seq(Timers) :
          /\ b = SubSeq(s, p + 1, Len(s)) /\ Len(b) = Len(s) - p
          /\ \A i \in 1 .. Len(s) - p : b[i] = s[p + i]
    BY Parts
  <1>1. Len(a) = p - 1 /\ Len(b) = Len(s) - p
    BY <1>a, <1>b
  <1>2. PICK u \in Seq(Timers) :
          /\ u = a \o b /\ Len(u) = Len(s) - 1
          /\ \A i \in 1 .. Len(s) - 1 : u[i] = IF i < p THEN a[i] ELSE b[i - p + 1]
    <2>1. /\ a \o b \in Seq(Timers)
          /\ Len(a \o b) = Len(s) - 1
          /\ \A i \in 1 .. Len(s) - 1 : (a \o b)[i] = IF i < p THEN a[i] ELSE b[i - p + 1]
      <3>1. a \o b \in Seq(Timers)
        BY <1>1, JoinedAround
      <3>2. Len(a \o b) = Len(s) - 1
        BY <1>1, JoinedAround
      <3>3. \A i \in 1 .. Len(s) - 1 : (a \o b)[i] = IF i < p THEN a[i] ELSE b[i - p + 1]
        BY <1>1, JoinedAround
      <3> QED BY <3>1, <3>2, <3>3
    <2> QED BY <2>1, Zenon
  <1>3. ASSUME NEW i \in 1 .. Len(u) PROVE u[i] = IF i < p THEN s[i] ELSE s[i + 1]
    <2>1. i \in 1 .. Len(s) - 1
      BY <1>2
    <2>2. CASE i < p
      <3>1. i \in 1 .. p - 1
        BY <2>1, <2>2
      <3> QED BY <1>a, <1>2, <2>1, <2>2, <3>1
    <2>3. CASE ~(i < p)
      <3>1. i - p + 1 \in 1 .. Len(s) - p /\ p + (i - p + 1) = i + 1
        BY <2>1, <2>3
      <3> QED BY <1>b, <1>2, <2>1, <2>3, <3>1
    <2> QED BY <2>2, <2>3
  <1>4. Without(u, s, p)
    BY <1>2, <1>3 DEF Without
  <1>5. IsInjective(u) /\ ToSet(u) = ToSet(s) \ {s[p]}
    BY <1>4, Taken
  <1> QED BY <1>a, <1>b, <1>2, <1>4, <1>5, Zenon

LEMMA Longer ==
  ASSUME NEW s \in Seq(Timers), IsInjective(s), NEW t \in Timers, t \notin ToSet(s)
  PROVE  /\ <<t>> \o s \in Seq(Timers) /\ Len(<<t>> \o s) = Len(s) + 1
         /\ IsInjective(<<t>> \o s)
         /\ ToSet(<<t>> \o s) = ToSet(s) \cup {t}
  <1> DEFINE u == <<t>> \o s
  <1>1. /\ u \in Seq(Timers) /\ Len(u) = Len(s) + 1 /\ u[1] = t
        /\ \A i \in 1 .. Len(s) : u[i + 1] = s[i]
    OBVIOUS
  <1> HIDE DEF u
  <1>2. \A i \in 1 .. Len(u) :
          i = 1 \/ (i - 1 \in 1 .. Len(s) /\ u[i] = s[i - 1] /\ u[i] # t)
    BY <1>1 DEF ToSet
  <1>3. ASSUME NEW i \in 1 .. Len(u), NEW j \in 1 .. Len(u), u[i] = u[j] PROVE i = j
    <2>1. CASE i = 1 \/ j = 1
      BY <1>1, <1>2, <1>3, <2>1
    <2>2. CASE i # 1 /\ j # 1
      <3>1. i - 1 = j - 1
        BY <1>2, <1>3, <2>2 DEF IsInjective
      <3> QED BY <3>1
    <2> QED BY <2>1, <2>2
  <1>4. IsInjective(u)
    BY <1>1, <1>3 DEF IsInjective
  <1>5. ToSet(u) = ToSet(s) \cup {t}
    <2>1. \A i \in 1 .. Len(s) : i + 1 \in 1 .. Len(u) /\ u[i + 1] = s[i]
      BY <1>1
    <2>2. 1 \in 1 .. Len(u) /\ DOMAIN u = 1 .. Len(u) /\ DOMAIN s = 1 .. Len(s)
      BY <1>1
    <2>3. ToSet(u) \subseteq ToSet(s) \cup {t}
      <3> SUFFICES ASSUME NEW i \in 1 .. Len(u) PROVE u[i] \in ToSet(s) \cup {t}
        BY <2>2 DEF ToSet
      <3> QED BY <1>1, <1>2, <2>2 DEF ToSet
    <2>4. ToSet(s) \cup {t} \subseteq ToSet(u)
      BY <1>1, <2>1, <2>2 DEF ToSet
    <2> QED BY <2>3, <2>4
  <1> QED BY <1>1, <1>4, <1>5 DEF u

-----------------------------------------------------------------------------
(* Where the loop stops it knows the timer it calls and its neighbours.    *)
Stopped(prev, rest, now, next) ==
  \/ next = NoPass
  \/ \E k \in DOMAIN rest :
       next = [at |-> "call", now |-> now, t |-> rest[k],
               prev |-> IF k = 1 THEN prev ELSE rest[k - 1],
               next |-> IF k = Len(rest) THEN None ELSE rest[k + 1]]

LEMMA Scanned ==
  ASSUME TypeOK, NEW prev \in Timers \cup {None}, NEW rest \in Seq(Timers),
         NEW now \in 0 .. W - 1, NEW late \in Int,
         NEW intervals \in [Timers -> 0 .. W - 1], NEW freed,
         Scan(prev, rest, now, late, intervals, freed)
  PROVE  /\ Stopped(prev, rest, now, pass')
         /\ pass' \in Passes
         /\ pass'.at = "call" => pass'.t \in Timers
         /\ last_alarm' \in [Timers -> 0 .. W - 1]
         /\ lag' \in [Timers -> Int]
  <1> USE SDLTimersAssumption DEF TypeOK
  <1>1. Stopped(prev, rest, now, pass')
    BY DEF Scan, Stopped
  <1>2. pass' \in Passes /\ (pass'.at = "call" => pass'.t \in Timers)
    <2>1. NoPass \in Passes /\ NoPass.at = "idle"
      BY DEF NoPass, Passes
    <2>2. ASSUME NEW k \in DOMAIN rest,
                 pass' = [at |-> "call", now |-> now, t |-> rest[k],
                          prev |-> IF k = 1 THEN prev ELSE rest[k - 1],
                          next |-> IF k = Len(rest) THEN None ELSE rest[k + 1]]
          PROVE  pass' \in Passes /\ pass'.t \in Timers
      <3>1. rest[k] \in Timers
        OBVIOUS
      <3>2. (IF k = 1 THEN prev ELSE rest[k - 1]) \in Timers \cup {None}
        <4>1. k # 1 => k - 1 \in DOMAIN rest
          OBVIOUS
        <4> QED BY <4>1
      <3>3. (IF k = Len(rest) THEN None ELSE rest[k + 1]) \in Timers \cup {None}
        <4>1. k # Len(rest) => k + 1 \in DOMAIN rest
          OBVIOUS
        <4> QED BY <4>1
      <3> QED BY <2>2, <3>1, <3>2, <3>3 DEF Passes
    <2> QED BY <1>1, <2>1, <2>2 DEF Stopped
  <1>3. last_alarm' \in [Timers -> 0 .. W - 1] /\ lag' \in [Timers -> Int]
    <2>1. CASE /\ last_alarm' = Forgotten(last_alarm, freed)
               /\ lag' = Forgotten(lag, freed)
      BY <2>1 DEF Forgotten
    <2>2. ASSUME NEW t \in Timers, Alarm(t, now, late, intervals, freed)
          PROVE  last_alarm' \in [Timers -> 0 .. W - 1] /\ lag' \in [Timers -> Int]
      <3> DEFINE sum == (last_alarm[t] + intervals[t]) % W
                 inTime == (now - last_alarm[t]) % W < intervals[t]
                 alarms1 == [last_alarm EXCEPT ![t] = IF inTime THEN sum ELSE now]
                 lag1 == [lag EXCEPT ![t] =
                   IF ~inTime THEN late ELSE IF @ = MaxLag THEN MaxLag ELSE @ - intervals[t]]
      <3>1. last_alarm' = Forgotten(alarms1, freed) /\ lag' = Forgotten(lag1, freed)
        BY <2>2, Zenon DEF Alarm
      <3>2. sum \in 0 .. W - 1
        <4>1. last_alarm[t] + intervals[t] \in Int /\ W \in Nat \ {0}
          OBVIOUS
        <4> QED BY <4>1, ModTyped
      <3> HIDE DEF sum, inTime
      <3>3. alarms1 \in [Timers -> 0 .. W - 1]
        BY <3>2
      <3>4. lag1 \in [Timers -> Int]
        OBVIOUS
      <3> HIDE DEF alarms1, lag1
      <3>5. Forgotten(alarms1, freed) \in [Timers -> 0 .. W - 1]
        <4>1. 0 \in 0 .. W - 1
          BY ModTyped
        <4> QED BY <3>3, <4>1 DEF Forgotten
      <3>6. Forgotten(lag1, freed) \in [Timers -> Int]
        BY <3>4 DEF Forgotten
      <3> QED BY <3>1, <3>5, <3>6
    <2>3. \/ /\ last_alarm' = Forgotten(last_alarm, freed)
             /\ lag' = Forgotten(lag, freed)
          \/ \E t \in Timers : Alarm(t, now, late, intervals, freed)
      BY DEF Scan
    <2> QED BY <2>1, <2>2, <2>3
  <1> QED BY <1>1, <1>2, <1>3

(* A loop that goes on over the end of the list, q timers from its start,  *)
(* stops at a place of the list.                                           *)
LEMMA Continues ==
  ASSUME NEW s \in Seq(Timers), NEW rest \in Seq(Timers), NEW q \in Nat,
         Len(s) = q + Len(rest), \A i \in 1 .. Len(rest) : rest[i] = s[q + i],
         NEW prev, prev = IF q = 0 THEN None ELSE s[q],
         NEW now, NEW call, Stopped(prev, rest, now, call), call.at = "call"
  PROVE  \E p \in DOMAIN s : Placed(call, s, p)
  <1>1. PICK k \in DOMAIN rest :
          call = [at |-> "call", now |-> now, t |-> rest[k],
                  prev |-> IF k = 1 THEN prev ELSE rest[k - 1],
                  next |-> IF k = Len(rest) THEN None ELSE rest[k + 1]]
    BY DEF Stopped, NoPass
  <1>2. k \in 1 .. Len(rest) /\ q + k \in 1 .. Len(s) /\ q + k \in DOMAIN s
    OBVIOUS
  <1>3. call.t = s[q + k]
    BY <1>1, <1>2
  <1>4. call.prev = IF q + k = 1 THEN None ELSE s[q + k - 1]
    <2>1. CASE k = 1
      BY <1>1, <1>2, <2>1
    <2>2. CASE k # 1
      <3>1. k - 1 \in 1 .. Len(rest) /\ q + (k - 1) = q + k - 1 /\ q + k # 1
        BY <1>2, <2>2
      <3> QED BY <1>1, <2>2, <3>1
    <2> QED BY <2>1, <2>2
  <1>5. call.next = IF q + k = Len(s) THEN None ELSE s[q + k + 1]
    <2>1. CASE k = Len(rest)
      BY <1>1, <1>2, <2>1
    <2>2. CASE k # Len(rest)
      <3>0. Len(rest) \in Nat /\ k \in Nat /\ k <= Len(rest)
        BY <1>2
      <3>1. k + 1 \in 1 .. Len(rest)
        BY <2>2, <3>0
      <3>2. q + (k + 1) = q + k + 1 /\ q + k # Len(s)
        BY <2>2, <3>0
      <3> QED BY <1>1, <2>2, <3>1, <3>2
    <2> QED BY <2>1, <2>2
  <1>6. Placed(call, s, q + k)
    BY <1>3, <1>4, <1>5 DEF Placed
  <1> QED BY <1>2, <1>6, Zenon

-----------------------------------------------------------------------------
LEMMA InitIInv == Init => IInv
  <1> SUFFICES ASSUME Init PROVE IInv
    OBVIOUS
  <1> USE SDLTimersAssumption DEF Init
  <1>1. NoPass \in Passes /\ NoPass.at = "idle"
    BY DEF NoPass, Passes
  <1>2. TypeOK
    <2>1. 0 \in 0 .. W - 1
      OBVIOUS
    <2>2. /\ interval \in [Timers -> 0 .. W - 1] /\ last_alarm \in [Timers -> 0 .. W - 1]
          /\ lag \in [Timers -> Int]
      BY <2>1
    <2>3. timers \in Seq(Timers) /\ heap \subseteq Timers /\ running \in Nat
      OBVIOUS
    <2>4. /\ started \in BOOLEAN /\ list_changed \in BOOLEAN /\ pass \in Passes
          /\ time \in 0 .. W - 1 /\ passed \in Nat
      BY <1>1
    <2> QED BY <2>2, <2>3, <2>4 DEF TypeOK
  <1>3. Listed
    BY DEF Listed, ToSet, IsInjective
  <1>4. PassTyped /\ PassPlaced
    BY <1>1 DEF PassTyped, PassPlaced, Calling
  <1> QED BY <1>2, <1>3, <1>4 DEF IInv

LEMMA BeginPassKeeps ==
  ASSUME IInv, BeginPass
  PROVE  IInv'
  <1>1. /\ TypeOK /\ Listed /\ timers \in Seq(Timers) /\ interval \in [Timers -> 0 .. W - 1]
        /\ time \in 0 .. W - 1
    BY DEF IInv, TypeOK
  <1>2. /\ Scan(None, timers, GetTicks, 0, interval, {})
        /\ passed' = 0 /\ list_changed' = FALSE
        /\ UNCHANGED <<started, list, interval, time>>
    BY DEF BeginPass
  <1>3. GetTicks \in 0 .. W - 1 /\ None \in Timers \cup {None} /\ 0 \in Int
    BY <1>1, TicksTyped
  <1>4. /\ Stopped(None, timers, GetTicks, pass')
        /\ pass' \in Passes /\ (pass'.at = "call" => pass'.t \in Timers)
        /\ last_alarm' \in [Timers -> 0 .. W - 1] /\ lag' \in [Timers -> Int]
    BY <1>1, <1>2, <1>3, Scanned
  <1>5. TypeOK'
    BY <1>1, <1>2, <1>4 DEF TypeOK, list
  <1>6. Listed'
    BY <1>1, <1>2 DEF Listed, list
  <1>7. PassTyped'
    BY <1>4 DEF PassTyped
  <1>8. PassPlaced'
    <2>1. timers' = timers
      BY <1>2 DEF list
    <2>2. ASSUME pass'.at = "call" PROVE \E p \in DOMAIN timers : Placed(pass', timers, p)
      <3>1. /\ 0 \in Nat /\ Len(timers) = 0 + Len(timers)
            /\ \A i \in 1 .. Len(timers) : timers[i] = timers[0 + i]
            /\ None = IF 0 = 0 THEN None ELSE timers[0]
        BY <1>1
      <3> QED BY <1>1, <1>4, <2>2, <3>1, Continues
    <2> QED BY <2>1, <2>2 DEF PassPlaced, Calling, Placed
  <1> QED BY <1>5, <1>6, <1>7, <1>8 DEF IInv

-----------------------------------------------------------------------------
LEMMA AbortKeeps ==
  ASSUME IInv, NEW ms, Abort(ms), UNCHANGED <<started, list_changed, time, passed>>
  PROVE  IInv'
  <1>1. NoPass \in Passes /\ NoPass.at = "idle"
    BY SDLTimersAssumption DEF NoPass, Passes
  <1> QED BY <1>1 DEF IInv, TypeOK, Listed, PassTyped, PassPlaced, Calling, Abort, list, alarms

(* Where a pass is that goes on.                                           *)
LEMMA Resumes ==
  ASSUME IInv, pass.at = "call", ~list_changed
  PROVE  \E p \in 1 .. Len(timers) :
           /\ Placed(pass, timers, p) /\ pass.t = timers[p] /\ pass.t \in Timers
           /\ pass.prev \in Timers \cup {None} /\ pass.now \in 0 .. W - 1
           /\ Upto(pass.prev) = SubSeq(timers, 1, p - 1)
           /\ From(pass.next) = SubSeq(timers, p + 1, Len(timers))
  <1>1. timers \in Seq(Timers) /\ IsInjective(timers) /\ pass \in Passes
    BY DEF IInv, TypeOK, Listed
  <1>2. PICK p \in 1 .. Len(timers) : Placed(pass, timers, p)
    BY <1>1 DEF IInv, PassPlaced, Calling
  <1>3. pass.t = timers[p] /\ pass.t \in Timers
    BY <1>1, <1>2 DEF Placed
  <1>4. pass.prev \in Timers \cup {None} /\ pass.now \in 0 .. W - 1
    BY <1>1 DEF Passes
  <1> QED BY <1>1, <1>2, <1>3, <1>4, Neighbours

LEMMA KeepKeeps ==
  ASSUME IInv, pass.at = "call", NEW ms \in 0 .. W - 1, Keep(ms),
         UNCHANGED <<started, list_changed, time, passed>>
  PROVE  IInv'
  <1> DEFINE new == [interval EXCEPT ![pass.t] = IF ms = @ THEN @ ELSE Rounded(ms)]
             rest == From(pass.next)
  <1>1. /\ TypeOK /\ Listed /\ timers \in Seq(Timers) /\ interval \in [Timers -> 0 .. W - 1]
        /\ passed \in Int
    BY DEF IInv, TypeOK
  <1>2. /\ ~list_changed /\ interval' = new /\ UNCHANGED list
        /\ Scan(pass.t, rest, pass.now, passed, new, {})
    BY DEF Keep
  <1>3. PICK p \in 1 .. Len(timers) :
          /\ Placed(pass, timers, p) /\ pass.t = timers[p] /\ pass.t \in Timers
          /\ pass.now \in 0 .. W - 1
          /\ rest = SubSeq(timers, p + 1, Len(timers))
    BY <1>2, Resumes
  <1>4. /\ rest \in Seq(Timers) /\ Len(rest) = Len(timers) - p
        /\ \A i \in 1 .. Len(timers) - p : rest[i] = timers[p + i]
    BY <1>1, <1>3, Behind
  <1>5. new \in [Timers -> 0 .. W - 1]
    BY <1>1, RoundedTyped
  <1> HIDE DEF new, rest
  <1>6. /\ Stopped(pass.t, rest, pass.now, pass')
        /\ pass' \in Passes /\ (pass'.at = "call" => pass'.t \in Timers)
        /\ last_alarm' \in [Timers -> 0 .. W - 1] /\ lag' \in [Timers -> Int]
    <2>1. pass.t \in Timers \cup {None}
      BY <1>3
    <2> QED BY <1>1, <1>2, <1>3, <1>4, <1>5, <2>1, Scanned
  <1>7. TypeOK'
    BY <1>1, <1>2, <1>5, <1>6 DEF TypeOK, list
  <1>8. Listed'
    BY <1>1, <1>2 DEF Listed, list
  <1>9. PassTyped'
    BY <1>6 DEF PassTyped
  <1>10. PassPlaced'
    <2>1. timers' = timers
      BY <1>2 DEF list
    <2>2. ASSUME pass'.at = "call" PROVE \E i \in DOMAIN timers : Placed(pass', timers, i)
      <3>1. /\ p \in Nat /\ Len(timers) = p + Len(rest)
            /\ \A i \in 1 .. Len(rest) : rest[i] = timers[p + i]
            /\ pass.t = IF p = 0 THEN None ELSE timers[p]
        BY <1>1, <1>3, <1>4
      <3> QED BY <1>1, <1>4, <1>6, <2>2, <3>1, Continues
    <2> QED BY <2>1, <2>2 DEF PassPlaced, Calling, Placed
  <1> QED BY <1>7, <1>8, <1>9, <1>10 DEF IInv

LEMMA CancelKeeps ==
  ASSUME IInv, pass.at = "call", NEW ms, Cancel(ms),
         UNCHANGED <<started, list_changed, time, passed>>
  PROVE  IInv'
  <1> DEFINE rest == From(pass.next)
  <1>1. /\ TypeOK /\ Listed /\ timers \in Seq(Timers) /\ interval \in [Timers -> 0 .. W - 1]
        /\ passed \in Int /\ IsInjective(timers)
    BY DEF IInv, TypeOK, Listed
  <1>2. /\ ~list_changed /\ timers' = Upto(pass.prev) \o rest
        /\ heap' = heap \ {pass.t} /\ running' = running - 1
        /\ Scan(pass.prev, rest, pass.now, passed, interval, {pass.t})
        /\ interval' = Forgotten(interval, {pass.t})
    BY DEF Cancel
  <1>3. PICK p \in 1 .. Len(timers) :
          /\ Placed(pass, timers, p) /\ pass.t = timers[p] /\ pass.t \in Timers
          /\ pass.prev \in Timers \cup {None} /\ pass.now \in 0 .. W - 1
          /\ Upto(pass.prev) = SubSeq(timers, 1, p - 1)
          /\ rest = SubSeq(timers, p + 1, Len(timers))
    BY <1>2, Resumes
  <1>4. /\ rest \in Seq(Timers) /\ Len(rest) = Len(timers) - p
        /\ \A i \in 1 .. Len(timers) - p : rest[i] = timers[p + i]
    BY <1>1, <1>3, Behind
  <1> HIDE DEF rest
  <1>5. /\ timers' \in Seq(Timers) /\ Without(timers', timers, p)
        /\ IsInjective(timers') /\ ToSet(timers') = ToSet(timers) \ {pass.t}
    BY <1>1, <1>2, <1>3, Shorter
  <1>6. /\ Stopped(pass.prev, rest, pass.now, pass')
        /\ pass' \in Passes /\ (pass'.at = "call" => pass'.t \in Timers)
        /\ last_alarm' \in [Timers -> 0 .. W - 1] /\ lag' \in [Timers -> Int]
    BY <1>1, <1>2, <1>3, <1>4, Scanned
  <1>7. Len(timers') = Len(timers) - 1 /\ running >= Len(timers) /\ Len(timers) >= 1
    BY <1>1, <1>3, <1>5 DEF Without, Listed
  <1>8. TypeOK'
    <2>1. running' \in Nat
      BY <1>1, <1>2, <1>7 DEF TypeOK
    <2>2. interval' \in [Timers -> 0 .. W - 1]
      <3>1. 0 \in 0 .. W - 1
        BY SDLTimersAssumption
      <3> QED BY <1>1, <1>2, <3>1 DEF Forgotten
    <2> QED BY <1>1, <1>2, <1>5, <1>6, <2>1, <2>2 DEF TypeOK
  <1>9. Listed'
    <2>1. running' >= Len(timers')
      BY <1>1, <1>2, <1>7 DEF TypeOK
    <2>2. started
      BY <1>1, <1>7 DEF Listed
    <2> QED BY <1>1, <1>2, <1>5, <2>1, <2>2 DEF Listed
  <1>10. PassTyped'
    BY <1>6 DEF PassTyped
  <1>11. PassPlaced'
    <2>1. ASSUME pass'.at = "call" PROVE \E i \in DOMAIN timers' : Placed(pass', timers', i)
      <3>0. p \in Nat /\ p >= 1 /\ Len(timers) \in Nat
        BY <1>1
      <3>1. p - 1 \in Nat /\ Len(timers') = (p - 1) + Len(rest)
        BY <1>4, <1>7, <3>0
      <3>2. \A i \in 1 .. Len(timers') :
              timers'[i] = IF i < p THEN timers[i] ELSE timers[i + 1]
        BY <1>5 DEF Without
      <3>3. ASSUME NEW i \in 1 .. Len(rest) PROVE rest[i] = timers'[(p - 1) + i]
        <4>1. /\ (p - 1) + i \in 1 .. Len(timers') /\ ~((p - 1) + i < p)
              /\ (p - 1) + i + 1 = p + i /\ i \in 1 .. Len(timers) - p
          <5>1. i \in Nat /\ i >= 1 /\ i <= Len(rest) /\ Len(rest) \in Nat
            BY <1>4
          <5> QED BY <1>4, <3>0, <3>1, <5>1
        <4> QED BY <1>4, <3>2, <4>1
      <3>4. pass.prev = IF p - 1 = 0 THEN None ELSE timers'[p - 1]
        <4>1. CASE p = 1
          BY <1>3, <4>1 DEF Placed
        <4>2. CASE p # 1
          <5>1. p - 1 \in 1 .. Len(timers') /\ p - 1 < p /\ p - 1 # 0
            BY <1>1, <1>7, <4>2
          <5> QED BY <1>3, <3>2, <4>2, <5>1 DEF Placed
        <4> QED BY <4>1, <4>2
      <3> QED BY <1>4, <1>5, <1>6, <2>1, <3>1, <3>3, <3>4, Continues
    <2> QED BY <2>1 DEF PassPlaced, Calling, Placed
  <1> QED BY <1>8, <1>9, <1>10, <1>11 DEF IInv

LEMMA ReturnKeeps ==
  ASSUME IInv, Return
  PROVE  IInv'
  <1>1. pass.t \in Timers => interval[pass.t] \in 0 .. W - 1
    BY DEF IInv, TypeOK
  <1>2. PICK ms \in Returns \cup {interval[pass.t]} : Abort(ms) \/ Keep(ms) \/ Cancel(ms)
    BY DEF Return
  <1>3. pass.at = "call" /\ UNCHANGED <<started, list_changed, time, passed>>
    BY DEF Return
  <1>4. ms \in 0 .. W - 1
    BY <1>1, <1>3, SDLTimersAssumption DEF IInv, PassTyped
  <1> QED BY <1>2, <1>3, <1>4, AbortKeeps, KeepKeeps, CancelKeeps

-----------------------------------------------------------------------------
LEMMA ForgottenTyped ==
  ASSUME NEW S, 0 \in S, NEW f \in [Timers -> S], NEW nodes
  PROVE  Forgotten(f, nodes) \in [Timers -> S]
  BY DEF Forgotten

LEMMA AddInternalKeeps ==
  ASSUME IInv, started, NEW ms \in 0 .. W - 1, NEW rest \in Seq(Timers), NEW nodes, NEW count \in Nat,
         IsInjective(rest), ToSet(rest) = nodes, nodes \subseteq Timers, count >= Len(rest),
         AddInternal(ms, rest, nodes, count),
         UNCHANGED <<started, pass, time, passed>>
  PROVE  IInv'
  <1>1. PICK t \in Timers \ nodes :
          /\ timers' = <<t>> \o rest
          /\ heap' = nodes \cup {t}
          /\ running' = count + 1
          /\ interval' = [Forgotten(interval, heap \ nodes) EXCEPT ![t] = Rounded(ms)]
          /\ last_alarm' = [Forgotten(last_alarm, heap \ nodes) EXCEPT ![t] = GetTicks]
          /\ lag' = [Forgotten(lag, heap \ nodes) EXCEPT ![t] = 0]
          /\ list_changed' = TRUE
    BY Zenon DEF AddInternal
  <1>2. /\ <<t>> \o rest \in Seq(Timers) /\ Len(<<t>> \o rest) = Len(rest) + 1
        /\ IsInjective(<<t>> \o rest) /\ ToSet(<<t>> \o rest) = ToSet(rest) \cup {t}
    <2>1. t \in Timers /\ t \notin ToSet(rest)
      OBVIOUS
    <2> QED BY <2>1, Longer
  <1>3. /\ timers' \in Seq(Timers) /\ Len(timers') = Len(rest) + 1
        /\ IsInjective(timers') /\ ToSet(timers') = heap'
    BY <1>1, <1>2, Zenon
  <1>4. 0 \in 0 .. W - 1 /\ 0 \in Int
    BY SDLTimersAssumption
  <1>5. /\ interval \in [Timers -> 0 .. W - 1] /\ last_alarm \in [Timers -> 0 .. W - 1]
        /\ lag \in [Timers -> Int] /\ time \in 0 .. W - 1
    BY DEF IInv, TypeOK
  <1>6. Rounded(ms) \in 0 .. W - 1 /\ GetTicks \in 0 .. W - 1
    BY <1>5, RoundedTyped, TicksTyped
  <1>7. interval' \in [Timers -> 0 .. W - 1]
    <2>1. Forgotten(interval, heap \ nodes) \in [Timers -> 0 .. W - 1]
      BY <1>4, <1>5, ForgottenTyped
    <2> QED BY <1>1, <1>6, <2>1
  <1>8. last_alarm' \in [Timers -> 0 .. W - 1]
    <2>1. Forgotten(last_alarm, heap \ nodes) \in [Timers -> 0 .. W - 1]
      BY <1>4, <1>5, ForgottenTyped
    <2> QED BY <1>1, <1>6, <2>1
  <1>9. lag' \in [Timers -> Int]
    <2>1. Forgotten(lag, heap \ nodes) \in [Timers -> Int]
      BY <1>4, <1>5, ForgottenTyped
    <2> QED BY <1>1, <1>4, <2>1
  <1>10. TypeOK'
    <2>1. running' \in Nat /\ heap' \subseteq Timers
      BY <1>1
    <2>2. /\ started' \in BOOLEAN /\ list_changed' \in BOOLEAN /\ pass' \in Passes
          /\ time' \in 0 .. W - 1 /\ passed' \in Nat
      BY <1>1 DEF IInv, TypeOK
    <2> QED BY <1>3, <1>7, <1>8, <1>9, <2>1, <2>2 DEF TypeOK
  <1>11. Listed'
    <2>1. running' >= Len(timers')
      BY <1>1, <1>3
    <2> QED BY <1>3, <2>1 DEF Listed
  <1>12. PassTyped'
    BY DEF IInv, PassTyped
  <1>13. PassPlaced'
    BY <1>1 DEF PassPlaced, Calling
  <1> QED BY <1>10, <1>11, <1>12, <1>13 DEF IInv

LEMMA AddTimerKeeps ==
  ASSUME IInv, NEW ms \in 0 .. W - 1, AddTimer(ms)
  PROVE  IInv'
  <1>1. /\ timers \in Seq(Timers) /\ heap \subseteq Timers /\ running \in Nat
        /\ ToSet(timers) = heap /\ IsInjective(timers) /\ running >= Len(timers)
    BY DEF IInv, TypeOK, Listed
  <1>2. /\ started /\ AddInternal(ms, timers, heap, running)
        /\ UNCHANGED <<started, pass, time, passed>>
    BY DEF AddTimer
  <1> QED BY <1>1, <1>2, AddInternalKeeps

LEMMA Empty ==
  /\ <<>> \in Seq(Timers) /\ Len(<<>>) = 0 /\ IsInjective(<<>>) /\ ToSet(<<>>) = {}
  BY DEF IsInjective, ToSet

LEMMA SetTimerKeeps ==
  ASSUME IInv, NEW ms \in 0 .. W - 1, SetTimer(ms)
  PROVE  IInv'
  <1>1. /\ timers \in Seq(Timers) /\ heap \subseteq Timers /\ running \in Nat
        /\ ToSet(timers) = heap /\ running >= Len(timers)
    BY DEF IInv, TypeOK, Listed
  <1>2. started /\ UNCHANGED <<started, pass, time, passed>>
    BY DEF SetTimer
  <1>3. AddInternal(ms, <<>>, {}, 0)
    <2>1. CASE running = 0
      <3>1. Len(timers) = 0
        BY <1>1, <2>1
      <3>2. timers = <<>>
        BY <1>1, <3>1, EmptySeq
      <3>3. heap = {}
        BY <1>1, <3>2, Empty
      <3>4. AddInternal(ms, timers, heap, 0)
        BY <2>1 DEF SetTimer
      <3> QED BY <3>2, <3>3, <3>4
    <2>2. CASE running # 0
      <3>1. heap \ ToSet(timers) = {}
        BY <1>1
      <3>2. AddInternal(ms, <<>>, heap \ ToSet(timers), 0)
        BY <2>2 DEF SetTimer
      <3> QED BY <3>1, <3>2
    <2> QED BY <2>1, <2>2
  <1>4. {} \subseteq Timers /\ 0 \in Nat /\ 0 >= Len(<<>>)
    BY Empty
  <1> QED BY <1>2, <1>3, <1>4, Empty, AddInternalKeeps

LEMMA RemoveTimerKeeps ==
  ASSUME IInv, NEW t \in Timers, RemoveTimer(t)
  PROVE  IInv'
  <1>1. /\ timers \in Seq(Timers) /\ heap \subseteq Timers /\ running \in Nat
        /\ ToSet(timers) = heap /\ IsInjective(timers) /\ running >= Len(timers)
        /\ (~started => timers = <<>>)
    BY DEF IInv, TypeOK, Listed
  <1>2. PICK p \in 1 .. Len(timers) : timers[p] = t /\ timers' = RemoveAt(timers, p)
    BY <1>1 DEF RemoveTimer
  <1>3. /\ heap' = heap \ {t} /\ running' = running - 1 /\ list_changed' = TRUE
        /\ Forget({t}) /\ UNCHANGED <<started, pass, time, passed>>
    BY DEF RemoveTimer
  <1>4. /\ timers' \in Seq(Timers) /\ Len(timers') = Len(timers) - 1
        /\ IsInjective(timers') /\ ToSet(timers') = ToSet(timers) \ {timers[p]}
    <2>1. RemoveAt(timers, p) = SubSeq(timers, 1, p - 1) \o SubSeq(timers, p + 1, Len(timers))
      BY DEF RemoveAt
    <2>2. PICK u \in Seq(Timers) :
            /\ u = SubSeq(timers, 1, p - 1) \o SubSeq(timers, p + 1, Len(timers))
            /\ Without(u, timers, p) /\ IsInjective(u) /\ ToSet(u) = ToSet(timers) \ {timers[p]}
      BY <1>1, Shorter
    <2>3. timers' = u
      BY <1>2, <2>1, <2>2, Zenon
    <2>4. Len(u) = Len(timers) - 1
      BY <2>2 DEF Without
    <2> QED BY <2>2, <2>3, <2>4, Zenon
  <1>5. Len(timers) \in Nat /\ Len(timers) >= 1
    BY <1>1
  <1>6. TypeOK'
    <2>1. running' \in Nat /\ heap' \subseteq Timers
      BY <1>1, <1>3, <1>5
    <2>2. /\ interval' \in [Timers -> 0 .. W - 1] /\ last_alarm' \in [Timers -> 0 .. W - 1]
          /\ lag' \in [Timers -> Int]
      <3>1. 0 \in 0 .. W - 1 /\ 0 \in Int
        BY SDLTimersAssumption
      <3>2. /\ interval \in [Timers -> 0 .. W - 1] /\ last_alarm \in [Timers -> 0 .. W - 1]
            /\ lag \in [Timers -> Int]
        BY DEF IInv, TypeOK
      <3> QED BY <1>3, <3>1, <3>2, ForgottenTyped DEF Forget
    <2>3. /\ started' \in BOOLEAN /\ list_changed' \in BOOLEAN /\ pass' \in Passes
          /\ time' \in 0 .. W - 1 /\ passed' \in Nat
      BY <1>3 DEF IInv, TypeOK
    <2> QED BY <1>4, <2>1, <2>2, <2>3 DEF TypeOK
  <1>7. Listed'
    <2>1. running' >= Len(timers')
      BY <1>1, <1>3, <1>4, <1>5
    <2>2. ToSet(timers') = heap'
      BY <1>1, <1>2, <1>3, <1>4
    <2>3. started
      <3>1. timers # <<>>
        BY <1>5, Empty
      <3> QED BY <1>1, <3>1
    <2> QED BY <1>3, <1>4, <2>1, <2>2, <2>3 DEF Listed
  <1>8. PassTyped'
    BY <1>3 DEF IInv, PassTyped
  <1>9. PassPlaced'
    BY <1>3 DEF PassPlaced, Calling
  <1> QED BY <1>6, <1>7, <1>8, <1>9 DEF IInv

LEMMA ClearTimersKeeps ==
  ASSUME IInv, started' \in BOOLEAN, ClearTimers, UNCHANGED <<pass, time>>, passed' \in Nat,
         started
  PROVE  IInv'
  <1>1. /\ timers \in Seq(Timers) /\ heap \subseteq Timers /\ running \in Nat
        /\ ToSet(timers) = heap /\ IsInjective(timers) /\ running >= Len(timers)
        /\ interval \in [Timers -> 0 .. W - 1] /\ last_alarm \in [Timers -> 0 .. W - 1]
        /\ lag \in [Timers -> Int] /\ pass \in Passes /\ time \in 0 .. W - 1
        /\ list_changed \in BOOLEAN
    BY DEF IInv, TypeOK, Listed
  <1>2. CASE running = 0
    <2>1. Len(timers) = 0
      BY <1>1, <1>2
    <2>2. timers = <<>>
      BY <1>1, <2>1, EmptySeq
    <2>3. UNCHANGED <<list, alarms, list_changed>>
      BY <1>2 DEF ClearTimers
    <2>4. TypeOK'
      BY <1>1, <2>3 DEF TypeOK, list, alarms
    <2>5. Listed'
      BY <1>1, <2>2, <2>3 DEF Listed, list
    <2>6. PassTyped' /\ PassPlaced'
      BY <2>3 DEF IInv, PassTyped, PassPlaced, Calling, list
    <2> QED BY <2>4, <2>5, <2>6 DEF IInv
  <1>3. CASE running # 0
    <2>1. /\ timers' = <<>> /\ heap' = heap \ ToSet(timers) /\ running' = 0
          /\ list_changed' = TRUE /\ Forget(ToSet(timers))
      BY <1>3 DEF ClearTimers
    <2>2. heap' = {}
      BY <1>1, <2>1
    <2>3. /\ interval' \in [Timers -> 0 .. W - 1] /\ last_alarm' \in [Timers -> 0 .. W - 1]
          /\ lag' \in [Timers -> Int]
      <3>1. 0 \in 0 .. W - 1 /\ 0 \in Int
        BY SDLTimersAssumption
      <3> QED BY <1>1, <2>1, <3>1, ForgottenTyped DEF Forget
    <2>4. TypeOK'
      BY <1>1, <2>1, <2>2, <2>3, Empty DEF TypeOK
    <2>5. Listed'
      <3>1. ToSet(timers') = heap' /\ IsInjective(timers')
        BY <2>1, <2>2, Empty
      <3>2. running' >= Len(timers')
        BY <2>1, Empty
      <3> QED BY <2>1, <3>1, <3>2 DEF Listed
    <2>6. PassTyped' /\ PassPlaced'
      BY <2>1 DEF IInv, PassTyped, PassPlaced, Calling
    <2> QED BY <2>4, <2>5, <2>6 DEF IInv
  <1> QED BY <1>2, <1>3

LEMMA TooEarlyKeeps ==
  ASSUME IInv, NEW ms, SetTimerTooEarly(ms)
  PROVE  IInv'
  <1>1. /\ ~started /\ running' \in {0, 1}
        /\ UNCHANGED <<started, timers, heap, alarms, list_changed, pass, time, passed>>
    BY DEF SetTimerTooEarly
  <1>2. TypeOK'
    BY <1>1 DEF IInv, TypeOK, alarms
  <1>3. Listed'
    <2>1. timers = <<>>
      BY <1>1 DEF IInv, Listed
    <2>2. running' >= Len(timers')
      BY <1>1, <2>1, Empty
    <2> QED BY <1>1, <2>2 DEF IInv, Listed
  <1>4. PassTyped' /\ PassPlaced'
    BY <1>1 DEF IInv, PassTyped, PassPlaced, Calling
  <1> QED BY <1>2, <1>3, <1>4 DEF IInv

LEMMA TimerInitKeeps ==
  ASSUME IInv, TimerInit
  PROVE  IInv'
  BY DEF IInv, TypeOK, Listed, PassTyped, PassPlaced, Calling, TimerInit, list, alarms

LEMMA TickKeeps ==
  ASSUME IInv, Tick
  PROVE  IInv'
  <1>1. UNCHANGED <<started, timers, heap, running, interval, last_alarm, list_changed, pass>>
    BY DEF Tick, list
  <1>2. TypeOK'
    <2>1. time' \in 0 .. W - 1
      <3>1. time + 1 \in Int /\ W \in Nat \ {0}
        BY SDLTimersAssumption DEF IInv, TypeOK
      <3> QED BY <3>1, ModTyped DEF Tick
    <2>2. lag' \in [Timers -> Int]
      BY DEF IInv, TypeOK, Tick
    <2>3. passed' \in Nat
      BY DEF IInv, TypeOK, Tick
    <2> QED BY <1>1, <2>1, <2>2, <2>3 DEF IInv, TypeOK
  <1>3. Listed' /\ PassTyped' /\ PassPlaced'
    BY <1>1 DEF IInv, Listed, PassTyped, PassPlaced, Calling
  <1> QED BY <1>2, <1>3 DEF IInv

LEMMA NextIInv == IInv /\ [Next]_vars => IInv'
  <1> SUFFICES ASSUME IInv, [Next]_vars PROVE IInv'
    OBVIOUS
  <1>1. ASSUME NEW ms \in Intervals, AddTimer(ms) \/ SetTimer(ms) PROVE IInv'
    <2>1. ms \in 0 .. W - 1
      BY SDLTimersAssumption
    <2> QED BY <1>1, <2>1, AddTimerKeeps, SetTimerKeeps
  <1>2. ASSUME NEW t \in Timers, RemoveTimer(t) PROVE IInv'
    BY <1>2, RemoveTimerKeeps
  <1>3. CASE StopTimer
    <2>1. started' \in BOOLEAN /\ passed' \in Nat
      BY <1>3 DEF StopTimer, IInv, TypeOK
    <2> QED BY <1>3, <2>1, ClearTimersKeeps DEF StopTimer
  <1>4. CASE TimerQuit
    <2>1. started' \in BOOLEAN /\ passed' \in Nat
      BY <1>4 DEF TimerQuit
    <2> QED BY <1>4, <2>1, ClearTimersKeeps DEF TimerQuit
  <1>5. CASE TimerInit
    BY <1>5, TimerInitKeeps
  <1>6. ASSUME NEW ms \in Intervals \cup {0}, SetTimerTooEarly(ms) PROVE IInv'
    BY <1>6, TooEarlyKeeps
  <1>7. CASE ThreadedTimerCheck
    BY <1>7, BeginPassKeeps, ReturnKeeps DEF ThreadedTimerCheck
  <1>8. CASE Tick
    BY <1>8, TickKeeps
  <1>9. CASE UNCHANGED vars
    BY <1>9 DEF vars, list, alarms, IInv, TypeOK, Listed, PassTyped, PassPlaced, Calling
  <1> QED BY <1>1, <1>2, <1>3, <1>4, <1>5, <1>6, <1>7, <1>8, <1>9 DEF Next, Client

LEMMA InductiveInvariant == Spec => []IInv
  BY InitIInv, NextIInv, PTL DEF Spec

-----------------------------------------------------------------------------
(* The 32-bit times stay below W through every addition, difference and    *)
(* wrap of SDL_timer.c, and the list is one of timers.                     *)
THEOREM TypeCorrect == Spec => []TypeOK
  <1>1. IInv => TypeOK
    BY DEF IInv
  <1> QED BY <1>1, InductiveInvariant, PTL

(* Whatever is added and removed while the pass waits for a function to    *)
(* return, by the function or by another thread, the list holds what is    *)
(* allocated, a pass that goes on is at its place of it, and the count     *)
(* misses no timer (SDL_timer.c 98-265).                                   *)
THEOREM ListStaysSound == Spec => []ListSound
  <1>1. IInv => ListSound
    <2> SUFFICES ASSUME IInv PROVE ListSound
      OBVIOUS
    <2>1. /\ ToSet(timers) = heap /\ IsInjective(timers) /\ running >= Len(timers)
          /\ timers \in Seq(Timers)
      BY DEF IInv, Listed, TypeOK
    <2>2. ASSUME Calling PROVE Upto(pass.prev) \o <<pass.t>> \o From(pass.next) = timers
      <3>1. pass.at = "call" /\ ~list_changed
        BY <2>2 DEF Calling
      <3>2. PICK p \in 1 .. Len(timers) :
              /\ pass.t = timers[p]
              /\ Upto(pass.prev) = SubSeq(timers, 1, p - 1)
              /\ From(pass.next) = SubSeq(timers, p + 1, Len(timers))
        BY <3>1, Resumes
      <3> QED BY <2>1, <3>2, Whole
    <2> QED BY <2>1, <2>2 DEF ListSound
  <1> QED BY <1>1, InductiveInvariant, PTL

-----------------------------------------------------------------------------
(***************************************************************************)
(* The ages of the timers                                                  *)
(***************************************************************************)
Half == W \div 2

(* What SDL_GetTicks would say if it lost nothing at the wrap.             *)
Ticks == GetTicks + (IF time < Start THEN 1 ELSE 0)

(* SDL_GetTicks said base, age milliseconds ago.                           *)
Told(base, age) == \E lost \in {0, 1} : Ticks - base - age - lost \in {-W, 0, W}

AgedAt(base, age) == age \in -Slice .. MaxLag /\ (age < MaxLag => Told(base, age))

(* When the pass began, late ago, the age was in these bounds, or nobody   *)
(* knows any more.                                                         *)
Recent(age, late) == age = MaxLag \/ age - late >= -Slice

Since(age, late, most) == age = MaxLag \/ age - late <= most

Fits(i) == i - Slice \in 0 .. Half - 1

Ages == \A t \in ToSet(timers) : AgedAt(last_alarm[t], lag[t]) /\ Fits(interval[t])

(* The pass has left behind it no timer that was due.                      *)
Passing ==
  Calling =>
    /\ Told(pass.now, passed)
    /\ \A t \in ToSet(timers) : Recent(lag[t], passed)
    /\ Since(lag[pass.t], passed, 0)
    /\ \A p \in 1 .. Len(timers) : timers[p] = pass.t =>
         \A i \in 1 .. p - 1 : Since(lag[timers[i]], passed, interval[timers[i]] - Slice + 1)

Timely == passed \in 0 .. MaxLate /\ Ages /\ Passing

-----------------------------------------------------------------------------
LEMMA ModIs ==
  ASSUME NEW n \in Nat \ {0}, NEW r \in 0 .. n - 1, NEW x \in Int, x - r \in {-n, 0, n}
  PROVE  x % n = r
  OBVIOUS

LEMMA Halves == W = 2 * Half /\ Half \in Nat \ {0} /\ Slice < Half
  BY SDLTimersAssumption DEF Half

LEMMA SignedIs ==
  ASSUME NEW x \in Int, NEW y \in -Half .. Half - 1, x - y \in {-W, 0, W}
  PROVE  Signed(x) = y /\ (y >= 0 => x % W = y)
  <1> USE Halves, SDLTimersAssumption
  <1>1. CASE y >= 0
    <2>1. x % W = y
      BY <1>1, ModIs
    <2> QED BY <1>1, <2>1 DEF Signed, Half
  <1>2. CASE y < 0
    <2>1. x - (y + W) \in {-W, 0, W} \/ x - (y + W) = -2 * W
      BY <1>2
    <2>2. x % W = y + W
      BY <1>2, <2>1, ModIs
    <2> QED BY <1>2, <2>2 DEF Signed, Half
  <1> QED BY <1>1, <1>2

-----------------------------------------------------------------------------
(* One timer in one pass                                                   *)

(* What the program makes of the alarm and of now is the age that the      *)
(* timer had, give or take the millisecond that SDL_GetTicks loses.        *)
LEMMA AgeRead ==
  ASSUME Ticks \in 0 .. W - 1,
         NEW now \in 0 .. W - 1, NEW base \in 0 .. W - 1, NEW age \in Int, NEW late \in Int,
         Told(now, late), Told(base, age), age - late \in -Slice .. Half - 2
  PROVE  \E d \in -1 .. 1 :
           /\ Signed(now - base) = age - late + d
           /\ age - late + d >= 0 => (now - base) % W = age - late + d
  <1> USE Halves, SDLTimersAssumption
  <1>1. PICK a \in {0, 1} : Ticks - now - late - a \in {-W, 0, W}
    BY DEF Told
  <1>2. PICK b \in {0, 1} : Ticks - base - age - b \in {-W, 0, W}
    BY DEF Told
  <1> DEFINE d == b - a
             y == age - late + d
             x == now - base
  <1>3. x \in Int /\ y \in -Half .. Half - 1 /\ d \in -1 .. 1
    OBVIOUS
  <1>4. x - y \in {-W, 0, W}
    <2>1. x - y \in {-2 * W, -W, 0, W, 2 * W}
      BY <1>1, <1>2
    <2>2. x - y < 2 * W /\ x - y > -2 * W
      BY <1>3
    <2> QED BY <2>1, <2>2
  <1> HIDE DEF x, y
  <1>5. Signed(x) = y /\ (y >= 0 => x % W = y)
    BY <1>3, <1>4, SignedIs
  <1> QED BY <1>3, <1>5 DEF x, y

LEMMA SignedFits ==
  ASSUME NEW i \in Int, Fits(i)
  PROVE  Signed(i - Slice) = i - Slice
  <1>1. i - Slice \in -Half .. Half - 1 /\ (i - Slice) - (i - Slice) \in {-W, 0, W}
    BY Halves, SDLTimersAssumption DEF Fits
  <1> QED BY <1>1, SignedIs, SDLTimersAssumption

(* Alarm, for one timer: the next is counted from when this was due or     *)
(* from now.                                                               *)
InTime(now, base, i) == (now - base) % W < i

NewAlarm(now, base, i) == IF InTime(now, base, i) THEN (base + i) % W ELSE now

NewAge(now, base, age, late, i) ==
  IF ~InTime(now, base, i) THEN late ELSE IF age = MaxLag THEN MaxLag ELSE age - i

LEMMA CalledAge ==
  ASSUME Ticks \in 0 .. W - 1,
         NEW now \in 0 .. W - 1, NEW base \in 0 .. W - 1, NEW age \in Int,
         NEW late \in 0 .. MaxLate, NEW i \in Int,
         Told(now, late), AgedAt(base, age), Recent(age, late), Fits(i),
         Signed(now - base) > Signed(i - Slice)
  PROVE  /\ AgedAt(NewAlarm(now, base, i), NewAge(now, base, age, late, i))
         /\ Recent(NewAge(now, base, age, late, i), late)
         /\ Since(NewAge(now, base, age, late, i), late, 0)
         /\ age = MaxLag \/ age - late >= i - Slice
  <1> USE Halves, SDLTimersAssumption DEF InTime, NewAlarm, NewAge
  <1> DEFINE base2 == NewAlarm(now, base, i)
             age2 == NewAge(now, base, age, late, i)
  <1>0. Signed(i - Slice) = i - Slice /\ i >= Slice /\ i - Slice < Half
    BY SignedFits DEF Fits
  <1>1. age # MaxLag =>
          /\ Told(base, age)
          /\ \E d \in -1 .. 1 :
               /\ Signed(now - base) = age - late + d
               /\ age - late + d >= 0 => (now - base) % W = age - late + d
    <2> SUFFICES ASSUME age # MaxLag
                 PROVE  /\ Told(base, age)
                        /\ \E d \in -1 .. 1 :
                             /\ Signed(now - base) = age - late + d
                             /\ age - late + d >= 0 => (now - base) % W = age - late + d
      OBVIOUS
    <2>1. Told(base, age)
      BY DEF AgedAt
    <2>2. age - late \in -Slice .. Half - 2
      BY DEF AgedAt, Recent, Half
    <2> QED BY <2>1, <2>2, AgeRead
  <1>2. CASE ~((now - base) % W < i)
    BY <1>0, <1>1, <1>2 DEF AgedAt, Recent, Since, Fits, Half
  <1>3. CASE (now - base) % W < i /\ age = MaxLag
    BY <1>3, <1>0 DEF AgedAt, Recent, Since, Half
  <1>4. CASE (now - base) % W < i /\ age # MaxLag
    <2>1. PICK d \in -1 .. 1 :
            /\ Signed(now - base) = age - late + d
            /\ age - late + d >= 0 => (now - base) % W = age - late + d
      BY <1>1, <1>4
    <2>2. age - late + d > i - Slice
      BY <1>0, <2>1
    <2>3. age - late + d < i
      BY <1>0, <1>4, <2>1, <2>2
    <2>4. age2 = age - i /\ base2 = (base + i) % W
      BY <1>4
    <2>5. age2 \in -Slice .. MaxLag /\ age2 - late >= -Slice /\ age2 - late <= 0
      BY <1>0, <2>2, <2>3, <2>4 DEF AgedAt
    <2>6. Told(base2, age2)
      <3>1. PICK a \in {0, 1} : Ticks - base - age - a \in {-W, 0, W}
        BY <1>1, <1>4 DEF Told
      <3>2. base2 \in {base + i, base + i - W} /\ base2 >= 0
        <4>1. CASE base + i < W
          <5>1. /\ base + i \in 0 .. W - 1 /\ base + i \in Int
                /\ (base + i) - (base + i) \in {-W, 0, W}
            BY <1>0, <4>1
          <5>2. (base + i) % W = base + i
            BY <5>1, ModIs
          <5> QED BY <2>4, <5>1, <5>2
        <4>2. CASE base + i >= W
          <5>1. /\ base + i - W \in 0 .. W - 1 /\ base + i \in Int
                /\ (base + i) - (base + i - W) \in {-W, 0, W}
            BY <1>0, <4>2
          <5>2. (base + i) % W = base + i - W
            BY <5>1, ModIs
          <5> QED BY <2>4, <5>1, <5>2
        <4> QED BY <4>1, <4>2
      <3>3. Ticks - base2 - age2 - a \in {-W, 0, W, 2 * W}
        BY <2>4, <3>1, <3>2
      <3>4. Ticks - base2 - age2 - a < 2 * W
        BY <2>5, <3>2
      <3>5. Ticks - base2 - age2 - a \in {-W, 0, W}
        BY <3>3, <3>4
      <3> QED BY <3>5 DEF Told
    <2> QED BY <1>0, <2>2, <2>5, <2>6 DEF AgedAt, Recent, Since
  <1> QED BY <1>2, <1>3, <1>4

LEMMA NotCalledAge ==
  ASSUME Ticks \in 0 .. W - 1,
         NEW now \in 0 .. W - 1, NEW base \in 0 .. W - 1, NEW age \in Int,
         NEW late \in 0 .. MaxLate, NEW i \in Int,
         Told(now, late), AgedAt(base, age), Recent(age, late), Fits(i),
         ~(Signed(now - base) > Signed(i - Slice))
  PROVE  Since(age, late, i - Slice + 1)
  <1> USE Halves, SDLTimersAssumption
  <1>0. Signed(i - Slice) = i - Slice
    BY SignedFits
  <1> SUFFICES ASSUME age # MaxLag PROVE age - late <= i - Slice + 1
    BY DEF Since
  <1>1. Told(base, age) /\ age - late \in -Slice .. Half - 2
    BY DEF AgedAt, Recent, Half
  <1>2. PICK d \in -1 .. 1 : Signed(now - base) = age - late + d
    BY <1>1, AgeRead
  <1> QED BY <1>0, <1>2

LEMMA TicksRange == TypeOK => Ticks \in 0 .. W - 1
  BY SDLTimersAssumption DEF TypeOK, Ticks, GetTicks

-----------------------------------------------------------------------------
(* The loop over what is left of the list                                  *)

(* What a timer was passed over for.                                       *)
NotDue(t, late, intervals) == Since(lag[t], late, intervals[t] - Slice + 1)

(* What the loop does to the ages of the timers in S.                      *)
AgesAfter(S, rest, now, late, intervals) ==
  /\ \A t \in S : AgedAt(last_alarm'[t], lag'[t]) /\ Recent(lag'[t], late)
  /\ \/ /\ pass' = NoPass
        /\ \A t \in S : lag'[t] = lag[t]
        /\ \A i \in 1 .. Len(rest) : NotDue(rest[i], late, intervals)
     \/ \E k \in 1 .. Len(rest) :
          /\ pass'.at = "call" /\ pass'.t = rest[k] /\ pass'.now = now
          /\ \A t \in S : t # rest[k] => lag'[t] = lag[t]
          /\ Since(lag'[rest[k]], late, 0)
          /\ lag[rest[k]] = MaxLag \/ lag[rest[k]] - late >= intervals[rest[k]] - Slice
          /\ \A i \in 1 .. k - 1 : NotDue(rest[i], late, intervals)

LEMMA ScanAges ==
  ASSUME TypeOK, NEW prev, NEW rest \in Seq(Timers), NEW now \in 0 .. W - 1,
         NEW late \in 0 .. MaxLate, NEW intervals \in [Timers -> 0 .. W - 1], NEW freed,
         NEW S \in SUBSET Timers, S \cap freed = {}, \A i \in 1 .. Len(rest) : rest[i] \in S,
         \A t \in S : /\ AgedAt(last_alarm[t], lag[t]) /\ Recent(lag[t], late)
                      /\ Fits(intervals[t]),
         Told(now, late), Scan(prev, rest, now, late, intervals, freed)
  PROVE  AgesAfter(S, rest, now, late, intervals)
  <1>1. /\ Ticks \in 0 .. W - 1 /\ last_alarm \in [Timers -> 0 .. W - 1]
        /\ lag \in [Timers -> Int] /\ DOMAIN rest = 1 .. Len(rest)
    BY TicksRange DEF TypeOK
  <1>2. ASSUME NEW i \in 1 .. Len(rest), ~IsDue(rest[i], now, intervals)
        PROVE  NotDue(rest[i], late, intervals)
    <2>1. /\ rest[i] \in S /\ rest[i] \in Timers /\ last_alarm[rest[i]] \in 0 .. W - 1
          /\ lag[rest[i]] \in Int /\ intervals[rest[i]] \in Int
      BY <1>1
    <2>2. ~(Signed(now - last_alarm[rest[i]]) > Signed(intervals[rest[i]] - Slice))
      BY <1>2 DEF IsDue
    <2> QED BY <1>1, <2>1, <2>2, NotCalledAge DEF NotDue
  <1>3. CASE /\ \A i \in 1 .. Len(rest) : ~IsDue(rest[i], now, intervals)
             /\ pass' = NoPass
             /\ last_alarm' = Forgotten(last_alarm, freed)
             /\ lag' = Forgotten(lag, freed)
    <2>1. \A t \in S : last_alarm'[t] = last_alarm[t] /\ lag'[t] = lag[t]
      BY <1>3 DEF Forgotten
    <2> QED BY <1>2, <1>3, <2>1 DEF AgesAfter
  <1>4. ASSUME NEW k \in 1 .. Len(rest), IsDue(rest[k], now, intervals),
               \A i \in 1 .. Len(rest) : IsDue(rest[i], now, intervals) => k <= i,
               pass'.at = "call", pass'.t = rest[k], pass'.now = now,
               Alarm(rest[k], now, late, intervals, freed)
        PROVE  AgesAfter(S, rest, now, late, intervals)
    <2> DEFINE t == rest[k]
               base2 == NewAlarm(now, last_alarm[t], intervals[t])
               age2 == NewAge(now, last_alarm[t], lag[t], late, intervals[t])
    <2>1. /\ t \in S /\ t \in Timers /\ last_alarm[t] \in 0 .. W - 1
          /\ lag[t] \in Int /\ intervals[t] \in Int
      BY <1>1
    <2>2. Signed(now - last_alarm[t]) > Signed(intervals[t] - Slice)
      BY <1>4 DEF IsDue
    <2>4. /\ last_alarm' = Forgotten([last_alarm EXCEPT ![t] = base2], freed)
          /\ lag' = Forgotten([lag EXCEPT ![t] = age2], freed)
      BY <1>4, Zenon DEF Alarm, NewAlarm, NewAge, InTime
    <2> HIDE DEF t
    <2>3. /\ AgedAt(base2, age2) /\ Recent(age2, late) /\ Since(age2, late, 0)
          /\ lag[t] = MaxLag \/ lag[t] - late >= intervals[t] - Slice
      BY <1>1, <2>1, <2>2, CalledAge
    <2> HIDE DEF base2, age2
    <2>5. /\ last_alarm'[t] = base2 /\ lag'[t] = age2
          /\ \A u \in S : u # t => last_alarm'[u] = last_alarm[u] /\ lag'[u] = lag[u]
      BY <1>1, <2>1, <2>4 DEF Forgotten
    <2>6. \A u \in S : AgedAt(last_alarm'[u], lag'[u]) /\ Recent(lag'[u], late)
      BY <2>3, <2>5
    <2>7. \A i \in 1 .. k - 1 : NotDue(rest[i], late, intervals)
      BY <1>2, <1>4
    <2>8. t = rest[k]
      BY DEF t
    <2> QED BY <1>4, <2>3, <2>5, <2>6, <2>7, <2>8 DEF AgesAfter
  <1>5. ASSUME NEW k \in DOMAIN rest, IsDue(rest[k], now, intervals),
               \A i \in {j \in DOMAIN rest : IsDue(rest[j], now, intervals)} : k <= i,
               pass' = [at |-> "call", now |-> now, t |-> rest[k],
                        prev |-> IF k = 1 THEN prev ELSE rest[k - 1],
                        next |-> IF k = Len(rest) THEN None ELSE rest[k + 1]],
               Alarm(rest[k], now, late, intervals, freed)
        PROVE  AgesAfter(S, rest, now, late, intervals)
    BY <1>1, <1>4, <1>5
  <1> QED BY <1>1, <1>3, <1>5, Zenon DEF Scan

-----------------------------------------------------------------------------
(* A pass that has come to the place q of the list s goes on.              *)
LEMMA Offset ==
  ASSUME NEW q \in Nat, NEW n \in Nat, NEW k \in 1 .. n
  PROVE  /\ q + k \in 1 .. q + n
         /\ \A i \in 1 .. q + k - 1 :
              /\ i \in 1 .. q + n /\ i # q + k
              /\ i > q => i - q \in 1 .. k - 1 /\ i - q \in 1 .. n /\ q + (i - q) = i
              /\ ~(i > q) => i \in 1 .. q
  OBVIOUS

LEMMA GoesOn ==
  ASSUME TypeOK, NEW prev, NEW rest \in Seq(Timers), NEW now \in 0 .. W - 1,
         NEW late \in 0 .. MaxLate, NEW intervals \in [Timers -> 0 .. W - 1], NEW freed,
         NEW s \in Seq(Timers), IsInjective(s), ToSet(s) \cap freed = {},
         NEW q \in Nat, Len(s) = q + Len(rest), \A i \in 1 .. Len(rest) : rest[i] = s[q + i],
         \A t \in ToSet(s) : /\ AgedAt(last_alarm[t], lag[t]) /\ Recent(lag[t], late)
                             /\ Fits(intervals[t]),
         \A i \in 1 .. q : NotDue(s[i], late, intervals),
         Told(now, late), Scan(prev, rest, now, late, intervals, freed),
         timers' = s, time' = time, passed' = late,
         \A t \in ToSet(s) : interval'[t] = intervals[t]
  PROVE  /\ Timely'
         /\ pass'.at = "call" =>
              lag[pass'.t] = MaxLag \/ lag[pass'.t] - late >= interval'[pass'.t] - Slice
         /\ pass'.at # "call" =>
              \A t \in ToSet(s) : Since(lag'[t], late, interval'[t] - Slice + 1)
  <1>0. Len(rest) \in Nat /\ Len(s) = q + Len(rest)
    OBVIOUS
  <1>1. /\ DOMAIN s = 1 .. Len(s) /\ ToSet(s) \in SUBSET Timers
        /\ \A i \in 1 .. Len(s) : s[i] \in ToSet(s)
        /\ \A t \in ToSet(s) : \E i \in 1 .. Len(s) : t = s[i]
    <2>1. DOMAIN s = 1 .. Len(s) /\ \A i \in 1 .. Len(s) : s[i] \in Timers
      OBVIOUS
    <2> QED BY <2>1, Zenon DEF ToSet
  <1>2. \A i \in 1 .. Len(rest) : rest[i] \in ToSet(s) /\ q + i \in 1 .. Len(s)
    <2> TAKE i \in 1 .. Len(rest)
    <2>1. q + i \in 1 .. Len(s)
      OBVIOUS
    <2> QED BY <1>1, <2>1
  <1>3. AgesAfter(ToSet(s), rest, now, late, intervals)
    BY <1>1, <1>2, ScanAges
  <1>4. \A base, age : Told(base, age)' = Told(base, age)
    BY DEF Told, Ticks, GetTicks
  <1>5. Ages'
    BY <1>3 DEF AgesAfter, Ages, AgedAt, Told, Ticks, GetTicks
  <1>6. CASE pass' = NoPass
    <2>1. /\ \A t \in ToSet(s) : lag'[t] = lag[t]
          /\ \A i \in 1 .. Len(rest) : NotDue(rest[i], late, intervals)
      BY <1>3, <1>6 DEF AgesAfter, NoPass
    <2>2. ASSUME NEW i \in 1 .. Len(s) PROVE NotDue(s[i], late, intervals)
      <3>1. CASE i > q
        <4>1. i - q \in 1 .. Len(rest) /\ q + (i - q) = i
          BY <3>1
        <4> QED BY <2>1, <4>1
      <3> QED BY <3>1
    <2>3. \A t \in ToSet(s) : Since(lag'[t], late, interval'[t] - Slice + 1)
      BY <1>1, <2>1, <2>2 DEF NotDue
    <2>4. Passing' /\ pass'.at # "call"
      BY <1>6 DEF Passing, Calling, NoPass
    <2> QED BY <1>5, <2>3, <2>4 DEF Timely
  <1>7. CASE pass' # NoPass
    <2>1. PICK k \in 1 .. Len(rest) :
            /\ pass'.at = "call" /\ pass'.t = rest[k] /\ pass'.now = now
            /\ \A t \in ToSet(s) : t # rest[k] => lag'[t] = lag[t]
            /\ Since(lag'[rest[k]], late, 0)
            /\ lag[rest[k]] = MaxLag \/ lag[rest[k]] - late >= intervals[rest[k]] - Slice
            /\ \A i \in 1 .. k - 1 : NotDue(rest[i], late, intervals)
      BY <1>3, <1>7 DEF AgesAfter
    <2>0. \A i \in 1 .. q + k - 1 :
            /\ i \in 1 .. Len(s) /\ i # q + k
            /\ i > q => i - q \in 1 .. k - 1 /\ i - q \in 1 .. Len(rest) /\ q + (i - q) = i
            /\ ~(i > q) => i \in 1 .. q
      <3>1. PICK n \in Nat : n = Len(rest)
        OBVIOUS
      <3>2. k \in 1 .. n /\ Len(s) = q + n
        BY <3>1
      <3>3. \A i \in 1 .. q + k - 1 :
              /\ i \in 1 .. q + n /\ i # q + k
              /\ i > q => i - q \in 1 .. k - 1 /\ i - q \in 1 .. n /\ q + (i - q) = i
              /\ ~(i > q) => i \in 1 .. q
        BY <3>2, Offset
      <3> QED BY <3>1, <3>2, <3>3
    <2>2. \A t \in ToSet(s) : Recent(lag'[t], late)
      BY <1>3 DEF AgesAfter
    <2>3. /\ q + k \in 1 .. Len(s) /\ rest[k] = s[q + k] /\ rest[k] \in ToSet(s)
          /\ \A p \in 1 .. Len(s) : s[p] = rest[k] => p = q + k
      BY <1>1, <1>2 DEF IsInjective
    <2>4. ASSUME NEW i \in 1 .. q + k - 1
          PROVE  Since(lag'[s[i]], late, interval'[s[i]] - Slice + 1)
      <3>1. i \in 1 .. Len(s) /\ s[i] # rest[k] /\ s[i] \in ToSet(s)
        <4>1. i \in 1 .. Len(s) /\ i # q + k
          BY <2>0
        <4> QED BY <1>1, <2>3, <4>1
      <3>2. NotDue(s[i], late, intervals)
        <4>1. CASE i > q
          <5>1. i - q \in 1 .. k - 1 /\ q + (i - q) = i /\ i - q \in 1 .. Len(rest)
            BY <2>0, <4>1
          <5> QED BY <2>1, <5>1
        <4>2. CASE ~(i > q)
          BY <2>0, <4>2
        <4> QED BY <4>1, <4>2
      <3> QED BY <2>1, <3>1, <3>2 DEF NotDue
    <2>5. Told(now, late)'
      BY <1>4
    <2>6. Passing'
      <3> SUFFICES /\ Told(pass.now, passed)'
                   /\ \A t \in ToSet(s) : Recent(lag'[t], late)
                   /\ Since(lag'[pass'.t], late, 0)
                   /\ \A p \in 1 .. Len(s) : s[p] = pass'.t =>
                        \A i \in 1 .. p - 1 : Since(lag'[s[i]], late, interval'[s[i]] - Slice + 1)
        BY DEF Passing, Recent, Since
      <3>1. Told(pass.now, passed)'
        BY <2>1, <2>5 DEF Told
      <3>2. Since(lag'[pass'.t], late, 0)
        BY <2>1
      <3>3. \A p \in 1 .. Len(s) : s[p] = pass'.t => p = q + k
        BY <2>1, <2>3
      <3>4. \A p \in 1 .. Len(s) : s[p] = pass'.t =>
              \A i \in 1 .. p - 1 : Since(lag'[s[i]], late, interval'[s[i]] - Slice + 1)
        <4> SUFFICES ASSUME NEW p \in 1 .. Len(s), s[p] = pass'.t, NEW i \in 1 .. p - 1
                     PROVE  Since(lag'[s[i]], late, interval'[s[i]] - Slice + 1)
          OBVIOUS
        <4>1. p = q + k
          BY <3>3
        <4>2. i \in 1 .. q + k - 1
          BY <4>1
        <4> QED BY <2>4, <4>2
      <3> QED BY <2>2, <3>1, <3>2, <3>4
    <2>7. lag[pass'.t] = MaxLag \/ lag[pass'.t] - late >= interval'[pass'.t] - Slice
      BY <2>1, <2>3
    <2> QED BY <1>5, <2>1, <2>6, <2>7 DEF Timely
  <1> QED BY <1>6, <1>7

-----------------------------------------------------------------------------
(* What the pass promises when it stops: the timer that it calls was due,  *)
(* or none that was due is left.                                           *)
StopsInTime(late) ==
  /\ pass'.at = "call" =>
       lag[pass'.t] = MaxLag \/ lag[pass'.t] - late >= interval'[pass'.t] - Slice
  /\ pass'.at # "call" =>
       \A t \in ToSet(timers') : Since(lag'[t], late, interval'[t] - Slice + 1)

LEMMA ToldNow ==
  ASSUME TypeOK PROVE Told(GetTicks, 0)
  <1>1. GetTicks \in Int
    BY TicksTyped, SDLTimersAssumption DEF TypeOK
  <1>2. \E lost \in {0, 1} : Ticks - GetTicks - 0 - lost = 0
    BY <1>1 DEF Ticks
  <1> QED BY <1>2 DEF Told

LEMMA TimelyInit == Init => Timely
  <1> SUFFICES ASSUME Init PROVE Timely
    OBVIOUS
  <1>1. ToSet(timers) = {} /\ pass.at = "idle" /\ passed = 0
    BY DEF Init, ToSet, NoPass
  <1> QED BY <1>1, SDLTimersAssumption DEF Timely, Ages, Passing, Calling

LEMMA BeginPassTimely ==
  ASSUME IInv, Timely, BeginPass
  PROVE  Timely' /\ StopsInTime(0)
  <1>1. /\ TypeOK /\ timers \in Seq(Timers) /\ interval \in [Timers -> 0 .. W - 1]
        /\ IsInjective(timers) /\ GetTicks \in 0 .. W - 1 /\ lag \in [Timers -> Int]
    BY TicksTyped DEF IInv, TypeOK, Listed
  <1>2. /\ Scan(None, timers, GetTicks, 0, interval, {})
        /\ passed' = 0 /\ interval' = interval /\ time' = time /\ timers' = timers
    BY DEF BeginPass, list
  <1>3. /\ 0 \in 0 .. MaxLate /\ ToSet(timers) \cap {} = {} /\ Len(timers) = 0 + Len(timers)
        /\ \A i \in 1 .. Len(timers) : timers[i] = timers[0 + i]
        /\ \A i \in 1 .. 0 : NotDue(timers[i], 0, interval)
    BY <1>1, SDLTimersAssumption
  <1>4. \A t \in ToSet(timers) : /\ AgedAt(last_alarm[t], lag[t]) /\ Recent(lag[t], 0)
                                 /\ Fits(interval[t])
    BY SDLTimersAssumption DEF Timely, Ages, AgedAt, Recent
  <1>5. Told(GetTicks, 0)
    BY <1>1, ToldNow
  <1> DEFINE now == GetTicks
  <1> HIDE DEF now
  <1>6. /\ now \in 0 .. W - 1 /\ Told(now, 0) /\ Scan(None, timers, now, 0, interval, {})
    BY <1>1, <1>2, <1>5 DEF now
  <1>7. /\ Timely'
        /\ pass'.at = "call" =>
             lag[pass'.t] = MaxLag \/ lag[pass'.t] - 0 >= interval'[pass'.t] - Slice
        /\ pass'.at # "call" =>
             \A t \in ToSet(timers) : Since(lag'[t], 0, interval'[t] - Slice + 1)
    <2>1. 0 \in Nat /\ \A t \in ToSet(timers) : interval'[t] = interval[t]
      BY <1>2
    <2> QED BY <1>1, <1>2, <1>3, <1>4, <1>6, <2>1, GoesOn
  <1> QED BY <1>2, <1>7 DEF StopsInTime

LEMMA AbortTimely ==
  ASSUME Timely, NEW ms, Abort(ms), UNCHANGED <<time, passed>>
  PROVE  Timely'
  BY DEF Timely, Ages, Passing, Calling, Abort, list, alarms, NoPass, AgedAt, Told, Ticks, GetTicks

(* Every interval of a timer on the list can be read as an int.            *)
LEMMA RoundedFits ==
  ASSUME IntervalsFit, NEW ms \in Intervals \cup Returns, ms # 0
  PROVE  Fits(Rounded(ms))
  BY DEF IntervalsFit, Fits, Half

LEMMA KeepTimely ==
  ASSUME IInv, Timely, IntervalsFit, pass.at = "call", NEW ms \in Returns \cup {interval[pass.t]},
         Keep(ms), UNCHANGED <<time, passed>>
  PROVE  Timely' /\ StopsInTime(passed)
  <1> DEFINE new == [interval EXCEPT ![pass.t] = IF ms = @ THEN @ ELSE Rounded(ms)]
             rest == From(pass.next)
  <1>1. /\ TypeOK /\ timers \in Seq(Timers) /\ interval \in [Timers -> 0 .. W - 1]
        /\ IsInjective(timers) /\ lag \in [Timers -> Int] /\ passed \in 0 .. MaxLate
    BY DEF IInv, TypeOK, Listed, Timely
  <1>2. /\ ~list_changed /\ interval' = new /\ timers' = timers
        /\ Scan(pass.t, rest, pass.now, passed, new, {})
    BY DEF Keep, list
  <1>3. PICK p \in 1 .. Len(timers) :
          /\ pass.t = timers[p] /\ pass.t \in Timers /\ pass.now \in 0 .. W - 1
          /\ rest = SubSeq(timers, p + 1, Len(timers))
    BY <1>2, Resumes
  <1>4. /\ rest \in Seq(Timers) /\ Len(rest) = Len(timers) - p
        /\ \A i \in 1 .. Len(timers) - p : rest[i] = timers[p + i]
    BY <1>1, <1>3, Behind
  <1>5. pass.t \in ToSet(timers) /\ \A i \in 1 .. Len(timers) : timers[i] \in ToSet(timers)
    BY <1>1, <1>3 DEF ToSet
  <1>6. /\ Told(pass.now, passed)
        /\ \A t \in ToSet(timers) : Recent(lag[t], passed)
        /\ Since(lag[pass.t], passed, 0)
        /\ \A i \in 1 .. p - 1 : Since(lag[timers[i]], passed, interval[timers[i]] - Slice + 1)
    BY <1>2, <1>3 DEF Timely, Passing, Calling
  <1>7. \A t \in ToSet(timers) : AgedAt(last_alarm[t], lag[t]) /\ Fits(interval[t])
    BY DEF Timely, Ages
  <1>8. /\ new \in [Timers -> 0 .. W - 1] /\ Fits(new[pass.t])
        /\ \A t \in Timers : t # pass.t => new[t] = interval[t]
    <2>0. ms \in 0 .. W - 1
      BY <1>1, <1>3, SDLTimersAssumption
    <2>1. new \in [Timers -> 0 .. W - 1] /\ \A t \in Timers : t # pass.t => new[t] = interval[t]
      BY <1>1, <2>0, RoundedTyped
    <2>2. CASE ms = interval[pass.t]
      BY <1>1, <1>3, <1>5, <1>7, <2>2
    <2>3. CASE ms # interval[pass.t]
      <3>1. ms # 0 /\ ms \in Intervals \cup Returns
        BY <2>3 DEF Keep
      <3>2. new[pass.t] = Rounded(ms)
        BY <1>1, <1>3, <2>3
      <3> QED BY <2>1, <3>1, <3>2, RoundedFits
    <2> QED BY <2>1, <2>2, <2>3
  <1> HIDE DEF new, rest
  <1>9. \A i \in 1 .. p : NotDue(timers[i], passed, new)
    <2> TAKE i \in 1 .. p
    <2>1. CASE i = p
      <3>1. lag[pass.t] \in Int /\ new[pass.t] - Slice \in Nat
        BY <1>1, <1>3, <1>8 DEF Fits
      <3>2. Since(lag[pass.t], passed, new[pass.t] - Slice + 1)
        <4>1. Since(lag[pass.t], passed, 0)
          BY <1>6
        <4>2. passed \in Int
          BY <1>1 DEF TypeOK
        <4> QED BY <3>1, <4>1, <4>2 DEF Since
      <3> QED BY <1>3, <2>1, <3>2 DEF NotDue
    <2>2. CASE i # p
      <3>1. i \in 1 .. p - 1 /\ i \in 1 .. Len(timers)
        BY <2>2
      <3>2. DOMAIN timers = 1 .. Len(timers) /\ timers[i] \in Timers
        BY <1>1, <3>1
      <3>3. timers[i] # pass.t
        BY <1>1, <1>3, <2>2, <3>1, <3>2, Zenon DEF IsInjective
      <3> QED BY <1>6, <1>8, <3>1, <3>2, <3>3 DEF NotDue
    <2> QED BY <2>1, <2>2
  <1>10. \A t \in ToSet(timers) : /\ AgedAt(last_alarm[t], lag[t]) /\ Recent(lag[t], passed)
                                  /\ Fits(new[t])
    <2>1. ToSet(timers) \subseteq Timers
      BY <1>1 DEF ToSet
    <2> QED BY <1>6, <1>7, <1>8, <2>1
  <1>11. PICK now \in 0 .. W - 1, late \in 0 .. MaxLate : now = pass.now /\ late = passed
    BY <1>1, <1>3
  <1>12. /\ p \in Nat /\ Len(timers) = p + Len(rest) /\ ToSet(timers) \cap {} = {}
         /\ \A i \in 1 .. Len(rest) : rest[i] = timers[p + i]
         /\ Told(now, late) /\ passed' = late
         /\ \A t \in ToSet(timers) : interval'[t] = new[t]
         /\ Scan(pass.t, rest, now, late, new, {})
    BY <1>1, <1>2, <1>4, <1>6, <1>11
  <1>13. /\ Timely'
         /\ pass'.at = "call" =>
              lag[pass'.t] = MaxLag \/ lag[pass'.t] - late >= interval'[pass'.t] - Slice
         /\ pass'.at # "call" =>
              \A t \in ToSet(timers) : Since(lag'[t], late, interval'[t] - Slice + 1)
    BY <1>1, <1>2, <1>4, <1>8, <1>9, <1>10, <1>11, <1>12, GoesOn
  <1> QED BY <1>2, <1>11, <1>13 DEF StopsInTime

LEMMA CancelTimely ==
  ASSUME IInv, Timely, pass.at = "call", NEW ms, Cancel(ms), UNCHANGED <<time, passed>>
  PROVE  Timely' /\ StopsInTime(passed)
  <1> DEFINE rest == From(pass.next)
  <1>1. /\ TypeOK /\ timers \in Seq(Timers) /\ interval \in [Timers -> 0 .. W - 1]
        /\ IsInjective(timers) /\ passed \in 0 .. MaxLate
    BY DEF IInv, TypeOK, Listed, Timely
  <1>2. /\ ~list_changed /\ timers' = Upto(pass.prev) \o rest
        /\ Scan(pass.prev, rest, pass.now, passed, interval, {pass.t})
        /\ interval' = Forgotten(interval, {pass.t})
    BY DEF Cancel
  <1>3. PICK p \in 1 .. Len(timers) :
          /\ pass.t = timers[p] /\ pass.t \in Timers /\ pass.now \in 0 .. W - 1
          /\ Upto(pass.prev) = SubSeq(timers, 1, p - 1)
          /\ rest = SubSeq(timers, p + 1, Len(timers))
    BY <1>2, Resumes
  <1>4. /\ rest \in Seq(Timers) /\ Len(rest) = Len(timers) - p
        /\ \A i \in 1 .. Len(timers) - p : rest[i] = timers[p + i]
    BY <1>1, <1>3, Behind
  <1> HIDE DEF rest
  <1>5. PICK s \in Seq(Timers) :
          /\ s = timers' /\ Without(s, timers, p)
          /\ IsInjective(s) /\ ToSet(s) = ToSet(timers) \ {pass.t}
    BY <1>1, <1>2, <1>3, Shorter
  <1>6. /\ Told(pass.now, passed)
        /\ \A t \in ToSet(timers) : Recent(lag[t], passed)
        /\ \A i \in 1 .. p - 1 : Since(lag[timers[i]], passed, interval[timers[i]] - Slice + 1)
    BY <1>2, <1>3 DEF Timely, Passing, Calling
  <1>7. \A t \in ToSet(s) : /\ AgedAt(last_alarm[t], lag[t]) /\ Recent(lag[t], passed)
                            /\ Fits(interval[t])
    BY <1>5, <1>6 DEF Timely, Ages
  <1>8. /\ Len(s) = (p - 1) + Len(rest) /\ p - 1 \in Nat
        /\ \A i \in 1 .. p - 1 : s[i] = timers[i]
        /\ \A i \in 1 .. Len(rest) : rest[i] = s[(p - 1) + i]
    <2>1. /\ Len(s) = Len(timers) - 1 /\ Len(timers) \in Nat
          /\ \A i \in 1 .. Len(s) : s[i] = IF i < p THEN timers[i] ELSE timers[i + 1]
      BY <1>5 DEF Without
    <2>2. ASSUME NEW i \in 1 .. Len(rest) PROVE rest[i] = s[(p - 1) + i]
      <3>1. /\ (p - 1) + i \in 1 .. Len(s) /\ ~((p - 1) + i < p)
            /\ (p - 1) + i + 1 = p + i /\ i \in 1 .. Len(timers) - p
        BY <1>4, <2>1
      <3> QED BY <1>4, <2>1, <3>1
    <2>3. Len(s) = (p - 1) + Len(rest) /\ p - 1 \in Nat
      BY <1>4, <2>1
    <2>4. \A i \in 1 .. p - 1 : i \in 1 .. Len(s) /\ i < p
      BY <2>1
    <2> QED BY <2>1, <2>2, <2>3, <2>4
  <1>9. \A i \in 1 .. p - 1 : NotDue(s[i], passed, interval)
    BY <1>6, <1>8 DEF NotDue
  <1>10. \A t \in ToSet(s) : interval'[t] = interval[t]
    <2>1. ToSet(s) \subseteq Timers
      BY DEF ToSet
    <2> QED BY <1>2, <1>5, <2>1 DEF Forgotten
  <1>11. PICK now \in 0 .. W - 1, late \in 0 .. MaxLate : now = pass.now /\ late = passed
    BY <1>1, <1>3
  <1>12. PICK q \in Nat : q = p - 1
    BY <1>8
  <1>13. /\ Len(s) = q + Len(rest) /\ \A i \in 1 .. Len(rest) : rest[i] = s[q + i]
         /\ \A i \in 1 .. q : NotDue(s[i], late, interval)
         /\ Told(now, late) /\ passed' = late /\ ToSet(s) \cap {pass.t} = {}
         /\ \A t \in ToSet(s) : /\ AgedAt(last_alarm[t], lag[t]) /\ Recent(lag[t], late)
                                /\ Fits(interval[t])
         /\ Scan(pass.prev, rest, now, late, interval, {pass.t})
    BY <1>2, <1>5, <1>6, <1>7, <1>8, <1>9, <1>11, <1>12
  <1>14. /\ Timely'
         /\ pass'.at = "call" =>
              lag[pass'.t] = MaxLag \/ lag[pass'.t] - late >= interval'[pass'.t] - Slice
         /\ pass'.at # "call" =>
              \A t \in ToSet(s) : Since(lag'[t], late, interval'[t] - Slice + 1)
    <2>1. /\ TypeOK /\ interval \in [Timers -> 0 .. W - 1] /\ rest \in Seq(Timers)
          /\ timers' = s /\ time' = time /\ IsInjective(s)
          /\ \A t \in ToSet(s) : interval'[t] = interval[t]
      BY <1>1, <1>4, <1>5, <1>10
    <2> QED BY <1>13, <2>1, GoesOn
  <1> QED BY <1>5, <1>11, <1>14 DEF StopsInTime

LEMMA ReturnTimely ==
  ASSUME IInv, Timely, IntervalsFit, Return
  PROVE  /\ Timely'
         /\ pass'.at = "call" \/ ~list_changed' => StopsInTime(passed)
  <1>1. PICK ms \in Returns \cup {interval[pass.t]} : Abort(ms) \/ Keep(ms) \/ Cancel(ms)
    BY DEF Return
  <1>2. pass.at = "call" /\ UNCHANGED <<started, list_changed, time, passed>>
    BY DEF Return
  <1>3. CASE Abort(ms)
    <2>1. pass'.at # "call" /\ list_changed'
      BY <1>2, <1>3 DEF Abort, NoPass
    <2> QED BY <1>2, <1>3, <2>1, AbortTimely
  <1>4. CASE Keep(ms)
    BY <1>2, <1>4, KeepTimely
  <1>5. CASE Cancel(ms)
    BY <1>2, <1>5, CancelTimely
  <1> QED BY <1>1, <1>3, <1>4, <1>5

-----------------------------------------------------------------------------
(* What the other threads do: the pass that it disturbs does not go on.    *)
LEMMA AddInternalTimely ==
  ASSUME IInv, Timely, IntervalsFit, NEW ms \in Intervals, NEW rest \in Seq(Timers), NEW nodes,
         NEW count, ToSet(rest) = nodes, nodes \subseteq ToSet(timers), IsInjective(rest),
         AddInternal(ms, rest, nodes, count), UNCHANGED <<pass, time, passed>>
  PROVE  Timely'
  <1>1. /\ TypeOK /\ ToSet(timers) = heap /\ heap \subseteq Timers
        /\ interval \in [Timers -> 0 .. W - 1] /\ last_alarm \in [Timers -> 0 .. W - 1]
        /\ lag \in [Timers -> Int]
    BY DEF IInv, TypeOK, Listed
  <1>2. PICK t \in Timers \ nodes :
          /\ timers' = <<t>> \o rest
          /\ interval' = [Forgotten(interval, heap \ nodes) EXCEPT ![t] = Rounded(ms)]
          /\ last_alarm' = [Forgotten(last_alarm, heap \ nodes) EXCEPT ![t] = GetTicks]
          /\ lag' = [Forgotten(lag, heap \ nodes) EXCEPT ![t] = 0]
          /\ list_changed' = TRUE
    BY Zenon DEF AddInternal
  <1>3. ToSet(timers') = nodes \cup {t}
    <2>1. t \notin ToSet(rest)
      OBVIOUS
    <2>2. ToSet(<<t>> \o rest) = ToSet(rest) \cup {t}
      BY <2>1, Longer
    <2> QED BY <1>2, <2>2
  <1>4. \A u \in nodes : /\ interval'[u] = interval[u] /\ last_alarm'[u] = last_alarm[u]
                         /\ lag'[u] = lag[u]
    BY <1>1, <1>2 DEF Forgotten
  <1>5. interval'[t] = Rounded(ms) /\ last_alarm'[t] = GetTicks /\ lag'[t] = 0
    BY <1>2 DEF Forgotten
  <1>6. Fits(Rounded(ms))
    <2>1. ms # 0
      BY SDLTimersAssumption
    <2> QED BY <2>1, RoundedFits
  <1>7. AgedAt(GetTicks, 0)
    BY <1>1, ToldNow, SDLTimersAssumption DEF AgedAt
  <1>8. \A u \in ToSet(timers') : AgedAt(last_alarm'[u], lag'[u]) /\ Fits(interval'[u])
    BY <1>3, <1>4, <1>5, <1>6, <1>7 DEF Timely, Ages
  <1>9. Ages'
    BY <1>8 DEF Ages, AgedAt, Told, Ticks, GetTicks
  <1>10. Passing'
    BY <1>2 DEF Passing, Calling
  <1> QED BY <1>9, <1>10 DEF Timely

LEMMA AddTimely ==
  ASSUME IInv, Timely, IntervalsFit, NEW ms \in Intervals, AddTimer(ms) \/ SetTimer(ms)
  PROVE  Timely'
  <1>1. /\ timers \in Seq(Timers) /\ IsInjective(timers) /\ ToSet(timers) = heap
        /\ ToSet(<<>>) = {} /\ <<>> \in Seq(Timers) /\ IsInjective(<<>>)
    BY Empty DEF IInv, TypeOK, Listed
  <1>2. UNCHANGED <<pass, time, passed>>
    BY DEF AddTimer, SetTimer
  <1>3. \/ AddInternal(ms, timers, heap, running)
        \/ AddInternal(ms, timers, heap, 0)
        \/ AddInternal(ms, <<>>, heap \ ToSet(timers), 0)
    BY DEF AddTimer, SetTimer
  <1>4. heap \ ToSet(timers) = {} /\ {} \subseteq ToSet(timers) /\ heap \subseteq ToSet(timers)
    BY <1>1
  <1>5. CASE AddInternal(ms, <<>>, heap \ ToSet(timers), 0)
    <2>1. AddInternal(ms, <<>>, {}, 0)
      BY <1>4, <1>5
    <2> QED BY <1>1, <1>2, <1>4, <2>1, AddInternalTimely
  <1> QED BY <1>1, <1>2, <1>3, <1>4, <1>5, AddInternalTimely

LEMMA RemoveTimely ==
  ASSUME IInv, Timely, NEW t \in Timers, RemoveTimer(t)
  PROVE  Timely'
  <1>1. /\ TypeOK /\ timers \in Seq(Timers) /\ IsInjective(timers)
    BY DEF IInv, TypeOK, Listed
  <1>2. PICK p \in 1 .. Len(timers) : timers[p] = t /\ timers' = RemoveAt(timers, p)
    BY <1>1 DEF RemoveTimer
  <1>3. ToSet(timers') = ToSet(timers) \ {t}
    <2>1. RemoveAt(timers, p) = SubSeq(timers, 1, p - 1) \o SubSeq(timers, p + 1, Len(timers))
      BY DEF RemoveAt
    <2>2. PICK u \in Seq(Timers) :
            /\ u = SubSeq(timers, 1, p - 1) \o SubSeq(timers, p + 1, Len(timers))
            /\ ToSet(u) = ToSet(timers) \ {timers[p]}
      BY <1>1, Shorter
    <2>3. timers' = u
      BY <1>2, <2>1, <2>2, Zenon
    <2> QED BY <1>2, <2>2, <2>3
  <1>4. /\ list_changed' = TRUE /\ Forget({t}) /\ UNCHANGED <<pass, time, passed>>
    BY DEF RemoveTimer
  <1>5. \A u \in ToSet(timers') : /\ interval'[u] = interval[u] /\ last_alarm'[u] = last_alarm[u]
                                  /\ lag'[u] = lag[u]
    <2>1. ToSet(timers) \subseteq Timers
      BY <1>1 DEF ToSet
    <2> QED BY <1>3, <1>4, <2>1 DEF Forget, Forgotten
  <1>6. Ages'
    BY <1>3, <1>4, <1>5 DEF Timely, Ages, AgedAt, Told, Ticks, GetTicks
  <1>7. Passing'
    BY <1>4 DEF Passing, Calling
  <1> QED BY <1>4, <1>6, <1>7 DEF Timely

LEMMA ClearTimely ==
  ASSUME IInv, Timely, ClearTimers, UNCHANGED <<pass, time>>, passed' \in {0, passed}
  PROVE  Timely'
  <1>1. /\ TypeOK /\ timers \in Seq(Timers) /\ running \in Nat /\ running >= Len(timers)
    BY DEF IInv, TypeOK, Listed
  <1>2. timers' = <<>>
    <2>1. CASE running = 0
      <3>1. Len(timers) = 0
        BY <1>1, <2>1
      <3>2. timers = <<>>
        BY <1>1, <3>1, EmptySeq
      <3> QED BY <2>1, <3>2 DEF ClearTimers, list
    <2>2. CASE running # 0
      BY <2>2 DEF ClearTimers
    <2> QED BY <2>1, <2>2
  <1>3. Ages'
    BY <1>2, Empty DEF Ages
  <1>4. ~Calling'
    <2>1. CASE running = 0
      <3>1. timers' = timers /\ list_changed' = list_changed
        BY <2>1 DEF ClearTimers, list
      <3>2. DOMAIN timers = {}
        BY <1>2, <3>1
      <3> QED BY <3>1, <3>2 DEF IInv, PassPlaced, Calling
    <2>2. CASE running # 0
      BY <2>2 DEF ClearTimers, Calling
    <2> QED BY <2>1, <2>2
  <1>5. passed' \in 0 .. MaxLate
    BY SDLTimersAssumption DEF Timely
  <1> QED BY <1>3, <1>4, <1>5 DEF Timely, Passing

-----------------------------------------------------------------------------
(* A millisecond goes by: every age grows with the clock, over its wrap.   *)
LEMMA TickTicks ==
  ASSUME TypeOK, time' = (time + 1) % W
  PROVE  Ticks' \in {Ticks + 1, Ticks + 1 - W} /\ Ticks \in 0 .. W - 1 /\ Ticks' \in 0 .. W - 1
  <1> USE SDLTimersAssumption DEF Ticks, GetTicks, TypeOK
  <1>1. CASE time + 1 < W
    <2>1. time + 1 \in 0 .. W - 1 /\ time + 1 \in Int /\ (time + 1) - (time + 1) \in {-W, 0, W}
      BY <1>1
    <2>2. time' = time + 1
      BY <2>1, ModIs
    <2> QED BY <2>1, <2>2
  <1>2. CASE ~(time + 1 < W)
    <2>1. time + 1 = W /\ 0 \in 0 .. W - 1 /\ time + 1 \in Int /\ (time + 1) - 0 \in {-W, 0, W}
      BY <1>2
    <2>2. time' = 0
      BY <2>1, ModIs
    <2> QED BY <2>1, <2>2
  <1> QED BY <1>1, <1>2

LEMMA ToldLater ==
  ASSUME NEW ticks \in 0 .. W - 1, NEW later \in 0 .. W - 1, later \in {ticks + 1, ticks + 1 - W},
         NEW base \in 0 .. W - 1, NEW age \in -Slice .. MaxLag, NEW lost \in {0, 1},
         ticks - base - age - lost \in {-W, 0, W}
  PROVE  later - base - (age + 1) - lost \in {-W, 0, W}
  <1> USE Halves, SDLTimersAssumption
  <1>1. later - base - (age + 1) - lost \in {-2 * W, -W, 0, W}
    OBVIOUS
  <1>2. later - base - (age + 1) - lost > -2 * W
    BY DEF Half
  <1> QED BY <1>1, <1>2

LEMMA AgeLater ==
  ASSUME NEW age \in -Slice .. MaxLag, NEW late \in 0 .. MaxLate
  PROVE  LET later == IF age < MaxLag THEN age + 1 ELSE age
         IN  /\ Recent(age, late) => Recent(later, late + 1)
             /\ \A most \in Int : Since(age, late, most) => Since(later, late + 1, most)
  BY SDLTimersAssumption, Halves DEF Recent, Since

LEMMA TickTimely ==
  ASSUME IInv, Timely, Tick
  PROVE  Timely'
  <1>1. /\ TypeOK /\ timers \in Seq(Timers) /\ last_alarm \in [Timers -> 0 .. W - 1]
        /\ lag \in [Timers -> Int] /\ passed \in 0 .. MaxLate /\ ToSet(timers) \subseteq Timers
        /\ pass \in Passes
    BY DEF IInv, TypeOK, Timely, ToSet
  <1>2. /\ passed < MaxLate /\ time' = (time + 1) % W
        /\ lag' = [t \in Timers |->
             IF t \in ToSet(timers) /\ lag[t] < MaxLag THEN lag[t] + 1 ELSE lag[t]]
        /\ passed' = IF started THEN passed + 1 ELSE passed
        /\ UNCHANGED <<started, timers, interval, last_alarm, list_changed, pass>>
    BY DEF Tick, list
  <1>3. /\ Ticks' \in {Ticks + 1, Ticks + 1 - W}
        /\ Ticks \in 0 .. W - 1 /\ Ticks' \in 0 .. W - 1
    BY <1>1, <1>2, TickTicks
  <1>4. ASSUME NEW base \in 0 .. W - 1, NEW age \in -Slice .. MaxLag, Told(base, age)
        PROVE  \E lost \in {0, 1} : Ticks' - base - (age + 1) - lost \in {-W, 0, W}
    <2>1. PICK lost \in {0, 1} : Ticks - base - age - lost \in {-W, 0, W}
      BY <1>4 DEF Told
    <2> QED BY <1>3, <2>1, ToldLater
  <1>5. passed' \in 0 .. MaxLate
    BY <1>1, <1>2, SDLTimersAssumption
  <1>6. \A t \in ToSet(timers) :
          /\ AgedAt(last_alarm[t], lag[t]) /\ Fits(interval[t])
          /\ lag[t] \in -Slice .. MaxLag
          /\ lag'[t] = IF lag[t] < MaxLag THEN lag[t] + 1 ELSE lag[t]
    BY <1>1, <1>2 DEF Timely, Ages, AgedAt
  <1>7. Ages'
    <2> SUFFICES ASSUME NEW t \in ToSet(timers)
                 PROVE  /\ lag'[t] \in -Slice .. MaxLag
                        /\ lag'[t] < MaxLag => \E lost \in {0, 1} :
                             Ticks' - last_alarm[t] - lag'[t] - lost \in {-W, 0, W}
                        /\ Fits(interval[t])
      BY <1>2 DEF Ages, AgedAt, Told, Fits
    <2>1. PICK base \in 0 .. W - 1, age \in -Slice .. MaxLag : base = last_alarm[t] /\ age = lag[t]
      BY <1>1, <1>6
    <2>2. CASE age < MaxLag
      <3>1. Told(base, age) /\ lag'[t] = age + 1
        BY <1>6, <2>1, <2>2 DEF AgedAt
      <3>2. \E lost \in {0, 1} : Ticks' - base - (age + 1) - lost \in {-W, 0, W}
        BY <1>4, <3>1
      <3>3. age + 1 \in -Slice .. MaxLag
        BY <2>2, SDLTimersAssumption
      <3> QED BY <1>6, <2>1, <3>1, <3>2, <3>3
    <2>3. CASE ~(age < MaxLag)
      BY <1>6, <2>1, <2>3, SDLTimersAssumption
    <2> QED BY <2>2, <2>3
  <1>8. Passing'
    <2> SUFFICES ASSUME Calling PROVE Passing'
      BY <1>2 DEF Passing, Calling
    <2>1. PICK p \in 1 .. Len(timers) :
            pass.t = timers[p] /\ pass.t \in Timers /\ pass.now \in 0 .. W - 1
      BY Resumes DEF Calling
    <2>2. pass.t \in ToSet(timers) /\ \A i \in 1 .. Len(timers) : timers[i] \in ToSet(timers)
      BY <1>1, <2>1 DEF ToSet
    <2>3. started /\ passed' = passed + 1
      <3>1. timers # <<>>
        BY <2>2, Empty
      <3> QED BY <1>2, <3>1 DEF IInv, Listed
    <2>4. /\ Told(pass.now, passed)
          /\ \A t \in ToSet(timers) : Recent(lag[t], passed)
          /\ Since(lag[pass.t], passed, 0)
          /\ \A q \in 1 .. Len(timers) : timers[q] = pass.t =>
               \A i \in 1 .. q - 1 : Since(lag[timers[i]], passed, interval[timers[i]] - Slice + 1)
      BY DEF Timely, Passing
    <2>5. \A t \in ToSet(timers) : Recent(lag'[t], passed')
      <3> TAKE t \in ToSet(timers)
      <3> QED BY <1>1, <1>6, <2>3, <2>4, AgeLater
    <2>6. ASSUME NEW t \in ToSet(timers), NEW most \in Int, Since(lag[t], passed, most)
          PROVE  Since(lag'[t], passed', most)
      BY <1>1, <1>6, <2>3, <2>6, AgeLater
    <2>7. \E lost \in {0, 1} : Ticks' - pass.now - passed' - lost \in {-W, 0, W}
      <3>1. PICK base \in 0 .. W - 1, age \in -Slice .. MaxLag : base = pass.now /\ age = passed
        BY <1>1, <2>1, SDLTimersAssumption
      <3> QED BY <1>4, <2>3, <2>4, <3>1
    <2>8. \A t \in ToSet(timers) : interval[t] - Slice + 1 \in Int
      BY <1>6, SDLTimersAssumption DEF Fits
    <2>9. \A q \in 1 .. Len(timers) : timers[q] = pass.t =>
            \A i \in 1 .. q - 1 : Since(lag'[timers[i]], passed', interval[timers[i]] - Slice + 1)
      <3> SUFFICES ASSUME NEW q \in 1 .. Len(timers), timers[q] = pass.t, NEW i \in 1 .. q - 1
                   PROVE  Since(lag'[timers[i]], passed', interval[timers[i]] - Slice + 1)
        OBVIOUS
      <3>1. i \in 1 .. Len(timers)
        OBVIOUS
      <3> QED BY <2>2, <2>4, <2>6, <2>8, <3>1
    <2>10. Since(lag'[pass.t], passed', 0)
      BY <2>2, <2>4, <2>6
    <2> QED BY <1>2, <2>5, <2>7, <2>9, <2>10 DEF Passing, Told, Recent, Since
  <1> QED BY <1>5, <1>7, <1>8 DEF Timely

LEMMA TimelyNext == IntervalsFit => (IInv /\ Timely /\ [Next]_vars => Timely')
  <1> SUFFICES ASSUME IntervalsFit, IInv, Timely, [Next]_vars PROVE Timely'
    OBVIOUS
  <1>1. ASSUME NEW ms \in Intervals, AddTimer(ms) \/ SetTimer(ms) PROVE Timely'
    BY <1>1, AddTimely
  <1>2. ASSUME NEW t \in Timers, RemoveTimer(t) PROVE Timely'
    BY <1>2, RemoveTimely
  <1>3. CASE StopTimer \/ TimerQuit
    BY <1>3, ClearTimely DEF StopTimer, TimerQuit
  <1>4. CASE UNCHANGED <<timers, alarms, list_changed, pass, time, passed>>
    BY <1>4 DEF Timely, Ages, Passing, Calling, alarms, AgedAt, Told, Ticks, GetTicks
  <1>5. CASE TimerInit \/ UNCHANGED vars
    BY <1>4, <1>5 DEF TimerInit, vars, list
  <1>6. ASSUME NEW ms, SetTimerTooEarly(ms) PROVE Timely'
    BY <1>4, <1>6 DEF SetTimerTooEarly
  <1>7. CASE ThreadedTimerCheck
    BY <1>7, BeginPassTimely, ReturnTimely DEF ThreadedTimerCheck
  <1>8. CASE Tick
    BY <1>8, TickTimely
  <1> QED BY <1>1, <1>2, <1>3, <1>5, <1>6, <1>7, <1>8 DEF Next, Client

LEMMA TimelyInvariant == ASSUME IntervalsFit PROVE Spec => [](IInv /\ Timely)
  <1>1. IInv /\ Timely /\ [Next]_vars => IInv' /\ Timely'
    BY TimelyNext, NextIInv
  <1> QED BY <1>1, InitIInv, TimelyInit, PTL DEF Spec

(* How far the ages that the program's arithmetic gives are from the true  *)
(* ones, for any clock and any intervals that line 117 can read.           *)
THEOREM AgesAreKnown == ASSUME IntervalsFit PROVE Spec => []AgeKnown
  <1>1. IInv /\ Timely => AgeKnown
    <2> SUFFICES ASSUME IInv, Timely, NEW t \in ToSet(timers), lag[t] < MaxLag
                 PROVE  Signed(GetTicks - last_alarm[t]) - lag[t] \in -1 .. 1
      BY DEF AgeKnown
    <2> USE SDLTimersAssumption, Halves
    <2>1. TypeOK /\ t \in Timers /\ AgedAt(last_alarm[t], lag[t]) /\ Told(GetTicks, 0)
      <3>1. TypeOK /\ timers \in Seq(Timers) /\ Told(GetTicks, 0)
        BY ToldNow DEF IInv, TypeOK
      <3>2. ToSet(timers) \subseteq Timers
        BY <3>1 DEF ToSet
      <3> QED BY <3>1, <3>2 DEF Timely, Ages
    <2>2. PICK now \in 0 .. W - 1, base \in 0 .. W - 1, age \in -Slice .. MaxLag :
            now = GetTicks /\ base = last_alarm[t] /\ age = lag[t]
      BY <2>1, TicksTyped DEF TypeOK, AgedAt
    <2>3. PICK d \in -1 .. 1 : Signed(now - base) = age - 0 + d
      <3>1. Told(now, 0) /\ Told(base, age) /\ age - 0 \in -Slice .. Half - 2
        BY <2>1, <2>2 DEF AgedAt, Half
      <3> QED BY <2>1, <3>1, TicksRange, AgeRead
    <2> QED BY <2>2, <2>3
  <1> QED BY <1>1, TimelyInvariant, PTL

(* No timer is called before its interval is over, less one timeslice.     *)
THEOREM CalledInTime == ASSUME IntervalsFit PROVE Spec => NotEarly
  <1>1. IInv /\ Timely /\ [Next]_vars =>
          [ThreadedTimerCheck /\ pass'.at = "call" =>
            LET late == IF pass.at = "call" THEN passed ELSE 0
            IN  lag[pass'.t] = MaxLag \/ lag[pass'.t] - late >= interval'[pass'.t] - Slice]_vars
    <2> SUFFICES ASSUME IInv, Timely, ThreadedTimerCheck, pass'.at = "call",
                        NEW late, late = IF pass.at = "call" THEN passed ELSE 0
                 PROVE  lag[pass'.t] = MaxLag \/ lag[pass'.t] - late >= interval'[pass'.t] - Slice
      OBVIOUS
    <2>1. CASE BeginPass
      <3>1. late = 0 /\ StopsInTime(0)
        BY <2>1, BeginPassTimely DEF BeginPass
      <3> QED BY <3>1 DEF StopsInTime
    <2>2. CASE Return
      <3>1. late = passed /\ StopsInTime(passed)
        BY <2>2, ReturnTimely DEF Return
      <3> QED BY <3>1 DEF StopsInTime
    <2> QED BY <2>1, <2>2 DEF ThreadedTimerCheck
  <1> QED BY <1>1, TimelyInvariant, PTL DEF NotEarly, Spec

(* A pass that is not cut short leaves no timer that was due.              *)
THEOREM PassesArePunctual == ASSUME IntervalsFit PROVE Spec => Punctual
  <1>1. IInv /\ Timely /\ [Next]_vars =>
          [ThreadedTimerCheck /\ pass'.at = "idle" /\ ~list_changed' =>
            LET late == IF pass.at = "call" THEN passed ELSE 0
            IN  \A t \in ToSet(timers') :
                  lag'[t] = MaxLag \/ lag'[t] - late <= interval'[t] - Slice + 1]_vars
    <2> SUFFICES ASSUME IInv, Timely, ThreadedTimerCheck, pass'.at = "idle", ~list_changed',
                        NEW late, late = IF pass.at = "call" THEN passed ELSE 0,
                        NEW t \in ToSet(timers')
                 PROVE  lag'[t] = MaxLag \/ lag'[t] - late <= interval'[t] - Slice + 1
      OBVIOUS
    <2>1. CASE BeginPass
      <3>1. late = 0 /\ StopsInTime(0)
        BY <2>1, BeginPassTimely DEF BeginPass
      <3> QED BY <3>1 DEF StopsInTime, Since
    <2>2. CASE Return
      <3>1. late = passed /\ StopsInTime(passed)
        BY <2>2, ReturnTimely DEF Return
      <3> QED BY <3>1 DEF StopsInTime, Since
    <2> QED BY <2>1, <2>2 DEF ThreadedTimerCheck
  <1> QED BY <1>1, TimelyInvariant, PTL DEF Punctual, Spec

=============================================================================
