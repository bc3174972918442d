-------------------------- MODULE SDLThread_proofs --------------------------
(***************************************************************************)
(* Proofs about SDLThread for every number of makers, structures and ids   *)
(* of the system, and every growth of the list.                            *)
(***************************************************************************)
EXTENDS SDLThread, TLAPS

(* Who works on a structure: never two makers, and what a maker works on   *)
(* is allocated, its structure or its arguments.                           *)
Creating == {"add", "begin", "failed", "undo"}
Closed == {"status", "delete", "release"}

Exclusive ==
  /\ \A m \in Makers : mpc[m] = "idle" <=> mine[m] = None
  /\ \A m, n \in Makers : mine[m] = mine[n] /\ mine[m] # None => m = n

Holding == \A m \in Makers :
  /\ mpc[m] \in Creating \cup Closed \cup {"wait", "join"} => mine[m] \in live
  /\ mpc[m] \in Creating \cup {"wait"} => mine[m] \in args \cap sem
  /\ mpc[m] \in {"destroy", "free"} => mine[m] \in args

(* No thread runs before it was started or after it was closed, and the    *)
(* maker that frees a structure has taken it out of the list.              *)
NotRunning == \A m \in Makers :
  /\ mpc[m] \in Creating \cup Closed => pc[mine[m]] = "none"
  /\ mpc[m] \in Creating => posted[mine[m]] = 0 /\ threadid[mine[m]] = None
  /\ mpc[m] \in {"add", "undo", "release"} => mine[m] \notin ToSet(list)

(* Until a thread has posted, the one that made it waits.                  *)
Answering == \A s \in Structs : pc[s] \in Handshake =>
  /\ posted[s] = 0
  /\ \E m \in Makers : mpc[m] = "wait" /\ mine[m] = s

(* A thread that has stored its id is alone with it, and no id of a closed *)
(* one is left but for those still to be taken out of the list.            *)
Active == {"count", "release", "run", "lookup", "write", "return"}

IdsOwned ==
  /\ \A s, u \in Structs : osid[s] = osid[u] /\ osid[s] # None => s = u
  /\ \A s \in Structs :
       /\ pc[s] = "start" => threadid[s] = None
       /\ pc[s] \in Active \cup {"start"} => osid[s] # None
       /\ pc[s] \in Active => threadid[s] = osid[s]
       /\ s \in live /\ threadid[s] # None =>
            \/ threadid[s] = osid[s]
            \/ \E m \in Makers : mpc[m] \in Closed /\ mine[m] = s

IInv ==
  /\ TypeOK /\ Exclusive /\ Holding /\ NotRunning /\ Answering /\ InfoAlive
  /\ IdsOwned /\ ListSound


-----------------------------------------------------------------------------
LEMMA InitIInv == Init => IInv
  <1> SUFFICES ASSUME Init PROVE IInv
    OBVIOUS
  <1> USE SDLThreadAssumption DEF Init
  <1>1. TypeOK
    BY DEF TypeOK, Places, MakerPlaces
  <1>2. Exclusive /\ Holding /\ NotRunning
    BY DEF Exclusive, Holding, NotRunning, Creating, Closed
  <1>3. Answering /\ InfoAlive /\ IdsOwned
    BY DEF Answering, InfoAlive, IdsOwned, Handshake, Active
  <1>4. ListSound
    BY DEF ListSound, ToSet, IsInjective
  <1> QED BY <1>1, <1>2, <1>3, <1>4 DEF IInv

(* A maker at work has a structure of its own.                             *)
LEMMA OwnStruct ==
  ASSUME IInv, NEW m \in Makers, mpc[m] # "idle"
  PROVE  /\ mine[m] \in Structs
         /\ \A n \in Makers : mine[n] = mine[m] => n = m
         /\ mine[m] \in live \cup args
  BY DEF IInv, TypeOK, Exclusive, Holding, Creating, Closed, MakerPlaces

(* What adding to the list and deleting from it do to it.                  *)
LEMMA Added ==
  ASSUME list \in Seq(Structs), IsInjective(list), NEW s \in Structs,
         s \notin ToSet(list), list' = Append(list, s)
  PROVE  /\ list' \in Seq(Structs) /\ IsInjective(list')
         /\ Len(list') = Len(list) + 1 /\ list' # <<>>
         /\ ToSet(list') = ToSet(list) \cup {s}
  <1>1. /\ list' \in Seq(Structs) /\ Len(list') = Len(list) + 1
        /\ \A i \in 1 .. Len(list) : list'[i] = list[i]
        /\ list'[Len(list) + 1] = s
    OBVIOUS
  <1>2. ToSet(list') = ToSet(list) \cup {s}
    BY <1>1 DEF ToSet
  <1>3. IsInjective(list')
    BY <1>1 DEF IsInjective, ToSet
  <1> QED BY <1>1, <1>2, <1>3

LEMMA Taken ==
  ASSUME list \in Seq(Structs), IsInjective(list), NEW i \in DOMAIN list,
         list' = Shifted(i)
  PROVE  /\ list' \in Seq(Structs) /\ IsInjective(list')
         /\ Len(list') = Len(list) - 1
         /\ ToSet(list') = ToSet(list) \ {list[i]}
  <1>1. Len(list) \in Nat /\ i \in 1 .. Len(list)
    OBVIOUS
  <1>2. /\ list' \in Seq(Structs) /\ Len(list') = Len(list) - 1
        /\ \A k \in 1 .. Len(list) - 1 : list'[k] = IF k < i THEN list[k] ELSE list[k + 1]
    BY <1>1 DEF Shifted
  <1>3. IsInjective(list')
    <2> DEFINE from(k) == IF k < i THEN k ELSE k + 1
    <2>1. ASSUME NEW a \in 1 .. Len(list) - 1, NEW b \in 1 .. Len(list) - 1,
                 list'[a] = list'[b]
          PROVE  a = b
      <3>1. from(a) \in 1 .. Len(list) /\ from(b) \in 1 .. Len(list)
        BY <1>1
      <3>2. list[from(a)] = list[from(b)]
        BY <2>1, <1>2
      <3>3. from(a) = from(b)
        BY <3>1, <3>2, <1>1 DEF IsInjective
      <3> QED BY <3>3, <1>1
    <2>2. DOMAIN list' = 1 .. Len(list) - 1
      BY <1>1, <1>2
    <2> QED BY <2>1, <2>2 DEF IsInjective
  <1>4. ToSet(list') \subseteq ToSet(list) \ {list[i]}
    BY <1>1, <1>2 DEF IsInjective, ToSet
  <1>5. ASSUME NEW x \in ToSet(list) \ {list[i]} PROVE x \in ToSet(list')
    <2>1. PICK k \in 1 .. Len(list) : x = list[k] /\ k # i
      BY <1>5, <1>1 DEF ToSet
    <2>2. CASE k < i
      BY <2>1, <2>2, <1>1, <1>2 DEF ToSet
    <2>3. CASE k > i
      <3>1. k - 1 \in 1 .. Len(list) - 1 /\ ~(k - 1 < i) /\ (k - 1) + 1 = k
        BY <2>3, <1>1
      <3> QED BY <3>1, <2>1, <1>2 DEF ToSet
    <2> QED BY <2>1, <2>2, <2>3, <1>1
  <1> QED BY <1>2, <1>3, <1>4, <1>5

LEMMA AllocateKeeps ==
  ASSUME IInv, NEW m \in Makers, NEW s \in Structs, Allocate(m, s)
  PROVE  IInv'
  <1> USE SDLThreadAssumption DEF IInv, TypeOK, Allocate, Step, memory, registry, thread, maker
  <1>1. TypeOK'
    BY DEF TypeOK, Places, MakerPlaces
  <1>2. Exclusive'
    BY OwnStruct DEF Exclusive, MakerPlaces
  <1>3. Holding'
    BY DEF Holding, Creating, Closed
  <1>4. NotRunning'
    <2>1. \A n \in Makers : mpc[n] # "idle" => mine[n] # s
      BY OwnStruct
    <2> QED BY <2>1 DEF NotRunning, Creating, Closed, InfoAlive, ListSound
  <1>5. Answering'
    BY DEF Answering, Handshake
  <1>6. InfoAlive'
    BY DEF InfoAlive
  <1>7. IdsOwned'
    BY DEF IdsOwned, Active, Closed, InfoAlive
  <1>8. ListSound'
    BY DEF ListSound
  <1> QED BY <1>1, <1>2, <1>3, <1>4, <1>5, <1>6, <1>7, <1>8

LEMMA AddThreadKeeps ==
  ASSUME IInv, NEW m \in Makers, AddThread(m)
  PROVE  IInv'
  <1> USE SDLThreadAssumption DEF IInv, TypeOK, AddThread, Step, memory, registry, thread, maker
  <1>0. /\ mine[m] \in Structs
        /\ \A n \in Makers : mine[n] = mine[m] => n = m
    BY OwnStruct DEF Deleting
  <1>a. /\ list \in Seq(Structs) /\ IsInjective(list) /\ mine[m] \notin ToSet(list)
        /\ mine[m] \in live
    BY DEF ListSound, NotRunning, Holding, Creating
  <1>b. /\ list' \in Seq(Structs) /\ IsInjective(list')
        /\ Len(list') = Len(list) + 1 /\ list' # <<>>
        /\ ToSet(list') = ToSet(list) \cup {mine[m]}
    BY <1>0, <1>a, Added
  <1>1. TypeOK'
    BY <1>0, <1>b DEF Places, MakerPlaces
  <1>2. Exclusive'
    BY <1>0 DEF Exclusive
  <1>3. Holding'
    BY <1>0 DEF Holding, Creating, Closed
  <1>4. NotRunning'
    BY <1>0, <1>b DEF NotRunning, Creating, Closed
  <1>5. Answering'
    BY <1>0 DEF Answering, Handshake
  <1>6. InfoAlive'
    BY <1>0 DEF InfoAlive
  <1>7. IdsOwned'
    BY <1>0 DEF IdsOwned, Active, Closed
  <1>8. ListSound'
    BY <1>a, <1>b DEF ListSound
  <1> QED BY <1>1, <1>2, <1>3, <1>4, <1>5, <1>6, <1>7, <1>8

LEMMA AddThreadFailsKeeps ==
  ASSUME IInv, NEW m \in Makers, AddThreadFails(m)
  PROVE  IInv'
  <1> USE SDLThreadAssumption DEF IInv, TypeOK, AddThreadFails, Step, memory, registry, thread, maker
  <1>0. /\ mine[m] \in Structs
        /\ \A n \in Makers : mine[n] = mine[m] => n = m
    BY OwnStruct DEF Deleting
  <1>1. TypeOK'
    BY <1>0 DEF TypeOK, Places, MakerPlaces
  <1>2. Exclusive'
    BY <1>0 DEF Exclusive
  <1>3. Holding'
    BY <1>0 DEF Holding, Creating, Closed
  <1>4. NotRunning'
    BY <1>0 DEF NotRunning, Creating, Closed
  <1>5. Answering'
    BY <1>0 DEF Answering, Handshake
  <1>6. InfoAlive'
    BY <1>0 DEF InfoAlive
  <1>7. IdsOwned'
    BY <1>0 DEF IdsOwned, Active, Closed
  <1>8. ListSound'
    BY <1>0 DEF ListSound
  <1> QED BY <1>1, <1>2, <1>3, <1>4, <1>5, <1>6, <1>7, <1>8

LEMMA BeginThreadKeeps ==
  ASSUME IInv, NEW m \in Makers, BeginThread(m)
  PROVE  IInv'
  <1> USE SDLThreadAssumption DEF IInv, TypeOK, BeginThread, Step, memory, registry, thread, maker
  <1>0. /\ mine[m] \in Structs
        /\ \A n \in Makers : mine[n] = mine[m] => n = m
    BY OwnStruct DEF Deleting
  <1>1. TypeOK'
    BY <1>0 DEF Places, MakerPlaces
  <1>2. Exclusive'
    BY <1>0 DEF Exclusive
  <1>3. Holding'
    BY <1>0 DEF Holding, Creating, Closed
  <1>4. NotRunning'
    BY <1>0 DEF NotRunning, Creating, Closed
  <1>5. Answering'
    BY <1>0 DEF Answering, Handshake, NotRunning, Creating
  <1>6. InfoAlive'
    BY <1>0 DEF InfoAlive, Holding, Creating
  <1>7. IdsOwned'
    BY <1>0 DEF IdsOwned, Active, Closed, NotRunning, Creating
  <1>8. ListSound'
    BY <1>0 DEF ListSound
  <1> QED BY <1>1, <1>2, <1>3, <1>4, <1>5, <1>6, <1>7, <1>8

LEMMA BeginFailsKeeps ==
  ASSUME IInv, NEW m \in Makers, BeginFails(m)
  PROVE  IInv'
  <1> USE SDLThreadAssumption DEF IInv, TypeOK, BeginFails, Step, memory, registry, thread, maker
  <1>0. /\ mine[m] \in Structs
        /\ \A n \in Makers : mine[n] = mine[m] => n = m
    BY OwnStruct DEF Deleting
  <1>1. TypeOK'
    BY <1>0 DEF TypeOK, Places, MakerPlaces
  <1>2. Exclusive'
    BY <1>0 DEF Exclusive
  <1>3. Holding'
    BY <1>0 DEF Holding, Creating, Closed
  <1>4. NotRunning'
    BY <1>0 DEF NotRunning, Creating, Closed
  <1>5. Answering'
    BY <1>0 DEF Answering, Handshake
  <1>6. InfoAlive'
    BY <1>0 DEF InfoAlive
  <1>7. IdsOwned'
    BY <1>0 DEF IdsOwned, Active, Closed
  <1>8. ListSound'
    BY <1>0 DEF ListSound
  <1> QED BY <1>1, <1>2, <1>3, <1>4, <1>5, <1>6, <1>7, <1>8

LEMMA SemWaitKeeps ==
  ASSUME IInv, NEW m \in Makers, SemWait(m)
  PROVE  IInv'
  <1> USE SDLThreadAssumption DEF IInv, TypeOK, SemWait, Step, memory, registry, thread, maker
  <1>0. /\ mine[m] \in Structs
        /\ \A n \in Makers : mine[n] = mine[m] => n = m
    BY OwnStruct DEF Deleting
  <1>1. TypeOK'
    BY <1>0 DEF Places, MakerPlaces
  <1>2. Exclusive'
    BY <1>0 DEF Exclusive
  <1>3. Holding'
    BY <1>0 DEF Holding, Creating, Closed
  <1>4. NotRunning'
    BY <1>0 DEF NotRunning, Creating, Closed
  <1>5. Answering'
    BY <1>0 DEF Answering, Handshake
  <1>6. InfoAlive'
    BY <1>0 DEF InfoAlive
  <1>7. IdsOwned'
    BY <1>0 DEF IdsOwned, Active, Closed
  <1>8. ListSound'
    BY <1>0 DEF ListSound
  <1> QED BY <1>1, <1>2, <1>3, <1>4, <1>5, <1>6, <1>7, <1>8

LEMMA DestroySemaphoreKeeps ==
  ASSUME IInv, NEW m \in Makers, DestroySemaphore(m)
  PROVE  IInv'
  <1> USE SDLThreadAssumption DEF IInv, TypeOK, DestroySemaphore, Step, memory, registry, thread, maker
  <1>0. /\ mine[m] \in Structs
        /\ \A n \in Makers : mine[n] = mine[m] => n = m
    BY OwnStruct DEF Deleting
  <1>1. TypeOK'
    BY <1>0 DEF TypeOK, Places, MakerPlaces
  <1>2. Exclusive'
    BY <1>0 DEF Exclusive
  <1>3. Holding'
    BY <1>0 DEF Holding, Creating, Closed
  <1>4. NotRunning'
    BY <1>0 DEF NotRunning, Creating, Closed
  <1>5. Answering'
    BY <1>0 DEF Answering, Handshake
  <1>6. InfoAlive'
    BY <1>0 DEF InfoAlive
  <1>7. IdsOwned'
    BY <1>0 DEF IdsOwned, Active, Closed
  <1>8. ListSound'
    BY <1>0 DEF ListSound
  <1> QED BY <1>1, <1>2, <1>3, <1>4, <1>5, <1>6, <1>7, <1>8

LEMMA FreeArgsKeeps ==
  ASSUME IInv, NEW m \in Makers, FreeArgs(m)
  PROVE  IInv'
  <1> USE SDLThreadAssumption DEF IInv, TypeOK, FreeArgs, Step, memory, registry, thread, maker
  <1>0. /\ mine[m] \in Structs
        /\ \A n \in Makers : mine[n] = mine[m] => n = m
    BY OwnStruct DEF Deleting
  <1>1. TypeOK'
    BY <1>0 DEF TypeOK, Places, MakerPlaces
  <1>2. Exclusive'
    BY <1>0 DEF Exclusive
  <1>3. Holding'
    BY <1>0 DEF Holding, Creating, Closed
  <1>4. NotRunning'
    BY <1>0 DEF NotRunning, Creating, Closed
  <1>5. Answering'
    BY <1>0 DEF Answering, Handshake
  <1>6. InfoAlive'
    BY <1>0 DEF InfoAlive
  <1>7. IdsOwned'
    BY <1>0 DEF IdsOwned, Active, Closed
  <1>8. ListSound'
    BY <1>0 DEF ListSound
  <1> QED BY <1>1, <1>2, <1>3, <1>4, <1>5, <1>6, <1>7, <1>8

LEMMA DelThreadKeeps ==
  ASSUME IInv, NEW m \in Makers, DelThread(m)
  PROVE  IInv'
  <1> USE SDLThreadAssumption DEF IInv, TypeOK, DelThread, Step, Deleting, memory, registry, thread, maker
  <1>0. /\ mine[m] \in Structs
        /\ \A n \in Makers : mine[n] = mine[m] => n = m
    BY OwnStruct DEF Deleting
  <1>a. /\ list' \in Seq(Structs) /\ IsInjective(list')
        /\ ToSet(list') = ToSet(list) \ {mine[m]}
        /\ maxthreads' \in Nat /\ Len(list') <= maxthreads'
        /\ (list' = <<>>) <=> (maxthreads' = 0)
    <2>1. CASE mine[m] \notin ToSet(list) /\ UNCHANGED registry
      BY <2>1 DEF ListSound
    <2>2. CASE \E i \in DOMAIN list :
                 /\ list[i] = mine[m] /\ list' = Shifted(i)
                 /\ maxthreads' = IF Len(list) = 1 THEN 0 ELSE maxthreads
      <3>1. PICK i \in DOMAIN list :
              /\ list[i] = mine[m] /\ list' = Shifted(i)
              /\ maxthreads' = IF Len(list) = 1 THEN 0 ELSE maxthreads
        BY <2>2
      <3>2. /\ list' \in Seq(Structs) /\ IsInjective(list')
            /\ Len(list') = Len(list) - 1
            /\ ToSet(list') = ToSet(list) \ {list[i]}
        BY <3>1, Taken DEF ListSound
      <3>3. Len(list) \in Nat /\ Len(list) >= 1
        BY <3>1
      <3>4. list' = <<>> <=> Len(list') = 0
        BY <3>2
      <3> QED BY <3>1, <3>2, <3>3, <3>4 DEF ListSound
    <2> QED BY <2>1, <2>2
  <1>1. TypeOK'
    BY <1>0, <1>a DEF Places, MakerPlaces
  <1>2. Exclusive'
    BY <1>0 DEF Exclusive
  <1>3. Holding'
    BY <1>0 DEF Holding, Creating, Closed
  <1>4. NotRunning'
    BY <1>0, <1>a DEF NotRunning, Creating, Closed
  <1>5. Answering'
    BY <1>0 DEF Answering, Handshake
  <1>6. InfoAlive'
    BY <1>0 DEF InfoAlive
  <1>7. IdsOwned'
    BY <1>0 DEF IdsOwned, Active, Closed
  <1>8. ListSound'
    BY <1>0, <1>a DEF ListSound, Holding, Creating, Closed
  <1> QED BY <1>1, <1>2, <1>3, <1>4, <1>5, <1>6, <1>7, <1>8

LEMMA UndoKeeps ==
  ASSUME IInv, NEW m \in Makers, Undo(m)
  PROVE  IInv'
  <1> USE SDLThreadAssumption DEF IInv, TypeOK, Undo, Step, memory, registry, thread, maker
  <1>0. /\ mine[m] \in Structs
        /\ \A n \in Makers : mine[n] = mine[m] => n = m
    BY OwnStruct DEF Deleting
  <1>1. TypeOK'
    BY <1>0 DEF TypeOK, Places, MakerPlaces
  <1>2. Exclusive'
    BY <1>0 DEF Exclusive
  <1>3. Holding'
    BY <1>0 DEF Holding, Creating, Closed
  <1>4. NotRunning'
    BY <1>0 DEF NotRunning, Creating, Closed
  <1>5. Answering'
    BY <1>0 DEF Answering, Handshake
  <1>6. InfoAlive'
    BY <1>0 DEF InfoAlive, NotRunning, Creating
  <1>7. IdsOwned'
    BY <1>0 DEF IdsOwned, Active, Closed
  <1>8. ListSound'
    BY <1>0 DEF ListSound, NotRunning
  <1> QED BY <1>1, <1>2, <1>3, <1>4, <1>5, <1>6, <1>7, <1>8

LEMMA StartKeeps ==
  ASSUME IInv, NEW s \in Structs, Start(s)
  PROVE  IInv'
  <1> USE SDLThreadAssumption DEF IInv, TypeOK, Start, Run, memory, registry, thread, maker
  <1>1. TypeOK'
    BY DEF TypeOK, Places, MakerPlaces
  <1>2. Exclusive'
    BY DEF Exclusive
  <1>3. Holding'
    BY DEF Holding, Creating, Closed
  <1>4. NotRunning'
    BY DEF NotRunning, Creating, Closed
  <1>5. Answering'
    BY DEF Answering, Handshake
  <1>6. InfoAlive'
    BY DEF InfoAlive
  <1>7. IdsOwned'
    BY DEF IdsOwned, Active, Closed
  <1>8. ListSound'
    BY DEF ListSound
  <1> QED BY <1>1, <1>2, <1>3, <1>4, <1>5, <1>6, <1>7, <1>8

LEMMA PostCountKeeps ==
  ASSUME IInv, NEW s \in Structs, PostCount(s)
  PROVE  IInv'
  <1> USE SDLThreadAssumption DEF IInv, TypeOK, PostCount, Run, memory, registry, thread, maker
  <1>1. TypeOK'
    BY DEF TypeOK, Places, MakerPlaces
  <1>2. Exclusive'
    BY DEF Exclusive
  <1>3. Holding'
    BY DEF Holding, Creating, Closed
  <1>4. NotRunning'
    BY DEF NotRunning, Creating, Closed
  <1>5. Answering'
    BY DEF Answering, Handshake
  <1>6. InfoAlive'
    BY DEF InfoAlive
  <1>7. IdsOwned'
    BY DEF IdsOwned, Active, Closed
  <1>8. ListSound'
    BY DEF ListSound
  <1> QED BY <1>1, <1>2, <1>3, <1>4, <1>5, <1>6, <1>7, <1>8

LEMMA PostReleaseKeeps ==
  ASSUME IInv, NEW s \in Structs, PostRelease(s)
  PROVE  IInv'
  <1> USE SDLThreadAssumption DEF IInv, TypeOK, PostRelease, Run, memory, registry, thread, maker
  <1>1. TypeOK'
    BY DEF TypeOK, Places, MakerPlaces
  <1>2. Exclusive'
    BY DEF Exclusive
  <1>3. Holding'
    BY DEF Holding, Creating, Closed
  <1>4. NotRunning'
    BY DEF NotRunning, Creating, Closed
  <1>5. Answering'
    BY DEF Answering, Handshake
  <1>6. InfoAlive'
    BY DEF InfoAlive
  <1>7. IdsOwned'
    BY DEF IdsOwned, Active, Closed
  <1>8. ListSound'
    BY DEF ListSound
  <1> QED BY <1>1, <1>2, <1>3, <1>4, <1>5, <1>6, <1>7, <1>8

LEMMA TestListKeeps ==
  ASSUME IInv, NEW s \in Structs, TestList(s)
  PROVE  IInv'
  <1> USE SDLThreadAssumption DEF IInv, TypeOK, TestList, Run, memory, registry, thread, maker
  <1>1. TypeOK'
    <2>1. CASE pc' = [pc EXCEPT ![s] = "write"] /\ errbuf' = [errbuf EXCEPT ![s] = Global]
      BY <2>1 DEF Places, MakerPlaces
    <2>2. CASE pc' = [pc EXCEPT ![s] = "lookup"] /\ UNCHANGED errbuf
      BY <2>2 DEF Places, MakerPlaces
    <2> QED BY <2>1, <2>2
  <1>2. Exclusive'
    BY DEF Exclusive
  <1>3. Holding'
    BY DEF Holding, Creating, Closed
  <1>4. NotRunning'
    <2>1. pc[s] = "run" /\ \A u \in Structs : u # s => pc'[u] = pc[u]
      OBVIOUS
    <2> QED BY <2>1, OwnStruct DEF NotRunning, Creating, Closed
  <1>5. Answering'
    BY DEF Answering, Handshake
  <1>6. InfoAlive'
    BY DEF InfoAlive
  <1>7. IdsOwned'
    BY DEF IdsOwned, Active, Closed
  <1>8. ListSound'
    BY DEF ListSound
  <1> QED BY <1>1, <1>2, <1>3, <1>4, <1>5, <1>6, <1>7, <1>8

LEMMA FindErrBufKeeps ==
  ASSUME IInv, NEW s \in Structs, FindErrBuf(s)
  PROVE  IInv'
  <1> USE SDLThreadAssumption DEF IInv, TypeOK, FindErrBuf, Run, Found, memory, registry, thread, maker
  <1>1. TypeOK'
    <2>1. errbuf' \in [Structs -> Structs \cup {Global, None}]
      <3>1. CASE errbuf' = [errbuf EXCEPT ![s] = Global]
        BY <3>1
      <3>2. CASE \E i \in Found(s) : errbuf' = [errbuf EXCEPT ![s] = list[i]]
        BY <3>2
      <3> QED BY <3>1, <3>2
    <2> QED BY <2>1 DEF Places, MakerPlaces
  <1>2. Exclusive'
    BY DEF Exclusive
  <1>3. Holding'
    BY DEF Holding, Creating, Closed
  <1>4. NotRunning'
    BY DEF NotRunning, Creating, Closed
  <1>5. Answering'
    BY DEF Answering, Handshake
  <1>6. InfoAlive'
    BY DEF InfoAlive
  <1>7. IdsOwned'
    BY DEF IdsOwned, Active, Closed
  <1>8. ListSound'
    BY DEF ListSound
  <1> QED BY <1>1, <1>2, <1>3, <1>4, <1>5, <1>6, <1>7, <1>8

LEMMA WriteErrorKeeps ==
  ASSUME IInv, NEW s \in Structs, WriteError(s)
  PROVE  IInv'
  <1> USE SDLThreadAssumption DEF IInv, TypeOK, WriteError, Run, memory, registry, thread, maker
  <1>1. TypeOK'
    BY DEF TypeOK, Places, MakerPlaces
  <1>2. Exclusive'
    BY DEF Exclusive
  <1>3. Holding'
    BY DEF Holding, Creating, Closed
  <1>4. NotRunning'
    BY DEF NotRunning, Creating, Closed
  <1>5. Answering'
    BY DEF Answering, Handshake
  <1>6. InfoAlive'
    BY DEF InfoAlive
  <1>7. IdsOwned'
    BY DEF IdsOwned, Active, Closed
  <1>8. ListSound'
    BY DEF ListSound
  <1> QED BY <1>1, <1>2, <1>3, <1>4, <1>5, <1>6, <1>7, <1>8

LEMMA FinishKeeps ==
  ASSUME IInv, NEW s \in Structs, Finish(s)
  PROVE  IInv'
  <1> USE SDLThreadAssumption DEF IInv, TypeOK, Finish, Run, memory, registry, thread, maker
  <1>1. TypeOK'
    BY DEF TypeOK, Places, MakerPlaces
  <1>2. Exclusive'
    BY DEF Exclusive
  <1>3. Holding'
    BY DEF Holding, Creating, Closed
  <1>4. NotRunning'
    BY DEF NotRunning, Creating, Closed
  <1>5. Answering'
    BY DEF Answering, Handshake
  <1>6. InfoAlive'
    BY DEF InfoAlive
  <1>7. IdsOwned'
    BY DEF IdsOwned, Active, Closed
  <1>8. ListSound'
    BY DEF ListSound
  <1> QED BY <1>1, <1>2, <1>3, <1>4, <1>5, <1>6, <1>7, <1>8

LEMMA StoreStatusKeeps ==
  ASSUME IInv, NEW s \in Structs, StoreStatus(s)
  PROVE  IInv'
  <1> USE SDLThreadAssumption DEF IInv, TypeOK, StoreStatus, Run, memory, registry, thread, maker
  <1>1. TypeOK'
    BY DEF TypeOK, Places, MakerPlaces
  <1>2. Exclusive'
    BY DEF Exclusive
  <1>3. Holding'
    BY DEF Holding, Creating, Closed
  <1>4. NotRunning'
    BY DEF NotRunning, Creating, Closed
  <1>5. Answering'
    BY DEF Answering, Handshake
  <1>6. InfoAlive'
    BY DEF InfoAlive
  <1>7. IdsOwned'
    BY DEF IdsOwned, Active, Closed
  <1>8. ListSound'
    BY DEF ListSound
  <1> QED BY <1>1, <1>2, <1>3, <1>4, <1>5, <1>6, <1>7, <1>8

LEMMA WaitThreadKeeps ==
  ASSUME IInv, NEW m \in Makers, NEW s \in Structs, WaitThread(m, s)
  PROVE  IInv'
  <1> USE SDLThreadAssumption DEF IInv, TypeOK, WaitThread, Step, Returned, memory, registry, thread, maker
  <1>1. TypeOK'
    BY DEF TypeOK, Places, MakerPlaces
  <1>2. Exclusive'
    BY DEF Exclusive
  <1>3. Holding'
    BY DEF Holding, Creating, Closed
  <1>4. NotRunning'
    BY DEF NotRunning, Creating, Closed
  <1>5. Answering'
    BY DEF Answering, Handshake
  <1>6. InfoAlive'
    BY DEF InfoAlive
  <1>7. IdsOwned'
    BY DEF IdsOwned, Active, Closed
  <1>8. ListSound'
    BY DEF ListSound
  <1> QED BY <1>1, <1>2, <1>3, <1>4, <1>5, <1>6, <1>7, <1>8

LEMMA KillThreadKeeps ==
  ASSUME IInv, NEW m \in Makers, NEW s \in Structs, KillThread(m, s)
  PROVE  IInv'
  <1> USE SDLThreadAssumption DEF IInv, TypeOK, KillThread, Step, Returned, memory, registry, thread, maker
  <1>1. TypeOK'
    BY DEF TypeOK, Places, MakerPlaces
  <1>2. Exclusive'
    BY DEF Exclusive
  <1>3. Holding'
    BY DEF Holding, Creating, Closed
  <1>4. NotRunning'
    BY DEF NotRunning, Creating, Closed, Exclusive
  <1>5. Answering'
    BY DEF Answering, Handshake
  <1>6. InfoAlive'
    BY DEF InfoAlive
  <1>7. IdsOwned'
    BY DEF IdsOwned, Active, Closed
  <1>8. ListSound'
    BY DEF ListSound
  <1> QED BY <1>1, <1>2, <1>3, <1>4, <1>5, <1>6, <1>7, <1>8

LEMMA CloseKeeps ==
  ASSUME IInv, NEW m \in Makers, Close(m)
  PROVE  IInv'
  <1> USE SDLThreadAssumption DEF IInv, TypeOK, Close, Step, memory, registry, thread, maker
  <1>0. /\ mine[m] \in Structs
        /\ \A n \in Makers : mine[n] = mine[m] => n = m
    BY OwnStruct DEF Deleting
  <1>1. TypeOK'
    BY <1>0 DEF TypeOK, Places, MakerPlaces
  <1>2. Exclusive'
    BY <1>0 DEF Exclusive
  <1>3. Holding'
    BY <1>0 DEF Holding, Creating, Closed
  <1>4. NotRunning'
    BY <1>0 DEF NotRunning, Creating, Closed
  <1>5. Answering'
    BY <1>0 DEF Answering, Handshake
  <1>6. InfoAlive'
    BY <1>0 DEF InfoAlive
  <1>7. IdsOwned'
    BY <1>0 DEF IdsOwned, Active, Closed
  <1>8. ListSound'
    BY <1>0 DEF ListSound
  <1> QED BY <1>1, <1>2, <1>3, <1>4, <1>5, <1>6, <1>7, <1>8

LEMMA ReadStatusKeeps ==
  ASSUME IInv, NEW m \in Makers, ReadStatus(m)
  PROVE  IInv'
  <1> USE SDLThreadAssumption DEF IInv, TypeOK, ReadStatus, Step, memory, registry, thread, maker
  <1>0. /\ mine[m] \in Structs
        /\ \A n \in Makers : mine[n] = mine[m] => n = m
    BY OwnStruct DEF Deleting
  <1>1. TypeOK'
    BY <1>0 DEF TypeOK, Places, MakerPlaces
  <1>2. Exclusive'
    BY <1>0 DEF Exclusive
  <1>3. Holding'
    BY <1>0 DEF Holding, Creating, Closed
  <1>4. NotRunning'
    BY <1>0 DEF NotRunning, Creating, Closed
  <1>5. Answering'
    BY <1>0 DEF Answering, Handshake
  <1>6. InfoAlive'
    BY <1>0 DEF InfoAlive
  <1>7. IdsOwned'
    BY <1>0 DEF IdsOwned, Active, Closed
  <1>8. ListSound'
    BY <1>0 DEF ListSound
  <1> QED BY <1>1, <1>2, <1>3, <1>4, <1>5, <1>6, <1>7, <1>8

LEMMA FreeThreadKeeps ==
  ASSUME IInv, NEW m \in Makers, FreeThread(m)
  PROVE  IInv'
  <1> USE SDLThreadAssumption DEF IInv, TypeOK, FreeThread, Step, memory, registry, thread, maker
  <1>0. /\ mine[m] \in Structs
        /\ \A n \in Makers : mine[n] = mine[m] => n = m
    BY OwnStruct DEF Deleting
  <1>1. TypeOK'
    BY <1>0 DEF TypeOK, Places, MakerPlaces
  <1>2. Exclusive'
    BY <1>0 DEF Exclusive
  <1>3. Holding'
    BY <1>0 DEF Holding, Creating, Closed
  <1>4. NotRunning'
    BY <1>0 DEF NotRunning, Creating, Closed
  <1>5. Answering'
    BY <1>0 DEF Answering, Handshake
  <1>6. InfoAlive'
    BY <1>0 DEF InfoAlive, NotRunning, Closed
  <1>7. IdsOwned'
    BY <1>0 DEF IdsOwned, Active, Closed
  <1>8. ListSound'
    BY <1>0 DEF ListSound, NotRunning
  <1> QED BY <1>1, <1>2, <1>3, <1>4, <1>5, <1>6, <1>7, <1>8

LEMMA NextIInv == IInv /\ [Next]_vars => IInv'
  <1> SUFFICES ASSUME IInv, [Next]_vars PROVE IInv'
    OBVIOUS
  <1>1. CASE UNCHANGED vars
    BY <1>1 DEF vars, memory, registry, thread, maker, IInv, TypeOK, Exclusive, Holding,
       NotRunning, Answering, InfoAlive, IdsOwned, ListSound
  <1>2. ASSUME NEW m \in Makers, Maker(m) PROVE IInv'
    BY <1>2, AddThreadKeeps, AddThreadFailsKeeps, BeginThreadKeeps, BeginFailsKeeps,
       SemWaitKeeps, DestroySemaphoreKeeps, FreeArgsKeeps, UndoKeeps, DelThreadKeeps,
       CloseKeeps, ReadStatusKeeps, FreeThreadKeeps DEF Maker, CreateThread
  <1>3. ASSUME NEW m \in Makers, NEW s \in Structs,
               Allocate(m, s) \/ WaitThread(m, s) \/ KillThread(m, s)
        PROVE  IInv'
    BY <1>3, AllocateKeeps, WaitThreadKeeps, KillThreadKeeps
  <1>4. ASSUME NEW s \in Structs, RunThread(s) PROVE IInv'
    BY <1>4, StartKeeps, PostCountKeeps, PostReleaseKeeps, TestListKeeps,
       FindErrBufKeeps, WriteErrorKeeps, FinishKeeps, StoreStatusKeeps
       DEF RunThread, SemPost
  <1> QED BY <1>1, <1>2, <1>3, <1>4 DEF Next

LEMMA InductiveInvariant == Spec => []IInv
  BY InitIInv, NextIInv, PTL DEF Spec

-----------------------------------------------------------------------------
(* Every field keeps its type: a semaphore never goes below zero.          *)
THEOREM TypeCorrect == Spec => []TypeOK
  <1>1. IInv => TypeOK
    BY DEF IInv
  <1> QED BY <1>1, InductiveInvariant, PTL

(* A thread that has still to answer finds its arguments and its semaphore *)
(* where its maker put them: the maker waits until the answer has come,    *)
(* and no thread outlives its own structure (SDL_thread.c 191-277).        *)
THEOREM MemoryStaysAlive == Spec => []MemoryAlive
  <1>1. IInv => MemoryAlive
    BY DEF IInv, MemoryAlive, ArgsAlive, Answering, Holding
  <1> QED BY <1>1, InductiveInvariant, PTL

(* The list of threads holds no structure that was freed and none twice,   *)
(* and fits into its memory, though a thread may be missing from it for    *)
(* want of memory (83-135).                                                *)
THEOREM ListStaysSound == Spec => []ListSound
  <1>1. IInv => ListSound
    BY DEF IInv
  <1> QED BY <1>1, InductiveInvariant, PTL

(* A thread that looks for its error buffer finds its own or, if it is not *)
(* in the list, the global one; or else that of a thread whose handle was  *)
(* closed and that is not yet out of the list (147-168).                   *)
THEOREM ErrBufIsOwn == Spec => OwnErrBuf
  <1> DEFINE Own(s) == pc[s] = "lookup" /\ pc'[s] = "write" =>
    \/ errbuf'[s] = IF s \in ToSet(list) THEN s ELSE Global
    \/ \E m \in Makers : mpc[m] \in {"status", "delete"} /\ errbuf'[s] = mine[m]
  <1>1. ASSUME IInv, NEW s \in Structs, FindErrBuf(s) PROVE Own(s)
    <2> USE DEF IInv, TypeOK
    <2>1. threadid[s] = osid[s] /\ osid[s] # None
      BY <1>1 DEF FindErrBuf, Run, IdsOwned, Active
    <2>2. CASE Found(s) = {} /\ errbuf' = [errbuf EXCEPT ![s] = Global]
      <3>1. s \notin ToSet(list)
        BY <2>1, <2>2 DEF Found, ToSet
      <3>2. errbuf'[s] = Global
        BY <1>1, <2>2
      <3> QED BY <3>1, <3>2
    <2>3. ASSUME NEW i \in Found(s), errbuf' = [errbuf EXCEPT ![s] = list[i]]
          PROVE  Own(s)
      <3>1. /\ list[i] \in Structs /\ list[i] \in ToSet(list) /\ list[i] \in live
            /\ threadid[list[i]] = osid[s] /\ errbuf'[s] = list[i]
        BY <1>1, <2>3 DEF Found, ToSet, ListSound
      <3>2. CASE threadid[list[i]] = osid[list[i]]
        <4>1. list[i] = s
          BY <1>1, <2>1, <3>1, <3>2 DEF IdsOwned
        <4> QED BY <3>1, <4>1
      <3>3. CASE \E m \in Makers : mpc[m] \in Closed /\ mine[m] = list[i]
        BY <1>1, <3>1, <3>3 DEF NotRunning, Closed
      <3> QED BY <1>1, <2>1, <3>1, <3>2, <3>3 DEF IdsOwned
    <2> QED BY <1>1, <2>2, <2>3 DEF FindErrBuf
  <1>2. ASSUME IInv, [Next]_vars, NEW s \in Structs, pc[s] = "lookup", pc'[s] = "write"
        PROVE  FindErrBuf(s)
    <2> USE DEF IInv, TypeOK
    <2>1. ASSUME NEW m \in Makers, Maker(m) PROVE FALSE
      BY <1>2, <2>1, OwnStruct DEF Maker, CreateThread, AddThread, AddThreadFails,
         BeginThread, BeginFails, SemWait, DestroySemaphore, FreeArgs, Undo, DelThread,
         Deleting, Close, ReadStatus, FreeThread, Step, thread
    <2>2. ASSUME NEW m \in Makers, NEW u \in Structs,
                 Allocate(m, u) \/ WaitThread(m, u) \/ KillThread(m, u)
          PROVE  FALSE
      BY <1>2, <2>2 DEF Allocate, WaitThread, KillThread, Step, thread
    <2>3. ASSUME NEW u \in Structs, RunThread(u) PROVE FindErrBuf(s)
      BY <1>2, <2>3 DEF RunThread, Start, SemPost, PostCount, PostRelease, TestList,
         FindErrBuf, WriteError, Finish, StoreStatus, Run
    <2>4. CASE UNCHANGED vars
      BY <1>2, <2>4 DEF vars, thread
    <2> QED BY <1>2, <2>1, <2>2, <2>3, <2>4 DEF Next
  <1>3. IInv /\ [Next]_vars => \A s \in Structs : Own(s)
    BY <1>1, <1>2
  <1>4. IInv /\ [Next]_vars => [\A s \in Structs : Own(s)]_vars
    BY <1>3
  <1> QED BY <1>4, InductiveInvariant, PTL DEF Spec, OwnErrBuf

=============================================================================
