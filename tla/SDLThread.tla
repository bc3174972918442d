------------------------------ MODULE SDLThread -----------------------------
(***************************************************************************)
(* Threads as SDL makes them (SDL/src/thread/SDL_thread.c over             *)
(* thread/win32/SDL_systhread.c and SDL_syssem.c): the handshake between   *)
(* SDL_CreateThread and the thread it starts, the list of threads under    *)
(* thread_lock, SDL_WaitThread and SDL_KillThread, and the error buffer a  *)
(* thread finds by its id.                                                 *)
(*                                                                         *)
(* A section under thread_lock does not block and is one step.  The        *)
(* SDL_Thread structures are a fixed set, and one that was freed may be    *)
(* allocated again.  An id of the system's is in use from the start of a   *)
(* thread until the thread has ended and its handle is closed.  The lock   *)
(* is made by the first SDL_CreateThread, before there are threads.        *)
(* Definitions that no other uses are slips the properties tell apart.     *)
(***************************************************************************)
EXTENDS Integers, Sequences, FiniteSets, SequencesExt

CONSTANTS
  Makers,  \* threads of the application that create and wait for threads
  Structs, \* SDL_Thread structures
  Ids,     \* thread ids of the system
  Chunk,   \* ARRAY_CHUNKSIZE
  Global,  \* SDL_global_error
  None     \* no structure, no id, no buffer

ASSUME SDLThreadAssumption ==
  /\ Chunk \in Nat \ {0}
  /\ Global \notin Structs
  /\ None \notin Structs \cup Ids \cup {Global}

VARIABLES
  live,      \* structures that are allocated
  args,      \* structures whose thread_args are allocated
  sem,       \* structures whose args->wait exists
  posted,    \* its count in the kernel
  threadid,  \* thread->threadid
  list,      \* SDL_Threads[0 .. SDL_numthreads-1]
  maxthreads,\* SDL_maxthreads
  osid,      \* the id the system has given to each thread, until it is free
  pc,        \* where each thread that was made is
  errbuf,    \* the buffer SDL_GetErrBuf found for it and it is writing to
  mpc,       \* where each maker is
  mine       \* the structure it works on

memory == <<live, args, sem>>
registry == <<list, maxthreads>>
thread == <<threadid, osid, pc, errbuf>>
maker == <<mpc, mine>>
vars == <<memory, posted, registry, thread, maker>>

(* A made thread: start, count and release (SDL_SemPost), run, lookup (it  *)
(* has seen that SDL_Threads is not NULL), write, return, ended.           *)
Places == {"none", "start", "count", "release", "run", "lookup", "write",
           "return", "ended"}

MakerPlaces == {"idle", "add", "begin", "failed", "undo", "wait", "destroy", "free",
                "join", "status", "delete", "release"}

Init ==
  /\ live = {} /\ args = {} /\ sem = {}
  /\ posted = [s \in Structs |-> 0]
  /\ threadid = [s \in Structs |-> None]
  /\ list = <<>> /\ maxthreads = 0
  /\ osid = [s \in Structs |-> None]
  /\ pc = [s \in Structs |-> "none"]
  /\ errbuf = [s \in Structs |-> None]
  /\ mpc = [m \in Makers |-> "idle"]
  /\ mine = [m \in Makers |-> None]

Step(m, from, to) == mpc[m] = from /\ mpc' = [mpc EXCEPT ![m] = to]

Run(s, from, to) == pc[s] = from /\ pc' = [pc EXCEPT ![s] = to]

-----------------------------------------------------------------------------
(* SDL_CreateThread.  When memory runs out here it returns NULL and leaves *)
(* nothing behind.  A structure goes with one block of arguments.          *)
Allocate(m, s) ==
  /\ s \notin live \cup args
  /\ Step(m, "idle", "add")
  /\ mine' = [mine EXCEPT ![m] = s]
  /\ live' = live \cup {s} /\ args' = args \cup {s} /\ sem' = sem \cup {s}
  /\ posted' = [posted EXCEPT ![s] = 0]
  /\ threadid' = [threadid EXCEPT ![s] = None]
  /\ UNCHANGED <<registry, osid, pc, errbuf>>

(* SDL_AddThread.  A list that cannot grow leaves the thread out.          *)
AddThread(m) ==
  /\ Step(m, "add", "begin")
  /\ \/ Len(list) < maxthreads /\ UNCHANGED maxthreads
     \/ Len(list) = maxthreads /\ maxthreads' = maxthreads + Chunk
  /\ list' = Append(list, mine[m])
  /\ UNCHANGED <<memory, posted, thread, mine>>

AddThreadFails(m) ==
  /\ Step(m, "add", "begin")
  /\ Len(list) = maxthreads
  /\ UNCHANGED <<memory, posted, registry, thread, mine>>

(* SDL_SYS_CreateThread: the system starts a thread with an id that is     *)
(* free, or does not.                                                      *)
BeginThread(m) ==
  /\ Step(m, "begin", "wait")
  /\ \E id \in Ids \ {osid[s] : s \in Structs} :
       osid' = [osid EXCEPT ![mine[m]] = id]
  /\ pc' = [pc EXCEPT ![mine[m]] = "start"]
  /\ UNCHANGED <<memory, posted, registry, threadid, errbuf, mine>>

BeginFails(m) ==
  /\ Step(m, "begin", "failed")
  /\ UNCHANGED <<memory, posted, registry, thread, mine>>

SemWait(m) ==
  /\ Step(m, "wait", "destroy")
  /\ posted[mine[m]] > 0
  /\ posted' = [posted EXCEPT ![mine[m]] = @ - 1]
  /\ UNCHANGED <<memory, registry, thread, mine>>

DestroySemaphore(m) ==
  /\ Step(m, "destroy", "free")
  /\ sem' = sem \ {mine[m]}
  /\ UNCHANGED <<live, args, posted, registry, thread, mine>>

FreeArgs(m) ==
  /\ Step(m, "free", "idle")
  /\ args' = args \ {mine[m]}
  /\ mine' = [mine EXCEPT ![m] = None]
  /\ UNCHANGED <<live, sem, posted, registry, thread>>

(* SDL_DelThread shifts the later entries over the one it deletes.         *)
Shifted(i) == [k \in 1 .. Len(list) - 1 |-> IF k < i THEN list[k] ELSE list[k + 1]]

Deleting(m) ==
  \/ Step(m, "failed", "undo")
  \/ Step(m, "delete", "release")

DelLast(m) ==
  /\ Deleting(m)
  /\ list' = IF list = <<>> THEN list ELSE Front(list)
  /\ maxthreads' = IF Len(list) <= 1 THEN 0 ELSE maxthreads
  /\ UNCHANGED <<memory, posted, thread, mine>>

DelThread(m) ==
  /\ Deleting(m)
  /\ \/ /\ mine[m] \notin ToSet(list)
        /\ UNCHANGED registry
     \/ \E i \in DOMAIN list :
          /\ list[i] = mine[m]
          /\ \A j \in 1 .. i - 1 : list[j] # mine[m]
          /\ list' = Shifted(i)
          /\ maxthreads' = IF Len(list) = 1 THEN 0 ELSE maxthreads
  /\ UNCHANGED <<memory, posted, thread, mine>>

(* No thread could be made: free(thread), then the semaphore and the args. *)
Undo(m) ==
  /\ Step(m, "undo", "destroy")
  /\ live' = live \ {mine[m]}
  /\ UNCHANGED <<args, sem, posted, registry, thread, mine>>

-----------------------------------------------------------------------------
(* SDL_RunThread, on the new thread *)

Start(s) ==
  /\ Run(s, "start", "count")
  /\ threadid' = [threadid EXCEPT ![s] = osid[s]]
  /\ UNCHANGED <<memory, posted, registry, osid, errbuf, maker>>

(* SDL_SemPost counts in the semaphore's own memory before it releases,    *)
(* "because after a successful release the semaphore may immediately get   *)
(* destroyed by another thread" (SDL_syssem.c 148-152).                    *)
PostCountsLater(s) ==
  /\ Run(s, "count", "release")
  /\ posted' = [posted EXCEPT ![s] = @ + 1]
  /\ UNCHANGED <<memory, registry, threadid, osid, errbuf, maker>>

PostCount(s) ==
  /\ Run(s, "count", "release")
  /\ UNCHANGED <<memory, posted, registry, threadid, osid, errbuf, maker>>

PostRestored(s) ==
  /\ Run(s, "release", "run")
  /\ UNCHANGED <<memory, posted, registry, threadid, osid, errbuf, maker>>

PostRelease(s) ==
  /\ Run(s, "release", "run")
  /\ posted' = [posted EXCEPT ![s] = @ + 1]
  /\ UNCHANGED <<memory, registry, threadid, osid, errbuf, maker>>

(* SDL_GetErrBuf: the list is looked at before the lock is taken.          *)
TestList(s) ==
  /\ pc[s] = "run"
  /\ \/ /\ list = <<>> /\ maxthreads = 0
        /\ pc' = [pc EXCEPT ![s] = "write"]
        /\ errbuf' = [errbuf EXCEPT ![s] = Global]
     \/ /\ maxthreads > 0
        /\ pc' = [pc EXCEPT ![s] = "lookup"]
        /\ UNCHANGED errbuf
  /\ UNCHANGED <<memory, posted, registry, threadid, osid, maker>>

Found(s) == {i \in DOMAIN list : threadid[list[i]] = osid[s]}

FindErrBuf(s) ==
  /\ Run(s, "lookup", "write")
  /\ \/ Found(s) = {} /\ errbuf' = [errbuf EXCEPT ![s] = Global]
     \/ \E i \in Found(s) :
          /\ \A j \in Found(s) : i <= j
          /\ errbuf' = [errbuf EXCEPT ![s] = list[i]]
  /\ UNCHANGED <<memory, posted, registry, threadid, osid, maker>>

WriteError(s) ==
  /\ Run(s, "write", "run")
  /\ errbuf' = [errbuf EXCEPT ![s] = None]
  /\ UNCHANGED <<memory, posted, registry, threadid, osid, maker>>

(* The thread's function returns; then its status is stored.               *)
Finish(s) ==
  /\ Run(s, "run", "return")
  /\ UNCHANGED <<memory, posted, registry, threadid, osid, errbuf, maker>>

StoreStatus(s) ==
  /\ Run(s, "return", "ended")
  /\ UNCHANGED <<memory, posted, registry, threadid, osid, errbuf, maker>>

-----------------------------------------------------------------------------
(* SDL_WaitThread, once for each thread that SDL_CreateThread returned *)

Returned(s) == s \in live /\ \A m \in Makers : mine[m] # s

WaitThread(m, s) ==
  /\ Returned(s)
  /\ Step(m, "idle", "join")
  /\ mine' = [mine EXCEPT ![m] = s]
  /\ UNCHANGED <<memory, posted, registry, thread>>

(* SDL_KillThread: TerminateThread, wherever the thread is outside the     *)
(* lock; then SDL_WaitThread.                                              *)
KillThread(m, s) ==
  /\ Returned(s)
  /\ Step(m, "idle", "join")
  /\ mine' = [mine EXCEPT ![m] = s]
  /\ pc' = [pc EXCEPT ![s] = "ended"]
  /\ errbuf' = [errbuf EXCEPT ![s] = None]
  /\ UNCHANGED <<memory, posted, registry, threadid, osid>>

(* WaitForSingleObject and CloseHandle, after which the id is free.        *)
Close(m) ==
  /\ Step(m, "join", "status")
  /\ pc[mine[m]] = "ended"
  /\ pc' = [pc EXCEPT ![mine[m]] = "none"]
  /\ osid' = [osid EXCEPT ![mine[m]] = None]
  /\ UNCHANGED <<memory, posted, registry, threadid, errbuf, mine>>

ReadStatus(m) ==
  /\ Step(m, "status", "delete")
  /\ UNCHANGED <<memory, posted, registry, thread, mine>>

FreeThread(m) ==
  /\ Step(m, "release", "idle")
  /\ live' = live \ {mine[m]}
  /\ mine' = [mine EXCEPT ![m] = None]
  /\ UNCHANGED <<args, sem, posted, registry, thread>>

-----------------------------------------------------------------------------
CreateThread(m) ==
  \/ AddThread(m) \/ AddThreadFails(m) \/ BeginThread(m) \/ BeginFails(m)
  \/ SemWait(m) \/ DestroySemaphore(m) \/ FreeArgs(m) \/ Undo(m)

Maker(m) == CreateThread(m) \/ DelThread(m) \/ Close(m) \/ ReadStatus(m) \/ FreeThread(m)

SemPost(s) == PostCount(s) \/ PostRelease(s)

RunThread(s) ==
  \/ Start(s) \/ SemPost(s) \/ TestList(s) \/ FindErrBuf(s) \/ WriteError(s)
  \/ Finish(s) \/ StoreStatus(s)

Next ==
  \/ \E m \in Makers :
       \/ Maker(m)
       \/ \E s \in Structs : Allocate(m, s) \/ WaitThread(m, s) \/ KillThread(m, s)
  \/ \E s \in Structs : RunThread(s)

Spec == Init /\ [][Next]_vars

(* The system runs every thread.  Nobody need create or wait for one.      *)
FairSpec ==
  /\ Spec
  /\ \A m \in Makers : WF_vars(Maker(m))
  /\ \A s \in Structs : WF_vars(RunThread(s))

-----------------------------------------------------------------------------
(***************************************************************************)
(* Properties                                                              *)
(***************************************************************************)
TypeOK ==
  /\ live \subseteq Structs /\ args \subseteq Structs /\ sem \subseteq Structs
  /\ posted \in [Structs -> Nat]
  /\ threadid \in [Structs -> Ids \cup {None}]
  /\ list \in Seq(Structs) /\ maxthreads \in Nat
  /\ osid \in [Structs -> Ids \cup {None}]
  /\ pc \in [Structs -> Places]
  /\ errbuf \in [Structs -> Structs \cup {Global, None}]
  /\ mpc \in [Makers -> MakerPlaces]
  /\ mine \in [Makers -> Structs \cup {None}]

Handshake == {"start", "count", "release"}

(* A thread that starts reads arguments and posts a semaphore that belong  *)
(* to the thread that made it and are freed there: neither is freed before *)
(* its last use (SDL_thread.c 192-201 against 255-263).                    *)
ArgsAlive == \A s \in Structs : pc[s] \in Handshake => s \in args \cap sem

(* No thread outlives its own structure, into which it stores its id and   *)
(* its status (193, 204 against 272-277).                                  *)
InfoAlive == \A s \in Structs : pc[s] # "none" => s \in live

MemoryAlive == ArgsAlive /\ InfoAlive

(* The list that SDL_GetErrBuf searches holds no structure that was freed  *)
(* or is there twice, and fits into what was allocated for it (83-135).    *)
ListSound ==
  /\ ToSet(list) \subseteq live
  /\ IsInjective(list)
  /\ Len(list) <= maxthreads
  /\ (list = <<>>) <=> (maxthreads = 0)

(* "Routine to get the thread-specific error variable" (147): a thread     *)
(* finds its own buffer, or the global one if the list has no place for    *)
(* it.  Once CloseHandle has freed the id of a thread that is still in the *)
(* list, another thread may have been given it, and may find that one's.   *)
OwnErrBuf == [][\A s \in Structs :
  pc[s] = "lookup" /\ pc'[s] = "write" =>
    \/ errbuf'[s] = IF s \in ToSet(list) THEN s ELSE Global
    \/ \E m \in Makers : mpc[m] \in {"status", "delete"} /\ errbuf'[s] = mine[m]]_vars

(* SDL_CreateThread returns: the thread it made answers (255).             *)
CreateReturns == \A m \in Makers : mpc[m] = "wait" ~> mpc[m] = "idle"

=============================================================================
