-------------------------- MODULE IImsMediaThread --------------------------
(***************************************************************************)
(* core/utils/IImsMediaThread.cpp: the lifecycle of the worker thread that *)
(* every active object of the library owns (scheduler, event handlers,     *)
(* DTMF encoder, quality analyzer, audio source and player).               *)
(*                                                                         *)
(* Clients are the threads that own the object; a worker may also call its *)
(* own object, and then blocks on mLifecycleMutex like anybody else.       *)
(***************************************************************************)
EXTENDS Naturals

CONSTANTS Clients,      \* threads that call the object
          Workers,      \* threads pthread_create may produce, each at most once
          SelfCallers,  \* workers whose run() calls StartThread or JoinThread
          NoThread

ASSUME ThreadsAssumption ==
    /\ Clients \cap Workers = {}
    /\ SelfCallers \subseteq Workers
    /\ NoThread \notin Clients \cup Workers

VARIABLES mThreadStopped, mJoinable,
          mThread,          \* the worker created last
          mLifecycleMutex,  \* the client inside StartThread or JoinThread
          pc,               \* where each client is
          worker,           \* how far each worker is
          calling,          \* workers blocked in, or inside, a call to their own object
          alive             \* the object has not been destroyed

vars == <<mThreadStopped, mJoinable, mThread, mLifecycleMutex, pc, worker, calling, alive>>

ClientPcs == {"idle", "reap", "spawn", "join", "destroy", "destroyJoin"}
WorkerStates == {"unborn", "running", "leaving", "returned", "joined"}

TypeOK ==
    /\ mThreadStopped \in BOOLEAN /\ mJoinable \in BOOLEAN /\ alive \in BOOLEAN
    /\ mThread \in Workers \cup {NoThread}
    /\ mJoinable => mThread \in Workers
    /\ mLifecycleMutex \in Clients \cup {NoThread}
    /\ pc \in [Clients -> ClientPcs]
    /\ worker \in [Workers -> WorkerStates]
    /\ calling \subseteq SelfCallers

\* A thread that may still touch the object.
Live(w) == worker[w] \in {"running", "leaving"}

Init ==
    /\ mThreadStopped = TRUE /\ mJoinable = FALSE /\ alive = TRUE
    /\ mThread = NoThread /\ mLifecycleMutex = NoThread
    /\ pc = [c \in Clients |-> "idle"]
    /\ worker = [w \in Workers |-> "unborn"]
    /\ calling = {}

----------------------------------------------------------------------------
\* StartThread up to the join of the previous worker or to pthread_create.  A worker that
\* was not told to stop makes it fail, which changes nothing.
StartBeginUnchecked(c) ==
    /\ alive /\ pc[c] = "idle" /\ mLifecycleMutex = NoThread
    /\ mLifecycleMutex' = c
    /\ pc' = [pc EXCEPT ![c] = "spawn"]
    /\ mThreadStopped' = FALSE
    /\ UNCHANGED <<mJoinable, mThread, worker, calling, alive>>
StartBeginUnlocked(c) ==
    /\ alive /\ pc[c] = "idle"
    /\ mJoinable => mThreadStopped
    /\ mLifecycleMutex' = c
    /\ pc' = [pc EXCEPT ![c] = IF mJoinable THEN "reap" ELSE "spawn"]
    /\ mThreadStopped' = (mJoinable /\ mThreadStopped)
    /\ UNCHANGED <<mJoinable, mThread, worker, calling, alive>>
StartBegin(c) ==
    /\ alive /\ pc[c] = "idle" /\ mLifecycleMutex = NoThread
    /\ mJoinable => mThreadStopped
    /\ mLifecycleMutex' = c
    /\ pc' = [pc EXCEPT ![c] = IF mJoinable THEN "reap" ELSE "spawn"]
    /\ mThreadStopped' = (mJoinable /\ mThreadStopped)
    /\ UNCHANGED <<mJoinable, mThread, worker, calling, alive>>

\* pthread_join of the previous worker returns; the flag is cleared for the next one.
StartReap(c) ==
    /\ pc[c] = "reap" /\ worker[mThread] = "returned"
    /\ worker' = [worker EXCEPT ![mThread] = "joined"]
    /\ mJoinable' = FALSE
    /\ mThreadStopped' = FALSE
    /\ pc' = [pc EXCEPT ![c] = "spawn"]
    /\ UNCHANGED <<mThread, mLifecycleMutex, calling, alive>>

StartSpawn(c) ==
    /\ pc[c] = "spawn"
    /\ \E w \in Workers :
          /\ worker[w] = "unborn"
          /\ worker' = [worker EXCEPT ![w] = "running"]
          /\ mThread' = w
    /\ mJoinable' = TRUE
    /\ mLifecycleMutex' = NoThread
    /\ pc' = [pc EXCEPT ![c] = "idle"]
    /\ UNCHANGED <<mThreadStopped, calling, alive>>

\* pthread_create fails.
StartFail(c) ==
    /\ pc[c] = "spawn"
    /\ mThreadStopped' = TRUE
    /\ mLifecycleMutex' = NoThread
    /\ pc' = [pc EXCEPT ![c] = "idle"]
    /\ UNCHANGED <<mJoinable, mThread, worker, calling, alive>>

StopThread(c) ==
    /\ alive /\ pc[c] = "idle"
    /\ mThreadStopped' = TRUE
    /\ UNCHANGED <<mJoinable, mThread, mLifecycleMutex, pc, worker, calling, alive>>

\* JoinThread up to pthread_join; without a joinable worker it returns at once.
JoinBegin(c) ==
    /\ alive /\ pc[c] = "idle" /\ mLifecycleMutex = NoThread /\ mJoinable
    /\ mLifecycleMutex' = c
    /\ pc' = [pc EXCEPT ![c] = "join"]
    /\ UNCHANGED <<mThreadStopped, mJoinable, mThread, worker, calling, alive>>

\* pthread_join returns once the worker has, and never before.
JoinEnd(c) ==
    /\ pc[c] = "join" /\ worker[mThread] = "returned"
    /\ worker' = [worker EXCEPT ![mThread] = "joined"]
    /\ mJoinable' = FALSE
    /\ mLifecycleMutex' = NoThread
    /\ pc' = [pc EXCEPT ![c] = "idle"]
    /\ UNCHANGED <<mThreadStopped, mThread, calling, alive>>

\* ~IImsMediaThread: its owner calls it when nobody else is inside the object.
DestroyBegin(c) ==
    /\ alive /\ \A d \in Clients : pc[d] = "idle"
    /\ alive' = FALSE
    /\ mThreadStopped' = TRUE
    /\ pc' = [pc EXCEPT ![c] = "destroy"]
    /\ UNCHANGED <<mJoinable, mThread, mLifecycleMutex, worker, calling>>

DestroyJoin(c) ==
    /\ pc[c] = "destroy" /\ mLifecycleMutex = NoThread
    /\ mLifecycleMutex' = c
    /\ pc' = [pc EXCEPT ![c] = "destroyJoin"]
    /\ UNCHANGED <<mThreadStopped, mJoinable, mThread, worker, calling, alive>>

\* The memory of the object goes back to the allocator here.
DestroyEndUnjoined(c) ==
    /\ pc[c] = "destroyJoin"
    /\ worker' = worker
    /\ mJoinable' = FALSE
    /\ mLifecycleMutex' = NoThread
    /\ pc' = [pc EXCEPT ![c] = "idle"]
    /\ UNCHANGED <<mThreadStopped, mThread, calling, alive>>
DestroyEnd(c) ==
    /\ pc[c] = "destroyJoin"
    /\ mJoinable => worker[mThread] = "returned"
    /\ worker' = IF mJoinable THEN [worker EXCEPT ![mThread] = "joined"] ELSE worker
    /\ mJoinable' = FALSE
    /\ mLifecycleMutex' = NoThread
    /\ pc' = [pc EXCEPT ![c] = "idle"]
    /\ UNCHANGED <<mThreadStopped, mThread, calling, alive>>

----------------------------------------------------------------------------
\* run() returns; a run() of the library polls IsThreadStopped, but may return earlier.
RunReturns(w) ==
    /\ worker[w] = "running" /\ w \notin calling
    /\ worker' = [worker EXCEPT ![w] = "leaving"]
    /\ UNCHANGED <<mThreadStopped, mJoinable, mThread, mLifecycleMutex, pc, calling, alive>>

\* runThread sets the stop flag itself and the thread ends.
WorkerEnds(w) ==
    /\ worker[w] = "leaving"
    /\ worker' = [worker EXCEPT ![w] = "returned"]
    /\ mThreadStopped' = TRUE
    /\ UNCHANGED <<mJoinable, mThread, mLifecycleMutex, pc, calling, alive>>

\* run() gives up: a worker may call StopThread on its own object at any time.
WorkerStops(w) ==
    /\ worker[w] = "running" /\ w \notin calling
    /\ mThreadStopped' = TRUE
    /\ UNCHANGED <<mJoinable, mThread, mLifecycleMutex, pc, worker, calling, alive>>

\* run() enters StartThread or JoinThread of its own object ...
SelfCall(w) ==
    /\ w \in SelfCallers \ calling /\ worker[w] = "running"
    /\ calling' = calling \cup {w}
    /\ UNCHANGED <<mThreadStopped, mJoinable, mThread, mLifecycleMutex, pc, worker, alive>>

\* ... and leaves it: pthread_equal(mThread, pthread_self()) makes both calls return.
SelfReturn(w) ==
    /\ w \in calling /\ mLifecycleMutex = NoThread
    /\ calling' = calling \ {w}
    /\ UNCHANGED <<mThreadStopped, mJoinable, mThread, mLifecycleMutex, pc, worker, alive>>

ClientStep(c) ==
    \/ StartBegin(c) \/ StartReap(c) \/ StartSpawn(c) \/ StartFail(c)
    \/ StopThread(c) \/ JoinBegin(c) \/ JoinEnd(c)
    \/ DestroyBegin(c) \/ DestroyJoin(c) \/ DestroyEnd(c)

WorkerStep(w) ==
    RunReturns(w) \/ WorkerEnds(w) \/ WorkerStops(w) \/ SelfCall(w) \/ SelfReturn(w)

Next == (\E c \in Clients : ClientStep(c)) \/ (\E w \in Workers : WorkerStep(w))

Spec == Init /\ [][Next]_vars

\* run() polls the stop flag, so it returns once told to; the calls a client is inside go on.
Fairness ==
    /\ \A w \in Workers : WF_vars(mThreadStopped /\ RunReturns(w)) /\ WF_vars(WorkerEnds(w))
    /\ \A c \in Clients :
          /\ WF_vars(StartReap(c)) /\ WF_vars(StartSpawn(c) \/ StartFail(c))
          /\ WF_vars(JoinEnd(c)) /\ SF_vars(DestroyJoin(c)) /\ WF_vars(DestroyEnd(c))

FairSpec == Spec /\ Fairness
----------------------------------------------------------------------------
(* A stopped worker is joined before it is reused (README.md:70): whoever was
   created before the current worker has been joined, and nobody has when the
   object holds no joinable worker.  So two workers never share the object. *)
JoinedBeforeReuse ==
    \A w \in Workers : w # mThread \/ ~mJoinable => worker[w] \in {"unborn", "joined"}

(* The flag StartThread has just cleared is not set again by the epilogue of an
   earlier worker: none is left when the new one is about to be created. *)
FreshFlagIsNotStale ==
    \A c \in Clients : pc[c] = "spawn" => \A w \in Workers : ~Live(w)

(* Once the destructor is through, no worker can touch the freed object
   (IImsMediaThread.h: derived destructors must join before releasing). *)
NoWorkerAfterDestroy ==
    (~alive /\ \A c \in Clients : pc[c] = "idle") => \A w \in Workers : ~Live(w)

(* A client inside JoinThread leaves it only when no worker runs, whatever the
   stop flag said and whoever else was calling the object. *)
JoinReturnsAlone ==
    [][\A c \in Clients : pc[c] = "join" /\ pc'[c] = "idle" =>
          \A w \in Workers : worker'[w] \notin {"running", "leaving"}]_vars

(* A worker told to stop is joined: the flag cannot be cleared under a client that already
   waits for the worker.  Only a worker that is itself in a call to its object, and so
   waits for the client's mLifecycleMutex, is waited for in vain. *)
StoppedJoinReturns ==
    \A c \in Clients :
        (pc[c] = "join" /\ mThreadStopped) ~> (pc[c] = "idle" \/ mThread \in calling)
============================================================================
