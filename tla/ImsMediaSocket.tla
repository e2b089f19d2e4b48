--------------------------- MODULE ImsMediaSocket ---------------------------
(***************************************************************************)
(* core/utils/ImsMediaSocket.cpp with the SocketReaderNode and             *)
(* SocketWriterNode that use it: all sessions of the process share one     *)
(* list of sockets to read and one monitor thread, started for the first   *)
(* listening socket and stopped with the last.  The thread of each session *)
(* ("owner") opens, starts, stops and closes its nodes; audio, video and   *)
(* text sessions have a thread each, so two of them can be in Listen() at  *)
(* the same time.                                                          *)
(*                                                                         *)
(* Only the lists and the callbacks are under sMutexRxSocket; the counter  *)
(* and the flags are plain variables, so each load and each store of them  *)
(* is a step.  A socket stands for its local port and its peer, with the   *)
(* reader and the writer node that are opened on it; its descriptor is its *)
(* own and stays open (Java closes it).                                    *)
(***************************************************************************)
EXTENDS ConditionRing, Integers, FiniteSets

CONSTANTS Owners, Sockets,
          Writers,      \* the sockets that have a writer node besides the reader
          OwnerOf,      \* the session each socket belongs to
          MaxMonitors,  \* bound on the monitor threads that exist at a time
          MaxOverlaps,  \* bound on the calls of Listen once two have been made at a time
          MaxCount      \* bound on sRxSocketCount, which lost updates can make drift

ASSUME OwnersAssumption ==
    IsFiniteSet(Owners) /\ OwnerOf \in [Sockets -> Owners] /\ Writers \subseteq Sockets
ASSUME BoundsAssumption == {MaxCount, MaxMonitors, MaxOverlaps} \subseteq Nat \ {0}

VARIABLES slistRxSocket, mListener, sRxSocketCount, sSocketListUpdated, sTerminateMonitor,
          sConditionExit,
          mRefCount, mSocketOpened, mNodeState, writing,   \* of a socket and its two nodes
          pc, at, seen,          \* owners: place in Listen, its socket, the count they loaded
          mpc, todo, inHand,     \* monitors: place, sockets left in the round, the one being called
          ReadFds, TmpReadfds,   \* static sets, shared by all monitors
          overlaps               \* calls of Listen since two were first made at a time (auxiliary)

listVars == <<slistRxSocket, mListener>>
flagVars == <<sRxSocketCount, sSocketListUpdated, sTerminateMonitor>>
nodeVars == <<mRefCount, mSocketOpened, mNodeState, writing>>
ownerVars == <<pc, at, seen>>
monitorVars == <<mpc, todo, inHand, ReadFds, TmpReadfds>>
vars == <<listVars, flagVars, sConditionExit, nodeVars, ownerVars, monitorVars, overlaps>>

ListenPcs == {"push", "count", "start", "cancel", "spawn", "incLoad", "incStore",
              "clear", "remove", "decLoad", "decStore", "touch", "terminate", "wait", "asleep",
              "woken", "zero"}
OwnerPcs == ListenPcs \cup {"idle", "close"}
MonitorPcs == {"none", "begin", "check", "look", "refresh", "select", "recheck", "lock",
               "next", "call", "deliver", "exit", "exitSignal", "crashed"}

TypeOK ==
    /\ {slistRxSocket, ReadFds, TmpReadfds} \subseteq SUBSET Sockets
    /\ {mListener, mSocketOpened, writing} \subseteq [Sockets -> BOOLEAN]
    /\ sRxSocketCount \in -Cardinality(Owners) .. MaxCount
    /\ {sSocketListUpdated, sTerminateMonitor} \subseteq BOOLEAN
    /\ overlaps \in 0 .. MaxOverlaps
    /\ sConditionExit \in Ring
    /\ mRefCount \in [Sockets -> 0 .. 2]
    /\ mNodeState \in [Sockets -> {"running", "stopped"}]
    /\ pc \in [Owners -> OwnerPcs] /\ at \in [Owners -> Sockets]
    /\ seen \in [Owners -> -Cardinality(Owners) .. MaxCount]
    /\ mpc \in [1 .. MaxMonitors -> MonitorPcs] /\ todo \in [1 .. MaxMonitors -> SUBSET Sockets]
    /\ inHand \in [1 .. MaxMonitors -> SUBSET Sockets]

Init ==
    /\ slistRxSocket = {} /\ mListener = [s \in Sockets |-> FALSE]
    /\ sRxSocketCount = 0 /\ sSocketListUpdated = FALSE /\ sTerminateMonitor = FALSE
    /\ sConditionExit = Reset
    /\ mRefCount = [s \in Sockets |-> 0] /\ mSocketOpened = [s \in Sockets |-> FALSE]
    /\ mNodeState = [s \in Sockets |-> "stopped"] /\ writing = [s \in Sockets |-> FALSE]
    /\ pc = [o \in Owners |-> "idle"] /\ seen = [o \in Owners |-> 0]
    /\ at = [o \in Owners |-> CHOOSE s \in Sockets : OwnerOf[s] = o]
    /\ mpc = [m \in 1 .. MaxMonitors |-> "none"] /\ todo = [m \in 1 .. MaxMonitors |-> {}]
    /\ inHand = [m \in 1 .. MaxMonitors |-> {}]
    /\ ReadFds = {} /\ TmpReadfds = {} /\ overlaps = 0

\* sMutexRxSocket is held over a whole ReadDataFromSocket, mMutex of a node over its callback.
RxMutexFree == \A m \in 1 .. MaxMonitors : mpc[m] \notin {"next", "call", "deliver"}
NodeMutexFree(s) == \A m \in 1 .. MaxMonitors : ~(mpc[m] = "deliver" /\ s \in inHand[m])
Crashed == \E m \in 1 .. MaxMonitors : mpc[m] = "crashed"
Live == {m \in 1 .. MaxMonitors : mpc[m] # "none"}

----------------------------------------------------------------------------
(* Calls of a session thread. *)

Goto(o, place) == pc' = [pc EXCEPT ![o] = place]

EntersListen(o) ==
    /\ overlaps < MaxOverlaps
    /\ overlaps' = IF overlaps > 0 \/ \E p \in Owners \ {o} : pc[p] \in ListenPcs
                   THEN overlaps + 1 ELSE 0

\* SocketReaderNode::OpenSocket, by Prepare or Start: Open, then Listen(this).
OpenSocket(o, s) ==
    /\ pc[o] = "idle" /\ OwnerOf[s] = o /\ ~mSocketOpened[s]
    /\ mRefCount' = [mRefCount EXCEPT ![s] = @ + 1]
    /\ at' = [at EXCEPT ![o] = s] /\ Goto(o, "push") /\ EntersListen(o)
    /\ UNCHANGED <<listVars, flagVars, sConditionExit, mSocketOpened, mNodeState, writing, seen,
                   monitorVars>>

Start(o, s) ==
    /\ pc[o] = "idle" /\ OwnerOf[s] = o /\ mSocketOpened[s] /\ mNodeState[s] = "stopped"
    /\ mNodeState' = [mNodeState EXCEPT ![s] = "running"]
    /\ UNCHANGED <<listVars, flagVars, sConditionExit, mRefCount, mSocketOpened, writing,
                   ownerVars, monitorVars, overlaps>>

Stop(o, s) ==
    /\ pc[o] = "idle" /\ OwnerOf[s] = o /\ mNodeState[s] = "running" /\ NodeMutexFree(s)
    /\ mNodeState' = [mNodeState EXCEPT ![s] = "stopped"]
    /\ UNCHANGED <<listVars, flagVars, sConditionExit, mRefCount, mSocketOpened, writing,
                   ownerVars, monitorVars, overlaps>>

\* CloseSocket of a stopped node (UpdateConfig, the destructor): Listen(nullptr), then Close.
CloseSocket(o, s) ==
    /\ pc[o] = "idle" /\ OwnerOf[s] = o /\ mSocketOpened[s] /\ mNodeState[s] = "stopped"
    /\ at' = [at EXCEPT ![o] = s] /\ Goto(o, "clear") /\ EntersListen(o)
    /\ UNCHANGED <<listVars, flagVars, sConditionExit, nodeVars, seen, monitorVars>>

\* SocketWriterNode opens and closes the same instance.
WriterStart(o, s) ==
    /\ pc[o] = "idle" /\ OwnerOf[s] = o /\ s \in Writers /\ ~writing[s]
    /\ writing' = [writing EXCEPT ![s] = TRUE]
    /\ mRefCount' = [mRefCount EXCEPT ![s] = @ + 1]
    /\ UNCHANGED <<listVars, flagVars, sConditionExit, mSocketOpened, mNodeState, ownerVars,
                   monitorVars, overlaps>>

WriterStop(o, s) ==
    /\ pc[o] = "idle" /\ OwnerOf[s] = o /\ writing[s]
    /\ writing' = [writing EXCEPT ![s] = FALSE]
    /\ mRefCount' = [mRefCount EXCEPT ![s] = @ - 1]
    /\ UNCHANGED <<listVars, flagVars, sConditionExit, mSocketOpened, mNodeState, ownerVars,
                   monitorVars, overlaps>>

----------------------------------------------------------------------------
(* Listen(this). *)

ListenOnly == UNCHANGED <<nodeVars, at, inHand, ReadFds, TmpReadfds, overlaps>>

\* The monitor sees mListener only once the socket is in the list.
PushSocket(o) ==
    /\ pc[o] = "push" /\ RxMutexFree
    /\ mListener' = [mListener EXCEPT ![at[o]] = TRUE]
    /\ slistRxSocket' = slistRxSocket \cup {at[o]} /\ Goto(o, "count")
    /\ ListenOnly /\ UNCHANGED <<flagVars, sConditionExit, seen, mpc, todo>>

\* The first listener starts the monitor, the others have it refresh its set.
CheckCount(o) ==
    /\ pc[o] = "count"
    /\ \/ sRxSocketCount = 0 /\ Goto(o, "start") /\ UNCHANGED sSocketListUpdated
       \/ sRxSocketCount # 0 /\ Goto(o, "incLoad") /\ sSocketListUpdated' = TRUE
    /\ ListenOnly
    /\ UNCHANGED <<listVars, sRxSocketCount, sTerminateMonitor, sConditionExit, seen, mpc, todo>>

\* StartSocketMonitor takes back a termination that was asked for, or starts a thread.
CheckTerminate(o) ==
    /\ pc[o] = "start"
    /\ Goto(o, IF sTerminateMonitor THEN "cancel" ELSE "spawn")
    /\ ListenOnly /\ UNCHANGED <<listVars, flagVars, sConditionExit, seen, mpc, todo>>

\* A waiting StopSocketMonitor is woken, whoever signals it.
SignalExit ==
    /\ sConditionExit' = Signal(sConditionExit)
    /\ IF \E p \in Owners : pc[p] = "asleep"
       THEN \E p \in Owners : pc[p] = "asleep" /\ pc' = [pc EXCEPT ![p] = "woken"]
       ELSE UNCHANGED pc

CancelTerminate(o) ==
    /\ pc[o] = "cancel"
    /\ sTerminateMonitor' = FALSE
    /\ sConditionExit' = Signal(sConditionExit)
    /\ IF \E p \in Owners : pc[p] = "asleep"
       THEN \E p \in Owners : /\ pc[p] = "asleep"
                              /\ pc' = [pc EXCEPT ![p] = "woken", ![o] = "incLoad"]
       ELSE Goto(o, "incLoad")
    /\ ListenOnly
    /\ UNCHANGED <<listVars, sRxSocketCount, sSocketListUpdated, seen, mpc, todo>>

SpawnMonitor(o) ==
    /\ pc[o] = "spawn"
    /\ sTerminateMonitor' = FALSE
    /\ \E m \in (1 .. MaxMonitors) \ Live :    \* the first number that is free
          1 .. (m - 1) \subseteq Live /\ mpc' = [mpc EXCEPT ![m] = "begin"]
    /\ Goto(o, "incLoad")
    /\ ListenOnly
    /\ UNCHANGED <<listVars, sRxSocketCount, sSocketListUpdated, sConditionExit, seen, todo>>

LoadCount(o) ==
    /\ \/ pc[o] = "incLoad" /\ Goto(o, "incStore")
       \/ pc[o] = "decLoad" /\ Goto(o, "decStore")
    /\ seen' = [seen EXCEPT ![o] = sRxSocketCount]
    /\ ListenOnly /\ UNCHANGED <<listVars, flagVars, sConditionExit, mpc, todo>>

\* The last step of Listen, and back in OpenSocket.
IncCountStore(o) ==
    /\ pc[o] = "incStore" /\ seen[o] < MaxCount
    /\ sRxSocketCount' = seen[o] + 1 /\ seen' = [seen EXCEPT ![o] = 0]
    /\ mSocketOpened' = [mSocketOpened EXCEPT ![at[o]] = TRUE] /\ Goto(o, "idle")
    /\ UNCHANGED <<listVars, sSocketListUpdated, sTerminateMonitor, sConditionExit, mRefCount,
                   mNodeState, writing, at, monitorVars, overlaps>>

----------------------------------------------------------------------------
(* Listen(nullptr), then the rest of CloseSocket. *)

ClearListener(o) ==
    /\ pc[o] = "clear"
    /\ mListener' = [mListener EXCEPT ![at[o]] = FALSE] /\ Goto(o, "remove")
    /\ ListenOnly
    /\ UNCHANGED <<slistRxSocket, flagVars, sConditionExit, seen, mpc, todo>>

RemoveSocketUnlocked(o) ==
    /\ pc[o] = "remove"
    /\ slistRxSocket' = slistRxSocket \ {at[o]} /\ Goto(o, "decLoad")
    /\ ListenOnly /\ UNCHANGED <<mListener, flagVars, sConditionExit, seen, mpc, todo>>
RemoveSocket(o) ==
    /\ pc[o] = "remove" /\ RxMutexFree
    /\ slistRxSocket' = slistRxSocket \ {at[o]} /\ Goto(o, "decLoad")
    /\ ListenOnly /\ UNCHANGED <<mListener, flagVars, sConditionExit, seen, mpc, todo>>

DecCountStoreLate(o) ==
    /\ pc[o] = "decStore"
    /\ sRxSocketCount' = seen[o] - 1 /\ seen' = [seen EXCEPT ![o] = 0]
    /\ Goto(o, IF seen[o] - 1 < 0 THEN "terminate" ELSE "touch")
    /\ ListenOnly
    /\ UNCHANGED <<listVars, sSocketListUpdated, sTerminateMonitor, sConditionExit, mpc, todo>>
DecCountStore(o) ==
    /\ pc[o] = "decStore"
    /\ sRxSocketCount' = seen[o] - 1 /\ seen' = [seen EXCEPT ![o] = 0]
    /\ Goto(o, IF seen[o] - 1 <= 0 THEN "terminate" ELSE "touch")
    /\ ListenOnly
    /\ UNCHANGED <<listVars, sSocketListUpdated, sTerminateMonitor, sConditionExit, mpc, todo>>

TouchList(o) ==
    /\ pc[o] = "touch"
    /\ sSocketListUpdated' = TRUE /\ Goto(o, "close")
    /\ ListenOnly
    /\ UNCHANGED <<listVars, sRxSocketCount, sTerminateMonitor, sConditionExit, seen, mpc, todo>>

\* StopSocketMonitor: ask for the end, then wait until somebody signals sConditionExit.
TerminateMonitorUnasked(o) ==
    /\ pc[o] = "terminate"
    /\ Goto(o, "wait")
    /\ ListenOnly /\ UNCHANGED <<listVars, flagVars, sConditionExit, seen, mpc, todo>>
TerminateMonitor(o) ==
    /\ pc[o] = "terminate"
    /\ sTerminateMonitor' = TRUE /\ Goto(o, "wait")
    /\ ListenOnly
    /\ UNCHANGED <<listVars, sRxSocketCount, sSocketListUpdated, sConditionExit, seen, mpc, todo>>

WaitExit(o) ==
    /\ pc[o] = "wait"
    /\ \/ /\ SignalPending(sConditionExit)
          /\ sConditionExit' = Consume(sConditionExit) /\ Goto(o, "zero")
       \/ /\ ~SignalPending(sConditionExit)
          /\ sConditionExit' = FallAsleep(sConditionExit) /\ Goto(o, "asleep")
    /\ ListenOnly /\ UNCHANGED <<listVars, flagVars, seen, mpc, todo>>

WaitExitReturns(o) ==
    /\ pc[o] = "woken"
    /\ sConditionExit' = Leave(sConditionExit) /\ Goto(o, "zero")
    /\ ListenOnly /\ UNCHANGED <<listVars, flagVars, seen, mpc, todo>>

ZeroCount(o) ==
    /\ pc[o] = "zero"
    /\ sRxSocketCount' = 0 /\ Goto(o, "close")
    /\ ListenOnly
    /\ UNCHANGED <<listVars, sSocketListUpdated, sTerminateMonitor, sConditionExit, seen, mpc,
                   todo>>

\* Close drops the reference; the node forgets the socket, and deletes it if it was the last.
Close(o) ==
    /\ pc[o] = "close" /\ NodeMutexFree(at[o])
    /\ mRefCount' = [mRefCount EXCEPT ![at[o]] = @ - 1]
    /\ mSocketOpened' = [mSocketOpened EXCEPT ![at[o]] = FALSE] /\ Goto(o, "idle")
    /\ UNCHANGED <<listVars, flagVars, sConditionExit, mNodeState, writing, at, seen,
                   monitorVars, overlaps>>

OwnerProceeds(o) ==
    \/ PushSocket(o) \/ CheckCount(o) \/ CheckTerminate(o)
    \/ CancelTerminate(o) \/ SpawnMonitor(o) \/ LoadCount(o) \/ IncCountStore(o)
    \/ ClearListener(o) \/ RemoveSocket(o) \/ DecCountStore(o) \/ TouchList(o)
    \/ TerminateMonitor(o) \/ WaitExit(o) \/ WaitExitReturns(o) \/ ZeroCount(o) \/ Close(o)

OwnerCalls(o) ==
    \E s \in Sockets : OpenSocket(o, s) \/ Start(o, s) \/ Stop(o, s) \/ CloseSocket(o, s)
                       \/ WriterStart(o, s) \/ WriterStop(o, s)
----------------------------------------------------------------------------
(* SocketMonitorThread. *)

MonitorGoto(m, place) == mpc' = [mpc EXCEPT ![m] = place]

MonitorOnly == UNCHANGED <<listVars, sRxSocketCount, nodeVars, at, seen, overlaps>>

\* SetSocketFD, before the loop and when the list was changed.
SetSocketFD(m) ==
    /\ \/ mpc[m] = "begin" /\ MonitorGoto(m, "check")
       \/ mpc[m] = "refresh" /\ MonitorGoto(m, "select")
    /\ RxMutexFree
    /\ ReadFds' = slistRxSocket /\ sSocketListUpdated' = FALSE
    /\ MonitorOnly
    /\ UNCHANGED <<sTerminateMonitor, sConditionExit, pc, todo, inHand, TmpReadfds>>

\* The flag is looked at before and after the select.
CheckMonitor(m) ==
    /\ \/ mpc[m] = "check" /\ MonitorGoto(m, IF sTerminateMonitor THEN "exit" ELSE "look")
       \/ mpc[m] = "recheck" /\ MonitorGoto(m, IF sTerminateMonitor THEN "exit" ELSE "lock")
    /\ MonitorOnly
    /\ UNCHANGED <<sSocketListUpdated, sTerminateMonitor, sConditionExit, pc, todo, inHand, ReadFds,
                   TmpReadfds>>

LookAtList(m) ==
    /\ mpc[m] = "look"
    /\ MonitorGoto(m, IF sSocketListUpdated THEN "refresh" ELSE "select")
    /\ MonitorOnly
    /\ UNCHANGED <<sSocketListUpdated, sTerminateMonitor, sConditionExit, pc, todo, inHand, ReadFds,
                   TmpReadfds>>

\* Any of the sockets may have a packet, or none after 100 ms.
Select(m) ==
    /\ mpc[m] = "select"
    /\ TmpReadfds' \in SUBSET ReadFds
    /\ MonitorGoto(m, "recheck")
    /\ MonitorOnly
    /\ UNCHANGED <<sSocketListUpdated, sTerminateMonitor, sConditionExit, pc, todo, inHand, ReadFds>>

\* ReadDataFromSocket.
LockSockets(m) ==
    /\ mpc[m] = "lock" /\ RxMutexFree
    /\ todo' = [todo EXCEPT ![m] = slistRxSocket] /\ MonitorGoto(m, "next")
    /\ MonitorOnly
    /\ UNCHANGED <<sSocketListUpdated, sTerminateMonitor, sConditionExit, pc, inHand, ReadFds,
                   TmpReadfds>>

\* A socket with a packet and a listener is called; the others are passed over.
NextSocket(m) ==
    /\ mpc[m] = "next"
    /\ \/ /\ todo[m] \cap TmpReadfds = {}
          /\ todo' = [todo EXCEPT ![m] = {}] /\ MonitorGoto(m, "check") /\ UNCHANGED inHand
       \/ \E s \in todo[m] \cap TmpReadfds :
             /\ todo' = [todo EXCEPT ![m] = @ \ {s}]
             /\ \/ mListener[s] /\ inHand' = [inHand EXCEPT ![m] = {s}] /\ MonitorGoto(m, "call")
                \/ ~mListener[s] /\ UNCHANGED <<inHand, mpc>>
    /\ MonitorOnly
    /\ UNCHANGED <<sSocketListUpdated, sTerminateMonitor, sConditionExit, pc, ReadFds, TmpReadfds>>

\* OnReadDataFromSocket; SendDataToRearNode, with mMutex of the node held, if it runs.
CallListener(m) ==
    /\ mpc[m] = "call"
    /\ \E s \in inHand[m] :
          IF mSocketOpened[s] /\ mNodeState[s] = "running"
          THEN MonitorGoto(m, "deliver") /\ UNCHANGED inHand
          ELSE MonitorGoto(m, "next") /\ inHand' = [inHand EXCEPT ![m] = {}]
    /\ MonitorOnly
    /\ UNCHANGED <<sSocketListUpdated, sTerminateMonitor, sConditionExit, pc, todo, ReadFds,
                   TmpReadfds>>

\* A build that loads mListener again for the call may find null the second time.
CallNull(m) ==
    /\ mpc[m] = "call" /\ \E s \in inHand[m] : ~mListener[s]
    /\ MonitorGoto(m, "crashed")
    /\ MonitorOnly
    /\ UNCHANGED <<sSocketListUpdated, sTerminateMonitor, sConditionExit, pc, todo, inHand,
                   ReadFds, TmpReadfds>>

Delivered(m) ==
    /\ mpc[m] = "deliver" /\ MonitorGoto(m, "next")
    /\ inHand' = [inHand EXCEPT ![m] = {}]
    /\ MonitorOnly
    /\ UNCHANGED <<sSocketListUpdated, sTerminateMonitor, sConditionExit, pc, todo, ReadFds,
                   TmpReadfds>>

ExitMonitor(m) ==
    /\ \/ /\ mpc[m] = "exit" /\ MonitorGoto(m, "exitSignal")
          /\ sTerminateMonitor' = FALSE
          /\ UNCHANGED <<sConditionExit, pc>>
       \/ /\ mpc[m] = "exitSignal" /\ MonitorGoto(m, "none")
          /\ SignalExit
          /\ UNCHANGED sTerminateMonitor
    /\ MonitorOnly /\ UNCHANGED <<sSocketListUpdated, todo, inHand, ReadFds, TmpReadfds>>

MonitorStep(m) ==
    \/ SetSocketFD(m) \/ CheckMonitor(m) \/ LookAtList(m) \/ Select(m) \/ LockSockets(m)
    \/ NextSocket(m) \/ CallListener(m) \/ CallNull(m) \/ Delivered(m) \/ ExitMonitor(m)

Next ==
    /\ ~Crashed
    /\ \/ \E o \in Owners : OwnerCalls(o) \/ OwnerProceeds(o)
       \/ \E m \in 1 .. MaxMonitors : MonitorStep(m)

Spec == Init /\ [][Next]_vars
----------------------------------------------------------------------------
\* CloseSocket has cleared the listener of the socket, which is in the list yet.
ListenerCleared(s) == pc[OwnerOf[s]] = "remove" /\ at[OwnerOf[s]] = s

(* A callback finds its socket listed and allocated and its node open, and passes data on
   only while the node runs, although another thread closes and deletes both: Listen(nullptr)
   and Stop() do not return while it runs.  Its listener is there, too, except in one place,
   where a build that loads mListener again for the call calls null and ends the process:
   Listen(nullptr) clears mListener before it takes sMutexRxSocket and the socket off the list. *)
CallbackFindsItsNode ==
    \A m \in 1 .. MaxMonitors : mpc[m] \in {"call", "deliver", "crashed"} =>
        \A s \in inHand[m] :
            /\ s \in slistRxSocket /\ mRefCount[s] > 0
            /\ mpc[m] = "deliver" => mNodeState[s] = "running"
            /\ mListener[s] \/ ListenerCleared(s)

(* Between calls there is one monitor while a socket listens and none when none does, as
   long as no two sessions were ever in Listen at the same time. *)
MonitorMatchesListeners ==
    (\A o \in Owners : pc[o] \notin ListenPcs) /\ overlaps = 0 =>
        Cardinality(Live) = IF slistRxSocket = {} THEN 0 ELSE 1

(* No listening socket is forgotten, under the same condition: the monitor polls it, or
   has yet to notice that the list changed. *)
NoListenerForgotten ==
    (\A o \in Owners : pc[o] \notin ListenPcs) /\ overlaps = 0 =>
        \/ slistRxSocket \subseteq ReadFds \/ sSocketListUpdated
        \/ \E m \in Live : mpc[m] \in {"begin", "refresh"}

(* The monitor follows the list of listeners: it lives while there are any, and polls them
   all or is about to look at the list again. *)
MonitorFollowsList == MonitorMatchesListeners /\ NoListenerForgotten

(* Whoever waits in StopSocketMonitor will be answered, under the same condition: there is
   a signal for it, or a monitor on its way out, or one that must notice sTerminateMonitor. *)
CloseIsAnswered ==
    \A o \in Owners : pc[o] \in {"wait", "asleep"} /\ overlaps = 0 =>
        \/ pc[o] = "wait" /\ SignalPending(sConditionExit)
        \/ \E m \in Live : sTerminateMonitor \/ mpc[m] = "exitSignal"
=============================================================================
