------------------------ MODULE ImsMediaSocket_proofs ------------------------
(***************************************************************************)
(* For any sessions, sockets and monitor threads: a callback finds its     *)
(* node.  And, as long as no two sessions were in Listen at the same time: *)
(* the monitor follows the list of listeners, and a wait for its end is    *)
(* answered.                                                               *)
(***************************************************************************)
EXTENDS ImsMediaSocket, ConditionRing_proofs, FiniteSetTheorems

InLock == {"next", "call", "deliver"}
Opening == {"push", "count", "start", "cancel", "spawn", "incLoad", "incStore"}
Closing == {"clear", "remove", "decLoad", "decStore", "touch", "terminate", "wait", "asleep",
            "woken", "zero", "close"}

SocketTypeOK ==
    /\ slistRxSocket \subseteq Sockets /\ IsFiniteSet(slistRxSocket)
    /\ mSocketOpened \in [Sockets -> BOOLEAN] /\ writing \in [Sockets -> BOOLEAN]
    /\ mRefCount \in [Sockets -> Int] /\ DOMAIN mNodeState = Sockets
    /\ pc \in [Owners -> OwnerPcs] /\ DOMAIN at = Owners
    /\ sRxSocketCount \in Int /\ seen \in [Owners -> Int]
    /\ mpc \in [1 .. MaxMonitors -> MonitorPcs]
    /\ todo \in [1 .. MaxMonitors -> SUBSET Sockets]
    /\ inHand \in [1 .. MaxMonitors -> SUBSET Sockets]
    /\ overlaps \in Nat /\ sConditionExit \in Ring

\* The session of socket s is at one of the places of a call for s.
BusyWith(s, places) == at[OwnerOf[s]] = s /\ pc[OwnerOf[s]] \in places

(* A socket is listed from PushSocket to RemoveSocket, and has a reference for the
   reader from OpenSocket to Close and one for a writer that writes. *)
NodesInv ==
    /\ \A o \in Owners : pc[o] # "idle" => at[o] \in Sockets /\ OwnerOf[at[o]] = o
    /\ \A s \in Sockets :
          /\ BusyWith(s, Opening) => ~mSocketOpened[s]
          /\ BusyWith(s, Closing) => mSocketOpened[s]
          /\ s \in slistRxSocket <=>
                \/ BusyWith(s, Opening \ {"push"})
                \/ mSocketOpened[s] /\ ~BusyWith(s, Closing \ {"clear", "remove"})
          /\ mRefCount[s] = (IF BusyWith(s, Opening) \/ mSocketOpened[s] THEN 1 ELSE 0)
                            + (IF writing[s] THEN 1 ELSE 0)

(* One monitor at a time is inside sMutexRxSocket, and the list does not change under it. *)
CallInv ==
    /\ \A m, k \in 1 .. MaxMonitors : mpc[m] \in InLock /\ mpc[k] \in InLock => m = k
    /\ \A m \in 1 .. MaxMonitors :
          /\ mpc[m] \in InLock => todo[m] \subseteq slistRxSocket
          /\ mpc[m] \in {"call", "deliver"} => \E s \in slistRxSocket : inHand[m] = {s}
          /\ mpc[m] = "deliver" => \A s \in inHand[m] : mNodeState[s] = "running"

IInv == SocketTypeOK /\ NodesInv /\ CallInv

USE OwnersAssumption, BoundsAssumption

LEMMA InitIInv == Init => IInv
<1> SUFFICES ASSUME Init PROVE IInv
  OBVIOUS
<1>1. SocketTypeOK
  <2>1. Reset \in Ring
    BY SlotsAssumption DEF Reset, Ring, Slot
  <2> QED
    BY <2>1, FS_EmptySet DEF Init, SocketTypeOK, OwnerPcs, MonitorPcs
<1>2. NodesInv
  BY DEF Init, NodesInv, BusyWith, Opening, Closing
<1>3. CallInv
  BY DEF Init, CallInv, InLock
<1> QED
  BY <1>1, <1>2, <1>3 DEF IInv
----------------------------------------------------------------------------
(* Types. *)

LEMMA StepSocketTypeOK == IInv /\ [Next]_vars => SocketTypeOK'
<1> SUFFICES ASSUME IInv, [Next]_vars PROVE SocketTypeOK'
  OBVIOUS
<1> USE DEF listVars, flagVars, nodeVars, ownerVars, monitorVars, Goto, MonitorGoto, ListenOnly,
            MonitorOnly
<1>0. SocketTypeOK /\ NodesInv
  BY DEF IInv
<1>1. CASE UNCHANGED vars
  BY <1>0, <1>1 DEF vars, SocketTypeOK
<1>2. ASSUME NEW o \in Owners, OwnerCalls(o) PROVE SocketTypeOK'
  <2>1. PICK s \in Sockets : OpenSocket(o, s) \/ Start(o, s) \/ Stop(o, s) \/ CloseSocket(o, s)
                             \/ WriterStart(o, s) \/ WriterStop(o, s)
    BY <1>2 DEF OwnerCalls
  <2>2. pc' \in [Owners -> OwnerPcs] /\ DOMAIN at' = Owners
    BY <1>0, <2>1 DEF SocketTypeOK, OpenSocket, Start, Stop, CloseSocket, WriterStart, WriterStop,
                      OwnerPcs, ListenPcs
  <2>3. writing' \in [Sockets -> BOOLEAN] /\ mSocketOpened' \in [Sockets -> BOOLEAN]
    BY <1>0, <2>1 DEF SocketTypeOK, OpenSocket, Start, Stop, CloseSocket, WriterStart, WriterStop
  <2>4. mRefCount' \in [Sockets -> Int] /\ DOMAIN mNodeState' = Sockets
    BY <1>0, <2>1 DEF SocketTypeOK, OpenSocket, Start, Stop, CloseSocket, WriterStart, WriterStop
  <2>5. overlaps' \in Nat
    BY <1>0, <2>1 DEF SocketTypeOK, OpenSocket, Start, Stop, CloseSocket, WriterStart, WriterStop,
                      EntersListen
  <2> QED
    BY <1>0, <2>1, <2>2, <2>3, <2>4, <2>5
       DEF SocketTypeOK, OpenSocket, Start, Stop, CloseSocket, WriterStart, WriterStop
<1>3. ASSUME NEW o \in Owners, OwnerProceeds(o) PROVE SocketTypeOK'
  <2>1. CASE PushSocket(o) \/ RemoveSocket(o)
    <3>1. at[o] \in Sockets
      BY <1>0, <2>1 DEF NodesInv, PushSocket, RemoveSocket
    <3>2. IsFiniteSet(slistRxSocket \cup {at[o]}) /\ IsFiniteSet(slistRxSocket \ {at[o]})
      BY <1>0, FS_AddElement, FS_RemoveElement DEF SocketTypeOK
    <3> QED
      BY <1>0, <2>1, <3>1, <3>2 DEF SocketTypeOK, PushSocket, RemoveSocket, OwnerPcs, ListenPcs
  <2>2. CASE CheckCount(o) \/ CheckTerminate(o) \/ LoadCount(o) \/ ClearListener(o)
             \/ DecCountStore(o) \/ TouchList(o) \/ TerminateMonitor(o) \/ ZeroCount(o)
    <3>1. pc' \in [Owners -> OwnerPcs]
      BY <1>0, <2>2 DEF SocketTypeOK, CheckCount, CheckTerminate, LoadCount, ClearListener,
                        DecCountStore, TouchList, TerminateMonitor, ZeroCount, OwnerPcs, ListenPcs
    <3>2. sRxSocketCount' \in Int /\ seen' \in [Owners -> Int]
      BY <1>0, <2>2 DEF SocketTypeOK, CheckCount, CheckTerminate, LoadCount, ClearListener,
                        DecCountStore, TouchList, TerminateMonitor, ZeroCount
    <3> QED
      BY <1>0, <2>2, <3>1, <3>2
         DEF SocketTypeOK, CheckCount, CheckTerminate, LoadCount, ClearListener,
             DecCountStore, TouchList, TerminateMonitor, ZeroCount
  <2>3. CASE IncCountStore(o) \/ Close(o)
    <3>1. pc' \in [Owners -> OwnerPcs]
      BY <1>0, <2>3 DEF SocketTypeOK, IncCountStore, Close, OwnerPcs, ListenPcs
    <3>2. mSocketOpened' \in [Sockets -> BOOLEAN]
      BY <1>0, <2>3 DEF SocketTypeOK, IncCountStore, Close
    <3>3. mRefCount' \in [Sockets -> Int]
      BY <1>0, <2>3 DEF SocketTypeOK, IncCountStore, Close
    <3>4. sRxSocketCount' \in Int /\ seen' \in [Owners -> Int]
      BY <1>0, <2>3 DEF SocketTypeOK, IncCountStore, Close
    <3> QED
      BY <1>0, <2>3, <3>1, <3>2, <3>3, <3>4 DEF SocketTypeOK, IncCountStore, Close
  <2>4. CASE CancelTerminate(o) \/ WaitExit(o) \/ WaitExitReturns(o)
    <3>1. sConditionExit' \in Ring
      BY <1>0, <2>4, RingIsClosed DEF SocketTypeOK, CancelTerminate, WaitExit, WaitExitReturns
    <3>2. pc' \in [Owners -> OwnerPcs]
      <4>1. CASE CancelTerminate(o)
        <5>1. {"woken", "incLoad"} \subseteq OwnerPcs
          BY DEF OwnerPcs, ListenPcs
        <5> QED
          BY <1>0, <4>1, <5>1 DEF SocketTypeOK, CancelTerminate
      <4>2. CASE WaitExit(o) \/ WaitExitReturns(o)
        BY <1>0, <4>2 DEF SocketTypeOK, WaitExit, WaitExitReturns, OwnerPcs, ListenPcs
      <4> QED
        BY <2>4, <4>1, <4>2
    <3> QED
      BY <1>0, <2>4, <3>1, <3>2 DEF SocketTypeOK, CancelTerminate, WaitExit, WaitExitReturns
  <2>5. CASE SpawnMonitor(o)
    BY <1>0, <2>5 DEF SocketTypeOK, SpawnMonitor, OwnerPcs, ListenPcs, MonitorPcs
  <2> QED
    BY <1>3, <2>1, <2>2, <2>3, <2>4, <2>5 DEF OwnerProceeds
<1>4. ASSUME NEW m \in 1 .. MaxMonitors, MonitorStep(m) PROVE SocketTypeOK'
  <2>1. CASE ExitMonitor(m)
    <3>1. sConditionExit' \in Ring
      BY <1>0, <2>1, RingIsClosed DEF SocketTypeOK, ExitMonitor, SignalExit
    <3>2. pc' \in [Owners -> OwnerPcs]
      BY <1>0, <2>1 DEF SocketTypeOK, ExitMonitor, SignalExit, OwnerPcs, ListenPcs
    <3> QED
      BY <1>0, <2>1, <3>1, <3>2 DEF SocketTypeOK, ExitMonitor, MonitorPcs
  <2>2. CASE SetSocketFD(m) \/ CheckMonitor(m) \/ LookAtList(m) \/ Select(m) \/ Delivered(m)
             \/ CallListener(m) \/ CallNull(m)
    BY <1>0, <2>2 DEF SocketTypeOK, SetSocketFD, CheckMonitor, LookAtList, Select, Delivered,
                      CallListener, CallNull, MonitorPcs
  <2>3. CASE LockSockets(m)
    BY <1>0, <2>3 DEF SocketTypeOK, LockSockets, MonitorPcs
  <2>4. CASE NextSocket(m)
    <3>1. todo' \in [1 .. MaxMonitors -> SUBSET Sockets]
      <4>1. \E S \in SUBSET todo[m] : todo' = [todo EXCEPT ![m] = S]
        BY <2>4 DEF NextSocket
      <4>2. todo[m] \subseteq Sockets
        BY <1>0 DEF SocketTypeOK
      <4> QED
        BY <1>0, <4>1, <4>2 DEF SocketTypeOK
    <3>2. inHand' \in [1 .. MaxMonitors -> SUBSET Sockets]
      <4>1. inHand' = inHand \/ \E S \in SUBSET todo[m] : inHand' = [inHand EXCEPT ![m] = S]
        BY <2>4 DEF NextSocket
      <4>2. todo[m] \subseteq Sockets
        BY <1>0 DEF SocketTypeOK
      <4> QED
        BY <1>0, <4>1, <4>2 DEF SocketTypeOK
    <3>3. mpc' \in [1 .. MaxMonitors -> MonitorPcs]
      BY <1>0, <2>4 DEF SocketTypeOK, NextSocket, MonitorPcs
    <3> QED
      BY <1>0, <2>4, <3>1, <3>2, <3>3 DEF SocketTypeOK, NextSocket
  <2> QED
    BY <1>4, <2>1, <2>2, <2>3, <2>4 DEF MonitorStep
<1> QED
  BY <1>1, <1>2, <1>3, <1>4 DEF Next
----------------------------------------------------------------------------
(* The sockets and their nodes. *)

\* Two places of a session that are the same to the socket it is busy with.
SamePlace(x, y) ==
    \/ x = y
    \/ {x, y} \subseteq Opening \ {"push"}
    \/ {x, y} \subseteq {"clear", "remove"}
    \/ {x, y} \subseteq Closing \ {"clear", "remove"}

LEMMA NodesFrame ==
    ASSUME NodesInv, UNCHANGED <<slistRxSocket, mRefCount, mSocketOpened, writing, at>>,
           \A o \in Owners : SamePlace(pc[o], pc'[o])
    PROVE  NodesInv'
<1>1. ASSUME NEW o \in Owners
      PROVE  /\ pc'[o] \in Opening <=> pc[o] \in Opening
             /\ pc'[o] \in Opening \ {"push"} <=> pc[o] \in Opening \ {"push"}
             /\ pc'[o] \in Closing <=> pc[o] \in Closing
             /\ pc'[o] \in Closing \ {"clear", "remove"} <=>
                    pc[o] \in Closing \ {"clear", "remove"}
             /\ pc'[o] = "idle" <=> pc[o] = "idle"
  BY DEF SamePlace, Opening, Closing
<1>2. \A s \in Sockets : OwnerOf[s] \in Owners
  OBVIOUS
<1> QED
  BY <1>1, <1>2 DEF NodesInv, BusyWith

(* What one call does to a socket of its session shows at no other socket. *)
LEMMA OtherSockets ==
    ASSUME SocketTypeOK, NodesInv, NEW o \in Owners, NEW s \in Sockets, OwnerOf[s] = o,
           NEW x, pc' = [pc EXCEPT ![o] = x],
           at'[o] = s, \A p \in Owners \ {o} : at'[p] = at[p],
           pc[o] = "idle" \/ at[o] = s,
           \A r \in Sockets \ {s} :
               /\ r \in slistRxSocket' <=> r \in slistRxSocket
               /\ mSocketOpened'[r] = mSocketOpened[r] /\ writing'[r] = writing[r]
               /\ mRefCount'[r] = mRefCount[r],
           /\ x \in Opening => ~mSocketOpened'[s]
           /\ x \in Closing => mSocketOpened'[s]
           /\ s \in slistRxSocket' <=>
                 \/ x \in Opening \ {"push"}
                 \/ mSocketOpened'[s] /\ x \notin Closing \ {"clear", "remove"}
           /\ mRefCount'[s] = (IF x \in Opening \/ mSocketOpened'[s] THEN 1 ELSE 0)
                              + (IF writing'[s] THEN 1 ELSE 0)
    PROVE  NodesInv'
<1>1. /\ pc'[o] = x /\ at'[o] = s
      /\ \A p \in Owners \ {o} : pc'[p] = pc[p] /\ at'[p] = at[p]
  BY DEF SocketTypeOK
<1>2. \A p \in Owners : pc'[p] # "idle" => at'[p] \in Sockets /\ OwnerOf[at'[p]] = p
  BY <1>1 DEF NodesInv
<1>3. ASSUME NEW r \in Sockets, r # s, NEW P, "idle" \notin P
      PROVE  BusyWith(r, P)' <=> BusyWith(r, P)
  BY <1>1, <1>3 DEF BusyWith
<1>4. ASSUME NEW P PROVE BusyWith(s, P)' <=> x \in P
  BY <1>1 DEF BusyWith
<1>5. "idle" \notin Opening \cup Closing
  BY DEF Opening, Closing
<1>6. ASSUME NEW r \in Sockets
      PROVE  /\ BusyWith(r, Opening)' => ~mSocketOpened'[r]
             /\ BusyWith(r, Closing)' => mSocketOpened'[r]
             /\ r \in slistRxSocket' <=>
                   \/ BusyWith(r, Opening \ {"push"})'
                   \/ mSocketOpened'[r] /\ ~BusyWith(r, Closing \ {"clear", "remove"})'
             /\ mRefCount'[r] = (IF BusyWith(r, Opening)' \/ mSocketOpened'[r] THEN 1 ELSE 0)
                                + (IF writing'[r] THEN 1 ELSE 0)
  <2>1. CASE r = s
    BY <1>4, <2>1
  <2>2. CASE r # s
    <3>1. /\ BusyWith(r, Opening)' <=> BusyWith(r, Opening)
          /\ BusyWith(r, Opening \ {"push"})' <=> BusyWith(r, Opening \ {"push"})
          /\ BusyWith(r, Closing)' <=> BusyWith(r, Closing)
          /\ BusyWith(r, Closing \ {"clear", "remove"})' <=>
                BusyWith(r, Closing \ {"clear", "remove"})
      BY <1>3, <1>5, <2>2
    <3>2. /\ r \in slistRxSocket' <=> r \in slistRxSocket
          /\ mSocketOpened'[r] = mSocketOpened[r] /\ writing'[r] = writing[r]
          /\ mRefCount'[r] = mRefCount[r]
      BY <2>2
    <3> QED
      BY <3>1, <3>2 DEF NodesInv
  <2> QED
    BY <2>1, <2>2
<1> QED
  BY <1>2, <1>6 DEF NodesInv, BusyWith

LEMMA StepNodesInv == IInv /\ [Next]_vars => NodesInv'
<1> SUFFICES ASSUME IInv, [Next]_vars PROVE NodesInv'
  OBVIOUS
<1> USE DEF listVars, flagVars, nodeVars, ownerVars, monitorVars, Goto, MonitorGoto, ListenOnly,
            MonitorOnly
<1>0. SocketTypeOK /\ NodesInv
  BY DEF IInv
<1>1. CASE UNCHANGED vars
  BY <1>0, <1>1, NodesFrame DEF vars, SamePlace
<1>2. ASSUME NEW o \in Owners, OwnerCalls(o) PROVE NodesInv'
  <2>1. PICK s \in Sockets : OpenSocket(o, s) \/ Start(o, s) \/ Stop(o, s) \/ CloseSocket(o, s)
                             \/ WriterStart(o, s) \/ WriterStop(o, s)
    BY <1>2 DEF OwnerCalls
  <2>2. /\ pc[o] = "idle" /\ OwnerOf[s] = o /\ ~BusyWith(s, Opening) /\ ~BusyWith(s, Closing)
        /\ s \in slistRxSocket <=> mSocketOpened[s]
        /\ mRefCount[s] = (IF mSocketOpened[s] THEN 1 ELSE 0) + (IF writing[s] THEN 1 ELSE 0)
    BY <1>0, <2>1 DEF OpenSocket, Start, Stop, CloseSocket, WriterStart, WriterStop, NodesInv,
                      BusyWith, Opening, Closing
  <2>3. CASE OpenSocket(o, s)
    <3>1. /\ pc' = [pc EXCEPT ![o] = "push"]
          /\ at'[o] = s /\ \A p \in Owners \ {o} : at'[p] = at[p]
          /\ UNCHANGED <<slistRxSocket, mSocketOpened, writing>> /\ ~mSocketOpened[s]
          /\ mRefCount'[s] = mRefCount[s] + 1
          /\ \A r \in Sockets \ {s} : mRefCount'[r] = mRefCount[r]
      BY <1>0, <2>3 DEF OpenSocket, SocketTypeOK
    <3>2. mRefCount'[s] = 1 + (IF writing[s] THEN 1 ELSE 0)
      BY <2>2, <3>1
    <3> QED
      BY <1>0, <2>2, <3>1, <3>2, OtherSockets DEF Opening, Closing
  <2>4. CASE CloseSocket(o, s)
    BY <1>0, <2>2, <2>4, OtherSockets DEF CloseSocket, SocketTypeOK, Opening, Closing
  <2>5. CASE Start(o, s) \/ Stop(o, s)
    BY <1>0, <2>5, NodesFrame DEF Start, Stop, SamePlace
  <2>6. CASE WriterStart(o, s)
    BY <1>0, <2>2, <2>6 DEF WriterStart, SocketTypeOK, NodesInv, BusyWith
  <2>7. CASE WriterStop(o, s)
    BY <1>0, <2>2, <2>7 DEF WriterStop, SocketTypeOK, NodesInv, BusyWith
  <2> QED
    BY <2>1, <2>3, <2>4, <2>5, <2>6, <2>7
<1>3. ASSUME NEW o \in Owners, OwnerProceeds(o) PROVE NodesInv'
  <2>1. CASE PushSocket(o) \/ RemoveSocket(o) \/ IncCountStore(o) \/ Close(o)
    <3>1. pc[o] # "idle" /\ at[o] \in Sockets /\ OwnerOf[at[o]] = o /\ at' = at
      BY <1>0, <2>1 DEF NodesInv, PushSocket, RemoveSocket, IncCountStore, Close
    <3>2. CASE PushSocket(o)
      <4>1. /\ pc' = [pc EXCEPT ![o] = "count"]
            /\ slistRxSocket' = slistRxSocket \cup {at[o]}
            /\ UNCHANGED <<mSocketOpened, writing, mRefCount>>
        BY <3>2 DEF PushSocket
      <4>2. /\ ~mSocketOpened[at[o]]
            /\ mRefCount[at[o]] = 1 + (IF writing[at[o]] THEN 1 ELSE 0)
        BY <1>0, <3>1, <3>2 DEF PushSocket, NodesInv, BusyWith, Opening, Closing
      <4> QED
        BY <1>0, <3>1, <4>1, <4>2, OtherSockets DEF Opening, Closing
    <3>3. CASE RemoveSocket(o)
      <4>1. /\ pc' = [pc EXCEPT ![o] = "decLoad"]
            /\ slistRxSocket' = slistRxSocket \ {at[o]}
            /\ UNCHANGED <<mSocketOpened, writing, mRefCount>>
        BY <3>3 DEF RemoveSocket
      <4>2. /\ mSocketOpened[at[o]]
            /\ mRefCount[at[o]] = 1 + (IF writing[at[o]] THEN 1 ELSE 0)
        BY <1>0, <3>1, <3>3 DEF RemoveSocket, NodesInv, BusyWith, Opening, Closing
      <4> QED
        BY <1>0, <3>1, <4>1, <4>2, OtherSockets DEF Opening, Closing
    <3>4. CASE IncCountStore(o)
      BY <1>0, <3>1, <3>4, OtherSockets
         DEF IncCountStore, SocketTypeOK, NodesInv, BusyWith, Opening, Closing
    <3>5. CASE Close(o)
      BY <1>0, <3>1, <3>5, OtherSockets DEF Close, SocketTypeOK, NodesInv, BusyWith, Opening, Closing
    <3> QED
      BY <2>1, <3>2, <3>3, <3>4, <3>5
  <2>2. CASE CheckCount(o) \/ CheckTerminate(o) \/ LoadCount(o) \/ ClearListener(o)
             \/ DecCountStore(o) \/ TouchList(o) \/ TerminateMonitor(o) \/ ZeroCount(o)
             \/ WaitExit(o) \/ WaitExitReturns(o) \/ SpawnMonitor(o)
    <3>1. \A p \in Owners : SamePlace(pc[p], pc'[p])
      BY <1>0, <2>2 DEF SocketTypeOK, CheckCount, CheckTerminate, LoadCount, ClearListener,
                        DecCountStore, TouchList, TerminateMonitor, ZeroCount, WaitExit,
                        WaitExitReturns, SpawnMonitor, SamePlace, Opening, Closing
    <3>2. UNCHANGED <<slistRxSocket, mRefCount, mSocketOpened, writing, at>>
      BY <2>2 DEF CheckCount, CheckTerminate, LoadCount, ClearListener,
                  DecCountStore, TouchList, TerminateMonitor, ZeroCount, WaitExit,
                  WaitExitReturns, SpawnMonitor
    <3> QED
      BY <1>0, <3>1, <3>2, NodesFrame
  <2>3. CASE CancelTerminate(o)
    <3>1. PICK p \in Owners : \/ pc' = [pc EXCEPT ![p] = "woken", ![o] = "incLoad"] /\ pc[p] = "asleep"
                              \/ pc' = [pc EXCEPT ![o] = "incLoad"]
      BY <2>3 DEF CancelTerminate
    <3>2. pc[o] = "cancel" /\ pc'[o] = "incLoad"
      BY <1>0, <2>3, <3>1 DEF SocketTypeOK, CancelTerminate
    <3>3. \A q \in Owners \ {o} : pc'[q] = pc[q] \/ (pc[q] = "asleep" /\ pc'[q] = "woken")
      BY <1>0, <3>1 DEF SocketTypeOK
    <3>4. \A q \in Owners : SamePlace(pc[q], pc'[q])
      BY <3>2, <3>3 DEF SamePlace, Opening, Closing
    <3> QED
      BY <1>0, <2>3, <3>4, NodesFrame DEF CancelTerminate
  <2> QED
    BY <1>3, <2>1, <2>2, <2>3 DEF OwnerProceeds
<1>4. ASSUME NEW m \in 1 .. MaxMonitors, MonitorStep(m) PROVE NodesInv'
  <2>1. \A p \in Owners : SamePlace(pc[p], pc'[p])
    <3>1. UNCHANGED pc \/ \E p \in Owners : pc[p] = "asleep" /\ pc' = [pc EXCEPT ![p] = "woken"]
      BY <1>4 DEF MonitorStep, SetSocketFD, CheckMonitor, LookAtList, Select, LockSockets, NextSocket,
                  CallListener, CallNull, Delivered, ExitMonitor, SignalExit
    <3> QED
      BY <1>0, <3>1 DEF SocketTypeOK, SamePlace, Closing
  <2>2. UNCHANGED <<slistRxSocket, mRefCount, mSocketOpened, writing, at>>
    BY <1>4 DEF MonitorStep, SetSocketFD, CheckMonitor, LookAtList, Select, LockSockets, NextSocket,
                CallListener, CallNull, Delivered, ExitMonitor
  <2> QED
    BY <1>0, <2>1, <2>2, NodesFrame
<1> QED
  BY <1>1, <1>2, <1>3, <1>4 DEF Next
----------------------------------------------------------------------------
(* The callbacks. *)

(* While a callback runs or a monitor goes round, the list cannot change: a step that changes
   it, or stops a node, finds the mutex free. *)
LEMMA CallFrame ==
    ASSUME CallInv, UNCHANGED <<mpc, todo, inHand>>,
           UNCHANGED slistRxSocket \/ RxMutexFree,
           \A s \in Sockets :
               mNodeState[s] = "running" /\ ~NodeMutexFree(s) => mNodeState'[s] = "running",
           SocketTypeOK
    PROVE  CallInv'
<1>1. \A m \in 1 .. MaxMonitors : mpc[m] \in InLock => slistRxSocket' = slistRxSocket
  BY DEF RxMutexFree, InLock
<1>2. ASSUME NEW m \in 1 .. MaxMonitors, mpc[m] = "deliver", NEW s \in inHand[m]
      PROVE  mNodeState'[s] = "running"
  <2>1. s \in Sockets /\ ~NodeMutexFree(s)
    BY <1>2 DEF NodeMutexFree, SocketTypeOK
  <2> QED
    BY <1>2, <2>1 DEF CallInv
<1> QED
  BY <1>1, <1>2 DEF CallInv, InLock

LEMMA StepCallInv == IInv /\ [Next]_vars => CallInv'
<1> SUFFICES ASSUME IInv, [Next]_vars PROVE CallInv'
  OBVIOUS
<1> USE DEF listVars, flagVars, nodeVars, ownerVars, monitorVars, Goto, MonitorGoto, ListenOnly,
            MonitorOnly
<1>0. SocketTypeOK /\ CallInv
  BY DEF IInv
<1>1. CASE UNCHANGED vars
  BY <1>0, <1>1, CallFrame DEF vars
<1>2. ASSUME NEW o \in Owners, OwnerCalls(o) PROVE CallInv'
  BY <1>0, <1>2, CallFrame DEF OwnerCalls, OpenSocket, Start, Stop, CloseSocket, WriterStart,
                               WriterStop, SocketTypeOK
<1>3. ASSUME NEW o \in Owners, OwnerProceeds(o) PROVE CallInv'
  <2>1. CASE SpawnMonitor(o)
    BY <1>0, <2>1 DEF SpawnMonitor, CallInv, SocketTypeOK, InLock
  <2>2. CASE ~SpawnMonitor(o)
    <3>1. UNCHANGED <<mpc, todo, inHand, mNodeState>>
      BY <1>3, <2>2
         DEF OwnerProceeds, PushSocket, CheckCount, CheckTerminate, CancelTerminate, LoadCount,
             IncCountStore, ClearListener, RemoveSocket, DecCountStore, TouchList, TerminateMonitor,
             WaitExit, WaitExitReturns, ZeroCount, Close
    <3>2. UNCHANGED slistRxSocket \/ RxMutexFree
      BY <1>3, <2>2
         DEF OwnerProceeds, PushSocket, CheckCount, CheckTerminate, CancelTerminate, LoadCount,
             IncCountStore, ClearListener, RemoveSocket, DecCountStore, TouchList, TerminateMonitor,
             WaitExit, WaitExitReturns, ZeroCount, Close
    <3> QED
      BY <1>0, <3>1, <3>2, CallFrame
  <2> QED
    BY <2>1, <2>2
<1>4. ASSUME NEW m \in 1 .. MaxMonitors, MonitorStep(m) PROVE CallInv'
  <2>0. UNCHANGED <<slistRxSocket, mNodeState>>
    BY <1>4 DEF MonitorStep, SetSocketFD, CheckMonitor, LookAtList, Select, LockSockets, NextSocket,
                CallListener, CallNull, Delivered, ExitMonitor
  <2>1. CASE SetSocketFD(m) \/ CheckMonitor(m) \/ LookAtList(m) \/ Select(m) \/ CallNull(m)
             \/ ExitMonitor(m)
    <3>1. UNCHANGED <<todo, inHand>>
      BY <2>1 DEF SetSocketFD, CheckMonitor, LookAtList, Select, CallNull, ExitMonitor
    <3>2. mpc'[m] \notin InLock /\ \A k \in 1 .. MaxMonitors \ {m} : mpc'[k] = mpc[k]
      BY <1>0, <2>1 DEF SetSocketFD, CheckMonitor, LookAtList, Select, CallNull, ExitMonitor, InLock,
                        SocketTypeOK
    <3> QED
      BY <1>0, <2>0, <3>1, <3>2 DEF CallInv, InLock
  <2>2. CASE LockSockets(m)
    BY <1>0, <2>0, <2>2 DEF LockSockets, RxMutexFree, CallInv, SocketTypeOK, InLock
  <2>3. CASE NextSocket(m)
    <3>1. /\ \A k \in 1 .. MaxMonitors \ {m} :
                mpc'[k] = mpc[k] /\ todo'[k] = todo[k] /\ inHand'[k] = inHand[k]
          /\ mpc[m] = "next" /\ mpc'[m] \in {"check", "next", "call"}
          /\ todo'[m] \subseteq todo[m]
      BY <1>0, <2>3 DEF NextSocket, SocketTypeOK
    <3>2. mpc'[m] = "call" => \E s \in todo[m] : inHand'[m] = {s}
      BY <1>0, <2>3 DEF NextSocket, SocketTypeOK
    <3> QED
      BY <1>0, <2>0, <3>1, <3>2 DEF CallInv, InLock
  <2>4. CASE CallListener(m) \/ Delivered(m)
    <3>1. /\ \A k \in 1 .. MaxMonitors \ {m} : mpc'[k] = mpc[k] /\ inHand'[k] = inHand[k]
          /\ UNCHANGED todo
          /\ mpc[m] \in {"call", "deliver"} /\ mpc'[m] \in {"next", "deliver"}
      BY <1>0, <2>4 DEF CallListener, Delivered, SocketTypeOK
    <3>2. mpc'[m] = "deliver" => inHand'[m] = inHand[m] /\ \E s \in inHand[m] : mNodeState[s] = "running"
      BY <1>0, <2>4 DEF CallListener, Delivered, SocketTypeOK
    <3> QED
      BY <1>0, <2>0, <3>1, <3>2 DEF CallInv, InLock
  <2> QED
    BY <1>4, <2>1, <2>2, <2>3, <2>4 DEF MonitorStep
<1> QED
  BY <1>1, <1>2, <1>3, <1>4 DEF Next

(* A listed socket has its listener until the close that takes it off the list has
   cleared it, and a monitor that crashes does so in between. *)
ListenerInv ==
    /\ mListener \in [Sockets -> BOOLEAN]
    /\ \A s \in slistRxSocket : mListener[s] \/ ListenerCleared(s)
    /\ \A m \in 1 .. MaxMonitors : mpc[m] = "crashed" => inHand[m] \subseteq slistRxSocket

LEMMA StepListenerInv == IInv /\ ListenerInv /\ [Next]_vars => ListenerInv'
<1> SUFFICES ASSUME IInv, ListenerInv, [Next]_vars PROVE ListenerInv'
  OBVIOUS
<1> USE DEF listVars, flagVars, nodeVars, ownerVars, monitorVars, Goto, MonitorGoto, ListenOnly,
            MonitorOnly
<1>0. SocketTypeOK /\ NodesInv /\ CallInv
  BY DEF IInv
<1>1. CASE UNCHANGED vars
  BY <1>1 DEF vars, ListenerInv, ListenerCleared
<1>2. ASSUME NEW o \in Owners, OwnerCalls(o), ~Crashed PROVE ListenerInv'
  <2>1. PICK s \in Sockets : OpenSocket(o, s) \/ Start(o, s) \/ Stop(o, s) \/ CloseSocket(o, s)
                             \/ WriterStart(o, s) \/ WriterStop(o, s)
    BY <1>2 DEF OwnerCalls
  <2>2. /\ UNCHANGED <<listVars, mpc, inHand>> /\ pc[o] = "idle"
        /\ \A p \in Owners : pc[p] # "idle" => pc'[p] = pc[p] /\ at'[p] = at[p]
    BY <1>0, <2>1 DEF OpenSocket, Start, Stop, CloseSocket, WriterStart, WriterStop, SocketTypeOK
  <2>3. \A i \in Sockets : ListenerCleared(i) => ListenerCleared(i)'
    BY <2>2 DEF ListenerCleared
  <2> QED
    BY <1>0, <2>2, <2>3 DEF ListenerInv, SocketTypeOK
<1>3. ASSUME NEW o \in Owners, OwnerProceeds(o), ~Crashed PROVE ListenerInv'
  <2>1. CASE PushSocket(o)
    <3>1. at[o] \in Sockets /\ OwnerOf[at[o]] = o
      BY <1>0, <2>1 DEF NodesInv, PushSocket
    <3>2. \A s \in Sockets : ListenerCleared(s) => ListenerCleared(s)'
      BY <1>0, <2>1 DEF ListenerCleared, PushSocket, SocketTypeOK
    <3>3. \A m \in 1 .. MaxMonitors : mpc'[m] # "crashed"
      BY <1>3, <2>1 DEF PushSocket, Crashed
    <3> QED
      BY <1>0, <2>1, <3>1, <3>2, <3>3 DEF ListenerInv, PushSocket, SocketTypeOK
  <2>2. CASE ClearListener(o)
    <3>1. at[o] \in Sockets /\ OwnerOf[at[o]] = o
      BY <1>0, <2>2 DEF NodesInv, ClearListener
    <3>2. ListenerCleared(at[o])'
      BY <1>0, <2>2, <3>1 DEF ListenerCleared, ClearListener, SocketTypeOK
    <3>3. \A s \in Sockets : ListenerCleared(s) => ListenerCleared(s)'
      BY <1>0, <2>2 DEF ListenerCleared, ClearListener, SocketTypeOK
    <3> QED
      BY <1>0, <2>2, <3>1, <3>2, <3>3 DEF ListenerInv, ClearListener, SocketTypeOK
  <2>3. CASE RemoveSocket(o)
    <3>1. \A s \in Sockets \ {at[o]} : ListenerCleared(s) => ListenerCleared(s)'
      BY <1>0, <2>3 DEF ListenerCleared, RemoveSocket, SocketTypeOK
    <3>2. \A m \in 1 .. MaxMonitors : mpc'[m] # "crashed"
      BY <1>3, <2>3 DEF RemoveSocket, Crashed
    <3> QED
      BY <1>0, <2>3, <3>1, <3>2 DEF ListenerInv, RemoveSocket, SocketTypeOK
  <2>4. CASE \/ CheckCount(o) \/ CheckTerminate(o) \/ LoadCount(o) \/ IncCountStore(o)
             \/ DecCountStore(o) \/ TouchList(o) \/ TerminateMonitor(o) \/ WaitExit(o)
             \/ WaitExitReturns(o) \/ ZeroCount(o) \/ Close(o) \/ CancelTerminate(o)
             \/ SpawnMonitor(o)
    <3>1. UNCHANGED <<listVars, at, inHand>>
      BY <2>4 DEF CheckCount, CheckTerminate, LoadCount, IncCountStore, DecCountStore, TouchList,
                  TerminateMonitor, WaitExit, WaitExitReturns, ZeroCount, Close, CancelTerminate,
                  SpawnMonitor
    <3>2. \A p \in Owners : pc[p] = "remove" => pc'[p] = "remove"
      <4>1. CASE CancelTerminate(o)
        BY <1>0, <4>1 DEF CancelTerminate, SocketTypeOK
      <4>2. CASE ~CancelTerminate(o)
        BY <1>0, <2>4, <4>2
           DEF CheckCount, CheckTerminate, LoadCount, IncCountStore, DecCountStore, TouchList,
               TerminateMonitor, WaitExit, WaitExitReturns, ZeroCount, Close, SpawnMonitor,
               SocketTypeOK
      <4> QED
        BY <4>1, <4>2
    <3>3. \A m \in 1 .. MaxMonitors : mpc'[m] # "crashed"
      <4>1. CASE SpawnMonitor(o)
        BY <1>0, <1>3, <4>1 DEF SpawnMonitor, Crashed, SocketTypeOK
      <4>2. CASE ~SpawnMonitor(o)
        BY <1>3, <2>4, <4>2
           DEF CheckCount, CheckTerminate, LoadCount, IncCountStore, DecCountStore, TouchList,
               TerminateMonitor, WaitExit, WaitExitReturns, ZeroCount, Close, CancelTerminate,
               Crashed
      <4> QED
        BY <4>1, <4>2
    <3> QED
      BY <1>0, <3>1, <3>2, <3>3 DEF ListenerInv, ListenerCleared, SocketTypeOK
  <2> QED
    BY <1>3, <2>1, <2>2, <2>3, <2>4 DEF OwnerProceeds
<1>4. ASSUME NEW m \in 1 .. MaxMonitors, MonitorStep(m), ~Crashed PROVE ListenerInv'
  <2>1. UNCHANGED <<listVars, at>>
    BY <1>4 DEF MonitorStep, SetSocketFD, CheckMonitor, LookAtList, Select, LockSockets, NextSocket,
                CallListener, CallNull, Delivered, ExitMonitor
  <2>2. \A p \in Owners : pc[p] = "remove" => pc'[p] = "remove"
    <3>1. CASE ExitMonitor(m)
      BY <1>0, <3>1 DEF ExitMonitor, SignalExit, SocketTypeOK
    <3>2. CASE ~ExitMonitor(m)
      BY <1>4, <3>2 DEF MonitorStep, SetSocketFD, CheckMonitor, LookAtList, Select, LockSockets,
                        NextSocket, CallListener, CallNull, Delivered
    <3> QED
      BY <3>1, <3>2
  <2>3. \A k \in 1 .. MaxMonitors : mpc'[k] = "crashed" => inHand'[k] \subseteq slistRxSocket
    <3>1. CASE CallNull(m)
      BY <1>0, <1>4, <3>1 DEF CallNull, Crashed, CallInv, SocketTypeOK
    <3>2. CASE ~CallNull(m)
      <4>1. \A k \in 1 .. MaxMonitors : mpc'[k] # "crashed"
        BY <1>0, <1>4, <3>2
           DEF MonitorStep, SetSocketFD, CheckMonitor, LookAtList, Select, LockSockets, NextSocket,
               CallListener, Delivered, ExitMonitor, Crashed, SocketTypeOK
      <4> QED
        BY <4>1
    <3> QED
      BY <3>1, <3>2
  <2> QED
    BY <1>0, <2>1, <2>2, <2>3 DEF ListenerInv, ListenerCleared, SocketTypeOK
<1> QED
  BY <1>1, <1>2, <1>3, <1>4 DEF Next

(* For every set of sessions, sockets and monitors, overlapping calls of Listen included:
   a callback finds its socket listed and allocated, delivers only to a running node, and
   misses its listener only where Listen(nullptr) has cleared it outside the mutex. *)
THEOREM CallbacksFindTheirNodes == Spec => []CallbackFindsItsNode
<1>1. IInv /\ [Next]_vars => IInv'
  BY StepSocketTypeOK, StepNodesInv, StepCallInv DEF IInv
<1>2. Init => ListenerInv
  BY DEF Init, ListenerInv
<1>3. IInv /\ ListenerInv => CallbackFindsItsNode
  <2> SUFFICES ASSUME IInv, ListenerInv, NEW m \in 1 .. MaxMonitors,
                      mpc[m] \in {"call", "deliver", "crashed"}, NEW s \in inHand[m]
               PROVE  /\ s \in slistRxSocket /\ mRefCount[s] > 0
                      /\ mpc[m] = "deliver" => mNodeState[s] = "running"
                      /\ mListener[s] \/ ListenerCleared(s)
    BY DEF CallbackFindsItsNode
  <2>1. s \in slistRxSocket /\ s \in Sockets
    BY DEF IInv, CallInv, SocketTypeOK, ListenerInv
  <2>2. mRefCount[s] > 0
    BY <2>1 DEF IInv, NodesInv, BusyWith
  <2> QED
    BY <2>1, <2>2 DEF IInv, CallInv, ListenerInv
<1> QED
  BY InitIInv, StepListenerInv, <1>1, <1>2, <1>3, PTL DEF Spec
----------------------------------------------------------------------------
(* Sequential use: no two sessions were in Listen at the same time. *)

OneInListen == \A o, p \in Owners : pc[o] \in ListenPcs /\ pc[p] \in ListenPcs => o = p

\* Where the session is that is in Listen.
place == IF \E o \in Owners : pc[o] \in ListenPcs
         THEN pc[CHOOSE o \in Owners : pc[o] \in ListenPcs] ELSE "out"

\* How many sockets are listed that sRxSocketCount does not count.
lag == IF place \in {"count", "start", "spawn", "incLoad", "incStore"} THEN 1
       ELSE IF place \in {"decLoad", "decStore"} THEN -1 ELSE 0

(* The count is the number of listed sockets, but for the one being opened or closed. *)
CountInv ==
    /\ place # "cancel"
    /\ Cardinality(slistRxSocket) = sRxSocketCount + lag
    /\ \A o \in Owners : pc[o] \in {"incStore", "decStore"} => seen[o] = sRxSocketCount
    /\ place \in {"start", "spawn", "terminate", "wait", "asleep", "woken", "zero"} =>
          sRxSocketCount = 0
    /\ place = "touch" => sRxSocketCount # 0

(* One monitor lives while the count is not zero: it is born before the first count and
   leaves once it is told to, which is when the last socket is closed. *)
LiveInv ==
    /\ \A m, k \in Live : m = k
    /\ sTerminateMonitor => place \in {"wait", "asleep"} /\ Live # {}
    /\ place \in {"incLoad", "incStore", "terminate", "asleep"} => Live # {}
    /\ place \notin {"incLoad", "incStore", "terminate", "wait", "asleep"} =>
          (Live = {} <=> sRxSocketCount = 0)
    /\ \A m \in Live : mpc[m] = "exit" => sTerminateMonitor
    /\ \A m \in Live : mpc[m] = "exitSignal" => place \in {"wait", "asleep"}
    /\ place \in {"wait", "asleep"} => \A m \in Live : sTerminateMonitor <=> mpc[m] # "exitSignal"

\* The monitor is gone, and its signal was not taken yet.
outstanding == IF place = "woken" \/ (place = "wait" /\ Live = {}) THEN 1 ELSE 0

SignalInv == Counts(sConditionExit, outstanding, place)

(* Every listed socket is polled, or the monitor is about to look at the list. *)
PollInv ==
    place \notin {"count", "start", "spawn"} =>
        \/ slistRxSocket \subseteq ReadFds \/ sSocketListUpdated
        \/ \E m \in Live : mpc[m] \in {"begin", "refresh"}

SequentialInv == overlaps = 0 => OneInListen /\ CountInv /\ LiveInv /\ SignalInv /\ PollInv

LEMMA InitSequentialInv == Init => SequentialInv
<1> SUFFICES ASSUME Init PROVE OneInListen /\ CountInv /\ LiveInv /\ SignalInv /\ PollInv
  BY DEF SequentialInv
<1>1. OneInListen /\ place = "out" /\ Live = {}
  BY DEF Init, OneInListen, place, ListenPcs, Live
<1>2. CountInv
  BY <1>1, FS_EmptySet DEF Init, CountInv, lag
<1>3. LiveInv /\ PollInv
  BY <1>1 DEF Init, LiveInv, PollInv
<1>4. SignalInv
  BY <1>1, ResetCounts DEF Init, SignalInv, outstanding
<1> QED
  BY <1>1, <1>2, <1>3, <1>4

(* The session in Listen is where place says. *)
LEMMA PlaceIs ==
    ASSUME OneInListen
    PROVE  /\ \A o \in Owners : pc[o] \in ListenPcs => place = pc[o]
           /\ (\A o \in Owners : pc[o] \notin ListenPcs) => place = "out"
  BY DEF OneInListen, place

LEMMA PlaceIsNext ==
    ASSUME OneInListen'
    PROVE  /\ \A o \in Owners : pc'[o] \in ListenPcs => place' = pc'[o]
           /\ (\A o \in Owners : pc'[o] \notin ListenPcs) => place' = "out"
  BY DEF OneInListen, place

Shown(x) == IF x \in ListenPcs THEN x ELSE "out"

(* A move of one session, which is the one in Listen or leaves it as it is. *)
LEMMA OwnerMoves ==
    ASSUME SocketTypeOK, OneInListen, NEW o \in Owners, NEW x, pc' = [pc EXCEPT ![o] = x],
           pc[o] \notin ListenPcs /\ x \in ListenPcs =>
               \A p \in Owners \ {o} : pc[p] \notin ListenPcs
    PROVE  /\ OneInListen'
           /\ pc[o] \in ListenPcs => place = pc[o] /\ place' = Shown(x)
           /\ pc[o] \notin ListenPcs /\ x \in ListenPcs => place = "out" /\ place' = x
           /\ pc[o] \notin ListenPcs /\ x \notin ListenPcs => place' = place
           /\ pc[o] \in ListenPcs \/ x \in ListenPcs =>
                  \A p \in Owners \ {o} : pc'[p] \notin ListenPcs
<1>1. pc'[o] = x /\ \A p \in Owners \ {o} : pc'[p] = pc[p]
  BY DEF SocketTypeOK
<1>2. OneInListen'
  BY <1>1 DEF OneInListen
<1>3. CASE pc[o] \in ListenPcs \/ x \in ListenPcs
  <2>1. \A p \in Owners \ {o} : pc[p] \notin ListenPcs /\ pc'[p] \notin ListenPcs
    BY <1>1, <1>3 DEF OneInListen
  <2>2. place = Shown(pc[o]) /\ place' = Shown(x)
    BY <1>1, <1>2, <2>1, PlaceIs, PlaceIsNext DEF Shown
  <2> QED
    BY <1>2, <1>3, <2>1, <2>2 DEF Shown
<1>4. CASE pc[o] \notin ListenPcs /\ x \notin ListenPcs
  <2>1. \A p \in Owners : (pc'[p] \in ListenPcs <=> pc[p] \in ListenPcs)
                          /\ (pc[p] \in ListenPcs => pc'[p] = pc[p])
    BY <1>1, <1>4
  <2>2. place' = place
    BY <1>2, <2>1, PlaceIs, PlaceIsNext
  <2> QED
    BY <1>2, <1>4, <2>2
<1> QED
  BY <1>3, <1>4

(* What a call of a session does, besides its own place, to what the invariants are about. *)
LEMMA CallStep ==
    ASSUME SocketTypeOK, SequentialInv, NEW o \in Owners, OwnerCalls(o), overlaps' = 0
    PROVE  /\ overlaps = 0 /\ OneInListen'
           /\ UNCHANGED <<slistRxSocket, flagVars, sConditionExit, mpc, ReadFds, seen>>
           /\ \/ place' = place /\ UNCHANGED pc
              \/ place = "out" /\ place' \in {"push", "clear"}
                 /\ \A p \in Owners : pc'[p] \notin {"incStore", "decStore"}
<1> USE DEF listVars, flagVars, nodeVars, ownerVars, monitorVars, Goto
<1>1. PICK s \in Sockets : OpenSocket(o, s) \/ Start(o, s) \/ Stop(o, s) \/ CloseSocket(o, s)
                           \/ WriterStart(o, s) \/ WriterStop(o, s)
  BY DEF OwnerCalls
<1>2. UNCHANGED <<slistRxSocket, flagVars, sConditionExit, mpc, ReadFds, seen>>
  BY <1>1 DEF OpenSocket, Start, Stop, CloseSocket, WriterStart, WriterStop
<1>3. CASE OpenSocket(o, s) \/ CloseSocket(o, s)
  <2>1. overlaps = 0 /\ \A p \in Owners \ {o} : pc[p] \notin ListenPcs
    BY <1>3 DEF OpenSocket, CloseSocket, EntersListen, SocketTypeOK
  <2>2. PICK x \in {"push", "clear"} : pc[o] = "idle" /\ pc' = [pc EXCEPT ![o] = x]
    BY <1>3 DEF OpenSocket, CloseSocket
  <2>3. pc[o] \notin ListenPcs /\ x \in ListenPcs
    BY <2>2 DEF ListenPcs
  <2>4. OneInListen' /\ place = "out" /\ place' = x /\ \A p \in Owners \ {o} : pc'[p] \notin ListenPcs
    BY <2>1, <2>2, <2>3, OwnerMoves DEF SequentialInv
  <2>5. \A p \in Owners : pc'[p] \notin {"incStore", "decStore"}
    BY <2>2, <2>4 DEF ListenPcs, SocketTypeOK
  <2> QED
    BY <1>2, <2>1, <2>4, <2>5
<1>4. CASE Start(o, s) \/ Stop(o, s) \/ WriterStart(o, s) \/ WriterStop(o, s)
  <2>1. UNCHANGED <<pc, overlaps>>
    BY <1>4 DEF Start, Stop, WriterStart, WriterStop
  <2>2. OneInListen' /\ place' = place
    BY <2>1 DEF SequentialInv, OneInListen, place
  <2> QED
    BY <1>2, <2>1, <2>2
<1> QED
  BY <1>1, <1>3, <1>4

(* A step of Listen, or the Close after it, moves its session alone. *)
LEMMA ProceedStep ==
    ASSUME SocketTypeOK, SequentialInv, NEW o \in Owners, OwnerProceeds(o), overlaps' = 0
    PROVE  /\ overlaps = 0 /\ OneInListen'
           /\ pc[o] \in ListenPcs => place = pc[o] /\ place' = Shown(pc'[o])
           /\ pc[o] \in ListenPcs => \A p \in Owners \ {o} : pc'[p] \notin ListenPcs
           /\ pc[o] \notin ListenPcs => Close(o) /\ place' = place
           /\ ~CancelTerminate(o)
           /\ \A p \in Owners \ {o} : pc'[p] = pc[p]
<1> USE DEF listVars, flagVars, nodeVars, ownerVars, monitorVars, Goto, ListenOnly
<1>1. overlaps = 0
  BY DEF OwnerProceeds, PushSocket, CheckCount, CheckTerminate, CancelTerminate, LoadCount,
         IncCountStore, ClearListener, RemoveSocket, DecCountStore, TouchList, TerminateMonitor,
         WaitExit, WaitExitReturns, ZeroCount, Close, SpawnMonitor
<1>2. OneInListen /\ place # "cancel"
  BY <1>1 DEF SequentialInv, CountInv
<1>3. pc[o] # "cancel" /\ ~CancelTerminate(o)
  BY <1>2, PlaceIs DEF ListenPcs, CancelTerminate
<1>4. PICK x \in OwnerPcs : pc' = [pc EXCEPT ![o] = x]
  BY <1>3 DEF OwnerProceeds, PushSocket, CheckCount, CheckTerminate, CancelTerminate, LoadCount,
         IncCountStore, ClearListener, RemoveSocket, DecCountStore, TouchList, TerminateMonitor,
         WaitExit, WaitExitReturns, ZeroCount, Close, SpawnMonitor, OwnerPcs, ListenPcs
<1>5. pc[o] \in ListenPcs \/ Close(o)
  BY DEF OwnerProceeds, PushSocket, CheckCount, CheckTerminate, CancelTerminate, LoadCount,
         IncCountStore, ClearListener, RemoveSocket, DecCountStore, TouchList, TerminateMonitor,
         WaitExit, WaitExitReturns, ZeroCount, SpawnMonitor, ListenPcs
<1>6. pc[o] \notin ListenPcs => x \notin ListenPcs
  BY <1>4, <1>5 DEF Close, ListenPcs, SocketTypeOK
<1>7. pc'[o] = x /\ \A p \in Owners \ {o} : pc'[p] = pc[p]
  BY <1>4 DEF SocketTypeOK
<1> QED
  BY <1>1, <1>2, <1>3, <1>4, <1>5, <1>6, <1>7, OwnerMoves

(* A step of a monitor moves no session, but for the signal that wakes a sleeper. *)
LEMMA MonitorMoves ==
    ASSUME SocketTypeOK, SequentialInv, NEW m \in 1 .. MaxMonitors, MonitorStep(m), overlaps' = 0
    PROVE  /\ overlaps = 0 /\ OneInListen'
           /\ UNCHANGED <<slistRxSocket, sRxSocketCount, seen>>
           /\ mpc[m] # "exitSignal" => UNCHANGED <<pc, sConditionExit>> /\ place' = place
           /\ mpc[m] = "exitSignal" =>
                 /\ mpc' = [mpc EXCEPT ![m] = "none"] /\ UNCHANGED sTerminateMonitor
                 /\ sConditionExit' = Signal(sConditionExit)
                 /\ place' = IF place = "asleep" THEN "woken" ELSE place
           /\ \A p \in Owners : pc'[p] = pc[p] \/ pc'[p] = "woken"
<1> USE DEF listVars, flagVars, nodeVars, ownerVars, monitorVars, MonitorGoto, MonitorOnly
<1>1. overlaps = 0 /\ UNCHANGED <<slistRxSocket, sRxSocketCount, seen>>
  BY DEF MonitorStep, SetSocketFD, CheckMonitor, LookAtList, Select, LockSockets, NextSocket,
         CallListener, CallNull, Delivered, ExitMonitor
<1>2. OneInListen
  BY <1>1 DEF SequentialInv
<1>3. CASE mpc[m] # "exitSignal"
  <2>1. UNCHANGED <<pc, sConditionExit>>
    BY <1>3 DEF MonitorStep, SetSocketFD, CheckMonitor, LookAtList, Select, LockSockets, NextSocket,
                CallListener, CallNull, Delivered, ExitMonitor
  <2>2. OneInListen' /\ place' = place
    BY <1>2, <2>1 DEF OneInListen, place
  <2> QED
    BY <1>1, <1>3, <2>1, <2>2
<1>4. CASE mpc[m] = "exitSignal"
  <2>1. /\ mpc' = [mpc EXCEPT ![m] = "none"] /\ UNCHANGED sTerminateMonitor /\ SignalExit
    BY <1>4 DEF MonitorStep, SetSocketFD, CheckMonitor, LookAtList, Select, LockSockets, NextSocket,
                CallListener, CallNull, Delivered, ExitMonitor
  <2>2. CASE \E p \in Owners : pc[p] = "asleep"
    <3>1. PICK p \in Owners : pc[p] = "asleep" /\ pc' = [pc EXCEPT ![p] = "woken"]
      BY <2>1, <2>2 DEF SignalExit
    <3>2. OneInListen' /\ place = "asleep" /\ place' = "woken"
      BY <1>2, <3>1, OwnerMoves DEF ListenPcs, Shown
    <3>3. \A q \in Owners : pc'[q] = pc[q] \/ pc'[q] = "woken"
      BY <3>1 DEF SocketTypeOK
    <3> QED
      BY <1>1, <1>4, <2>1, <3>2, <3>3 DEF SignalExit
  <2>3. CASE ~\E p \in Owners : pc[p] = "asleep"
    <3>1. UNCHANGED pc
      BY <2>1, <2>3 DEF SignalExit
    <3>2. OneInListen' /\ place' = place
      BY <1>2, <3>1 DEF OneInListen, place
    <3>3. place # "asleep"
      BY <2>3 DEF place
    <3> QED
      BY <1>1, <1>4, <2>1, <3>1, <3>2, <3>3 DEF SignalExit
  <2> QED
    BY <2>2, <2>3
<1> QED
  BY <1>3, <1>4
----------------------------------------------------------------------------
(* The four invariants, step by step. *)

(* PushSocket lists one socket more, and RemoveSocket one less. *)
LEMMA ListedCount ==
    ASSUME SocketTypeOK, NodesInv, NEW o \in Owners
    PROVE  /\ pc[o] = "push" =>
                 Cardinality(slistRxSocket \cup {at[o]}) = Cardinality(slistRxSocket) + 1
           /\ pc[o] = "remove" =>
                 Cardinality(slistRxSocket \ {at[o]}) = Cardinality(slistRxSocket) - 1
<1>1. pc[o] = "push" => at[o] \notin slistRxSocket
  BY DEF NodesInv, BusyWith, Opening, Closing
<1>2. pc[o] = "remove" => at[o] \in slistRxSocket
  BY DEF NodesInv, BusyWith, Opening, Closing
<1>3. IsFiniteSet(slistRxSocket)
  BY DEF SocketTypeOK
<1>4. Cardinality(slistRxSocket \cup {at[o]}) =
         IF at[o] \in slistRxSocket
         THEN Cardinality(slistRxSocket) ELSE Cardinality(slistRxSocket) + 1
  BY <1>3, FS_AddElement
<1>5. Cardinality(slistRxSocket \ {at[o]}) =
         IF at[o] \in slistRxSocket
         THEN Cardinality(slistRxSocket) - 1 ELSE Cardinality(slistRxSocket)
  BY <1>3, FS_RemoveElement
<1> QED
  BY <1>1, <1>2, <1>4, <1>5

LEMMA StepCountInv ==
    ASSUME IInv, SequentialInv, [Next]_vars, overlaps' = 0
    PROVE  CountInv'
<1> USE DEF listVars, flagVars, nodeVars, ownerVars, monitorVars, Goto, MonitorGoto, ListenOnly,
            MonitorOnly
<1>0. SocketTypeOK /\ NodesInv
  BY DEF IInv
<1>c. overlaps = 0 => CountInv
  BY DEF SequentialInv
<1>1. CASE UNCHANGED vars
  BY <1>c, <1>1 DEF vars, CountInv, lag, place
<1>2. ASSUME NEW o \in Owners, OwnerCalls(o) PROVE CountInv'
  BY <1>0, <1>c, <1>2, CallStep DEF CountInv, lag
<1>3. ASSUME NEW o \in Owners, OwnerProceeds(o) PROVE CountInv'
  <2>1. CASE Close(o)
    <3>1. place' = place
      BY <1>0, <1>3, <2>1, ProceedStep DEF Close, ListenPcs
    <3>2. UNCHANGED <<slistRxSocket, sRxSocketCount, seen, overlaps>>
      BY <2>1 DEF Close
    <3>3. \A p \in Owners : pc'[p] = pc[p] \/ pc'[p] = "idle"
      BY <1>0, <2>1 DEF Close, SocketTypeOK
    <3> QED
      BY <1>c, <3>1, <3>2, <3>3 DEF CountInv, lag
  <2>2. CASE ~Close(o)
    <3>1. /\ overlaps = 0 /\ place = pc[o] /\ place' = Shown(pc'[o]) /\ pc[o] \in ListenPcs
          /\ \A p \in Owners \ {o} : pc'[p] \notin ListenPcs
      BY <1>0, <1>3, <2>2, ProceedStep
    <3>2. \A p \in Owners : pc'[p] \in {"incStore", "decStore"} => p = o
      BY <3>1 DEF ListenPcs
    <3>3. CASE PushSocket(o) \/ RemoveSocket(o)
      <4>1. /\ place = "push" => place' = "count"
            /\ place = "remove" => place' = "decLoad"
            /\ place \in {"push", "remove"} /\ UNCHANGED sRxSocketCount
        BY <1>0, <3>1, <3>3 DEF PushSocket, RemoveSocket, Shown, ListenPcs, SocketTypeOK
      <4>2. Cardinality(slistRxSocket') =
               Cardinality(slistRxSocket) + (IF place = "push" THEN 1 ELSE -1)
        BY <1>0, <3>1, <3>3, ListedCount DEF PushSocket, RemoveSocket
      <4>3. Cardinality(slistRxSocket) = sRxSocketCount /\ sRxSocketCount \in Int
        BY <1>0, <1>c, <3>1, <4>1 DEF CountInv, lag, SocketTypeOK
      <4>4. lag' = IF place = "push" THEN 1 ELSE -1
        BY <4>1 DEF lag
      <4>5. \A p \in Owners : pc'[p] \notin {"incStore", "decStore"}
        BY <3>1, <3>2, <4>1 DEF Shown, ListenPcs
      <4> QED
        BY <4>1, <4>2, <4>3, <4>4, <4>5 DEF CountInv
    <3>4. CASE CheckCount(o) \/ CheckTerminate(o) \/ SpawnMonitor(o) \/ ClearListener(o)
               \/ TouchList(o) \/ TerminateMonitor(o) \/ WaitExit(o) \/ WaitExitReturns(o)
      <4>1. UNCHANGED <<slistRxSocket, sRxSocketCount, seen>>
        BY <3>4 DEF CheckCount, CheckTerminate, SpawnMonitor, ClearListener, TouchList,
                    TerminateMonitor, WaitExit, WaitExitReturns
      <4>2. \/ place = "count" /\ (place' = "incLoad" \/ (place' = "start" /\ sRxSocketCount = 0))
            \/ place = "start" /\ place' \in {"cancel", "spawn"}
            \/ place = "spawn" /\ place' = "incLoad"
            \/ place = "clear" /\ place' = "remove"
            \/ place = "touch" /\ place' = "out"
            \/ place = "terminate" /\ place' = "wait"
            \/ place = "wait" /\ place' \in {"zero", "asleep"}
            \/ place = "woken" /\ place' = "zero"
        BY <1>0, <3>1, <3>4
           DEF CheckCount, CheckTerminate, SpawnMonitor, ClearListener, TouchList,
               TerminateMonitor, WaitExit, WaitExitReturns, Shown, ListenPcs, SocketTypeOK
      <4>3. place' # "cancel"
        <5>1. place = "start" => ~sTerminateMonitor
          BY <3>1 DEF SequentialInv, LiveInv
        <5>2. CASE CheckTerminate(o)
          BY <1>0, <3>1, <5>1, <5>2 DEF CheckTerminate, Shown, ListenPcs, SocketTypeOK
        <5>3. CASE ~CheckTerminate(o)
          BY <1>0, <3>1, <3>4, <5>3
             DEF CheckCount, SpawnMonitor, ClearListener, TouchList,
                 TerminateMonitor, WaitExit, WaitExitReturns, Shown, ListenPcs, SocketTypeOK
        <5> QED
          BY <5>2, <5>3
      <4>4. \A p \in Owners : pc'[p] \notin {"incStore", "decStore"}
        BY <3>1, <3>2, <4>2 DEF Shown, ListenPcs
      <4> QED
        BY <1>c, <3>1, <4>1, <4>2, <4>3, <4>4 DEF CountInv, lag
    <3>6. CASE ZeroCount(o)
      <4>1. place = "zero" /\ place' = "out" /\ sRxSocketCount' = 0 /\ UNCHANGED slistRxSocket
        BY <1>0, <3>1, <3>6 DEF ZeroCount, Shown, ListenPcs, SocketTypeOK
      <4>2. \A p \in Owners : pc'[p] \notin {"incStore", "decStore"}
        BY <3>1, <3>2, <4>1 DEF Shown, ListenPcs
      <4> QED
        BY <1>c, <3>1, <4>1, <4>2 DEF CountInv, lag
    <3>5. CASE LoadCount(o) \/ IncCountStore(o) \/ DecCountStore(o)
      BY <1>0, <1>c, <3>1, <3>2, <3>5, FS_CardinalityType
         DEF LoadCount, IncCountStore, DecCountStore, CountInv, lag, Shown, ListenPcs, SocketTypeOK
    <3> QED
      BY <1>0, <1>3, <2>2, <3>3, <3>4, <3>5, <3>6, ProceedStep DEF OwnerProceeds
  <2> QED
    BY <2>1, <2>2
<1>4. ASSUME NEW m \in 1 .. MaxMonitors, MonitorStep(m) PROVE CountInv'
  <2>1. /\ overlaps = 0 /\ UNCHANGED <<slistRxSocket, sRxSocketCount, seen>>
        /\ place' = place \/ (place = "asleep" /\ place' = "woken")
        /\ \A p \in Owners : pc'[p] = pc[p] \/ pc'[p] = "woken"
    BY <1>0, <1>4, MonitorMoves
  <2> QED
    BY <1>c, <2>1 DEF CountInv, lag
<1> QED
  BY <1>1, <1>2, <1>3, <1>4 DEF Next

LEMMA StepLiveInv ==
    ASSUME IInv, SequentialInv, [Next]_vars, overlaps' = 0
    PROVE  LiveInv'
<1> USE DEF listVars, flagVars, nodeVars, ownerVars, monitorVars, Goto, MonitorGoto, ListenOnly,
            MonitorOnly
<1>0. SocketTypeOK
  BY DEF IInv
<1>c. overlaps = 0 => CountInv /\ LiveInv
  BY DEF SequentialInv
<1>1. CASE UNCHANGED vars
  BY <1>c, <1>1 DEF vars, LiveInv, Live, place
<1>2. ASSUME NEW o \in Owners, OwnerCalls(o) PROVE LiveInv'
  <2>1. /\ overlaps = 0 /\ UNCHANGED <<flagVars, mpc>>
        /\ place' = place \/ (place = "out" /\ place' \in {"push", "clear"})
    BY <1>0, <1>2, CallStep
  <2>2. UNCHANGED Live
    BY <2>1 DEF Live
  <2> QED
    BY <1>c, <2>1, <2>2 DEF LiveInv
<1>3. ASSUME NEW o \in Owners, OwnerProceeds(o) PROVE LiveInv'
  <2>1. CASE Close(o)
    <3>1. place' = place
      BY <1>0, <1>3, <2>1, ProceedStep DEF Close, ListenPcs
    <3>2. UNCHANGED <<flagVars, mpc, overlaps, Live>>
      BY <2>1 DEF Close, Live
    <3> QED
      BY <1>c, <3>1, <3>2 DEF LiveInv
  <2>2. CASE ~Close(o)
    <3>1. overlaps = 0 /\ place = pc[o] /\ place' = Shown(pc'[o]) /\ pc[o] \in ListenPcs
      BY <1>0, <1>3, <2>2, ProceedStep
    <3>2. CASE SpawnMonitor(o)
      <4>1. PICK m \in (1 .. MaxMonitors) \ Live : mpc' = [mpc EXCEPT ![m] = "begin"]
        BY <3>2 DEF SpawnMonitor
      <4>2. Live' = Live \cup {m} /\ mpc'[m] = "begin"
        BY <1>0, <4>1 DEF Live, SocketTypeOK
      <4>3. Live = {} /\ place' = "incLoad" /\ sTerminateMonitor' = FALSE
        BY <1>0, <1>c, <3>1, <3>2 DEF SpawnMonitor, LiveInv, CountInv, Shown, ListenPcs, SocketTypeOK
      <4> QED
        BY <4>2, <4>3 DEF LiveInv
    <3>3. CASE ~SpawnMonitor(o)
      <4>1. UNCHANGED <<mpc, Live>>
        BY <1>0, <1>3, <2>2, <3>3, ProceedStep
           DEF OwnerProceeds, PushSocket, CheckCount, CheckTerminate, LoadCount, IncCountStore,
               ClearListener, RemoveSocket, DecCountStore, TouchList, TerminateMonitor, WaitExit,
               WaitExitReturns, ZeroCount, Live
      <4>2. CASE PushSocket(o) \/ RemoveSocket(o) \/ CheckCount(o) \/ CheckTerminate(o)
                 \/ LoadCount(o) \/ ClearListener(o) \/ TouchList(o)
        <5>1. UNCHANGED <<sTerminateMonitor, sRxSocketCount>>
          BY <4>2 DEF PushSocket, RemoveSocket, CheckCount, CheckTerminate, LoadCount, ClearListener,
                      TouchList
        <5>2. pc'[o] \in OwnerPcs
          BY <1>0, <4>2 DEF SocketTypeOK, PushSocket, RemoveSocket, CheckCount, CheckTerminate,
                            LoadCount, ClearListener, TouchList, OwnerPcs, ListenPcs
        <5> QED
          BY <1>0, <1>c, <3>1, <4>1, <4>2, <5>1
             DEF PushSocket, RemoveSocket, CheckCount, CheckTerminate, LoadCount, ClearListener,
                 TouchList, LiveInv, CountInv, Shown, ListenPcs, SocketTypeOK
      <4>3. CASE IncCountStore(o) \/ DecCountStore(o) \/ ZeroCount(o)
        <5>1. UNCHANGED sTerminateMonitor
          BY <4>3 DEF IncCountStore, DecCountStore, ZeroCount
        <5>2. Cardinality(slistRxSocket) \in Nat /\ sRxSocketCount \in Int
          BY <1>0, FS_CardinalityType DEF SocketTypeOK
        <5>3. CASE IncCountStore(o)
          <6>1. place = "incStore" /\ place' = "out" /\ sRxSocketCount' = sRxSocketCount + 1
            BY <1>0, <1>c, <3>1, <5>3 DEF IncCountStore, CountInv, Shown, ListenPcs, SocketTypeOK
          <6>2. slistRxSocket # {}
            BY <3>1, <5>3 DEF IncCountStore, IInv, NodesInv, BusyWith, Opening
          <6>3. Cardinality(slistRxSocket) # 0
            BY <1>0, <6>2, FS_EmptySet DEF SocketTypeOK
          <6>4. sRxSocketCount' # 0
            BY <1>c, <3>1, <5>2, <6>1, <6>3 DEF CountInv, lag
          <6> QED
            BY <1>c, <3>1, <4>1, <5>1, <6>1, <6>4 DEF LiveInv
        <5>4. CASE DecCountStore(o)
          <6>1. /\ place = "decStore" /\ sRxSocketCount' = sRxSocketCount - 1
                /\ place' = IF sRxSocketCount - 1 <= 0 THEN "terminate" ELSE "touch"
            BY <1>0, <1>c, <3>1, <5>4 DEF DecCountStore, CountInv, Shown, ListenPcs, SocketTypeOK
          <6>2. sRxSocketCount >= 1
            BY <1>c, <3>1, <5>2, <6>1 DEF CountInv, lag
          <6>3. Live # {}
            BY <1>c, <3>1, <6>1, <6>2 DEF LiveInv
          <6> QED
            BY <1>c, <3>1, <4>1, <5>1, <5>2, <6>1, <6>2, <6>3 DEF LiveInv
        <5>5. CASE ZeroCount(o)
          <6>1. place = "zero" /\ place' = "out" /\ sRxSocketCount' = 0 /\ sRxSocketCount = 0
            BY <1>0, <1>c, <3>1, <5>5 DEF ZeroCount, CountInv, Shown, ListenPcs, SocketTypeOK
          <6> QED
            BY <1>c, <3>1, <4>1, <5>1, <6>1 DEF LiveInv
        <5> QED
          BY <4>3, <5>3, <5>4, <5>5
      <4>4. CASE TerminateMonitor(o)
        BY <1>0, <1>c, <3>1, <4>1, <4>4
           DEF TerminateMonitor, LiveInv, CountInv, Shown, ListenPcs, SocketTypeOK
      <4>5. CASE WaitExit(o) \/ WaitExitReturns(o)
        <5>1. UNCHANGED <<sTerminateMonitor, sRxSocketCount>>
          BY <4>5 DEF WaitExit, WaitExitReturns
        <5>2. SignalInv /\ sConditionExit \in Ring
          BY <1>0, <3>1 DEF SequentialInv, SocketTypeOK
        <5>3. place = "wait" /\ ~SignalPending(sConditionExit) => Live # {}
          BY <5>2, PendingCounts DEF SignalInv, outstanding
        <5>4. place = "wait" /\ SignalPending(sConditionExit) => Live = {}
          BY <5>2, PendingCounts DEF SignalInv, outstanding
        <5>5. CASE place' = "asleep" /\ place = "wait" /\ Live # {}
          BY <1>c, <3>1, <4>1, <5>1, <5>5 DEF LiveInv
        <5>6. CASE place' = "zero" /\ Live = {}
          BY <1>c, <3>1, <4>1, <5>1, <5>6 DEF LiveInv, CountInv
        <5>7. \/ place' = "asleep" /\ place = "wait" /\ Live # {}
              \/ place' = "zero" /\ Live = {}
          BY <1>0, <1>c, <3>1, <4>5, <5>3, <5>4
             DEF WaitExit, WaitExitReturns, Shown, ListenPcs, LiveInv, CountInv, SocketTypeOK
        <5> QED
          BY <5>5, <5>6, <5>7
      <4> QED
        BY <1>0, <1>3, <2>2, <3>3, <4>2, <4>3, <4>4, <4>5, ProceedStep DEF OwnerProceeds
    <3> QED
      BY <3>2, <3>3
  <2> QED
    BY <2>1, <2>2
<1>4. ASSUME NEW m \in 1 .. MaxMonitors, MonitorStep(m) PROVE LiveInv'
  <2>0. overlaps = 0 /\ UNCHANGED sRxSocketCount /\ m \in Live
    BY <1>0, <1>4, MonitorMoves
       DEF MonitorStep, SetSocketFD, CheckMonitor, LookAtList, Select, LockSockets, NextSocket,
           CallListener, CallNull, Delivered, ExitMonitor, Live
  <2>1. CASE mpc[m] = "exitSignal"
    <3>1. /\ mpc' = [mpc EXCEPT ![m] = "none"] /\ UNCHANGED sTerminateMonitor
          /\ place' = IF place = "asleep" THEN "woken" ELSE place
      BY <1>0, <1>4, <2>1, MonitorMoves
    <3>2. Live' = {} /\ ~sTerminateMonitor /\ place \in {"wait", "asleep"} /\ sRxSocketCount = 0
      <4>1. Live = {m} /\ ~sTerminateMonitor /\ place \in {"wait", "asleep"}
        BY <1>c, <2>0, <2>1 DEF LiveInv
      <4> QED
        BY <1>0, <1>c, <2>0, <3>1, <4>1 DEF CountInv, Live, SocketTypeOK
    <3> QED
      BY <2>0, <3>1, <3>2 DEF LiveInv
  <2>2. CASE mpc[m] # "exitSignal"
    <3>1. place' = place
      BY <1>0, <1>4, <2>2, MonitorMoves
    <3>2. PICK x \in MonitorPcs \ {"none"} : mpc' = [mpc EXCEPT ![m] = x]
      <4>1. CASE NextSocket(m) \/ CallListener(m)
        <5>1. mpc' = mpc \/ \E x \in {"check", "call", "next", "deliver"} : mpc' = [mpc EXCEPT ![m] = x]
          BY <4>1 DEF NextSocket, CallListener
        <5>2. mpc[m] \in MonitorPcs \ {"none"}
          BY <1>0, <2>0 DEF SocketTypeOK, Live
        <5>3. mpc = [mpc EXCEPT ![m] = mpc[m]]
          BY <1>0 DEF SocketTypeOK
        <5> QED
          BY <5>1, <5>2, <5>3 DEF MonitorPcs
      <4>2. CASE ~(NextSocket(m) \/ CallListener(m))
        BY <1>4, <2>2, <4>2
           DEF MonitorStep, SetSocketFD, CheckMonitor, LookAtList, Select, LockSockets,
               CallNull, Delivered, ExitMonitor, MonitorPcs
      <4> QED
        BY <4>1, <4>2
    <3>3. mpc'[m] = x /\ UNCHANGED Live
      BY <1>0, <2>0, <3>2 DEF Live, SocketTypeOK
    <3>4. Live = {m}
      BY <1>c, <2>0 DEF LiveInv
    <3>5. CASE mpc[m] = "exit"
      <4>1. x = "exitSignal" /\ sTerminateMonitor' = FALSE
        BY <1>4, <3>3, <3>5, <1>0
           DEF MonitorStep, SetSocketFD, CheckMonitor, LookAtList, Select, LockSockets, NextSocket,
               CallListener, CallNull, Delivered, ExitMonitor, SocketTypeOK
      <4>2. place \in {"wait", "asleep"}
        BY <1>c, <2>0, <3>5 DEF LiveInv
      <4> QED
        BY <1>c, <2>0, <3>1, <3>3, <3>4, <4>1, <4>2 DEF LiveInv
    <3>6. CASE mpc[m] # "exit"
      <4>1. UNCHANGED sTerminateMonitor /\ x # "exitSignal" /\ (x = "exit" => sTerminateMonitor)
        BY <1>0, <1>4, <2>2, <3>3, <3>6
           DEF MonitorStep, SetSocketFD, CheckMonitor, LookAtList, Select, LockSockets, NextSocket,
               CallListener, CallNull, Delivered, ExitMonitor, SocketTypeOK
      <4> QED
        BY <1>c, <2>0, <2>2, <3>1, <3>3, <3>4, <4>1 DEF LiveInv
    <3> QED
      BY <3>5, <3>6
  <2> QED
    BY <2>1, <2>2
<1> QED
  BY <1>1, <1>2, <1>3, <1>4 DEF Next

LEMMA StepSignalInv ==
    ASSUME IInv, SequentialInv, [Next]_vars, overlaps' = 0
    PROVE  SignalInv'
<1> USE DEF listVars, flagVars, nodeVars, ownerVars, monitorVars, Goto, MonitorGoto, ListenOnly,
            MonitorOnly
<1>0. SocketTypeOK /\ sConditionExit \in Ring
  BY DEF IInv, SocketTypeOK
<1>c. overlaps = 0 => LiveInv /\ SignalInv
  BY DEF SequentialInv
\* The condition is left alone between places where nobody waits.
<1>f. ASSUME overlaps = 0, UNCHANGED <<sConditionExit, outstanding>>,
             place' = place \/ {place, place'} \cap {"asleep", "woken"} = {}
      PROVE  SignalInv'
  BY <1>c, <1>f DEF SignalInv, Counts
<1>1. CASE UNCHANGED vars
  BY <1>c, <1>1 DEF vars, SignalInv, outstanding, Live, place
<1>2. ASSUME NEW o \in Owners, OwnerCalls(o) PROVE SignalInv'
  <2>1. /\ overlaps = 0 /\ UNCHANGED <<sConditionExit, mpc>>
        /\ place' = place \/ (place = "out" /\ place' \in {"push", "clear"})
    BY <1>0, <1>2, CallStep
  <2>2. UNCHANGED outstanding
    BY <2>1 DEF outstanding, Live
  <2> QED
    BY <1>f, <2>1, <2>2
<1>3. ASSUME NEW o \in Owners, OwnerProceeds(o) PROVE SignalInv'
  <2>1. CASE Close(o)
    <3>1. place' = place /\ overlaps = 0
      BY <1>0, <1>3, <2>1, ProceedStep DEF Close, ListenPcs
    <3>2. UNCHANGED <<sConditionExit, outstanding>>
      BY <2>1, <3>1 DEF Close, outstanding, Live
    <3> QED
      BY <1>f, <3>1, <3>2
  <2>2. CASE ~Close(o)
    <3>1. overlaps = 0 /\ place = pc[o] /\ place' = Shown(pc'[o]) /\ pc[o] \in ListenPcs
      BY <1>0, <1>3, <2>2, ProceedStep
    <3>2. CASE WaitExit(o)
      <4>1. place = "wait" /\ UNCHANGED Live
        BY <3>1, <3>2 DEF WaitExit, Live
      <4>2. Counts(sConditionExit, outstanding, "wait")
        BY <1>c, <3>1, <4>1 DEF SignalInv
      <4>3. SignalPending(sConditionExit) <=> outstanding > 0
        BY <1>0, <4>2, PendingCounts
      <4>4. CASE SignalPending(sConditionExit)
        <5>1. sConditionExit' = Consume(sConditionExit) /\ place' = "zero"
          BY <1>0, <3>1, <3>2, <4>4 DEF WaitExit, Shown, ListenPcs, SocketTypeOK
        <5>2. outstanding = 1 /\ outstanding' = 0
          BY <4>3, <4>4, <5>1 DEF outstanding
        <5>3. Counts(Consume(sConditionExit), outstanding - 1, "zero")
          BY <1>0, <4>2, <5>2, ConsumeCounts
        <5> QED
          BY <5>1, <5>2, <5>3 DEF SignalInv
      <4>5. CASE ~SignalPending(sConditionExit)
        <5>1. sConditionExit' = FallAsleep(sConditionExit) /\ place' = "asleep"
          BY <1>0, <3>1, <3>2, <4>5 DEF WaitExit, Shown, ListenPcs, SocketTypeOK
        <5>2. outstanding = 0 /\ outstanding' = 0
          BY <4>3, <4>5, <5>1 DEF outstanding
        <5>3. Counts(FallAsleep(sConditionExit), 0, "asleep")
          BY <1>0, <4>2, <5>2, SleepCounts
        <5> QED
          BY <5>1, <5>2, <5>3 DEF SignalInv
      <4> QED
        BY <4>4, <4>5
    <3>3. CASE WaitExitReturns(o)
      <4>1. /\ place = "woken" /\ place' = "zero"
            /\ sConditionExit' = Leave(sConditionExit)
        BY <1>0, <3>1, <3>3 DEF WaitExitReturns, Shown, ListenPcs, SocketTypeOK
      <4>2. outstanding = 1 /\ outstanding' = 0
        BY <4>1 DEF outstanding
      <4>3. Counts(sConditionExit, outstanding, "woken")
        BY <1>c, <3>1, <4>1 DEF SignalInv
      <4>4. Counts(Leave(sConditionExit), outstanding - 1, "zero")
        BY <1>0, <4>3, LeaveCounts
      <4> QED
        BY <4>1, <4>2, <4>4 DEF SignalInv
    <3>4. CASE TerminateMonitor(o)
      <4>1. place = "terminate" /\ place' = "wait" /\ UNCHANGED <<sConditionExit, Live>>
        BY <1>0, <3>1, <3>4 DEF TerminateMonitor, Shown, ListenPcs, Live, SocketTypeOK
      <4>2. outstanding = 0 /\ outstanding' = 0
        BY <1>c, <3>1, <4>1 DEF LiveInv, outstanding
      <4> QED
        BY <1>f, <3>1, <4>1, <4>2
    <3>5. CASE ~WaitExit(o) /\ ~WaitExitReturns(o) /\ ~TerminateMonitor(o)
      <4>1. UNCHANGED sConditionExit
        BY <1>0, <1>3, <3>5, ProceedStep
           DEF OwnerProceeds, PushSocket, CheckCount, CheckTerminate, SpawnMonitor, LoadCount,
               IncCountStore, ClearListener, RemoveSocket, DecCountStore, TouchList, ZeroCount, Close
      <4>2. {place, place'} \cap {"wait", "asleep", "woken"} = {}
        BY <1>0, <1>3, <2>2, <3>1, <3>5, ProceedStep
           DEF OwnerProceeds, PushSocket, CheckCount, CheckTerminate, SpawnMonitor, LoadCount,
               IncCountStore, ClearListener, RemoveSocket, DecCountStore, TouchList, ZeroCount,
               Shown, SocketTypeOK
      <4>3. outstanding = 0 /\ outstanding' = 0
        BY <4>2 DEF outstanding
      <4> QED
        BY <1>f, <3>1, <4>1, <4>2, <4>3
    <3> QED
      BY <3>2, <3>3, <3>4, <3>5
  <2> QED
    BY <2>1, <2>2
<1>4. ASSUME NEW m \in 1 .. MaxMonitors, MonitorStep(m) PROVE SignalInv'
  <2>0. overlaps = 0 /\ m \in Live
    BY <1>0, <1>4, MonitorMoves
       DEF MonitorStep, SetSocketFD, CheckMonitor, LookAtList, Select, LockSockets, NextSocket,
           CallListener, CallNull, Delivered, ExitMonitor, Live
  <2>1. CASE mpc[m] = "exitSignal"
    <3>1. /\ mpc' = [mpc EXCEPT ![m] = "none"]
          /\ sConditionExit' = Signal(sConditionExit)
          /\ place' = IF place = "asleep" THEN "woken" ELSE place
      BY <1>0, <1>4, <2>1, MonitorMoves
    <3>2. place \in {"wait", "asleep"} /\ Live = {m}
      BY <1>c, <2>0, <2>1 DEF LiveInv
    <3>3. Live' = {}
      BY <1>0, <3>1, <3>2 DEF Live, SocketTypeOK
    <3>4. outstanding = 0 /\ outstanding' = 1
      BY <3>1, <3>2, <3>3 DEF outstanding
    <3>5. Counts(Signal(sConditionExit), 0 + 1, IF place = "asleep" THEN "woken" ELSE place)
      <4>1. Counts(sConditionExit, 0, place) /\ 0 < Slots
        BY <1>c, <2>0, <3>4, SlotsAssumption DEF SignalInv
      <4> QED
        BY <1>0, <4>1, SignalCounts
    <3> QED
      BY <3>1, <3>4, <3>5 DEF SignalInv
  <2>2. CASE mpc[m] # "exitSignal"
    <3>1. place' = place /\ UNCHANGED sConditionExit
      BY <1>0, <1>4, <2>2, MonitorMoves
    <3>2. mpc'[m] # "none" /\ \A k \in (1 .. MaxMonitors) \ {m} : mpc'[k] = mpc[k]
      BY <1>0, <1>4, <2>0, <2>2
         DEF MonitorStep, SetSocketFD, CheckMonitor, LookAtList, Select, LockSockets, NextSocket,
             CallListener, CallNull, Delivered, ExitMonitor, Live, SocketTypeOK
    <3>3. UNCHANGED outstanding
      <4>1. UNCHANGED Live
        BY <2>0, <3>2 DEF Live
      <4> QED
        BY <3>1, <4>1 DEF outstanding
    <3> QED
      BY <1>f, <2>0, <3>1, <3>3
  <2> QED
    BY <2>1, <2>2
<1> QED
  BY <1>1, <1>2, <1>3, <1>4 DEF Next

LEMMA StepPollInv ==
    ASSUME IInv, SequentialInv, [Next]_vars, overlaps' = 0
    PROVE  PollInv'
<1> USE DEF listVars, flagVars, nodeVars, ownerVars, monitorVars, Goto, MonitorGoto, ListenOnly,
            MonitorOnly
<1>0. SocketTypeOK
  BY DEF IInv
<1>c. overlaps = 0 => CountInv /\ PollInv
  BY DEF SequentialInv
\* A list without a new socket is polled as it was.
<1>f. ASSUME overlaps = 0, UNCHANGED <<ReadFds, mpc>>, slistRxSocket' \subseteq slistRxSocket,
             sSocketListUpdated => sSocketListUpdated',
             place \in {"count", "start", "spawn"} => place' \in {"count", "start", "spawn"}
      PROVE  PollInv'
  BY <1>c, <1>f DEF PollInv, Live
<1>1. CASE UNCHANGED vars
  BY <1>c, <1>1 DEF vars, PollInv, Live, place
<1>2. ASSUME NEW o \in Owners, OwnerCalls(o) PROVE PollInv'
  BY <1>0, <1>2, <1>f, CallStep
<1>3. ASSUME NEW o \in Owners, OwnerProceeds(o) PROVE PollInv'
  <2>1. CASE Close(o)
    BY <1>0, <1>3, <1>f, <2>1, ProceedStep DEF Close, ListenPcs
  <2>2. CASE ~Close(o)
    <3>1. overlaps = 0 /\ place = pc[o] /\ place' = Shown(pc'[o]) /\ pc[o] \in ListenPcs
      BY <1>0, <1>3, <2>2, ProceedStep
    <3>2. CASE PushSocket(o)
      BY <1>0, <3>1, <3>2 DEF PushSocket, PollInv, Shown, ListenPcs, SocketTypeOK
    <3>3. CASE CheckCount(o)
      BY <1>0, <3>1, <3>3 DEF CheckCount, PollInv, Shown, ListenPcs, SocketTypeOK
    <3>4. CASE CheckTerminate(o)
      <4>1. CountInv'
        BY <1>c, <3>1, StepCountInv
      <4> QED
        BY <1>0, <3>1, <3>4, <4>1 DEF CheckTerminate, CountInv, PollInv, Shown, ListenPcs, SocketTypeOK
    <3>5. CASE SpawnMonitor(o)
      <4>1. PICK m \in (1 .. MaxMonitors) \ Live : mpc' = [mpc EXCEPT ![m] = "begin"]
        BY <3>5 DEF SpawnMonitor
      <4>2. m \in Live' /\ mpc'[m] = "begin"
        BY <1>0, <4>1 DEF Live, SocketTypeOK
      <4> QED
        BY <4>2 DEF PollInv
    <3>6. CASE \/ LoadCount(o) \/ IncCountStore(o) \/ ClearListener(o) \/ RemoveSocket(o)
               \/ DecCountStore(o) \/ TouchList(o) \/ TerminateMonitor(o) \/ WaitExit(o)
               \/ WaitExitReturns(o) \/ ZeroCount(o)
      <4>1. UNCHANGED <<ReadFds, mpc>> /\ slistRxSocket' \subseteq slistRxSocket
        BY <3>6 DEF LoadCount, IncCountStore, ClearListener, RemoveSocket, DecCountStore, TouchList,
                    TerminateMonitor, WaitExit, WaitExitReturns, ZeroCount
      <4>2. sSocketListUpdated => sSocketListUpdated'
        BY <3>6 DEF LoadCount, IncCountStore, ClearListener, RemoveSocket, DecCountStore, TouchList,
                    TerminateMonitor, WaitExit, WaitExitReturns, ZeroCount
      <4>3. place \notin {"count", "start", "spawn"}
        BY <3>1, <3>6 DEF LoadCount, IncCountStore, ClearListener, RemoveSocket, DecCountStore,
                          TouchList, TerminateMonitor, WaitExit, WaitExitReturns, ZeroCount
      <4> QED
        BY <1>f, <3>1, <4>1, <4>2, <4>3
    <3> QED
      BY <1>0, <1>3, <2>2, <3>2, <3>3, <3>4, <3>5, <3>6, ProceedStep DEF OwnerProceeds
  <2> QED
    BY <2>1, <2>2
<1>4. ASSUME NEW m \in 1 .. MaxMonitors, MonitorStep(m) PROVE PollInv'
  <2>1. overlaps = 0 /\ (place' = place \/ (place = "asleep" /\ place' = "woken"))
        /\ UNCHANGED slistRxSocket
    BY <1>0, <1>4, MonitorMoves
  <2>2. CASE SetSocketFD(m)
    BY <2>1, <2>2 DEF SetSocketFD, PollInv
  <2>3. CASE ~SetSocketFD(m)
    <3>1. UNCHANGED <<ReadFds, sSocketListUpdated>>
      BY <1>4, <2>3
         DEF MonitorStep, CheckMonitor, LookAtList, Select, LockSockets, NextSocket,
             CallListener, CallNull, Delivered, ExitMonitor
    <3>2. mpc[m] \notin {"begin", "refresh"}
      BY <1>4, <2>3
         DEF MonitorStep, CheckMonitor, LookAtList, Select, LockSockets, NextSocket,
             CallListener, CallNull, Delivered, ExitMonitor
    <3>3. \A k \in (1 .. MaxMonitors) \ {m} : mpc'[k] = mpc[k]
      BY <1>0, <1>4, <2>3
         DEF MonitorStep, CheckMonitor, LookAtList, Select, LockSockets, NextSocket,
             CallListener, CallNull, Delivered, ExitMonitor, SocketTypeOK
    <3>4. \A k \in Live : mpc[k] \in {"begin", "refresh"} => k \in Live' /\ mpc'[k] = mpc[k]
      BY <3>2, <3>3 DEF Live
    <3> QED
      BY <1>c, <2>1, <3>1, <3>4 DEF PollInv
  <2> QED
    BY <2>2, <2>3
<1> QED
  BY <1>1, <1>2, <1>3, <1>4 DEF Next
----------------------------------------------------------------------------
LEMMA Invariance == Spec => [](IInv /\ SequentialInv)
<1>1. IInv /\ [Next]_vars => IInv'
  BY StepSocketTypeOK, StepNodesInv, StepCallInv DEF IInv
<1>2. IInv /\ SequentialInv /\ [Next]_vars => SequentialInv'
  <2> SUFFICES ASSUME IInv, SequentialInv, [Next]_vars, overlaps' = 0
               PROVE  (OneInListen /\ CountInv /\ LiveInv /\ SignalInv /\ PollInv)'
    BY DEF SequentialInv
  <2>1. OneInListen'
    <3>1. SocketTypeOK
      BY DEF IInv
    <3>2. CASE UNCHANGED vars
      BY <3>2 DEF vars, ownerVars, SequentialInv, OneInListen
    <3>3. CASE Next
      BY <3>1, <3>3, CallStep, ProceedStep, MonitorMoves DEF Next
    <3> QED
      BY <3>2, <3>3
  <2> QED
    BY <2>1, StepCountInv, StepLiveInv, StepSignalInv, StepPollInv
<1> QED
  BY InitIInv, InitSequentialInv, <1>1, <1>2, PTL DEF Spec

(* For every set of sessions and sockets, and whatever happens inside Listen: between calls
   there is one monitor if a socket listens and none otherwise, and no listener is forgotten,
   unless two sessions were in Listen at the same time. *)
THEOREM MonitorServesListeners == Spec => []MonitorFollowsList
<1>1. IInv /\ SequentialInv => MonitorFollowsList
  <2> SUFFICES ASSUME IInv, SequentialInv, overlaps = 0, \A o \in Owners : pc[o] \notin ListenPcs
               PROVE  /\ Cardinality(Live) = IF slistRxSocket = {} THEN 0 ELSE 1
                      /\ \/ slistRxSocket \subseteq ReadFds \/ sSocketListUpdated
                         \/ \E m \in Live : mpc[m] \in {"begin", "refresh"}
    BY DEF MonitorFollowsList, MonitorMatchesListeners, NoListenerForgotten
  <2>1. CountInv /\ LiveInv /\ PollInv /\ place = "out"
    BY PlaceIs DEF SequentialInv
  <2>2. sRxSocketCount = 0 <=> slistRxSocket = {}
    <3>1. Cardinality(slistRxSocket) = sRxSocketCount /\ IsFiniteSet(slistRxSocket)
      BY <2>1 DEF CountInv, lag, IInv, SocketTypeOK
    <3> QED
      BY <3>1, FS_EmptySet
  <2>3. CASE slistRxSocket = {}
    <3>1. Live = {}
      BY <2>1, <2>2, <2>3 DEF LiveInv
    <3> QED
      BY <2>1, <2>3, <3>1, FS_EmptySet DEF PollInv
  <2>4. CASE slistRxSocket # {}
    <3>1. PICK m : Live = {m}
      <4>1. PICK m \in Live : TRUE
        BY <2>1, <2>2, <2>4 DEF LiveInv
      <4>2. \A k \in Live : k = m
        BY <2>1 DEF LiveInv
      <4> QED
        BY <4>1, <4>2
    <3> QED
      BY <2>1, <2>4, <3>1, FS_Singleton DEF PollInv
  <2> QED
    BY <2>3, <2>4
<1> QED
  BY Invariance, <1>1, PTL

(* Likewise, a session that waits in StopSocketMonitor finds the signal, or a monitor that
   has yet to give it. *)
THEOREM WaitForMonitorIsAnswered == Spec => []CloseIsAnswered
<1>1. IInv /\ SequentialInv => CloseIsAnswered
  <2> SUFFICES ASSUME IInv, SequentialInv, overlaps = 0, NEW o \in Owners, pc[o] \in {"wait", "asleep"}
               PROVE  \/ pc[o] = "wait" /\ SignalPending(sConditionExit)
                      \/ \E m \in Live : sTerminateMonitor \/ mpc[m] = "exitSignal"
    BY DEF CloseIsAnswered
  <2>1. LiveInv /\ SignalInv /\ place = pc[o] /\ sConditionExit \in Ring
    BY PlaceIs DEF SequentialInv, ListenPcs, IInv, SocketTypeOK
  <2>2. CASE Live # {}
    BY <2>1, <2>2 DEF LiveInv
  <2>3. CASE Live = {}
    <3>1. place = "wait" /\ outstanding = 1
      BY <2>1, <2>3 DEF LiveInv, outstanding
    <3>2. Counts(sConditionExit, 1, "wait")
      BY <2>1, <3>1 DEF SignalInv
    <3> QED
      BY <2>1, <3>1, <3>2, PendingCounts
  <2> QED
    BY <2>2, <2>3
<1> QED
  BY Invariance, <1>1, PTL
=============================================================================
