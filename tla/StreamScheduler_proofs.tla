------------------------ MODULE StreamScheduler_proofs ------------------------
(***************************************************************************)
(* For any nodes, producers and numbers of starts, and however the client, *)
(* the worker and the producers interleave: the nodes are released after   *)
(* the worker is gone, a start that succeeds has started them, and the     *)
(* scheduler keeps the lifecycle of IImsMediaThread.                       *)
(***************************************************************************)
EXTENDS StreamScheduler, TLAPS

(* Where the worker can be while the client is where it is.  mThreadStopped does not tell:
   the worker itself sets it on its way out. *)
LifeInv ==
    /\ wpc \in WorkerPcs /\ cpc \in ClientPcs /\ goal \in {"start", "return"}
    /\ starts \in Nat
    /\ mJoinable <=> wpc # "absent"
    /\ cpc \in {"startReset", "startThread", "spawn"} => wpc = "absent"
    /\ cpc = "joining" => wpc # "absent"
    /\ cpc = "idle" /\ ~up => wpc = "absent"
    /\ up => cpc = "idle"
    /\ wpc # "absent" => starts > 0
    /\ starts <= MaxStarts
    /\ goal = "start" => cpc \in {"join", "joining", "startReset"} /\ starts < MaxStarts
    /\ cpc \in {"startReset", "startThread", "spawn"} => starts < MaxStarts

(* From the reset of the result to the moment the client looks at it. *)
Starting == {"startThread", "spawn", "waitStarted", "startedAsleep", "startedWoken", "startResult"}

RegisteredRun ==
    \A i \in 1 .. Len(mListRegisteredNode) :
        mListRegisteredNode[i] \in AsyncNodes => nodeState[mListRegisteredNode[i]] = "running"

StartInv ==
    /\ mListRegisteredNode \in Seq(Nodes)
    /\ nodeState \in [Nodes -> {"running", "stopped"}]
    /\ cpc \in Starting /\ mStartResult = "success" => RegisteredRun

IInv == LifeInv /\ StartInv

USE BoundsAssumption, NodesAssumption

LEMMA InitIInv == Init => IInv
<1>1. Init => LifeInv
  BY DEF Init, LifeInv, WorkerPcs, ClientPcs
<1>2. Init => StartInv
  BY DEF Init, StartInv, Starting
<1> QED
  BY <1>1, <1>2 DEF IInv

LEMMA StepLifeInv == LifeInv /\ [Next]_vars => LifeInv'
<1> SUFFICES ASSUME LifeInv, [Next]_vars PROVE LifeInv'
  OBVIOUS
<1> USE DEF LifeInv, WorkerPcs, ClientPcs, threadVars, flagVars, clientVars, nodeVars, roundVars,
            condVars, producerVars
<1>1. CASE ClientCalls
  BY <1>1 DEF ClientCalls, StartCall, StopCall, RegisterNode, DeRegisterNode, NodeStart, NodeStop,
              ClientOnly
<1>2. CASE JoinThread \/ JoinReturns \/ StartReset \/ StartThread \/ ThreadCreated \/ ThreadNotCreated
  BY <1>2 DEF JoinThread, JoinReturns, StartReset, StartThread, ThreadCreated, ThreadNotCreated,
              AfterJoin, ClientOnly
<1>3. CASE WaitStarted \/ StartedWoken \/ StartedTimeout \/ StopThread \/ WaitExit \/ ExitWaitEnds
  <2>1. UNCHANGED <<mJoinable, starts, goal, up, wpc>>
    BY <1>3 DEF WaitStarted, StartedWoken, StartedTimeout, StopThread, WaitExit, ExitWaitEnds
  <2>2. \/ cpc' = "awake" /\ cpc = "stop"
        \/ cpc \in {"waitStarted", "startedWoken", "startedAsleep", "waitExit", "exitAsleep", "exitWoken"}
           /\ cpc' \in {"startedAsleep", "startResult", "stop", "exitAsleep", "join"}
    BY <1>3 DEF WaitStarted, StartedWoken, StartedTimeout, StopThread, WaitExit, ExitWaitEnds
  <2> QED
    BY <2>1, <2>2
<1>4. CASE StartResult
  BY <1>4 DEF StartResult, ClientOnly
<1>5. CASE ClientAwake
  BY <1>5 DEF ClientAwake, SignalMain, ClientOnly
<1>6. CASE WorkerProceeds
  <2>1. UNCHANGED <<mJoinable, starts, goal, up>>
    BY <1>6 DEF WorkerProceeds, LockForStart, StartNodes, SignalStarted, StartFailed, CheckStopped,
                ScanNodes, ProcessNode, EndRound, Decide, AnnounceRound, WorkerWaits,
                WorkerWaitEnds, Exit, SignalExit, WorkerReturns, WorkerOnly
  <2>2. wpc # "absent" /\ wpc' \in WorkerPcs \ {"absent"}
    BY <1>6 DEF WorkerProceeds, LockForStart, StartNodes, SignalStarted, StartFailed, CheckStopped,
                ScanNodes, ProcessNode, EndRound, Decide, AnnounceRound, WorkerWaits,
                WorkerWaitEnds, Exit, SignalExit, WorkerReturns
  <2>3. \/ cpc' = cpc
        \/ cpc = "startedAsleep" /\ cpc' = "startedWoken"
        \/ cpc = "exitAsleep" /\ cpc' = "exitWoken"
    BY <1>6 DEF WorkerProceeds, LockForStart, StartNodes, SignalStarted, StartFailed, CheckStopped,
                ScanNodes, ProcessNode, EndRound, Decide, AnnounceRound, WorkerWaits,
                WorkerWaitEnds, Exit, SignalExit, WorkerReturns
  <2> QED
    BY <2>1, <2>2, <2>3
<1>7. CASE ProducerSteps
  BY <1>7 DEF ProducerSteps, AddData, ProducerAwake, SignalMain, ProducerOnly
<1>8. CASE SpuriousWakeup
  BY <1>8 DEF SpuriousWakeup
<1>9. CASE UNCHANGED vars
  BY <1>9 DEF vars
<1> QED
  BY <1>1, <1>2, <1>3, <1>4, <1>5, <1>6, <1>7, <1>8, <1>9 DEF Next, ClientProceeds

(* What leaves the registered nodes, their states and the result alone, or comes before
   them, keeps StartInv. *)
LEMMA StartInvFrame ==
    ASSUME StartInv, UNCHANGED <<mListRegisteredNode, nodeState, mStartResult>>,
           cpc' \in Starting => cpc \in Starting
    PROVE  StartInv'
  BY DEF StartInv, RegisteredRun

LEMMA StepStartInv == LifeInv /\ StartInv /\ [Next]_vars => StartInv'
<1> SUFFICES ASSUME LifeInv, StartInv, [Next]_vars PROVE StartInv'
  OBVIOUS
<1> USE DEF Starting, threadVars, flagVars, clientVars, nodeVars, roundVars, condVars, producerVars
<1>1. ASSUME NEW n \in Nodes, RegisterNode(n) PROVE StartInv'
  BY <1>1 DEF RegisterNode, StartInv
<1>2. ASSUME NEW n \in Nodes, DeRegisterNode(n) PROVE StartInv'
  <2>1. PICK i \in 1 .. Len(mListRegisteredNode) :
            mListRegisteredNode' = RemoveAt(mListRegisteredNode, i)
    BY <1>2 DEF DeRegisterNode
  <2>2. mListRegisteredNode' \in Seq(Nodes)
    BY <2>1 DEF RemoveAt, StartInv
  <2> QED
    BY <1>2, <2>2 DEF DeRegisterNode, StartInv
<1>3. ASSUME NEW n \in Nodes, NodeStart(n) \/ NodeStop(n) PROVE StartInv'
  BY <1>3 DEF NodeStart, NodeStop, StartInv
<1>4. CASE StartCall \/ StopCall
  BY <1>4, StartInvFrame DEF StartCall, StopCall, ClientOnly
<1>5. CASE StartReset
  BY <1>5 DEF StartReset, ClientOnly, StartInv
<1>6. CASE ClientProceeds /\ ~StartReset
  <2>1. UNCHANGED <<mListRegisteredNode, nodeState, mStartResult>>
    BY <1>6 DEF ClientProceeds, JoinThread, JoinReturns, StartThread, ThreadCreated,
                ThreadNotCreated, WaitStarted, StartedWoken, StartedTimeout, StartResult,
                StopThread, ClientAwake, WaitExit, ExitWaitEnds, ClientOnly
  <2>2. cpc' \in Starting => cpc \in Starting
    BY <1>6 DEF ClientProceeds, JoinThread, JoinReturns, StartThread, ThreadCreated,
                ThreadNotCreated, WaitStarted, StartedWoken, StartedTimeout, StartResult,
                StopThread, ClientAwake, WaitExit, ExitWaitEnds, AfterJoin
  <2> QED
    BY <2>1, <2>2, StartInvFrame
<1>7. CASE StartNodes
  <2>1. PICK k \in 0 .. Len(mListRegisteredNode) :
            /\ StartFirst(k)
            /\ mStartResult' = IF k = Len(mListRegisteredNode) THEN "success" ELSE "failed"
    BY <1>7 DEF StartNodes
  <2>2. nodeState' \in [Nodes -> {"running", "stopped"}]
    BY <2>1 DEF StartFirst, StartInv
  <2>3. mListRegisteredNode' = mListRegisteredNode
    BY <1>7 DEF StartNodes, WorkerOnly
  <2>4. k = Len(mListRegisteredNode) => RegisteredRun'
    BY <2>1, <2>3 DEF StartFirst, HasToStart, StartInv, RegisteredRun
  <2> QED
    BY <2>1, <2>2, <2>3, <2>4 DEF StartInv
<1>8. CASE WorkerProceeds /\ ~StartNodes
  <2>1. UNCHANGED <<mListRegisteredNode, nodeState, mStartResult>>
    BY <1>8 DEF WorkerProceeds, LockForStart, SignalStarted, StartFailed, CheckStopped, ScanNodes,
                ProcessNode, EndRound, Decide, AnnounceRound, WorkerWaits, WorkerWaitEnds, Exit,
                SignalExit, WorkerReturns, WorkerOnly
  <2>2. cpc' \in Starting => cpc \in Starting
    BY <1>8 DEF WorkerProceeds, LockForStart, SignalStarted, StartFailed, CheckStopped, ScanNodes,
                ProcessNode, EndRound, Decide, AnnounceRound, WorkerWaits, WorkerWaitEnds, Exit,
                SignalExit, WorkerReturns
  <2> QED
    BY <2>1, <2>2, StartInvFrame
<1>9. CASE ProducerSteps
  BY <1>9, StartInvFrame DEF ProducerSteps, AddData, ProducerAwake, ProducerOnly
<1>10. CASE SpuriousWakeup
  BY <1>10, StartInvFrame DEF SpuriousWakeup
<1>11. CASE UNCHANGED vars
  BY <1>11, StartInvFrame DEF vars
<1> QED
  BY <1>1, <1>2, <1>3, <1>4, <1>5, <1>6, <1>7, <1>8, <1>9, <1>10, <1>11 DEF Next, ClientCalls

LEMMA Invariance == Spec => []IInv
<1>1. IInv /\ [Next]_vars => IInv'
  BY StepLifeInv, StepStartInv DEF IInv
<1> QED
  BY InitIInv, <1>1, PTL DEF Spec

(* However Start and Stop end, by the signal, a time limit, a failed start or a failed
   pthread_create, the worker is joined when the client owns the nodes again. *)
THEOREM NodesAreReleasedSafely == Spec => []NodesAreFreeToRelease
<1>1. IInv => NodesAreFreeToRelease
  BY DEF IInv, LifeInv, NodesAreFreeToRelease
<1> QED
  BY Invariance, <1>1, PTL

(* A Start that succeeds has started every registered node that starts in the worker, for
   any registered list and whichever node fails. *)
THEOREM StartTellsTheTruth == Spec => SuccessMeansNodesRun
<1>1. IInv /\ [Next]_vars =>
        [cpc = "startResult" /\ cpc' = "idle" =>
            \A n \in ToSet(mListRegisteredNode) \cap AsyncNodes : nodeState[n] = "running"]_vars
  <2> SUFFICES ASSUME IInv, Next, cpc = "startResult", cpc' = "idle",
                      NEW n \in ToSet(mListRegisteredNode) \cap AsyncNodes
               PROVE  nodeState[n] = "running"
    BY DEF vars
  <2> USE DEF threadVars, flagVars, clientVars, nodeVars, roundVars, condVars, producerVars
  <2>1. ~ClientCalls
    BY DEF ClientCalls, StartCall, StopCall, RegisterNode, DeRegisterNode, NodeStart, NodeStop
  <2>2. ~WorkerProceeds
    BY DEF WorkerProceeds, LockForStart, StartNodes, SignalStarted, StartFailed, CheckStopped,
           ScanNodes, ProcessNode, EndRound, Decide, AnnounceRound, WorkerWaits, WorkerWaitEnds,
           Exit, SignalExit, WorkerReturns
  <2>3. ~ProducerSteps /\ ~SpuriousWakeup
    BY DEF ProducerSteps, AddData, ProducerAwake, ProducerOnly, SpuriousWakeup
  <2>4. StartResult
    BY <2>1, <2>2, <2>3
       DEF Next, ClientProceeds, JoinThread, JoinReturns, StartReset, StartThread, ThreadCreated,
           ThreadNotCreated, WaitStarted, StartedWoken, StartedTimeout, StopThread, ClientAwake,
           WaitExit, ExitWaitEnds
  <2>5. mStartResult = "success"
    BY <2>4 DEF StartResult
  <2>6. RegisteredRun
    BY <2>5 DEF IInv, StartInv, Starting
  <2>7. PICK i \in 1 .. Len(mListRegisteredNode) : n = mListRegisteredNode[i]
    BY DEF ToSet, IInv, StartInv
  <2> QED
    BY <2>6, <2>7 DEF RegisteredRun
<1> QED
  BY Invariance, <1>1, PTL DEF Spec, SuccessMeansNodesRun
----------------------------------------------------------------------------
(* The lifecycle of the worker, as IImsMediaThread sees it. *)
threadPc == [c \in {0} |-> CASE cpc = "spawn" -> "spawn" [] cpc = "joining" -> "join"
                              [] OTHER -> "idle"]
threads == [w \in 1 .. MaxStarts |->
               IF w > starts THEN "unborn"
               ELSE IF w < starts \/ wpc = "absent" THEN "joined"
               ELSE IF wpc \in {"leaving", "returned"} THEN wpc ELSE "running"]

(* A step that neither creates nor ends the worker, nor touches its flags, is none of it. *)
LEMMA NoThreadStep ==
    ASSUME UNCHANGED <<mThreadStopped, mJoinable, starts>>,
           cpc' = cpc \/ {cpc, cpc'} \cap {"spawn", "joining"} = {},
           wpc' = wpc \/ {wpc, wpc'} \cap {"absent", "leaving", "returned"} = {}
    PROVE  UNCHANGED Thread!vars
<1>1. threadPc' = threadPc
  BY DEF threadPc
<1>2. threads' = threads
  BY DEF threads
<1> QED
  BY <1>1, <1>2 DEF Thread!vars, threadPc, threads

(* Each of the worker's and the client's steps is one of the thread's. *)
LEMMA WorkerIsThreadStep ==
    ASSUME NEW w \in 1 .. MaxStarts,
           Thread!RunReturns(w) \/ Thread!WorkerEnds(w) \/ Thread!WorkerStops(w)
    PROVE  Thread!Next
<1>1. Thread!WorkerStep(w)
  BY DEF Thread!WorkerStep
<1> QED
  BY <1>1 DEF Thread!Next

LEMMA ClientIsThreadStep ==
    ASSUME \/ Thread!StartBegin(0) \/ Thread!StartSpawn(0) \/ Thread!StartFail(0)
           \/ Thread!StopThread(0) \/ Thread!JoinBegin(0) \/ Thread!JoinEnd(0)
    PROVE  Thread!Next
<1>1. Thread!ClientStep(0)
  BY DEF Thread!ClientStep
<1> QED
  BY <1>1 DEF Thread!Next

LEMMA StepIsThreadStep == LifeInv /\ [Next]_vars => [Thread!Next]_(Thread!vars)
<1> SUFFICES ASSUME LifeInv, [Next]_vars PROVE [Thread!Next]_(Thread!vars)
  OBVIOUS
<1> USE DEF threadVars, flagVars, clientVars, nodeVars, roundVars, condVars, producerVars
<1>1. CASE ClientCalls
  BY <1>1, NoThreadStep
     DEF ClientCalls, StartCall, StopCall, RegisterNode, DeRegisterNode, NodeStart, NodeStop,
         ClientOnly
<1>2. CASE \/ JoinThread /\ ~mJoinable
           \/ StartReset \/ WaitStarted \/ StartedWoken \/ StartedTimeout \/ StartResult
           \/ WaitExit \/ ExitWaitEnds
  BY <1>2, NoThreadStep
     DEF JoinThread, AfterJoin, StartReset, WaitStarted, StartedWoken, StartedTimeout, StartResult,
         WaitExit, ExitWaitEnds, ClientOnly
<1>3. CASE ClientAwake
  BY <1>3, NoThreadStep DEF ClientAwake, SignalMain, ClientOnly
<1>4. CASE \/ LockForStart \/ StartNodes \/ SignalStarted \/ CheckStopped \/ ScanNodes
           \/ ProcessNode \/ EndRound \/ Decide \/ AnnounceRound \/ WorkerWaits
           \/ WorkerWaitEnds \/ Exit
  <2>1. UNCHANGED <<mThreadStopped, mJoinable, starts>>
    BY <1>4 DEF LockForStart, StartNodes, SignalStarted, CheckStopped, ScanNodes, ProcessNode,
                EndRound, Decide, AnnounceRound, WorkerWaits, WorkerWaitEnds, Exit, WorkerOnly
  <2>2. cpc' = cpc \/ {cpc, cpc'} \cap {"spawn", "joining"} = {}
    BY <1>4 DEF LockForStart, StartNodes, SignalStarted, CheckStopped, ScanNodes, ProcessNode,
                EndRound, Decide, AnnounceRound, WorkerWaits, WorkerWaitEnds, Exit
  <2>3. {wpc, wpc'} \cap {"absent", "leaving", "returned"} = {}
    BY <1>4 DEF LockForStart, StartNodes, SignalStarted, CheckStopped, ScanNodes, ProcessNode,
                EndRound, Decide, AnnounceRound, WorkerWaits, WorkerWaitEnds, Exit
  <2> QED
    BY <2>1, <2>2, <2>3, NoThreadStep
<1>5. CASE ProducerSteps
  BY <1>5, NoThreadStep DEF ProducerSteps, AddData, ProducerAwake, SignalMain, ProducerOnly
<1>6. CASE SpuriousWakeup \/ UNCHANGED vars
  BY <1>6, NoThreadStep DEF SpuriousWakeup, vars
<1> USE DEF threadPc, threads, LifeInv
<1>7. CASE JoinThread /\ mJoinable
  <2>1. Thread!JoinBegin(0)
    BY <1>7 DEF JoinThread, ClientOnly, Thread!JoinBegin
  <2> QED
    BY <2>1, ClientIsThreadStep
<1>8. CASE JoinReturns
  <2>1. Thread!JoinEnd(0)
    BY <1>8 DEF JoinReturns, AfterJoin, ClientOnly, Thread!JoinEnd
  <2> QED
    BY <2>1, ClientIsThreadStep
<1>9. CASE StartThread
  <2>1. Thread!StartBegin(0)
    BY <1>9 DEF StartThread, ClientOnly, Thread!StartBegin
  <2> QED
    BY <2>1, ClientIsThreadStep
<1>10. CASE ThreadCreated
  <2> DEFINE w == starts + 1
  <2>1. w \in 1 .. MaxStarts /\ starts' = w /\ w # 0
    BY <1>10 DEF ThreadCreated
  <2>2. threads[w] = "unborn" /\ threads' = [threads EXCEPT ![w] = "running"]
    <3>1. ASSUME NEW v \in 1 .. MaxStarts
          PROVE  threads'[v] = IF v = w THEN "running" ELSE threads[v]
      BY <1>10, <2>1 DEF ThreadCreated
    <3>2. threads[w] = "unborn"
      BY <2>1
    <3>3. threads' = [v \in 1 .. MaxStarts |-> threads'[v]]
      OBVIOUS
    <3>4. threads' = [v \in 1 .. MaxStarts |-> IF v = w THEN "running" ELSE threads[v]]
      BY <3>1, <3>3, Zenon
    <3> QED
      BY <3>2, <3>4
  <2>3. threadPc[0] = "spawn" /\ threadPc' = [threadPc EXCEPT ![0] = "idle"]
    BY <1>10 DEF ThreadCreated
  <2>4. Thread!StartSpawn(0)
    BY <1>10, <2>1, <2>2, <2>3 DEF ThreadCreated, ClientOnly, Thread!StartSpawn
  <2> QED
    BY <2>4, ClientIsThreadStep
<1>11. CASE ThreadNotCreated
  <2>1. Thread!StartFail(0)
    BY <1>11 DEF ThreadNotCreated, ClientOnly, Thread!StartFail
  <2> QED
    BY <2>1, ClientIsThreadStep
<1>12. CASE StopThread
  <2>1. Thread!StopThread(0)
    BY <1>12 DEF StopThread, ClientOnly, Thread!StopThread
  <2> QED
    BY <2>1, ClientIsThreadStep
<1>13. CASE StartFailed
  <2>1. Thread!WorkerStops(starts)
    BY <1>13 DEF StartFailed, WorkerOnly, Thread!WorkerStops
  <2>2. starts \in 1 .. MaxStarts
    BY <1>13 DEF StartFailed
  <2>3. Thread!Next
    BY <2>1, <2>2, WorkerIsThreadStep, Zenon
  <2> QED
    BY <2>3
<1>14. CASE SignalExit
  <2>1. PICK w \in 1 .. MaxStarts : w = starts
    BY <1>14 DEF SignalExit
  <2>2. threads[w] = "running" /\ threads' = [threads EXCEPT ![w] = "leaving"]
    <3>1. ASSUME NEW v \in 1 .. MaxStarts
          PROVE  threads'[v] = IF v = w THEN "leaving" ELSE threads[v]
      BY <1>14, <2>1 DEF SignalExit, WorkerOnly
    <3>2. threads[w] = "running"
      BY <1>14, <2>1 DEF SignalExit
    <3>3. threads' = [v \in 1 .. MaxStarts |-> threads'[v]]
      OBVIOUS
    <3>4. threads' = [v \in 1 .. MaxStarts |-> IF v = w THEN "leaving" ELSE threads[v]]
      BY <3>1, <3>3, Zenon
    <3> QED
      BY <3>2, <3>4
  <2>3. UNCHANGED <<starts, threadPc>>
    BY <1>14 DEF SignalExit, WorkerOnly
  <2>4. Thread!RunReturns(w)
    BY <1>14, <2>2, <2>3 DEF SignalExit, WorkerOnly, Thread!RunReturns
  <2> QED
    BY <2>4, WorkerIsThreadStep
<1>15. CASE WorkerReturns
  <2>1. PICK w \in 1 .. MaxStarts : w = starts
    BY <1>15 DEF WorkerReturns
  <2>2. threads[w] = "leaving" /\ threads' = [threads EXCEPT ![w] = "returned"]
    <3>1. ASSUME NEW v \in 1 .. MaxStarts
          PROVE  threads'[v] = IF v = w THEN "returned" ELSE threads[v]
      BY <1>15, <2>1 DEF WorkerReturns, WorkerOnly
    <3>2. threads[w] = "leaving"
      BY <1>15, <2>1 DEF WorkerReturns
    <3>3. threads' = [v \in 1 .. MaxStarts |-> threads'[v]]
      OBVIOUS
    <3>4. threads' = [v \in 1 .. MaxStarts |-> IF v = w THEN "returned" ELSE threads[v]]
      BY <3>1, <3>3, Zenon
    <3> QED
      BY <3>2, <3>4
  <2>3. UNCHANGED <<starts, threadPc>>
    BY <1>15 DEF WorkerReturns, WorkerOnly
  <2>4. Thread!WorkerEnds(w)
    BY <1>15, <2>2, <2>3 DEF WorkerReturns, WorkerOnly, Thread!WorkerEnds
  <2> QED
    BY <2>4, WorkerIsThreadStep
<1> QED
  BY <1>1, <1>2, <1>3, <1>4, <1>5, <1>6, <1>7, <1>8, <1>9, <1>10, <1>11, <1>12, <1>13, <1>14, <1>15
     DEF Next, ClientProceeds, WorkerProceeds

(* The scheduler uses its thread as IImsMediaThread allows, so what is proved of every
   such thread holds for it: no worker is left unjoined when the next is created. *)
THEOREM SchedulerKeepsLifecycle == Spec => IsImsMediaThread
<1>1. Init => Thread!Init
  BY DEF Init, Thread!Init
<1> QED
  BY <1>1, Invariance, StepIsThreadStep, PTL DEF Spec, IInv, IsImsMediaThread, Thread!Spec
=============================================================================
