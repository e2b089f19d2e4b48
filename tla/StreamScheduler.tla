-------------------------- MODULE StreamScheduler --------------------------
(***************************************************************************)
(* core/StreamScheduler.cpp: one worker thread runs the nodes of a stream  *)
(* graph.  The session thread ("client") starts and stops the scheduler    *)
(* and owns the nodes; threads that deliver data to a node ("producers":   *)
(* the DTMF encoder, the socket monitor) queue it and call Awake().        *)
(*                                                                         *)
(* The atomic flags are read and written one at a time, as the code does;  *)
(* a critical section of mMutex or of a condition is one step unless the   *)
(* worker runs nodes inside it.                                            *)
(***************************************************************************)
EXTENDS ConditionRing, Sequences, SequencesExt

CONSTANTS Nodes,
          SourceNodes,   \* IsSourceNode(): polled on every round
          RunTimeNodes,  \* IsRunTime(): never run by the scheduler
          AsyncNodes,    \* not IsRunTimeStart(): ProcessStart runs in the worker
          Producers,
          MaxData,       \* bound on the data queued in a node
          MaxStarts,     \* bound on the workers created
          MaxSpurious    \* bound on the spurious wakeups of pthread_cond_wait

ASSUME NodesAssumption ==
    SourceNodes \subseteq Nodes /\ RunTimeNodes \subseteq Nodes /\ AsyncNodes \subseteq Nodes
ASSUME BoundsAssumption == MaxData \in Nat /\ MaxStarts \in Nat /\ MaxSpurious \in Nat

VARIABLES mThreadStopped, mJoinable, starts, wpc,
          mIsRunning, mStartResult, mMutexHeld, mListRegisteredNode,
          condMain, condStarted, condExit,
          nodeState, dataCount,
          toRun, needToRun,
          cpc,      \* where the client is
          goal,     \* what its call does after JoinThread: go on to "start", or "return"
          up,       \* the client was told the scheduler runs
          ppc,      \* where each producer is
          spurious

threadVars == <<mThreadStopped, mJoinable, starts>>
condVars == <<condMain, condStarted, condExit>>
nodeVars == <<mListRegisteredNode, nodeState, dataCount>>
roundVars == <<toRun, needToRun>>
flagVars == <<mIsRunning, mStartResult, mMutexHeld>>
clientVars == <<cpc, goal, up>>
producerVars == <<ppc>>
vars == <<threadVars, condVars, nodeVars, roundVars, flagVars, clientVars, producerVars,
          wpc, spurious>>

\* The nodes a round of the scheduler can run, and those whose data it drains.
Polled == SourceNodes \ RunTimeNodes
Drained == Nodes \ (SourceNodes \cup RunTimeNodes)

WorkerPcs == {"absent", "begin", "starting", "started", "failed", "check", "scan", "process",
              "decide", "goBusy", "goIdle", "timedWait", "wait", "timedAsleep", "asleep",
              "woken", "exit", "exitSignal", "leaving", "returned"}
ClientPcs == {"idle", "join", "joining", "startReset", "startThread", "spawn", "waitStarted",
              "startedAsleep", "startedWoken", "startResult", "stop", "awake", "awakeSet",
              "awakeSignal", "waitExit", "exitAsleep", "exitWoken"}
ProducerPcs == {"idle", "awake", "awakeSet", "awakeSignal"}

TypeOK ==
    /\ {mThreadStopped, mJoinable, mIsRunning, mMutexHeld, needToRun, up} \subseteq BOOLEAN
    /\ starts \in 0 .. MaxStarts
    /\ mStartResult \in {"success", "notReady", "failed"}
    /\ mListRegisteredNode \in Seq(Nodes) /\ toRun \in Seq(Drained)
    /\ {condMain, condStarted, condExit} \subseteq Ring
    /\ nodeState \in [Nodes -> {"running", "stopped"}]
    /\ dataCount \in [Nodes -> 0 .. MaxData]
    /\ wpc \in WorkerPcs /\ cpc \in ClientPcs /\ goal \in {"start", "return"}
    /\ ppc \in [Producers -> ProducerPcs]
    /\ spurious \in 0 .. MaxSpurious

Init ==
    /\ mThreadStopped = TRUE /\ mJoinable = FALSE /\ starts = 0 /\ wpc = "absent"
    /\ mIsRunning = FALSE /\ mStartResult = "success" /\ mMutexHeld = FALSE
    /\ mListRegisteredNode = <<>>
    /\ condMain = Reset /\ condStarted = Reset /\ condExit = Reset
    /\ nodeState = [n \in Nodes |-> "stopped"] /\ dataCount = [n \in Nodes |-> 0]
    /\ toRun = <<>> /\ needToRun = FALSE
    /\ cpc = "idle" /\ goal = "return" /\ up = FALSE
    /\ ppc = [p \in Producers |-> "idle"]
    /\ spurious = 0

----------------------------------------------------------------------------
(* Awake(), by the client or a producer: mConditionMain wakes the worker. *)

SignalMain ==
    /\ condMain' = Signal(condMain)
    /\ wpc' = IF wpc \in {"asleep", "timedAsleep"} THEN "woken" ELSE wpc

----------------------------------------------------------------------------
(* The client owns the nodes while the scheduler is not up. *)

RegisterNode(n) ==
    /\ cpc = "idle" /\ ~mMutexHeld /\ ~Contains(mListRegisteredNode, n)
    /\ mListRegisteredNode' = Append(mListRegisteredNode, n)
    /\ UNCHANGED <<threadVars, condVars, nodeState, dataCount, roundVars, flagVars, clientVars,
                   producerVars, wpc, spurious>>

\* BaseStreamGraph::RemoveNode deletes the node right after.
DeRegisterNode(n) ==
    /\ cpc = "idle" /\ ~mMutexHeld
    /\ \E i \in 1 .. Len(mListRegisteredNode) :
          /\ mListRegisteredNode[i] = n
          /\ mListRegisteredNode' = RemoveAt(mListRegisteredNode, i)
    /\ UNCHANGED <<threadVars, condVars, nodeState, dataCount, roundVars, flagVars, clientVars,
                   producerVars, wpc, spurious>>

\* Node::Start of a node that starts at once, as BaseStreamGraph::startNodes calls it.
NodeStart(n) ==
    /\ cpc = "idle" /\ ~up /\ n \notin AsyncNodes /\ nodeState[n] = "stopped"
    /\ nodeState' = [nodeState EXCEPT ![n] = "running"]
    /\ UNCHANGED <<threadVars, condVars, mListRegisteredNode, dataCount, roundVars, flagVars,
                   clientVars, producerVars, wpc, spurious>>

\* Node::Stop; DtmfSenderNode and TextSourceNode clear their queue, TextRendererNode does not.
NodeStop(n) ==
    /\ cpc = "idle" /\ ~up /\ nodeState[n] = "running"
    /\ nodeState' = [nodeState EXCEPT ![n] = "stopped"]
    /\ \E k \in {0, dataCount[n]} : dataCount' = [dataCount EXCEPT ![n] = k]
    /\ UNCHANGED <<threadVars, condVars, mListRegisteredNode, roundVars, flagVars, clientVars,
                   producerVars, wpc, spurious>>

----------------------------------------------------------------------------
(* Start() and Stop(), step by step.  A client step outside the ones below leaves
   everything but the variables it names alone. *)

ClientOnly == UNCHANGED <<nodeVars, roundVars, producerVars, spurious>>

\* Start() of a scheduler that is not stopped returns RESULT_NOT_READY at once.
StartCall ==
    /\ cpc = "idle" /\ mThreadStopped /\ starts < MaxStarts
    /\ cpc' = "join" /\ goal' = "start" /\ up' = FALSE
    /\ ClientOnly /\ UNCHANGED <<threadVars, condVars, flagVars, wpc>>

StopCall ==
    /\ cpc = "idle"
    /\ cpc' = IF mThreadStopped THEN "join" ELSE "stop"
    /\ goal' = "return" /\ up' = FALSE
    /\ ClientOnly /\ UNCHANGED <<threadVars, condVars, flagVars, wpc>>

\* JoinThread, at every place Start and Stop call it.
AfterJoin == IF goal = "start" THEN "startReset" ELSE "idle"

JoinThreadTrustingExit ==
    /\ cpc = "join"
    /\ cpc' = AfterJoin
    /\ ClientOnly /\ UNCHANGED <<threadVars, condVars, flagVars, goal, up, wpc>>
JoinThread ==
    /\ cpc = "join"
    /\ cpc' = IF mJoinable THEN "joining" ELSE AfterJoin
    /\ ClientOnly /\ UNCHANGED <<threadVars, condVars, flagVars, goal, up, wpc>>

JoinReturns ==
    /\ cpc = "joining" /\ wpc = "returned"
    /\ wpc' = "absent" /\ mJoinable' = FALSE
    /\ cpc' = AfterJoin
    /\ ClientOnly /\ UNCHANGED <<mThreadStopped, starts, condVars, flagVars, goal, up>>

\* Without a registered node there is nothing to run and Start succeeds.
StartReset ==
    /\ cpc = "startReset"
    /\ IF mListRegisteredNode = <<>>
       THEN /\ mIsRunning' = FALSE /\ cpc' = "idle" /\ goal' = "return"
            /\ UNCHANGED <<condStarted, condExit, mStartResult>>
       ELSE /\ condStarted' = Reset /\ condExit' = Reset
            /\ mStartResult' = "notReady" /\ mIsRunning' = TRUE
            /\ cpc' = "startThread" /\ goal' = "return"
    /\ ClientOnly /\ UNCHANGED <<threadVars, condMain, mMutexHeld, up, wpc>>

StartThread ==
    /\ cpc = "startThread"
    /\ mThreadStopped' = FALSE
    /\ cpc' = "spawn"
    /\ ClientOnly /\ UNCHANGED <<mJoinable, starts, condVars, flagVars, goal, up, wpc>>

ThreadCreated ==
    /\ cpc = "spawn"
    /\ wpc' = "begin" /\ mJoinable' = TRUE /\ starts' = starts + 1
    /\ cpc' = "waitStarted"
    /\ ClientOnly /\ UNCHANGED <<mThreadStopped, condVars, flagVars, goal, up>>

ThreadNotCreated ==
    /\ cpc = "spawn"
    /\ mThreadStopped' = TRUE /\ mIsRunning' = FALSE
    /\ cpc' = "idle"
    /\ ClientOnly
    /\ UNCHANGED <<mJoinable, starts, condVars, mStartResult, mMutexHeld, goal, up, wpc>>

\* mConditionStarted.wait_timeout(START_WAIT_TIMEOUT_MS).
WaitStarted ==
    /\ cpc = "waitStarted"
    /\ IF SignalPending(condStarted)
       THEN condStarted' = Consume(condStarted) /\ cpc' = "startResult"
       ELSE condStarted' = FallAsleep(condStarted) /\ cpc' = "startedAsleep"
    /\ ClientOnly /\ UNCHANGED <<threadVars, condMain, condExit, flagVars, goal, up, wpc>>

\* Left by the signal, or by it and the clock: wait_timeout answers from the clock alone.
StartedWoken ==
    /\ cpc = "startedWoken"
    /\ condStarted' = Leave(condStarted)
    /\ cpc' \in {"startResult", "stop"}
    /\ ClientOnly /\ UNCHANGED <<threadVars, condMain, condExit, flagVars, goal, up, wpc>>

StartedTimeout ==
    /\ cpc = "startedAsleep"
    /\ condStarted' = Leave(condStarted)
    /\ cpc' = "stop"
    /\ ClientOnly /\ UNCHANGED <<threadVars, condMain, condExit, flagVars, goal, up, wpc>>

StartResult ==
    /\ cpc = "startResult"
    /\ up' = (mStartResult = "success")
    /\ cpc' = IF up' THEN "idle" ELSE "waitExit"
    /\ ClientOnly /\ UNCHANGED <<threadVars, condVars, flagVars, goal, wpc>>

\* StopThread, then Awake, in Stop and on the timeout path of Start.
StopThread ==
    /\ cpc = "stop"
    /\ mThreadStopped' = TRUE
    /\ cpc' = "awake"
    /\ ClientOnly /\ UNCHANGED <<mJoinable, starts, condVars, flagVars, goal, up, wpc>>

ClientAwake ==
    /\ \/ /\ cpc = "awake"
          /\ cpc' = IF mIsRunning THEN "waitExit" ELSE "awakeSet"
          /\ UNCHANGED <<condMain, mIsRunning, wpc>>
       \/ /\ cpc = "awakeSet"
          /\ mIsRunning' = TRUE
          /\ cpc' = "awakeSignal"
          /\ UNCHANGED <<condMain, wpc>>
       \/ /\ cpc = "awakeSignal"
          /\ SignalMain
          /\ cpc' = "waitExit"
          /\ UNCHANGED mIsRunning
    /\ ClientOnly
    /\ UNCHANGED <<threadVars, condStarted, condExit, mStartResult, mMutexHeld, goal, up>>

\* mConditionExit.wait_timeout(STOP_WAIT_TIMEOUT_MS), whose answer nobody looks at.
WaitExit ==
    /\ cpc = "waitExit"
    /\ IF SignalPending(condExit)
       THEN condExit' = Consume(condExit) /\ cpc' = "join"
       ELSE condExit' = FallAsleep(condExit) /\ cpc' = "exitAsleep"
    /\ ClientOnly /\ UNCHANGED <<threadVars, condMain, condStarted, flagVars, goal, up, wpc>>

ExitWaitEnds ==
    /\ cpc \in {"exitAsleep", "exitWoken"}    \* its time limit, or the signal
    /\ condExit' = Leave(condExit)
    /\ cpc' = "join"
    /\ ClientOnly /\ UNCHANGED <<threadVars, condMain, condStarted, flagVars, goal, up, wpc>>

ClientProceeds ==
    \/ JoinThread \/ JoinReturns \/ StartReset \/ StartThread \/ ThreadCreated
    \/ ThreadNotCreated \/ WaitStarted \/ StartedWoken \/ StartedTimeout \/ StartResult
    \/ StopThread \/ ClientAwake \/ WaitExit \/ ExitWaitEnds

----------------------------------------------------------------------------
(* run(). *)

WorkerOnly == UNCHANGED <<mJoinable, starts, mListRegisteredNode, goal, up, producerVars, spurious>>

\* The worker takes mMutex to start the nodes, or for one round.
LockForStart ==
    /\ wpc = "begin" /\ ~mMutexHeld
    /\ mMutexHeld' = TRUE /\ wpc' = "starting"
    /\ WorkerOnly
    /\ UNCHANGED <<mThreadStopped, condVars, nodeState, dataCount, roundVars, mIsRunning,
                   mStartResult, cpc>>

\* The loop passes over the nodes that start at once and those that run.
HasToStart(n) == n \in AsyncNodes /\ nodeState[n] = "stopped"

\* ProcessStart of the first k registered nodes that have to start; the one after them fails.
StartFirst(k) ==
    /\ k < Len(mListRegisteredNode) => HasToStart(mListRegisteredNode[k + 1])
    /\ nodeState' = [n \in Nodes |-> IF \E i \in 1 .. k : mListRegisteredNode[i] = n /\ HasToStart(n)
                                     THEN "running" ELSE nodeState[n]]

StartNodesIgnoringFailure ==
    /\ wpc = "starting"
    /\ \E k \in 0 .. Len(mListRegisteredNode) : StartFirst(k)
    /\ mStartResult' = "success"
    /\ mMutexHeld' = FALSE /\ wpc' = "started"
    /\ WorkerOnly
    /\ UNCHANGED <<mThreadStopped, condVars, dataCount, roundVars, mIsRunning, cpc>>
StartNodes ==
    /\ wpc = "starting"
    /\ \E k \in 0 .. Len(mListRegisteredNode) :
          /\ StartFirst(k)
          /\ mStartResult' = IF k = Len(mListRegisteredNode) THEN "success" ELSE "failed"
    /\ mMutexHeld' = FALSE /\ wpc' = "started"
    /\ WorkerOnly
    /\ UNCHANGED <<mThreadStopped, condVars, dataCount, roundVars, mIsRunning, cpc>>

SignalStarted ==
    /\ wpc = "started"
    /\ condStarted' = Signal(condStarted)
    /\ cpc' = IF cpc = "startedAsleep" THEN "startedWoken" ELSE cpc
    /\ wpc' = IF mStartResult = "success" THEN "check" ELSE "failed"
    /\ WorkerOnly
    /\ UNCHANGED <<mThreadStopped, condMain, condExit, nodeState, dataCount, roundVars, flagVars>>

StartFailed ==
    /\ wpc = "failed"
    /\ mThreadStopped' = TRUE /\ wpc' = "check"
    /\ WorkerOnly
    /\ UNCHANGED <<condVars, nodeState, dataCount, roundVars, flagVars, cpc>>

CheckStopped ==
    /\ wpc = "check"
    /\ \/ /\ mThreadStopped
          /\ wpc' = "exit" /\ UNCHANGED mMutexHeld
       \/ /\ ~mThreadStopped /\ ~mMutexHeld
          /\ wpc' = "scan" /\ mMutexHeld' = TRUE
    /\ WorkerOnly
    /\ UNCHANGED <<mThreadStopped, condVars, nodeState, dataCount, roundVars, mIsRunning,
                   mStartResult, cpc>>

\* RunRegisteredNode, first loop: sources run, nodes with data are noted.
ScanNodes ==
    /\ wpc = "scan"
    /\ toRun' = SelectSeq(mListRegisteredNode,
                          LAMBDA n : /\ n \in Drained /\ nodeState[n] = "running"
                                     /\ dataCount[n] > 0)
    /\ needToRun' = \E n \in ToSet(mListRegisteredNode) \cap Polled : nodeState[n] = "running"
    /\ wpc' = "process"
    /\ WorkerOnly
    /\ UNCHANGED <<mThreadStopped, condVars, nodeState, dataCount, flagVars, cpc>>

\* Second loop: ProcessData takes none, some or all of the data, as its node decides.
ProcessNode ==
    /\ wpc = "process" /\ toRun # <<>> /\ ~mThreadStopped
    /\ \E left \in 0 .. dataCount[Head(toRun)] :
          /\ dataCount' = [dataCount EXCEPT ![Head(toRun)] = left]
          /\ needToRun' = (needToRun \/ left > 0)
    /\ toRun' = Tail(toRun)
    /\ WorkerOnly
    /\ UNCHANGED <<mThreadStopped, condVars, nodeState, flagVars, cpc, wpc>>

EndRound ==
    /\ wpc = "process" /\ (toRun = <<>> \/ mThreadStopped)
    /\ toRun' = <<>>
    /\ mMutexHeld' = FALSE /\ wpc' = "decide"
    /\ WorkerOnly
    /\ UNCHANGED <<mThreadStopped, condVars, nodeState, dataCount, needToRun, mIsRunning,
                   mStartResult, cpc>>

Decide ==
    /\ wpc = "decide"
    /\ wpc' = IF mThreadStopped THEN "exit" ELSE IF needToRun THEN "goBusy" ELSE "goIdle"
    /\ WorkerOnly
    /\ UNCHANGED <<mThreadStopped, condVars, nodeState, dataCount, roundVars, flagVars, cpc>>

\* mIsRunning is what Awake looks at before it signals.
AnnounceRoundUntimed ==
    /\ wpc \in {"goBusy", "goIdle"}
    /\ mIsRunning' = (wpc = "goBusy")
    /\ wpc' = "wait"
    /\ WorkerOnly
    /\ UNCHANGED <<mThreadStopped, condVars, nodeState, dataCount, roundVars, mStartResult,
                   mMutexHeld, cpc>>
AnnounceRound ==
    /\ wpc \in {"goBusy", "goIdle"}
    /\ mIsRunning' = (wpc = "goBusy")
    /\ wpc' = IF wpc = "goBusy" THEN "timedWait" ELSE "wait"
    /\ WorkerOnly
    /\ UNCHANGED <<mThreadStopped, condVars, nodeState, dataCount, roundVars, mStartResult,
                   mMutexHeld, cpc>>

\* mConditionMain.wait_timeout(RUN_WAIT_TIMEOUT_MS) and mConditionMain.wait().
WorkerWaits ==
    /\ wpc \in {"timedWait", "wait"}
    /\ IF SignalPending(condMain)
       THEN condMain' = Consume(condMain) /\ wpc' = "check"
       ELSE /\ condMain' = FallAsleep(condMain)
            /\ wpc' = IF wpc = "wait" THEN "asleep" ELSE "timedAsleep"
    /\ WorkerOnly
    /\ UNCHANGED <<mThreadStopped, condStarted, condExit, nodeState, dataCount, roundVars,
                   flagVars, cpc>>

\* A timed sleep may end at its limit at any time; the other needs to be woken.
WorkerWaitEnds ==
    /\ wpc \in {"timedAsleep", "woken"}
    /\ condMain' = Leave(condMain) /\ wpc' = "check"
    /\ WorkerOnly
    /\ UNCHANGED <<mThreadStopped, condStarted, condExit, nodeState, dataCount, roundVars,
                   flagVars, cpc>>

Exit ==
    /\ wpc = "exit"
    /\ mIsRunning' = FALSE /\ wpc' = "exitSignal"
    /\ WorkerOnly
    /\ UNCHANGED <<mThreadStopped, condVars, nodeState, dataCount, roundVars, mStartResult,
                   mMutexHeld, cpc>>

SignalExit ==
    /\ wpc = "exitSignal"
    /\ condExit' = Signal(condExit)
    /\ cpc' = IF cpc = "exitAsleep" THEN "exitWoken" ELSE cpc
    /\ wpc' = "leaving"
    /\ WorkerOnly
    /\ UNCHANGED <<mThreadStopped, condMain, condStarted, nodeState, dataCount, roundVars,
                   flagVars>>

\* runThread's own StopThread; the thread is gone after it.
WorkerReturns ==
    /\ wpc = "leaving"
    /\ mThreadStopped' = TRUE /\ wpc' = "returned"
    /\ WorkerOnly
    /\ UNCHANGED <<condVars, nodeState, dataCount, roundVars, flagVars, cpc>>

WorkerProceeds ==
    \/ LockForStart \/ StartNodes \/ SignalStarted \/ StartFailed \/ CheckStopped \/ ScanNodes
    \/ ProcessNode \/ EndRound \/ Decide \/ AnnounceRound \/ WorkerWaits \/ WorkerWaitEnds
    \/ Exit \/ SignalExit \/ WorkerReturns

----------------------------------------------------------------------------
(* A producer: SendDataToRearNode queues data in a running node, then wakes the worker. *)

ProducerOnly == UNCHANGED <<threadVars, mListRegisteredNode, nodeState, roundVars, clientVars,
                            condStarted, condExit, mStartResult, mMutexHeld, spurious>>

AddData(p) ==
    /\ ppc[p] = "idle"
    /\ \E n \in Drained :
          /\ nodeState[n] = "running" /\ dataCount[n] < MaxData
          /\ dataCount' = [dataCount EXCEPT ![n] = @ + 1]
    /\ ppc' = [ppc EXCEPT ![p] = "awake"]
    /\ ProducerOnly /\ UNCHANGED <<condMain, mIsRunning, wpc>>

ProducerAwake(p) ==
    /\ \/ /\ ppc[p] = "awake"
          /\ ppc' = [ppc EXCEPT ![p] = IF mIsRunning THEN "idle" ELSE "awakeSet"]
          /\ UNCHANGED <<condMain, mIsRunning, wpc>>
       \/ /\ ppc[p] = "awakeSet"
          /\ mIsRunning' = TRUE
          /\ ppc' = [ppc EXCEPT ![p] = "awakeSignal"]
          /\ UNCHANGED <<condMain, wpc>>
       \/ /\ ppc[p] = "awakeSignal"
          /\ SignalMain
          /\ ppc' = [ppc EXCEPT ![p] = "idle"]
          /\ UNCHANGED mIsRunning
    /\ ProducerOnly /\ UNCHANGED dataCount

----------------------------------------------------------------------------
(* POSIX lets pthread_cond_wait return for no reason. *)

SpuriousWakeup ==
    /\ spurious < MaxSpurious
    /\ \/ /\ wpc \in {"asleep", "timedAsleep"} /\ wpc' = "woken"
          /\ UNCHANGED cpc
       \/ /\ cpc = "startedAsleep" /\ cpc' = "startedWoken"
          /\ UNCHANGED wpc
    /\ spurious' = spurious + 1
    /\ UNCHANGED <<threadVars, condVars, nodeVars, roundVars, flagVars, goal, up, producerVars>>

ClientCalls ==
    \/ StartCall \/ StopCall
    \/ \E n \in Nodes : RegisterNode(n) \/ DeRegisterNode(n) \/ NodeStart(n) \/ NodeStop(n)

ProducerSteps == \E p \in Producers : AddData(p) \/ ProducerAwake(p)

Next == ClientCalls \/ ClientProceeds \/ WorkerProceeds \/ ProducerSteps \/ SpuriousWakeup

Spec == Init /\ [][Next]_vars

\* Every thread that is inside a call or runs the worker is scheduled, and time limits pass.
Fairness ==
    /\ WF_vars(ClientProceeds) /\ WF_vars(WorkerProceeds)
    /\ \A p \in Producers : WF_vars(ProducerAwake(p))

FairSpec == Spec /\ Fairness

\* The stream graphs register and delete their nodes only while the scheduler is stopped,
\* and start those that start themselves before it (BaseStreamGraph::startNodes).
AsGraph ==
    /\ up => UNCHANGED mListRegisteredNode
    /\ (cpc = "idle" /\ goal' = "start") =>
          /\ ToSet(mListRegisteredNode) = Nodes
          /\ \A n \in Nodes \ AsyncNodes : nodeState[n] = "running"

GraphCalls == ClientCalls /\ AsGraph

GraphNext == GraphCalls \/ ClientProceeds \/ WorkerProceeds \/ ProducerSteps \/ SpuriousWakeup

GraphSpec == Init /\ [][GraphNext]_vars /\ Fairness
----------------------------------------------------------------------------
(* The client may stop and delete nodes whenever it is outside Start and Stop and was not
   told that the scheduler runs: by then no worker is left, whichever way the call ended
   (README.md:70, "joined before resources are released"; StreamScheduler.cpp:131). *)
NodesAreFreeToRelease == cpc = "idle" /\ ~up => wpc = "absent"

(* Start reports success only after every asynchronous node it was asked to start runs. *)
SuccessMeansNodesRun ==
    [][cpc = "startResult" /\ cpc' = "idle" =>
          \A n \in ToSet(mListRegisteredNode) \cap AsyncNodes : nodeState[n] = "running"]_vars

(* Stop() returns, also when it races the worker: the owner goes on to release the nodes
   (StreamSchedulerTest.cpp:131 to 132, and every BaseStreamGraph::stopNodes). *)
StopReturns == (cpc = "stop") ~> (cpc = "idle")

(* Stop() returns if the worker has not begun a sleep without a limit when the stop flag is
   set: from anywhere else it looks at the flag again, also out of a timed sleep whose
   signal Awake does not send.  In a graph with a polled source that is always so. *)
StopOfAwakeWorkerReturns ==
    (cpc = "awake" /\ wpc \notin {"goIdle", "wait", "asleep"}) ~> (cpc = "idle")

(* The scheduler keeps the worker lifecycle of IImsMediaThread: thread number n is the
   n-th worker it creates. *)
Thread == INSTANCE IImsMediaThread WITH
    Clients <- {0}, Workers <- 1 .. MaxStarts, SelfCallers <- {}, NoThread <- MaxStarts + 1,
    mThread <- IF starts = 0 THEN MaxStarts + 1 ELSE starts,
    mLifecycleMutex <- IF cpc \in {"spawn", "joining"} THEN 0 ELSE MaxStarts + 1,
    pc <- [c \in {0} |-> CASE cpc = "spawn" -> "spawn" [] cpc = "joining" -> "join"
                            [] OTHER -> "idle"],
    worker <- [w \in 1 .. MaxStarts |->
                  IF w > starts THEN "unborn"
                  ELSE IF w < starts \/ wpc = "absent" THEN "joined"
                  ELSE IF wpc \in {"leaving", "returned"} THEN wpc ELSE "running"],
    calling <- {}, alive <- TRUE
IsImsMediaThread == Thread!Spec
============================================================================
