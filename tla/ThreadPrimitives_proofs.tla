------------------------ MODULE ThreadPrimitives_proofs ------------------------
(***************************************************************************)
(* The two classes every thread of the library is built on.                *)
(*                                                                         *)
(* ImsMediaCondition, for any number of bits, any burst up to it and any   *)
(* number of signals: until a wait is left at its time limit the class     *)
(* loses no signal and invents none, and it implements CountingSignal.     *)
(*                                                                         *)
(* IImsMediaThread, for any number of clients, workers and reuses: one     *)
(* worker at a time, joined before the next, and none left when the object *)
(* is gone.                                                                *)
(***************************************************************************)
EXTENDS ImsMediaCondition, IImsMediaThread, ConditionRing_proofs

(* ImsMediaCondition *)
(* What the ring counts is the signals sent and not yet taken. *)
InStep == Counts(cond, sent - taken, waiter)

(* A wait left at its limit moves its cursor past the signals: all of that ends there. *)
IInv == ConditionTypeOK /\ (timeouts = 0 => InStep)

USE SlotsAssumption, BurstAssumption, BoundsAssumption

LEMMA InitIInv == ConditionInit => IInv
  BY ResetCounts DEF ConditionInit, IInv, InStep, ConditionTypeOK

LEMMA StepTypeOK == ConditionTypeOK /\ [ConditionNext]_conditionVars => ConditionTypeOK'
<1> SUFFICES ASSUME ConditionTypeOK, [ConditionNext]_conditionVars PROVE ConditionTypeOK'
  OBVIOUS
<1>0. {Consume(cond), FallAsleep(cond), Leave(cond), Signal(cond)} \subseteq Ring
  BY RingIsClosed DEF ConditionTypeOK
<1>1. CASE WaitPass
  BY <1>0, <1>1 DEF WaitPass, ConditionTypeOK
<1>2. CASE WaitSleep
  BY <1>0, <1>2 DEF WaitSleep, ConditionTypeOK
<1>3. CASE WaitReturn
  BY <1>0, <1>3 DEF WaitReturn, ConditionTypeOK
<1>4. CASE SignalStep
  BY <1>0, <1>4 DEF SignalStep, ConditionTypeOK
<1>5. CASE Timeout
  BY <1>0, <1>5 DEF Timeout, ConditionTypeOK
<1>6. CASE UNCHANGED conditionVars
  BY <1>6 DEF conditionVars, ConditionTypeOK
<1> QED
  BY <1>1, <1>2, <1>3, <1>4, <1>5, <1>6 DEF ConditionNext

LEMMA StepInStep == ConditionTypeOK /\ InStep /\ [ConditionNext]_conditionVars /\ ~Timeout => InStep'
<1> SUFFICES ASSUME ConditionTypeOK, InStep, [ConditionNext]_conditionVars, ~Timeout PROVE InStep'
  OBVIOUS
<1> DEFINE n == sent - taken
<1>0. cond \in Ring /\ n \in 0 .. Slots /\ Counts(cond, n, waiter)
  BY DEF ConditionTypeOK, InStep, Counts
<1>1. CASE WaitPass
  <2>1. n > 0 /\ waiter = "running"
    BY <1>0, <1>1, PendingCounts DEF WaitPass
  <2>2. Counts(Consume(cond), n - 1, "running")
    BY <1>0, <2>1, ConsumeCounts
  <2>3. cond' = Consume(cond) /\ sent' - taken' = n - 1 /\ waiter' = "running"
    BY <1>1, <2>1 DEF WaitPass, ConditionTypeOK
  <2> QED
    BY <2>2, <2>3 DEF InStep
<1>2. CASE WaitSleep
  <2>1. n = 0 /\ waiter = "running"
    BY <1>0, <1>2, PendingCounts DEF WaitSleep
  <2>2. Counts(FallAsleep(cond), 0, "asleep")
    BY <1>0, <2>1, SleepCounts
  <2> QED
    BY <1>2, <2>1, <2>2 DEF WaitSleep, InStep
<1>3. CASE WaitReturn
  <2>1. Counts(Leave(cond), n - 1, "running")
    BY <1>0, <1>3, LeaveCounts DEF WaitReturn
  <2>2. cond' = Leave(cond) /\ sent' - taken' = n - 1 /\ waiter' = "running"
    BY <1>3 DEF WaitReturn, ConditionTypeOK
  <2> QED
    BY <2>1, <2>2 DEF InStep
<1>4. CASE SignalStep
  <2>1. n < Slots /\ sent' - taken' = n + 1
    BY <1>0, <1>4 DEF SignalStep, ConditionTypeOK
  <2>2. Counts(Signal(cond), n + 1, IF waiter = "asleep" THEN "woken" ELSE waiter)
    BY <1>0, <2>1, SignalCounts
  <2> QED
    BY <1>4, <2>1, <2>2 DEF SignalStep, InStep
<1>5. CASE UNCHANGED conditionVars
  BY <1>5 DEF conditionVars, InStep
<1> QED
  BY <1>1, <1>2, <1>3, <1>4, <1>5 DEF ConditionNext

LEMMA StepIInv == IInv /\ [ConditionNext]_conditionVars => IInv'
<1>1. ConditionTypeOK /\ Timeout => timeouts' # 0
  BY DEF ConditionTypeOK, Timeout
<1>2. ConditionTypeOK /\ [ConditionNext]_conditionVars /\ timeouts' = 0 => timeouts = 0
  BY DEF ConditionTypeOK, ConditionNext, conditionVars, WaitPass, WaitSleep, WaitReturn, SignalStep, Timeout
<1> QED
  BY <1>1, <1>2, StepTypeOK, StepInStep DEF IInv

LEMMA Invariance == ConditionSpec => []IInv
  BY InitIInv, StepIInv, PTL DEF ConditionSpec

(* The record and the counters keep their types, whatever the burst. *)
THEOREM ConditionTypeCorrect == ConditionSpec => []ConditionTypeOK
  BY Invariance, PTL DEF IInv

(* No wait of ImsMediaCondition sleeps through a signal before the first wait is left at
   its time limit, when at most Slots signals are outstanding. *)
THEOREM NoSignalIsLost == ConditionSpec => [](timeouts = 0 => LossBoundedByTimeouts)
<1>1. IInv => (timeouts = 0 => LossBoundedByTimeouts)
  BY DEF IInv, InStep, Counts, ConditionTypeOK, LossBoundedByTimeouts
<1> QED
  BY Invariance, <1>1, PTL

(* No wait returns that no signal answers, as long as no wait was left at its limit. *)
THEOREM NoReturnIsPhantom == ConditionSpec => [](timeouts = 0 => NoPhantomReturn)
<1>1. IInv => (timeouts = 0 => NoPhantomReturn)
  BY DEF IInv, InStep, Counts, ConditionTypeOK, NoPhantomReturn
<1> QED
  BY Invariance, <1>1, PTL

(* With every signal answered the bitmaps are empty and the cursors agree, so the next
   round starts as the first one did, after any number of rounds. *)
CleanWhenSettled ==
    (sent = taken /\ waiter = "running") =>
        /\ cond.waitFlag = {} /\ cond.signalFlag = {}
        /\ cond.waitCount = cond.signalCount

(* After any number of untimed rounds the settled bitmaps are the ones reset() leaves. *)
THEOREM SettledIsClean == ConditionSpec => [](timeouts = 0 => CleanWhenSettled)
<1>1. IInv => (timeouts = 0 => CleanWhenSettled)
  <2> SUFFICES ASSUME IInv, timeouts = 0, sent = taken, waiter = "running"
               PROVE  /\ cond.waitFlag = {} /\ cond.signalFlag = {}
                      /\ cond.waitCount = cond.signalCount
    BY DEF CleanWhenSettled
  <2>1. cond \in Ring /\ Counts(cond, 0, waiter)
    BY DEF IInv, InStep, ConditionTypeOK
  <2> QED
    BY <2>1, NothingCounts
<1> QED
  BY Invariance, <1>1, PTL

(* Until a wait is left at its limit every step of the class is one of the counting
   signal, for any number of bits and any burst that fits them. *)
THEOREM IsCountingSignal == ConditionSpec => ImplementsCountingSignal
<1>1. ConditionInit => Abstract!Init
  BY DEF ConditionInit, Abstract!Init
<1>2. IInv /\ [ConditionNext]_conditionVars =>
          [timeouts' = 0 => [Abstract!Next]_(Abstract!vars)]_conditionVars
  <2> SUFFICES ASSUME IInv, ConditionNext, timeouts' = 0
               PROVE  [Abstract!Next]_(Abstract!vars)
    BY DEF conditionVars
  <2> USE DEF Abstract!Next, Abstract!vars
  <2>0. InStep /\ ConditionTypeOK /\ ~Timeout
    BY DEF IInv, ConditionTypeOK, ConditionNext, WaitPass, WaitSleep, WaitReturn, SignalStep, Timeout
  <2>5. cond \in Ring /\ Counts(cond, sent - taken, waiter)
    BY <2>0 DEF InStep, ConditionTypeOK
  <2>1. CASE WaitPass
    <3>1. sent - taken > 0
      BY <2>5, <2>1, PendingCounts DEF WaitPass
    <3> QED
      BY <2>0, <2>1, <3>1 DEF WaitPass, ConditionTypeOK, Abstract!Pass
  <2>2. CASE WaitSleep
    <3>1. ~(sent - taken > 0) /\ sent - taken \in 0 .. Slots
      BY <2>5, <2>2, PendingCounts DEF WaitSleep, Counts
    <3> QED
      BY <2>0, <2>2, <3>1 DEF WaitSleep, ConditionTypeOK, Abstract!Enter
  <2>3. CASE WaitReturn
    BY <2>0, <2>3, <2>5 DEF WaitReturn, Counts, ConditionTypeOK, Abstract!Return
  <2>4. CASE SignalStep
    BY <2>0, <2>4 DEF SignalStep, ConditionTypeOK, Abstract!Post
  <2> QED
    BY <2>0, <2>1, <2>2, <2>3, <2>4 DEF ConditionNext
<1> QED
  BY <1>1, <1>2, Invariance, PTL DEF ConditionSpec, ImplementsCountingSignal

-----------------------------------------------------------------------------
(* IImsMediaThread *)

(* Whoever is between taking mLifecycleMutex and giving it back. *)
Holding == {"reap", "spawn", "join", "destroyJoin"}

(* mLifecycleMutex is what makes mJoinable describe the worker: it is held from
   the moment the flag is read until the worker is joined or created. *)
Joined ==
    /\ TypeOK
    /\ \A c \in Clients : pc[c] \in Holding <=> mLifecycleMutex = c
    /\ \A c \in Clients : pc[c] \in {"reap", "join"} => mJoinable
    /\ \A c \in Clients : pc[c] = "spawn" => ~mJoinable
    /\ mJoinable => worker[mThread] \in {"running", "leaving", "returned"}
    /\ JoinedBeforeReuse
    /\ ~alive => \/ \E c \in Clients : pc[c] \in {"destroy", "destroyJoin"}
                 \/ ~mJoinable
    /\ ~alive => \A c \in Clients : pc[c] \in {"idle", "destroy", "destroyJoin"}

USE ThreadsAssumption

LEMMA InitJoined == Init => Joined
  BY DEF Init, Joined, TypeOK, ClientPcs, WorkerStates, Holding,
         JoinedBeforeReuse, ThreadsAssumption

LEMMA StepJoined == Joined /\ [Next]_vars => Joined'
<1> SUFFICES ASSUME Joined, [Next]_vars PROVE Joined'
  OBVIOUS
<1> USE DEF Joined, TypeOK, ClientPcs, WorkerStates, Holding,
            JoinedBeforeReuse, ThreadsAssumption
<1>1. ASSUME NEW c \in Clients, StartBegin(c) PROVE Joined'
  BY <1>1 DEF StartBegin
<1>2. ASSUME NEW c \in Clients, StartReap(c) PROVE Joined'
  BY <1>2 DEF StartReap
<1>3. ASSUME NEW c \in Clients, StartSpawn(c) PROVE Joined'
  BY <1>3 DEF StartSpawn
<1>4. ASSUME NEW c \in Clients, StartFail(c) PROVE Joined'
  BY <1>4 DEF StartFail
<1>5. ASSUME NEW c \in Clients, StopThread(c) PROVE Joined'
  BY <1>5 DEF StopThread
<1>6. ASSUME NEW c \in Clients, JoinBegin(c) PROVE Joined'
  BY <1>6 DEF JoinBegin
<1>7. ASSUME NEW c \in Clients, JoinEnd(c) PROVE Joined'
  BY <1>7 DEF JoinEnd
<1>8. ASSUME NEW c \in Clients, DestroyBegin(c) PROVE Joined'
  BY <1>8 DEF DestroyBegin
<1>9. ASSUME NEW c \in Clients, DestroyJoin(c) PROVE Joined'
  BY <1>9 DEF DestroyJoin
<1>10. ASSUME NEW c \in Clients, DestroyEnd(c) PROVE Joined'
  BY <1>10 DEF DestroyEnd
<1>11. ASSUME NEW w \in Workers, RunReturns(w) PROVE Joined'
  BY <1>11 DEF RunReturns
<1>12. ASSUME NEW w \in Workers, WorkerEnds(w) PROVE Joined'
  BY <1>12 DEF WorkerEnds
<1>13. ASSUME NEW w \in Workers, SelfCall(w) PROVE Joined'
  BY <1>13 DEF SelfCall
<1>14. ASSUME NEW w \in Workers, SelfReturn(w) PROVE Joined'
  BY <1>14 DEF SelfReturn
<1>15. ASSUME NEW w \in Workers, WorkerStops(w) PROVE Joined'
  BY <1>15 DEF WorkerStops
<1>16. CASE UNCHANGED vars
  BY <1>16 DEF vars
<1> HIDE DEF Joined
<1>17. ASSUME NEW c \in Clients, ClientStep(c) PROVE Joined'
  BY <1>1, <1>2, <1>3, <1>4, <1>5, <1>6, <1>7, <1>8, <1>9, <1>10, <1>17 DEF ClientStep
<1>18. ASSUME NEW w \in Workers, WorkerStep(w) PROVE Joined'
  BY <1>11, <1>12, <1>13, <1>14, <1>15, <1>18 DEF WorkerStep
<1> QED
  BY <1>16, <1>17, <1>18 DEF Next

LEMMA ThreadInvariance == Spec => []Joined
<1>1. (Init => Joined) /\ (Joined /\ [Next]_vars => Joined')
  BY InitJoined, StepJoined
<1> QED
  BY <1>1, PTL DEF Spec

(* Every variable keeps its type and a joinable object has a worker. *)
THEOREM ThreadTypeCorrect == Spec => []TypeOK
  BY ThreadInvariance, PTL DEF Joined

(* Two workers never share an object: each is joined before the next is created. *)
THEOREM WorkersAreJoinedBeforeReuse == Spec => []JoinedBeforeReuse
  BY ThreadInvariance, PTL DEF Joined

(* No earlier worker is left to set the flag a new worker starts with. *)
THEOREM NoStaleStop == Spec => []FreshFlagIsNotStale
<1>1. Joined => FreshFlagIsNotStale
  BY DEF Joined, FreshFlagIsNotStale, JoinedBeforeReuse, Live
<1> QED
  BY ThreadInvariance, <1>1, PTL

(* A destroyed object has no worker that could still touch it. *)
THEOREM DestructionIsSafe == Spec => []NoWorkerAfterDestroy
<1>1. Joined => NoWorkerAfterDestroy
  BY DEF Joined, NoWorkerAfterDestroy, JoinedBeforeReuse, Live
<1> QED
  BY ThreadInvariance, <1>1, PTL

(* JoinThread never returns over a running worker. *)
THEOREM JoinWaits == Spec => JoinReturnsAlone
<1>1. Joined /\ [Next]_vars =>
        [\A c \in Clients : pc[c] = "join" /\ pc'[c] = "idle" =>
             \A w \in Workers : worker'[w] \notin {"running", "leaving"}]_vars
  <2> SUFFICES ASSUME Joined, Next,
                      NEW c \in Clients, pc[c] = "join", pc'[c] = "idle",
                      NEW w \in Workers
               PROVE  worker'[w] \notin {"running", "leaving"}
    BY DEF vars
  <2>1. mLifecycleMutex = c /\ c # NoThread
    BY DEF Joined, Holding
  <2>2. ASSUME NEW d \in Clients, ClientStep(d) PROVE JoinEnd(c)
    <3> USE DEF Joined, TypeOK, ClientPcs, Holding
    <3>1. StartBegin(d) \/ JoinBegin(d) \/ DestroyJoin(d) => FALSE
      BY <2>1 DEF StartBegin, JoinBegin, DestroyJoin
    <3>2. StartReap(d) \/ StartSpawn(d) \/ StartFail(d)
          \/ DestroyEnd(d) => FALSE
      BY <2>1 DEF StartReap, StartSpawn, StartFail, DestroyEnd
    <3>3. StopThread(d) \/ DestroyBegin(d) => FALSE
      BY DEF StopThread, DestroyBegin
    <3>4. JoinEnd(d) => d = c
      BY <2>1 DEF JoinEnd
    <3> QED
      BY <2>2, <3>1, <3>2, <3>3, <3>4 DEF ClientStep
  <2>3. ASSUME NEW v \in Workers, WorkerStep(v) PROVE FALSE
    BY <2>3 DEF WorkerStep, RunReturns, WorkerEnds, WorkerStops,
                SelfCall, SelfReturn
  <2>4. JoinEnd(c)
    BY <2>2, <2>3 DEF Next
  <2> QED
    BY <2>4 DEF JoinEnd, Joined, TypeOK, JoinedBeforeReuse
<1> QED
  BY ThreadInvariance, <1>1, PTL DEF Spec, JoinReturnsAlone
=============================================================================
