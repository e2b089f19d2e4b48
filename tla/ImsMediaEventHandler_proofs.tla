--------------------- MODULE ImsMediaEventHandler_proofs ---------------------
(***************************************************************************)
(* For any senders, any number of events and any burst: the handler is an  *)
(* event channel, and nothing of it runs after Deinit.  And for bursts     *)
(* that the bits of its condition can tell apart: the worker never sleeps  *)
(* beside an event.                                                        *)
(***************************************************************************)
EXTENDS ImsMediaEventHandler, ConditionRing_proofs

taken == IF inHand = 0 THEN dispatched ELSE inHand

QueueTypeOK ==
    /\ mListevent \in Seq(Nat)
    /\ accepted \in Nat /\ dispatched \in Nat /\ inHand \in Nat /\ afterStop \in Nat
    /\ wpc \in WorkerPcs /\ opc \in OwnerPcs
    /\ spc \in [Senders -> {"idle", "found"}]

(* The worker's life: between InitStart and the join, told to stop exactly when
   StopThread was called, and with an event in hand only while it is dispatched.
   After the stop it takes one event at the most, and then looks at the flag. *)
WorkerInv ==
    /\ opc \in {"new", "listed", "gone"} => wpc = "absent"
    /\ opc \in Closing => mThreadStopped
    /\ opc \notin Closing /\ wpc # "absent" => ~mThreadStopped
    /\ wpc \in {"exit", "returned"} => mThreadStopped
    /\ wpc = "dispatch" <=> inHand # 0
    /\ opc \notin Closing => afterStop = 0
    /\ afterStop # 0 => wpc \in {"dispatch", "check", "exit", "returned", "absent"}

(* The queue holds events not taken yet in the order they came, and all of them
   until Deinit begins. *)
QueueInv ==
    /\ taken <= accepted
    /\ \A i \in 1 .. Len(mListevent) : taken < mListevent[i] /\ mListevent[i] <= accepted
    /\ \A i, j \in 1 .. Len(mListevent) : i < j => mListevent[i] < mListevent[j]
    /\ opc \notin Closing =>
           /\ Len(mListevent) = accepted - taken
           /\ \A i \in 1 .. Len(mListevent) : mListevent[i] = taken + i

IInv == QueueTypeOK /\ WorkerInv /\ QueueInv

LEMMA InitIInv == Init => IInv
<1> SUFFICES ASSUME Init PROVE IInv
  OBVIOUS
<1>1. QueueTypeOK
  BY DEF Init, QueueTypeOK, WorkerPcs, OwnerPcs, Closing
<1>2. WorkerInv
  BY DEF Init, WorkerInv, Closing
<1>3. QueueInv
  <2>1. mListevent = <<>> /\ accepted = 0 /\ taken = 0
    BY DEF Init, taken
  <2> QED
    BY <2>1 DEF QueueInv
<1> QED
  BY <1>1, <1>2, <1>3 DEF IInv

(* What a signal does to the worker. *)
LEMMA SignalWorkerStep ==
    ASSUME SignalWorker
    PROVE  wpc' = IF wpc = "asleep" THEN "woken" ELSE wpc
  BY DEF SignalWorker

LEMMA StepQueueTypeOK == IInv /\ [Next]_vars => QueueTypeOK'
<1> SUFFICES ASSUME IInv, [Next]_vars PROVE QueueTypeOK'
  OBVIOUS
<1> USE DEF QueueTypeOK, queueVars, ownerVars, condVars, workVars
<1>0. QueueTypeOK
  BY DEF IInv
<1>1. CASE OwnerStep
  <2>1. mListevent' = mListevent \/ mListevent' = <<>>
    BY <1>1 DEF OwnerStep, InitList, InitStart, DeinitStop, DeinitUnlist, DeinitClear, DeinitJoin
  <2>2. UNCHANGED <<accepted, dispatched, inHand, afterStop, spc>>
    BY <1>1 DEF OwnerStep, InitList, InitStart, DeinitStop, DeinitUnlist, DeinitClear, DeinitJoin
  <2>3. wpc' \in WorkerPcs
    BY <1>0, <1>1, SignalWorkerStep
       DEF OwnerStep, InitList, InitStart, DeinitStop, DeinitUnlist, DeinitClear, DeinitJoin, WorkerPcs
  <2>4. opc' \in OwnerPcs
    BY <1>1 DEF OwnerStep, InitList, InitStart, DeinitStop, DeinitUnlist, DeinitClear, DeinitJoin,
                OwnerPcs, Closing
  <2>5. mListevent \in Seq(Nat) /\ <<>> \in Seq(Nat)
    BY <1>0
  <2>6. mListevent' \in Seq(Nat)
    BY <2>1, <2>5
  <2> QED
    BY <1>0, <2>2, <2>3, <2>4, <2>6
<1>2. CASE WorkerStep
  <2>1. CASE Pop
    <3>1. Head(mListevent) \in Nat /\ Tail(mListevent) \in Seq(Nat)
      BY <1>0, <2>1 DEF Pop
    <3> QED
      BY <1>0, <2>1, <3>1 DEF Pop, WorkerPcs
  <2>2. CASE ~Pop
    BY <1>0, <1>2, <2>2
       DEF WorkerStep, Wait, WaitReturns, CheckStopped, PopNothing, ProcessEvent, Exit, WorkerPcs
  <2> QED
    BY <2>1, <2>2
<1>3. ASSUME NEW s \in Senders, SendEvent(s) PROVE QueueTypeOK'
  BY <1>0, <1>3 DEF SendEvent
<1>4. ASSUME NEW s \in Senders, AddEvent(s) PROVE QueueTypeOK'
  <2>1. accepted' \in Nat /\ mListevent' = Append(mListevent, accepted')
    BY <1>0, <1>4 DEF AddEvent
  <2>2. mListevent' \in Seq(Nat)
    BY <1>0, <2>1
  <2>3. wpc' \in WorkerPcs
    BY <1>0, <1>4, SignalWorkerStep DEF AddEvent, WorkerPcs
  <2>4. spc' \in [Senders -> {"idle", "found"}]
    BY <1>0, <1>4 DEF AddEvent
  <2>5. UNCHANGED <<dispatched, inHand, afterStop, opc>>
    BY <1>4 DEF AddEvent
  <2> QED
    BY <1>0, <2>1, <2>2, <2>3, <2>4, <2>5
<1>5. CASE UNCHANGED vars
  BY <1>0, <1>5 DEF vars
<1> QED
  BY <1>1, <1>2, <1>3, <1>4, <1>5 DEF Next

LEMMA StepWorkerInv == IInv /\ [Next]_vars => WorkerInv'
<1> SUFFICES ASSUME IInv, [Next]_vars PROVE WorkerInv'
  OBVIOUS
<1> USE DEF WorkerInv, queueVars, ownerVars, condVars, workVars, Closing
<1>0. QueueTypeOK /\ WorkerInv /\ QueueInv
  BY DEF IInv
<1>1. CASE OwnerStep
  BY <1>0, <1>1, SignalWorkerStep
     DEF OwnerStep, InitList, InitStart, DeinitStop, DeinitUnlist, DeinitClear, DeinitJoin
<1>2. CASE WorkerStep
  <2>1. CASE Pop
    <3>1. Head(mListevent) # 0
      BY <1>0, <2>1 DEF Pop, QueueTypeOK, QueueInv, taken
    <3> QED
      BY <1>0, <2>1, <3>1 DEF Pop, QueueTypeOK
  <2>2. CASE ~Pop
    BY <1>0, <1>2, <2>2
       DEF WorkerStep, Wait, WaitReturns, CheckStopped, PopNothing, ProcessEvent, Exit
  <2> QED
    BY <2>1, <2>2
<1>3. ASSUME NEW s \in Senders, SendEvent(s) \/ AddEvent(s) PROVE WorkerInv'
  BY <1>0, <1>3, SignalWorkerStep DEF SendEvent, AddEvent
<1>4. CASE UNCHANGED vars
  BY <1>0, <1>4 DEF vars
<1> QED
  BY <1>1, <1>2, <1>3, <1>4 DEF Next

LEMMA StepQueueInv == IInv /\ [Next]_vars => QueueInv'
<1> SUFFICES ASSUME IInv, [Next]_vars PROVE QueueInv'
  OBVIOUS
<1> USE DEF queueVars, ownerVars, condVars, workVars
<1>0. QueueTypeOK /\ WorkerInv /\ QueueInv
  BY DEF IInv
<1>1. taken \in Nat /\ accepted \in Nat
  BY <1>0 DEF QueueTypeOK, taken
<1>2. ASSUME UNCHANGED <<mListevent, accepted>>, taken' = taken, opc' \notin Closing => opc \notin Closing
      PROVE  QueueInv'
  BY <1>0, <1>2 DEF QueueInv
<1>3. CASE DeinitClear
  <2>1. mListevent' = <<>> /\ accepted' = accepted /\ taken' = taken /\ opc' \in Closing
    BY <1>3 DEF DeinitClear, taken, Closing
  <2> QED
    BY <1>0, <1>1, <2>1 DEF QueueInv
<1>4. CASE OwnerStep /\ ~DeinitClear
  <2>1. UNCHANGED <<mListevent, accepted, dispatched, inHand>>
    BY <1>4 DEF OwnerStep, InitList, InitStart, DeinitStop, DeinitUnlist, DeinitJoin
  <2>2. opc' \notin Closing => opc \notin Closing
    BY <1>4 DEF OwnerStep, InitList, InitStart, DeinitStop, DeinitUnlist, DeinitJoin, Closing
  <2> QED
    BY <1>2, <2>1, <2>2 DEF taken
<1>5. CASE Pop
  <2>1. /\ taken' = mListevent[1] /\ accepted' = accepted /\ opc' = opc
        /\ mListevent' = Tail(mListevent) /\ Len(mListevent) >= 1
    <3>1. mListevent # <<>> /\ Len(mListevent) >= 1 /\ Head(mListevent) = mListevent[1]
      BY <1>0, <1>5 DEF Pop, QueueTypeOK
    <3>2. mListevent[1] # 0
      BY <1>0, <1>1, <3>1 DEF QueueInv, QueueTypeOK
    <3> QED
      BY <1>5, <3>1, <3>2 DEF Pop, taken
  <2>2. /\ Len(mListevent') = Len(mListevent) - 1 /\ Len(mListevent) \in Nat
        /\ \A i \in 1 .. Len(mListevent') : mListevent'[i] = mListevent[i + 1] /\ i + 1 \in 1 .. Len(mListevent)
    BY <1>0, <2>1 DEF QueueTypeOK
  <2>3. taken' <= accepted'
    BY <1>0, <2>1, <2>2 DEF QueueInv
  <2>4. \A i \in 1 .. Len(mListevent') : taken' < mListevent'[i] /\ mListevent'[i] <= accepted'
    BY <1>0, <2>1, <2>2 DEF QueueInv
  <2>5. \A i, j \in 1 .. Len(mListevent') : i < j => mListevent'[i] < mListevent'[j]
    BY <1>0, <2>2 DEF QueueInv
  <2>6. opc' \notin Closing => /\ Len(mListevent') = accepted' - taken'
                              /\ \A i \in 1 .. Len(mListevent') : mListevent'[i] = taken' + i
    BY <1>0, <1>1, <2>1, <2>2 DEF QueueInv
  <2> QED
    BY <2>3, <2>4, <2>5, <2>6 DEF QueueInv
<1>6. CASE WorkerStep /\ ~Pop
  <2>1. UNCHANGED <<mListevent, accepted, opc>>
    BY <1>6 DEF WorkerStep, Wait, WaitReturns, CheckStopped, PopNothing, ProcessEvent, Exit
  <2>2. taken' = taken
    BY <1>0, <1>6 DEF WorkerStep, Wait, WaitReturns, CheckStopped, PopNothing, ProcessEvent, Exit,
                      WorkerInv, taken
  <2> QED
    BY <1>2, <2>1, <2>2
<1>7. ASSUME NEW s \in Senders, SendEvent(s) PROVE QueueInv'
  BY <1>2, <1>7 DEF SendEvent, taken
<1>8. ASSUME NEW s \in Senders, AddEvent(s) PROVE QueueInv'
  <2>1. /\ accepted' = accepted + 1 /\ taken' = taken /\ opc' = opc
        /\ mListevent' = Append(mListevent, accepted + 1)
    BY <1>8 DEF AddEvent, taken
  <2>2. /\ Len(mListevent') = Len(mListevent) + 1 /\ Len(mListevent) \in Nat
        /\ mListevent'[Len(mListevent) + 1] = accepted + 1
        /\ \A i \in 1 .. Len(mListevent) : mListevent'[i] = mListevent[i]
    BY <1>0, <1>1, <2>1 DEF QueueTypeOK
  <2>3. \A i \in 1 .. Len(mListevent') : i \in 1 .. Len(mListevent) \/ i = Len(mListevent) + 1
    BY <2>2
  <2>4. \A i \in 1 .. Len(mListevent) : mListevent[i] \in Nat
    BY <1>0 DEF QueueTypeOK
  <2>5. \A i \in 1 .. Len(mListevent') : taken' < mListevent'[i] /\ mListevent'[i] <= accepted'
    BY <1>0, <1>1, <2>1, <2>2, <2>3, <2>4 DEF QueueInv
  <2>6. \A i, j \in 1 .. Len(mListevent') : i < j => mListevent'[i] < mListevent'[j]
    BY <1>0, <1>1, <2>1, <2>2, <2>3, <2>4 DEF QueueInv
  <2>7. opc' \notin Closing => /\ Len(mListevent') = accepted' - taken'
                              /\ \A i \in 1 .. Len(mListevent') : mListevent'[i] = taken' + i
    BY <1>0, <1>1, <2>1, <2>2, <2>3 DEF QueueInv
  <2> QED
    BY <1>0, <1>1, <2>1, <2>5, <2>6, <2>7 DEF QueueInv
<1>9. CASE UNCHANGED vars
  BY <1>2, <1>9 DEF vars, taken
<1> QED
  BY <1>3, <1>4, <1>5, <1>6, <1>7, <1>8, <1>9 DEF Next

LEMMA Invariance == Spec => []IInv
<1>1. IInv /\ [Next]_vars => IInv'
  BY StepQueueTypeOK, StepWorkerInv, StepQueueInv DEF IInv
<1> QED
  BY InitIInv, <1>1, PTL DEF Spec

(* Every step is one of the channel, or leaves it as it is: the event a worker takes is
   the next one until StopThread, and then a later one, once. *)
LEMMA StepIsChannelStep == IInv /\ [Next]_vars => [Channel!Next]_(Channel!vars)
<1> SUFFICES ASSUME IInv, [Next]_vars PROVE [Channel!Next]_(Channel!vars)
  OBVIOUS
<1> USE DEF queueVars, ownerVars, condVars, workVars, Channel!vars
<1>0. QueueTypeOK /\ WorkerInv /\ QueueInv
  BY DEF IInv
<1>1. ASSUME UNCHANGED <<accepted, opc, afterStop>>, taken' = taken PROVE UNCHANGED Channel!vars
  BY <1>1 DEF taken
<1>2. CASE DeinitStop
  <2>1. opc \notin Closing /\ opc' \in Closing /\ afterStop = 0 /\ afterStop' = 0
    BY <1>0, <1>2 DEF DeinitStop, WorkerInv, Closing
  <2> QED
    BY <1>2, <2>1 DEF DeinitStop, Channel!Next, Channel!Close
<1>3. CASE OwnerStep /\ ~DeinitStop
  <2>1. UNCHANGED <<accepted, dispatched, inHand, afterStop>>
    BY <1>3 DEF OwnerStep, InitList, InitStart, DeinitUnlist, DeinitClear, DeinitJoin
  <2>2. opc' \in Closing <=> opc \in Closing
    BY <1>3 DEF OwnerStep, InitList, InitStart, DeinitUnlist, DeinitClear, DeinitJoin, Closing
  <2> QED
    BY <2>1, <2>2
<1>4. CASE Pop
  <2>1. Len(mListevent) >= 1 /\ 1 \in 1 .. Len(mListevent) /\ Head(mListevent) = mListevent[1]
    BY <1>0, <1>4 DEF Pop, QueueTypeOK
  <2>2. taken < mListevent[1] /\ mListevent[1] <= accepted /\ mListevent[1] \in Nat /\ taken \in Nat
    BY <1>0, <2>1 DEF QueueInv, QueueTypeOK, taken
  <2>3. taken' = mListevent[1] /\ UNCHANGED <<accepted, opc>>
    BY <1>4, <2>1, <2>2 DEF Pop, taken
  <2>4. CASE opc \notin Closing
    <3>1. mListevent[1] = taken + 1
      BY <1>0, <2>1, <2>4 DEF QueueInv
    <3>2. Channel!Take
      BY <1>0, <2>2, <2>3, <2>4, <3>1 DEF Channel!Take, taken, QueueTypeOK
    <3> QED
      BY <3>2 DEF Channel!Next
  <2>5. CASE opc \in Closing
    <3>1. afterStop = 0 /\ afterStop' = 1
      BY <1>0, <1>4, <2>5 DEF Pop, WorkerInv
    <3>2. mListevent[1] \in (taken + 1) .. accepted
      BY <1>0, <2>2 DEF QueueTypeOK
    <3>3. Channel!TakeLast
      BY <2>3, <2>5, <3>1, <3>2 DEF Channel!TakeLast, taken
    <3> QED
      BY <3>3 DEF Channel!Next
  <2> QED
    BY <2>4, <2>5
<1>5. CASE WorkerStep /\ ~Pop
  <2>1. UNCHANGED <<accepted, opc, afterStop>>
    BY <1>5 DEF WorkerStep, Wait, WaitReturns, CheckStopped, PopNothing, ProcessEvent, Exit
  <2>2. taken' = taken
    BY <1>0, <1>5 DEF WorkerStep, Wait, WaitReturns, CheckStopped, PopNothing, ProcessEvent, Exit,
                      WorkerInv, taken
  <2> QED
    BY <1>1, <2>1, <2>2
<1>6. ASSUME NEW s \in Senders, SendEvent(s) PROVE UNCHANGED Channel!vars
  BY <1>6 DEF SendEvent
<1>7. ASSUME NEW s \in Senders, AddEvent(s) PROVE Channel!Accept
  BY <1>7 DEF AddEvent, Channel!Accept
<1>8. CASE UNCHANGED vars
  BY <1>8 DEF vars
<1> QED
  BY <1>2, <1>3, <1>4, <1>5, <1>6, <1>7, <1>8 DEF Next, Channel!Next

(* The handler is the channel its managers rely on, whatever the bits of its condition
   count: in order, none skipped while it is open, one more at the most when it closes. *)
THEOREM HandlerIsEventChannel == Spec => IsEventChannel
<1>1. Init => Channel!Init
  BY DEF Init, Channel!Init, Closing
<1> QED
  BY <1>1, Invariance, StepIsChannelStep, PTL DEF Spec, IsEventChannel, Channel!Spec

(* When Deinit returns the worker is joined and no callback of it is left. *)
THEOREM DeinitIsFinal == Spec => []NothingRunsAfterDeinit
<1>1. IInv => NothingRunsAfterDeinit
  BY DEF IInv, WorkerInv, NothingRunsAfterDeinit
<1> QED
  BY Invariance, <1>1, PTL

----------------------------------------------------------------------------
(* The bits of the condition, as long as they can tell the signals of a burst apart: the
   class does not check it, and a burst of Slots signals makes the worker forget them all.
   Deinit signals once beside the senders. *)
CondInv ==
    /\ cond \in Ring
    /\ Counts(cond, outstanding, wpc)
    /\ outstanding <= Burst + (IF opc \in {"join", "gone"} THEN 1 ELSE 0)

(* A worker on its way to sleep finds a signal for the events it has not seen. *)
SignalledInv ==
    mListevent # <<>> /\ (opc \in {"new", "listed"} \/ wpc \in {"wait", "outer", "asleep"}) =>
        outstanding > 0

FlagsTypeOK == listed \in BOOLEAN /\ mThreadStopped \in BOOLEAN

SignalInv == FlagsTypeOK /\ CondInv /\ SignalledInv

LEMMA InitSignalInv == Init => SignalInv
<1> SUFFICES ASSUME Init PROVE SignalInv
  OBVIOUS
<1>1. CondInv
  <2>1. cond = Reset /\ outstanding = 0 /\ wpc = "absent" /\ opc = "new"
    BY DEF Init
  <2> QED
    BY <2>1, ResetCounts, BoundsAssumption DEF CondInv
<1>2. SignalledInv
  BY DEF Init, SignalledInv
<1>3. FlagsTypeOK
  BY DEF Init, FlagsTypeOK
<1> QED
  BY <1>1, <1>2, <1>3 DEF SignalInv

LEMMA StepFlagsTypeOK == FlagsTypeOK /\ [Next]_vars => FlagsTypeOK'
<1> SUFFICES ASSUME FlagsTypeOK, [Next]_vars PROVE FlagsTypeOK'
  OBVIOUS
<1> USE DEF FlagsTypeOK, queueVars, ownerVars, condVars, workVars
<1>1. CASE OwnerStep
  BY <1>1 DEF OwnerStep, InitList, InitStart, DeinitStop, DeinitUnlist, DeinitClear, DeinitJoin
<1>2. CASE WorkerStep
  BY <1>2 DEF WorkerStep, Wait, WaitReturns, CheckStopped, PopNothing, Pop, ProcessEvent, Exit
<1>3. ASSUME NEW s \in Senders, SendEvent(s) \/ AddEvent(s) PROVE FlagsTypeOK'
  BY <1>3 DEF SendEvent, AddEvent
<1>4. CASE UNCHANGED vars
  BY <1>4 DEF vars
<1> QED
  BY <1>1, <1>2, <1>3, <1>4 DEF Next

(* A signal that fits the bits. *)
LEMMA SignalWorkerCounts ==
    ASSUME CondInv, SignalWorker, outstanding < Slots
    PROVE  cond' \in Ring /\ Counts(cond', outstanding', wpc')
<1>1. cond' = Signal(cond) /\ outstanding' = outstanding + 1
      /\ wpc' = IF wpc = "asleep" THEN "woken" ELSE wpc
  BY DEF SignalWorker
<1> QED
  BY <1>1, RingIsClosed, SignalCounts DEF CondInv

LEMMA StepCondInv ==
    ASSUME Burst < Slots, WorkerInv, CondInv, [Next]_vars
    PROVE  CondInv'
<1> USE DEF queueVars, ownerVars, condVars, workVars
<1>0. /\ cond \in Ring /\ Counts(cond, outstanding, wpc) /\ outstanding \in 0 .. Slots
      /\ Burst \in Nat /\ Slots \in Nat
  BY BoundsAssumption, SlotsAssumption DEF CondInv, Counts
<1>1. ASSUME UNCHANGED <<cond, outstanding>>, (wpc \in {"asleep", "woken"} \/ wpc' \in {"asleep", "woken"}) => wpc' = wpc,
             opc \in {"join", "gone"} => opc' \in {"join", "gone"}
      PROVE  CondInv'
  <2>1. Counts(cond', outstanding', wpc')
    BY <1>0, <1>1 DEF Counts
  <2> QED
    BY <1>0, <1>1, <2>1 DEF CondInv
<1>2. CASE DeinitClear
  <2>1. outstanding <= Burst /\ opc' = "join" /\ SignalWorker /\ outstanding' = outstanding + 1
    BY <1>0, <1>2 DEF DeinitClear, CondInv, SignalWorker
  <2>2. cond' \in Ring /\ Counts(cond', outstanding', wpc')
    BY <1>0, <2>1, SignalWorkerCounts
  <2> QED
    BY <1>0, <2>1, <2>2 DEF CondInv, Counts
<1>3. CASE OwnerStep /\ ~DeinitClear
  <2>1. UNCHANGED <<cond, outstanding>>
    BY <1>3 DEF OwnerStep, InitList, InitStart, DeinitStop, DeinitUnlist, DeinitJoin
  <2>2. opc \in {"join", "gone"} => opc' \in {"join", "gone"}
    BY <1>3 DEF OwnerStep, InitList, InitStart, DeinitStop, DeinitUnlist, DeinitJoin
  <2>3. (wpc \in {"asleep", "woken"} \/ wpc' \in {"asleep", "woken"}) => wpc' = wpc
    BY <1>3 DEF OwnerStep, InitList, InitStart, DeinitStop, DeinitUnlist, DeinitJoin, WorkerInv
  <2> QED
    BY <1>1, <2>1, <2>2, <2>3
<1>4. CASE Wait /\ SignalPending(cond)
  <2>1. outstanding > 0
    BY <1>0, <1>4, PendingCounts DEF Wait
  <2>2. Counts(Consume(cond), outstanding - 1, "check")
    BY <1>0, <1>4, <2>1, ConsumeCounts DEF Wait
  <2>3. cond' = Consume(cond) /\ outstanding' = outstanding - 1 /\ wpc' = "check" /\ opc' = opc
    BY <1>4 DEF Wait
  <2> QED
    BY <1>0, <2>2, <2>3, RingIsClosed DEF CondInv
<1>5. CASE Wait /\ ~SignalPending(cond)
  <2>1. outstanding = 0
    BY <1>0, <1>5, PendingCounts DEF Wait
  <2>2. Counts(FallAsleep(cond), 0, "asleep")
    BY <1>0, <1>5, <2>1, SleepCounts DEF Wait
  <2>3. cond' = FallAsleep(cond) /\ outstanding' = 0 /\ wpc' = "asleep" /\ opc' = opc
    BY <1>5, <2>1 DEF Wait
  <2> QED
    BY <1>0, <2>2, <2>3, RingIsClosed DEF CondInv
<1>6. CASE WaitReturns
  <2>1. Counts(Leave(cond), outstanding - 1, "check")
    BY <1>0, <1>6, LeaveCounts DEF WaitReturns
  <2>2. cond' = Leave(cond) /\ outstanding' = outstanding - 1 /\ wpc' = "check" /\ opc' = opc
    BY <1>6 DEF WaitReturns
  <2> QED
    BY <1>0, <2>1, <2>2, RingIsClosed DEF CondInv
<1>7. CASE CheckStopped \/ PopNothing \/ Pop \/ ProcessEvent \/ Exit
  BY <1>1, <1>7 DEF CheckStopped, PopNothing, Pop, ProcessEvent, Exit
<1>8. ASSUME NEW s \in Senders, SendEvent(s) PROVE CondInv'
  BY <1>1, <1>8 DEF SendEvent
<1>9. ASSUME NEW s \in Senders, AddEvent(s) PROVE CondInv'
  <2>1. outstanding < Burst /\ SignalWorker /\ outstanding' = outstanding + 1 /\ opc' = opc
    BY <1>9 DEF AddEvent, SignalWorker
  <2>2. cond' \in Ring /\ Counts(cond', outstanding', wpc')
    BY <1>0, <2>1, SignalWorkerCounts
  <2> QED
    BY <1>0, <2>1, <2>2 DEF CondInv
<1>10. CASE UNCHANGED vars
  BY <1>1, <1>10 DEF vars
<1> QED
  BY <1>2, <1>3, <1>4, <1>5, <1>6, <1>7, <1>8, <1>9, <1>10 DEF Next, WorkerStep

LEMMA StepSignalledInv ==
    ASSUME QueueTypeOK, WorkerInv, CondInv, SignalledInv, [Next]_vars
    PROVE  SignalledInv'
<1> USE DEF SignalledInv, queueVars, ownerVars, condVars, workVars
<1>0. outstanding \in Nat /\ cond \in Ring /\ Counts(cond, outstanding, wpc)
  BY SlotsAssumption DEF CondInv, Counts
<1>1. CASE OwnerStep
  BY <1>0, <1>1, SignalWorkerStep
     DEF OwnerStep, InitList, InitStart, DeinitStop, DeinitUnlist, DeinitClear, DeinitJoin
<1>2. CASE Wait
  <2>1. ~SignalPending(cond) => outstanding = 0
    BY <1>0, <1>2, PendingCounts DEF Wait
  <2>2. opc' = opc /\ mListevent' = mListevent /\ opc \notin {"new", "listed"}
    BY <1>2 DEF Wait, WorkerInv
  <2> QED
    BY <1>2, <2>1, <2>2 DEF Wait
<1>3. CASE WorkerStep /\ ~Wait
  <2>1. opc' = opc /\ opc \notin {"new", "listed"}
    BY <1>3 DEF WorkerStep, WaitReturns, CheckStopped, PopNothing, Pop, ProcessEvent, Exit, WorkerInv
  <2> QED
    BY <1>3, <2>1 DEF WorkerStep, WaitReturns, CheckStopped, PopNothing, Pop, ProcessEvent, Exit
<1>4. ASSUME NEW s \in Senders, SendEvent(s) PROVE SignalledInv'
  BY <1>4 DEF SendEvent
<1>5. ASSUME NEW s \in Senders, AddEvent(s) PROVE SignalledInv'
  <2>1. outstanding' = outstanding + 1
    BY <1>5 DEF AddEvent, SignalWorker
  <2> QED
    BY <1>0, <2>1
<1>6. CASE UNCHANGED vars
  BY <1>6 DEF vars
<1> QED
  BY <1>1, <1>2, <1>3, <1>4, <1>5, <1>6 DEF Next

LEMMA SignalInvariance ==
    ASSUME Burst < Slots
    PROVE  Spec => [](IInv /\ SignalInv)
<1>1. IInv /\ SignalInv /\ [Next]_vars => SignalInv'
  BY StepFlagsTypeOK, StepCondInv, StepSignalledInv DEF IInv, SignalInv
<1> QED
  BY InitSignalInv, Invariance, <1>1, PTL DEF Spec

(* The queue, the worker, the senders and the condition keep their types. *)
THEOREM TypeCorrect ==
    ASSUME Burst < Slots
    PROVE  Spec => []TypeOK
<1>1. IInv /\ SignalInv => TypeOK
  <2> SUFFICES ASSUME IInv, SignalInv PROVE TypeOK
    OBVIOUS
  <2>1. outstanding \in Nat
    BY SlotsAssumption DEF SignalInv, CondInv, Counts
  <2>2. {accepted, dispatched, inHand, afterStop, outstanding} \subseteq Nat
    BY <2>1 DEF IInv, QueueTypeOK
  <2>3. {listed, mThreadStopped} \subseteq BOOLEAN
    BY DEF SignalInv, FlagsTypeOK
  <2> QED
    BY <2>2, <2>3 DEF TypeOK, IInv, QueueTypeOK, SignalInv, CondInv
<1> QED
  BY SignalInvariance, <1>1, PTL

(* A worker of an open handler is never asleep beside an event. *)
AwakeBesideEvents == wpc = "asleep" => mListevent = <<>>

(* No interleaving of senders, worker and owner leaves an event behind a sleeping worker:
   AddEvent signals under the lock the worker pops under, and the signal is not lost. *)
THEOREM NoEventIsSleptOver ==
    ASSUME Burst < Slots
    PROVE  Spec => []AwakeBesideEvents
<1>1. SignalInv => AwakeBesideEvents
  BY DEF SignalInv, SignalledInv, CondInv, Counts, AwakeBesideEvents
<1> QED
  BY SignalInvariance, <1>1, PTL
=============================================================================
