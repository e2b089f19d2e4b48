------------------------ MODULE ImsMediaEventHandler ------------------------
(***************************************************************************)
(* core/utils/ImsMediaEventHandler.cpp: a named queue of events with a     *)
(* worker of its own.  The managers have two each (requests from the       *)
(* framework, responses to it); JNI threads, RTP threads and the worker of *)
(* another handler send to it, its owner destroys it.                      *)
(*                                                                         *)
(* The four parallel lists (event and three parameters) are pushed and     *)
(* popped together under mMutexEvent and are one queue here; an event is   *)
(* its place in the order of AddEvent.  Senders look the handler up by     *)
(* name without sMutex, and add the event in a later step.                 *)
(***************************************************************************)
EXTENDS ConditionRing, Sequences

CONSTANTS Senders,
          Burst,       \* the most signals outstanding on mCondition when AddEvent is called
          MaxEvents    \* bound on the events sent

ASSUME BoundsAssumption == {Burst, MaxEvents} \subseteq Nat

VARIABLES mListevent,
          listed,          \* the handler is in sListEventHandler
          mThreadStopped,
          cond,            \* mCondition
          wpc, inHand,     \* the worker and the event it was given, 0 if none
          opc,             \* the owner: before Init, in it, up, in Deinit, gone
          spc,             \* senders that have found the handler
          accepted,        \* how many events were added (auxiliary)
          dispatched,      \* the last event whose processEvent returned (auxiliary)
          afterStop,       \* events taken after StopThread (auxiliary)
          outstanding      \* signals minus waits that returned (auxiliary)

queueVars == <<mListevent, accepted>>
ownerVars == <<listed, mThreadStopped, opc>>
condVars == <<cond, outstanding>>
workVars == <<inHand, dispatched, afterStop>>
vars == <<queueVars, ownerVars, condVars, workVars, wpc, spc>>

WorkerPcs == {"absent", "wait", "asleep", "woken", "check", "pop", "dispatch", "outer", "exit",
              "returned"}
Closing == {"unlist", "clear", "join", "gone"}
OwnerPcs == {"new", "listed", "up"} \cup Closing

TypeOK ==
    /\ mListevent \in Seq(Nat)
    /\ {accepted, dispatched, inHand, afterStop, outstanding} \subseteq Nat
    /\ {listed, mThreadStopped} \subseteq BOOLEAN
    /\ cond \in Ring /\ wpc \in WorkerPcs /\ opc \in OwnerPcs
    /\ spc \in [Senders -> {"idle", "found"}]

Init ==
    /\ mListevent = <<>> /\ accepted = 0
    /\ listed = FALSE /\ mThreadStopped = TRUE /\ opc = "new"
    /\ cond = Reset /\ outstanding = 0
    /\ wpc = "absent" /\ inHand = 0 /\ dispatched = 0 /\ afterStop = 0
    /\ spc = [s \in Senders |-> "idle"]

\* mCondition.signal(), in the critical section of the step that changes the queue.
SignalWorker ==
    /\ cond' = Signal(cond)
    /\ wpc' = IF wpc = "asleep" THEN "woken" ELSE wpc
    /\ outstanding' = outstanding + 1

----------------------------------------------------------------------------
(* The owner. *)

\* Init: first into the list, then StartThread, whose result is not looked at.
InitList ==
    /\ opc = "new"
    /\ listed' = TRUE /\ opc' = "listed"
    /\ UNCHANGED <<queueVars, mThreadStopped, condVars, workVars, wpc, spc>>

InitStart ==
    /\ opc = "listed"
    /\ opc' = "up"
    /\ \/ mThreadStopped' = FALSE /\ wpc' = "wait"
       \/ mThreadStopped' = TRUE /\ wpc' = "absent"     \* pthread_create failed
    /\ UNCHANGED <<queueVars, listed, condVars, workVars, spc>>

\* Deinit: StopThread, then off the list, then empty the queue and signal, then JoinThread.
DeinitStop ==
    /\ opc = "up"
    /\ mThreadStopped' = TRUE /\ opc' = "unlist"
    /\ UNCHANGED <<queueVars, listed, condVars, workVars, wpc, spc>>

DeinitUnlist ==
    /\ opc = "unlist"
    /\ listed' = FALSE /\ opc' = "clear"
    /\ UNCHANGED <<queueVars, mThreadStopped, condVars, workVars, wpc, spc>>

DeinitClearSilently ==
    /\ opc = "clear"
    /\ mListevent' = <<>> /\ opc' = "join"
    /\ UNCHANGED <<accepted, listed, mThreadStopped, condVars, workVars, wpc, spc>>
DeinitClear ==
    /\ opc = "clear"
    /\ mListevent' = <<>> /\ SignalWorker /\ opc' = "join"
    /\ UNCHANGED <<accepted, listed, mThreadStopped, workVars, spc>>

DeinitUnjoined ==
    /\ opc = "join"
    /\ opc' = "gone"
    /\ UNCHANGED <<queueVars, listed, mThreadStopped, condVars, workVars, wpc, spc>>
DeinitJoin ==
    /\ opc = "join" /\ wpc \in {"returned", "absent"}
    /\ wpc' = "absent" /\ opc' = "gone"
    /\ UNCHANGED <<queueVars, listed, mThreadStopped, condVars, workVars, spc>>

----------------------------------------------------------------------------
(* A sender. *)

\* SendEvent finds the handler by its name ...
SendEvent(s) ==
    /\ spc[s] = "idle" /\ listed /\ accepted < MaxEvents
    /\ spc' = [spc EXCEPT ![s] = "found"]
    /\ UNCHANGED <<queueVars, ownerVars, condVars, workVars, wpc>>

\* ... and AddEvent queues the event and signals, under mMutexEvent.
AddEvent(s) ==
    /\ spc[s] = "found" /\ outstanding < Burst
    /\ accepted' = accepted + 1 /\ mListevent' = Append(mListevent, accepted')
    /\ SignalWorker
    /\ spc' = [spc EXCEPT ![s] = "idle"]
    /\ UNCHANGED <<ownerVars, workVars>>

----------------------------------------------------------------------------
(* run(). *)

\* mCondition.wait(): at once if a signal came first.
Wait ==
    /\ wpc = "wait"
    /\ IF SignalPending(cond)
       THEN cond' = Consume(cond) /\ wpc' = "check" /\ outstanding' = outstanding - 1
       ELSE cond' = FallAsleep(cond) /\ wpc' = "asleep" /\ UNCHANGED outstanding
    /\ UNCHANGED <<queueVars, ownerVars, workVars, spc>>

WaitReturns ==
    /\ wpc = "woken"
    /\ cond' = Leave(cond) /\ wpc' = "check" /\ outstanding' = outstanding - 1
    /\ UNCHANGED <<queueVars, ownerVars, workVars, spc>>

\* The stop flag is looked at before every event and after it ("check"; twice in a row
\* between two events, which is once), and on the way to the next wait ("outer").
CheckStoppedOuterOnly ==
    /\ wpc \in {"check", "outer"}
    /\ wpc' = CASE wpc = "check" -> "pop"
                [] wpc = "outer" /\ mThreadStopped -> "exit"
                [] OTHER -> "wait"
    /\ UNCHANGED <<queueVars, ownerVars, condVars, workVars, spc>>
CheckStopped ==
    /\ wpc \in {"check", "outer"}
    /\ wpc' = CASE mThreadStopped -> "exit"
                [] ~mThreadStopped /\ wpc = "check" -> "pop"
                [] OTHER -> "wait"
    /\ UNCHANGED <<queueVars, ownerVars, condVars, workVars, spc>>

\* With the queue locked: an empty queue ends the inner loop.
PopNothing ==
    /\ wpc = "pop" /\ mListevent = <<>>
    /\ wpc' = "outer"
    /\ UNCHANGED <<queueVars, ownerVars, condVars, workVars, spc>>

Pop ==
    /\ wpc = "pop" /\ mListevent # <<>>
    /\ inHand' = Head(mListevent) /\ mListevent' = Tail(mListevent)
    /\ wpc' = "dispatch"
    /\ afterStop' = IF mThreadStopped THEN afterStop + 1 ELSE afterStop
    /\ UNCHANGED <<accepted, ownerVars, condVars, dispatched, spc>>

\* processEvent, outside the lock: the manager's callback runs to its end.
ProcessEvent ==
    /\ wpc = "dispatch"
    /\ dispatched' = inHand /\ inHand' = 0
    /\ wpc' = "check"
    /\ UNCHANGED <<queueVars, ownerVars, condVars, afterStop, spc>>

\* mConditionExit is signalled, but nobody waits for it; runThread sets the flag.
Exit ==
    /\ wpc = "exit"
    /\ mThreadStopped' = TRUE /\ wpc' = "returned"
    /\ UNCHANGED <<queueVars, listed, opc, condVars, workVars, spc>>

OwnerStep ==
    InitList \/ InitStart \/ DeinitStop \/ DeinitUnlist \/ DeinitClear \/ DeinitJoin

WorkerStep ==
    Wait \/ WaitReturns \/ CheckStopped \/ PopNothing \/ Pop \/ ProcessEvent \/ Exit

Next ==
    \/ OwnerStep \/ WorkerStep
    \/ \E s \in Senders : SendEvent(s) \/ AddEvent(s)

Spec == Init /\ [][Next]_vars

\* The worker is scheduled and its callbacks return; Deinit goes on once called; a sender
\* that found the handler adds its event.
FairSpec ==
    /\ Spec /\ WF_vars(WorkerStep) /\ WF_vars(DeinitUnlist \/ DeinitClear \/ DeinitJoin)
    /\ \A s \in Senders : WF_vars(AddEvent(s))

----------------------------------------------------------------------------
(* When Deinit returns the worker has left its last callback and the handler may be
   freed with its owner (README.md:70). *)
NothingRunsAfterDeinit == opc = "gone" => wpc = "absent" /\ inHand = 0

(* Deinit returns: its signal reaches the worker, wherever it is. *)
DeinitReturns == (opc = "unlist") ~> (opc = "gone")

(* processEvent() is called for a received event (ImsMediaEventHandler.h), as long as the
   handler has its worker and is not being destroyed. *)
EventsAreDispatched ==
    (mListevent # <<>> /\ opc = "up" /\ wpc # "absent") ~> (mListevent = <<>> \/ opc # "up")

(* Nobody waits for ever: Deinit returns and events are dispatched. *)
NobodyIsLeftWaiting == DeinitReturns /\ EventsAreDispatched

(* The handler is a channel that closes with StopThread: after it at most one more event
   reaches the manager, the one the worker was about to take; the others are dropped, not
   delivered to an owner that is going away. *)
Channel == INSTANCE EventChannel WITH
    taken <- IF inHand = 0 THEN dispatched ELSE inHand,
    status <- IF opc \notin Closing THEN "open" ELSE IF afterStop = 0 THEN "closing" ELSE "closed"
IsEventChannel == Channel!Spec
============================================================================
