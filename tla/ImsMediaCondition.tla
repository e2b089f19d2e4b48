------------------------- MODULE ImsMediaCondition -------------------------
(***************************************************************************)
(* core/utils/ImsMediaCondition.cpp: one thread waits (every condition of  *)
(* the library belongs to one worker or one caller), any thread signals.   *)
(* A critical section of mMutex is one step; a thread inside               *)
(* pthread_cond_wait is "asleep" until something ends its sleep and        *)
(* "woken" until it has mMutex again and moves mWaitCount.                 *)
(***************************************************************************)
EXTENDS ConditionRing

CONSTANTS Burst,        \* the most signals its user leaves outstanding
          MaxSignals,   \* bound on the signals of a behaviour
          MaxTimeouts   \* bound on the waits that reach their time limit

ASSUME BurstAssumption == Burst \in 1 .. Slots
ASSUME BoundsAssumption == MaxSignals \in Nat /\ MaxTimeouts \in Nat

VARIABLES cond,      \* the bitmaps and cursors
          waiter,    \* "running" | "asleep" | "woken"
          sent,      \* signals so far (auxiliary)
          taken,     \* waits that have returned so far (auxiliary)
          timeouts   \* waits that were left at their time limit (auxiliary)

conditionVars == <<cond, waiter, sent, taken, timeouts>>

ConditionTypeOK ==
    /\ cond \in Ring
    /\ waiter \in {"running", "asleep", "woken"}
    /\ sent \in Nat /\ taken \in Nat /\ timeouts \in Nat

ConditionInit ==
    /\ cond = Reset
    /\ waiter = "running"
    /\ sent = 0 /\ taken = 0 /\ timeouts = 0

\* wait() whose signal came first.
WaitPass ==
    /\ waiter = "running" /\ SignalPending(cond)
    /\ cond' = Consume(cond)
    /\ taken' = taken + 1
    /\ UNCHANGED <<waiter, sent, timeouts>>

\* wait() up to and including the pthread_cond_wait that releases mMutex.
WaitSleep ==
    /\ waiter = "running" /\ ~SignalPending(cond)
    /\ cond' = FallAsleep(cond)
    /\ waiter' = "asleep"
    /\ UNCHANGED <<sent, taken, timeouts>>

\* The woken wait has mMutex again: it moves the cursor and returns.
WaitReturn ==
    /\ waiter = "woken"
    /\ cond' = Leave(cond)
    /\ waiter' = "running"
    /\ taken' = taken + 1
    /\ UNCHANGED <<sent, timeouts>>

\* signal(): pthread_cond_signal wakes the sleeper if there is one.
SignalStep ==
    /\ sent < MaxSignals /\ sent - taken < Burst
    /\ cond' = Signal(cond)
    /\ waiter' = IF waiter = "asleep" THEN "woken" ELSE waiter
    /\ sent' = sent + 1
    /\ UNCHANGED <<taken, timeouts>>

\* wait_timeout(): the same wait, left at its time limit.
Timeout ==
    /\ waiter = "asleep" /\ timeouts < MaxTimeouts
    /\ cond' = Leave(cond)
    /\ waiter' = "running"
    /\ timeouts' = timeouts + 1
    /\ UNCHANGED <<sent, taken>>

ConditionNext == WaitPass \/ WaitSleep \/ WaitReturn \/ SignalStep \/ Timeout

ConditionSpec == ConditionInit /\ [][ConditionNext]_conditionVars

----------------------------------------------------------------------------
(* A wait sleeps through at most as many signals as waits were left at their time limit:
   each stale mark eats one signal, and without time limits none is lost
   (ImsMediaCondition.cpp:68, "signal() had been reached before wait()"). *)
LossBoundedByTimeouts == waiter = "asleep" => sent <= taken + timeouts

(* A wait never returns without a signal of its own: the waits that returned
   are at most the signals sent, also after the cursors have wrapped. *)
NoPhantomReturn == taken <= sent

(* Until a wait is left at its time limit the class is the counting signal its users
   rely on. *)
Abstract == INSTANCE CountingSignal
                WITH credit <- sent - taken, waiting <- waiter # "running"
ImplementsCountingSignal ==
    Abstract!Init /\ [][timeouts' = 0 => [Abstract!Next]_(Abstract!vars)]_conditionVars
============================================================================
