--------------------------- MODULE ConditionRing ---------------------------
(***************************************************************************)
(* The bookkeeping of core/utils/ImsMediaCondition.cpp: two bitmaps, one   *)
(* for waits that have no signal yet and one for signals that have no wait *)
(* yet, and two cursors that run round the bits of the bitmaps.  Every     *)
(* operator is what one critical section of the class does to that record; *)
(* the POSIX condition variable beside it belongs to the module that uses  *)
(* these operators.                                                        *)
(***************************************************************************)
EXTENDS Naturals

CONSTANT Slots      \* bits of mWaitFlag and of mSignalFlag, 32 in the code

ASSUME SlotsAssumption == Slots \in Nat \ {0}

Slot == 0 .. (Slots - 1)

Ring == [waitFlag: SUBSET Slot, signalFlag: SUBSET Slot,
         waitCount: Slot, signalCount: Slot]

\* A counter that reaches the number of bits starts again at bit 0.
IncCount(n) == IF n + 1 = Slots THEN 0 ELSE n + 1

Reset == [waitFlag |-> {}, signalFlag |-> {}, waitCount |-> 0, signalCount |-> 0]

\* signal() had been reached before this wait(): the wait need not sleep.
SignalPending(c) == c.waitCount \in c.signalFlag

\* A wait that finds its signal: it takes the bit and leaves.
ConsumeKeepingBit(c) == [c EXCEPT !.waitCount = IncCount(@)]
Consume(c) == [c EXCEPT !.signalFlag = @ \ {c.waitCount}, !.waitCount = IncCount(@)]

\* A wait that finds none marks its bit before it sleeps.
FallAsleepUnmarked(c) == c
FallAsleep(c) == [c EXCEPT !.waitFlag = @ \cup {c.waitCount}]

\* Whatever ended the sleep (a signal, the time limit, nothing at all), the wait
\* only moves its cursor: it neither clears its bit nor looks at it.
Leave(c) == [c EXCEPT !.waitCount = IncCount(@)]

\* signal() before it wakes a sleeper: it pays off a marked wait, else leaves its bit.
SignalForgotten(c) ==
    IF c.signalCount \in c.waitFlag
    THEN [c EXCEPT !.waitFlag = @ \ {c.signalCount}, !.signalCount = IncCount(@)]
    ELSE [c EXCEPT !.signalCount = IncCount(@)]
Signal(c) ==
    IF c.signalCount \in c.waitFlag
    THEN [c EXCEPT !.waitFlag = @ \ {c.signalCount}, !.signalCount = IncCount(@)]
    ELSE [c EXCEPT !.signalFlag = @ \cup {c.signalCount}, !.signalCount = IncCount(@)]
============================================================================
