--------------------------- MODULE CountingSignal ---------------------------
(***************************************************************************)
(* What a user of ImsMediaCondition relies on: every signal lets one wait  *)
(* return, whichever of the two comes first.  One thread waits.            *)
(***************************************************************************)
EXTENDS Naturals

CONSTANT Burst      \* the most signals that may be outstanding

VARIABLES credit,   \* signals no wait has returned for
          waiting   \* the waiter is inside wait()

vars == <<credit, waiting>>

Init == credit = 0 /\ waiting = FALSE

Post == credit < Burst /\ credit' = credit + 1 /\ UNCHANGED waiting

\* Only a wait that finds no signal left over sleeps.
Enter == ~waiting /\ credit = 0 /\ waiting' = TRUE /\ UNCHANGED credit

Return == waiting /\ credit > 0 /\ credit' = credit - 1 /\ waiting' = FALSE

\* A wait whose signal is there does not sleep: one step, in and out.
Pass == ~waiting /\ credit > 0 /\ credit' = credit - 1 /\ UNCHANGED waiting

Next == Post \/ Enter \/ Return \/ Pass

Spec == Init /\ [][Next]_vars
=============================================================================
