---------------------------- MODULE EventChannel ----------------------------
(***************************************************************************)
(* What an ImsMediaEventHandler promises: the events it accepts, numbered  *)
(* as they come, are taken one at a time in that order and none is skipped *)
(* while the channel is open.  A closing channel drops what it likes and   *)
(* gives out one event more at the most.                                   *)
(***************************************************************************)
EXTENDS Naturals

VARIABLES accepted,  \* how many events came in; the n-th is number n
          taken,     \* the number of the last event given out, 0 before the first
          status

vars == <<accepted, taken, status>>

Init == accepted = 0 /\ taken = 0 /\ status = "open"

Accept == accepted' = accepted + 1 /\ UNCHANGED <<taken, status>>

Take ==
    /\ status = "open" /\ taken < accepted
    /\ taken' = taken + 1
    /\ UNCHANGED <<accepted, status>>

Close == status = "open" /\ status' = "closing" /\ UNCHANGED <<accepted, taken>>

TakeLast ==
    /\ status = "closing"
    /\ taken' \in (taken + 1) .. accepted
    /\ status' = "closed"
    /\ UNCHANGED accepted

Next == Accept \/ Take \/ Close \/ TakeLast

Spec == Init /\ [][Next]_vars
=============================================================================
