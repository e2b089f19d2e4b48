---------------------------- MODULE MCRtpSession -----------------------------
(***************************************************************************)
(* Two peers, the first with the SSRC this side may begin with; sequence   *)
(* numbers of eight values that wrap early.                                *)
(***************************************************************************)
EXTENDS RtpSession

Peers == {1, 2}
Locals == {1, 4}
Lists == {<<>>, <<2>>}

\* The numbers this side sends decide nothing here.
View == <<[session EXCEPT !.m_usSeqNum = 0], app, members, held, colliding, out, told, steps>>
=============================================================================
