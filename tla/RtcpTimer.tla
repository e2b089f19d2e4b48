------------------------------ MODULE RtcpTimer ------------------------------
(***************************************************************************)
(* The timer of the RTCP reports of one RTP session.  Three kinds of       *)
(* threads meet in it: the thread that starts and stops the stream graph   *)
(* (StartRtcp, StopRtcp, the release of the session), the thread of the    *)
(* socket (a BYE restarts the timer), and the detached thread of each      *)
(* ImsMediaTimer, whose callback sends a report and starts the next timer. *)
(* The callback runs with the mutex of its timer held and takes the lock   *)
(* of the session; enableRtcp, disableRtcp and processByePacket take no    *)
(* lock; TimerStop waits for the mutex of the timer it stops.  Nothing     *)
(* keeps a restart from running beside a callback or beside another        *)
(* restart: how often that happened is counted in overlaps.                *)
(***************************************************************************)
EXTENDS Naturals, FiniteSets

CONSTANTS
    Timers,       \* bound: timers alive at the same time
    MaxOverlaps,  \* bound: restarts that run beside another or beside a callback
    None

ASSUME TimerAssumption ==
    /\ IsFiniteSet(Timers) /\ MaxOverlaps \in Nat
    /\ "owner" \notin Timers /\ "socket" \notin Timers
    /\ None \notin Timers \cup {"owner", "socket"}

VARIABLES
    pc,          \* what each thread is about to do; "gone": no such timer
    victim,      \* the timer a thread is stopping
    made,        \* the timer a thread has started and not yet stored
    terminate,   \* mTerminateThread of each timer
    m_pTimerId,
    m_bEnableRTCP,
    registered,  \* the session is in the list of RtpSessionManager
    sessionLock, \* the thread that holds m_objRtpSessionLock
    receiving,   \* the socket of the graph is open
    freed,       \* the session has been deleted
    terminated,  \* a lock that was not to be had within mTimeout has raised SIGTERM
    overlaps     \* how often a restart and a callback, or two restarts, ran at once (auxiliary)

vars == <<pc, victim, made, terminate, m_pTimerId, m_bEnableRTCP, registered, sessionLock,
          receiving, freed, terminated, overlaps>>

Threads == Timers \cup {"owner", "socket"}

Listed == {t \in Timers : pc[t] \notin {"gone", "delete"}}
\* The mutex of a timer is held while its callback runs.
InCallback == {t \in Timers : pc[t] \notin {"gone", "sleep", "unlist", "delete"}}
\* The place of a timer that is gone can be allocated again, whoever still refers to it.
Unused == {t \in Timers : pc[t] = "gone"}
\* What stops and starts the timer besides the callback: a BYE, enableRtcp and disableRtcp.
Busy(p) == pc[p] \in {"disable", "look", "check", "lock", "clear", "start", "store"}
Restarting == {p \in {"owner", "socket"} : Busy(p) /\ (p = "owner" => m_bEnableRTCP /\ pc[p] # "disable")}
Beside(others) ==
    /\ others # {} => overlaps < MaxOverlaps
    /\ overlaps' = IF others = {} THEN overlaps ELSE overlaps + 1

TypeOK ==
    /\ pc \in [Threads -> {"gone", "sleep", "valid", "enter", "body", "report", "look", "check",
                           "lock", "clear", "ask", "start", "store", "leave", "return", "unlist",
                           "delete", "idle", "disable", "close", "free", "end"}]
    /\ victim \in [Threads -> Timers \cup {None}]
    /\ made \in [Threads -> Timers \cup {None}]
    /\ terminate \in [Timers -> BOOLEAN]
    /\ m_pTimerId \in Timers \cup {None}
    /\ sessionLock \in Threads \cup {None}
    /\ m_bEnableRTCP \in BOOLEAN /\ registered \in BOOLEAN
    /\ receiving \in BOOLEAN /\ freed \in BOOLEAN
    /\ terminated \in BOOLEAN /\ overlaps \in 0 .. MaxOverlaps

Init ==
    /\ pc = [p \in Threads |-> IF p \in Timers THEN "gone" ELSE "idle"]
    /\ victim = [p \in Threads |-> None] /\ made = [p \in Threads |-> None]
    /\ terminate = [t \in Timers |-> FALSE]
    /\ m_pTimerId = None /\ m_bEnableRTCP = FALSE /\ registered = FALSE
    /\ sessionLock = None /\ receiving = FALSE /\ freed = FALSE
    /\ terminated = FALSE /\ overlaps = 0

Goto(p, label) == pc' = [pc EXCEPT ![p] = label]

(***************************************************************************)
(* Stopping m_pTimerId, which every thread does the same way, and what     *)
(* each does once that is done.                                            *)
(***************************************************************************)
AfterStop(p) ==
    CASE p \in Timers -> "ask"
      [] p = "socket" -> "start"
      [] p = "owner" /\ m_bEnableRTCP -> "start"
      [] p = "owner" /\ ~m_bEnableRTCP /\ sessionLock = "owner" -> "free"
      [] p = "owner" /\ ~m_bEnableRTCP /\ sessionLock # "owner" -> "close"

\* Mutant: a timer that runs is not stopped.
LookForTimerNoStop(p) ==
    /\ pc[p] = "look"
    /\ Goto(p, AfterStop(p))
    /\ UNCHANGED <<victim, made, terminate, m_pTimerId, m_bEnableRTCP, registered, sessionLock,
                   receiving, freed, terminated, overlaps>>

\* if (m_pTimerId != nullptr) RtpStopTimer(m_pTimerId, &pvData)
LookForTimer(p) ==
    /\ pc[p] = "look"
    /\ IF m_pTimerId = None
       THEN Goto(p, AfterStop(p)) /\ UNCHANGED victim
       ELSE Goto(p, "check") /\ victim' = [victim EXCEPT ![p] = m_pTimerId]
    /\ UNCHANGED <<made, terminate, m_pTimerId, m_bEnableRTCP, registered, sessionLock, receiving,
                   freed, terminated, overlaps>>

\* IsValidTimer of TimerStop, whose false RtpStopTimer does not pass on.
CheckTimer(p) ==
    /\ pc[p] = "check"
    /\ Goto(p, IF victim[p] \in Listed THEN "lock" ELSE "clear")
    /\ UNCHANGED <<victim, made, terminate, m_pTimerId, m_bEnableRTCP, registered, sessionLock,
                   receiving, freed, terminated, overlaps>>

\* The mutex is free once the callback has returned.  The thread of the timer
\* may have deleted it by then: what is written goes into freed memory.
TerminateTimer(p) ==
    /\ pc[p] = "lock" /\ victim[p] \notin InCallback
    /\ terminate' = [terminate EXCEPT ![victim[p]] = @ \/ victim[p] \in Listed]
    /\ Goto(p, "clear")
    /\ UNCHANGED <<victim, made, m_pTimerId, m_bEnableRTCP, registered, sessionLock, receiving,
                   freed, terminated, overlaps>>

ClearTimer(p) ==
    /\ pc[p] = "clear"
    /\ m_pTimerId' = None
    /\ victim' = [victim EXCEPT ![p] = None]
    /\ Goto(p, AfterStop(p))
    /\ UNCHANGED <<made, terminate, m_bEnableRTCP, registered, sessionLock, receiving, freed,
                   terminated, overlaps>>

\* RtpStartTimer: the timer is listed and its thread runs when it returns.
StartTimer(p) ==
    /\ pc[p] = "start"
    /\ \E t \in Unused :
        /\ pc' = [pc EXCEPT ![p] = "store", ![t] = "sleep"]
        /\ made' = [made EXCEPT ![p] = t]
        /\ terminate' = [terminate EXCEPT ![t] = FALSE]
    /\ UNCHANGED <<victim, m_pTimerId, m_bEnableRTCP, registered, sessionLock, receiving, freed,
                   terminated, overlaps>>

AfterStart(p) == IF p \in Timers THEN "leave" ELSE "idle"

StoreTimer(p) ==
    /\ pc[p] = "store"
    /\ m_pTimerId' = made[p]
    /\ made' = [made EXCEPT ![p] = None]
    /\ Goto(p, AfterStart(p))
    /\ receiving' = (receiving \/ p = "owner")  \* the nodes after the encoder start
    /\ UNCHANGED <<victim, terminate, m_bEnableRTCP, registered, sessionLock, freed, terminated,
                   overlaps>>

(***************************************************************************)
(* The thread of a timer.  It may run out before whoever started it has    *)
(* stored the handle.                                                      *)
(***************************************************************************)
Wake(t) ==
    /\ pc[t] = "sleep"
    /\ Goto(t, IF terminate[t] THEN "unlist" ELSE "valid")
    /\ Beside(IF terminate[t] THEN {} ELSE Restarting \cup {p \in Threads : made[p] = t})
    /\ UNCHANGED <<victim, made, terminate, m_pTimerId, m_bEnableRTCP, registered, sessionLock,
                   receiving, freed, terminated>>

\* Rtp_RtcpTimerCb, which holds no lock of the session.
RtcpTimerCb(t) ==
    /\ pc[t] = "valid"
    /\ Goto(t, IF registered THEN "enter" ELSE "return")
    /\ UNCHANGED <<victim, made, terminate, m_pTimerId, m_bEnableRTCP, registered, sessionLock,
                   receiving, freed, terminated, overlaps>>

\* Mutant: the callback leaves its own timer in m_pTimerId.
EnterExpiryKeepingTimer(t) ==
    /\ pc[t] = "enter" /\ sessionLock = None
    /\ sessionLock' = t
    /\ Goto(t, IF registered THEN "body" ELSE "leave")
    /\ UNCHANGED <<victim, made, terminate, m_pTimerId, m_bEnableRTCP, registered, receiving, freed,
                   terminated, overlaps>>

\* rtcpTimerExpiry up to m_pTimerId = nullptr.
EnterExpiry(t) ==
    /\ pc[t] = "enter" /\ sessionLock = None
    /\ sessionLock' = t
    /\ Goto(t, IF registered THEN "body" ELSE "leave")
    /\ m_pTimerId' = IF registered /\ m_pTimerId = t THEN None ELSE m_pTimerId
    /\ UNCHANGED <<victim, made, terminate, m_bEnableRTCP, registered, receiving, freed, terminated,
                   overlaps>>

\* tn > tc: too early for a report, or a report is made and sent.
ExpireEarly(t) ==
    /\ pc[t] = "body"
    /\ Goto(t, "look")
    /\ UNCHANGED <<victim, made, terminate, m_pTimerId, m_bEnableRTCP, registered, sessionLock,
                   receiving, freed, terminated, overlaps>>

SendReport(t) ==
    /\ pc[t] = "body"
    /\ Goto(t, "report")
    /\ UNCHANGED <<victim, made, terminate, m_pTimerId, m_bEnableRTCP, registered, sessionLock,
                   receiving, freed, terminated, overlaps>>

ReportSent(t) ==
    /\ pc[t] = "report"
    /\ Goto(t, "look")
    /\ UNCHANGED <<victim, made, terminate, m_pTimerId, m_bEnableRTCP, registered, sessionLock,
                   receiving, freed, terminated, overlaps>>

\* if (m_bEnableRTCP == eRTP_TRUE) RtpStartTimer(...)
AskEnabled(t) ==
    /\ pc[t] = "ask"
    /\ Goto(t, IF m_bEnableRTCP THEN "start" ELSE "leave")
    /\ UNCHANGED <<victim, made, terminate, m_pTimerId, m_bEnableRTCP, registered, sessionLock,
                   receiving, freed, terminated, overlaps>>

LeaveExpiry(t) ==
    /\ pc[t] = "leave"
    /\ sessionLock' = None
    /\ Goto(t, "return")
    /\ UNCHANGED <<victim, made, terminate, m_pTimerId, m_bEnableRTCP, registered, receiving, freed,
                   terminated, overlaps>>

\* A timer that does not repeat ends with its callback.
CallbackReturns(t) ==
    /\ pc[t] = "return"
    /\ Goto(t, "unlist")
    /\ UNCHANGED <<victim, made, terminate, m_pTimerId, m_bEnableRTCP, registered, sessionLock,
                   receiving, freed, terminated, overlaps>>

DeleteTimerFromList(t) ==
    /\ pc[t] = "unlist"
    /\ Goto(t, "delete")
    /\ UNCHANGED <<victim, made, terminate, m_pTimerId, m_bEnableRTCP, registered, sessionLock,
                   receiving, freed, terminated, overlaps>>

DeleteTimer(t) ==
    /\ pc[t] = "delete"
    /\ Goto(t, "gone")
    /\ UNCHANGED <<victim, made, terminate, m_pTimerId, m_bEnableRTCP, registered, sessionLock,
                   receiving, freed, terminated, overlaps>>

TimerStep(t) ==
    \/ Wake(t) \/ RtcpTimerCb(t) \/ EnterExpiry(t) \/ ExpireEarly(t) \/ SendReport(t)
    \/ ReportSent(t) \/ AskEnabled(t) \/ LeaveExpiry(t) \/ CallbackReturns(t)
    \/ DeleteTimerFromList(t) \/ DeleteTimer(t)

(***************************************************************************)
(* The owner: RtcpEncoderNode::Start and Stop, then the stop of the       *)
(* socket, and the destructor of the last node.                            *)
(***************************************************************************)
EnableRtcp ==
    /\ pc["owner"] \in {"idle", "close"} /\ ~m_bEnableRTCP
    /\ m_bEnableRTCP' = TRUE /\ registered' = TRUE
    /\ Goto("owner", "look")
    /\ Beside(InCallback \cup Restarting)
    /\ UNCHANGED <<victim, made, terminate, m_pTimerId, sessionLock, receiving, freed, terminated>>

\* disableRtcp takes the session off the list first.
RemoveRtpSession ==
    /\ pc["owner"] = "idle" /\ m_bEnableRTCP
    /\ registered' = FALSE
    /\ Goto("owner", "disable")
    /\ Beside({"socket"} \cap Restarting)
    /\ UNCHANGED <<victim, made, terminate, m_pTimerId, m_bEnableRTCP, sessionLock, receiving,
                   freed, terminated>>

DisableRtcp ==
    /\ pc["owner"] = "disable"
    /\ m_bEnableRTCP' = FALSE
    /\ Goto("owner", "look")
    /\ UNCHANGED <<victim, made, terminate, m_pTimerId, registered, sessionLock, receiving, freed,
                   terminated, overlaps>>

\* SocketReaderNode is stopped after the encoder and waits for its callback.
CloseSocket ==
    /\ pc["owner"] = "close" /\ pc["socket"] = "idle"
    /\ receiving' = FALSE
    /\ Goto("owner", "idle")
    /\ UNCHANGED <<victim, made, terminate, m_pTimerId, m_bEnableRTCP, registered, sessionLock,
                   freed, terminated, overlaps>>

\* Mutant: the lock of the session is not waited for.
DeleteRtpSessionUnlocked ==
    /\ pc["owner"] = "idle" /\ ~m_bEnableRTCP
    /\ sessionLock' = "owner" /\ registered' = FALSE
    /\ Goto("owner", "look")
    /\ UNCHANGED <<victim, made, terminate, m_pTimerId, m_bEnableRTCP, receiving, freed, terminated,
                   overlaps>>

\* The destructor of IRtpSession: deleteRtpSession, then delete.
DeleteRtpSession ==
    /\ pc["owner"] = "idle" /\ ~m_bEnableRTCP /\ sessionLock = None
    /\ sessionLock' = "owner" /\ registered' = FALSE
    /\ Goto("owner", "look")
    /\ UNCHANGED <<victim, made, terminate, m_pTimerId, m_bEnableRTCP, receiving, freed, terminated,
                   overlaps>>

FreeSession ==
    /\ pc["owner"] = "free"
    /\ sessionLock' = None /\ freed' = TRUE
    /\ Goto("owner", "end")
    /\ UNCHANGED <<victim, made, terminate, m_pTimerId, m_bEnableRTCP, registered, receiving,
                   terminated, overlaps>>

OwnerStep == \/ EnableRtcp \/ RemoveRtpSession \/ DisableRtcp \/ CloseSocket
             \/ DeleteRtpSession \/ FreeSession

(***************************************************************************)
(* The socket: a BYE that leaves fewer members than the last report        *)
(* counted restarts the timer, once RTCP has been seen to be enabled.      *)
(***************************************************************************)
ProcessByePacket ==
    /\ pc["socket"] = "idle" /\ receiving /\ m_bEnableRTCP
    /\ Goto("socket", "look")
    /\ Beside(InCallback \cup {p \in {"owner"} : Busy(p)})
    /\ UNCHANGED <<victim, made, terminate, m_pTimerId, m_bEnableRTCP, registered, sessionLock,
                   receiving, freed, terminated>>

StopStart(p) == \/ LookForTimer(p) \/ CheckTimer(p) \/ TerminateTimer(p) \/ ClearTimer(p)
                \/ StartTimer(p) \/ StoreTimer(p)

\* A callback that waits for the session while the one who holds it waits for the callback.
Circle ==
    \E p \in Threads :
        sessionLock = p /\ pc[p] = "lock" /\ (victim[p] = p \/ pc[victim[p]] = "enter")

\* ImsMediaMutex::lock raises SIGTERM when it has waited for mTimeout; who holds a lock and
\* goes on is taken to be done by then.
LockTimesOut ==
    /\ Circle /\ ~terminated
    /\ terminated' = TRUE
    /\ UNCHANGED <<pc, victim, made, terminate, m_pTimerId, m_bEnableRTCP, registered, sessionLock,
                   receiving, freed, overlaps>>

Released == (pc["owner"] = "end" \/ terminated) /\ UNCHANGED vars

Next == \/ OwnerStep \/ ProcessByePacket \/ LockTimesOut \/ Released
        \/ \E t \in Timers : TimerStep(t)
        \/ \E p \in Threads : StopStart(p)

(***************************************************************************)
(* Fairness: every thread that can go on does, and a lock that is waited   *)
(* for in vain times out; what is asked of the owner and what the peer     *)
(* sends are not fair.                                                     *)
(***************************************************************************)
Fairness ==
    /\ \A t \in Timers : WF_vars(TimerStep(t) \/ StopStart(t))
    /\ WF_vars(StopStart("owner")) /\ WF_vars(StopStart("socket"))
    /\ WF_vars(DisableRtcp) /\ WF_vars(CloseSocket) /\ WF_vars(FreeSession)
    /\ WF_vars(LockTimesOut)

Spec == Init /\ [][Next]_vars /\ Fairness

-----------------------------------------------------------------------------
InSession == {t \in Timers : pc[t] \in {"enter", "body", "report", "look", "check", "lock",
                                        "clear", "ask", "start", "store", "leave"}}

(* Safety: a callback that is still under way when the session is deleted  *)
(* finds it off the list, sends nothing and starts no timer, and there are *)
(* no more such callbacks than restarts that ran beside a callback or      *)
(* beside each other: without one deleteRtpSession leaves none that would  *)
(* lock the mutex it frees.                                                *)
LateCallbacksLeave == freed => \A t \in InSession : pc[t] \in {"enter", "leave"}
FreedSessionUntouched == LateCallbacksLeave /\ (freed => Cardinality(InSession) <= overlaps)

(* Safety: each restart that runs beside another or beside a callback adds *)
(* at most one timer that will send reports; all that comes one after the  *)
(* other, StopRtcp, a BYE or the expiry, replaces the one there is.        *)
Pending == {t \in Timers : pc[t] \in {"sleep", "valid", "enter", "body", "report"} /\ ~terminate[t]}
OneReportChain == registered => Cardinality(Pending) <= 1 + overlaps

(* Liveness: StopRtcp, the stop of the socket and the release of the       *)
(* session return, unless two threads wait for each other's lock until     *)
(* SIGTERM is raised, which takes an overlap.                              *)
OverlapEndsIt == terminated /\ overlaps > 0
StopReturns ==
    /\ pc["owner"] = "disable" ~> pc["owner"] = "close" \/ OverlapEndsIt
    /\ pc["owner"] = "close" ~> pc["owner"] # "close" \/ OverlapEndsIt
    /\ sessionLock = "owner" ~> freed \/ OverlapEndsIt

(* Liveness: once RTCP stays enabled and no more BYEs arrive timers go on  *)
(* expiring: no interleaving of the callback with a BYE or with StopRtcp   *)
(* and StartRtcp leaves the session without one, overlapping ones included.*)
Settled == m_bEnableRTCP /\ pc["owner"] = "idle" /\ pc["socket"] = "idle"
ReportsGoOn == <>[]Settled => []<>(\E t \in Timers : pc[t] = "body") \/ <>OverlapEndsIt

(* Both: nobody waits for ever and the reports go on.                      *)
EverybodyGoesOn == StopReturns /\ ReportsGoOn
=============================================================================
