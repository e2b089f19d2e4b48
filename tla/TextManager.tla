---------------------------- MODULE TextManager ----------------------------
(***************************************************************************)
(* The text sessions: core/text/TextStreamGraphRtpTx.cpp,                  *)
(* TextStreamGraphRtpRx.cpp and TextStreamGraphRtcp.cpp, then              *)
(* TextSession.cpp, then TextManager.cpp.                                  *)
(***************************************************************************)
EXTENDS BaseStreamGraph

NodesOf ==
    [tx   |-> AddNode("SocketWriter", AddNode("RtpEncoder",
                  AddNode("PayloadEncoder", AddNode("TextSource", <<>>)))),
     rx   |-> AddNode("TextRenderer", AddNode("PayloadDecoder",
                  AddNode("RtpDecoder", AddNode("SocketReader", <<>>)))),
     rtcp |-> AddNode("RtcpDecoder", AddNode("SocketReader",
                  AddNode("SocketWriter", AddNode("RtcpEncoder", <<>>))))]

CreateTx(c) == Created(NodesOf.tx, c)
CreateRx(c) == Created(NodesOf.rx, c)
CreateRtcp(c) == Created(NodesOf.rtcp, c)

StartTx(g, broken) == IF Serves("tx", g.config) THEN StartRtp(g, broken) ELSE Done(g, TRUE)
StartRx(g, broken) == IF Serves("rx", g.config) THEN StartRtp(g, broken) ELSE Done(g, TRUE)
StartRtcp(g, broken) == IF Serves("rtcp", g.config) THEN Start(g, broken) ELSE Done(g, TRUE)

\* update(): nothing when the configuration is equal, stop() when its direction excludes
\* the media, else the nodes are updated, their errors logged, and a graph that does not
\* run is started.
UpdateTx(g, c, broken) ==
    LET h == [g EXCEPT !.config = c]
    IN  IF g.config = c THEN Done(g, TRUE)
        ELSE IF ~Serves("tx", c) THEN Done(Stop(h), TRUE)
        ELSE IF IsRunning(h) THEN UpdateStarted(h, c, broken)
        ELSE StartTx(UpdateToStart(h, c).graph, broken)
UpdateRx(g, c, broken) ==
    LET h == [g EXCEPT !.config = c]
    IN  IF g.config = c THEN Done(g, TRUE)
        ELSE IF ~Serves("rx", c) THEN Done(Stop(h), TRUE)
        ELSE IF IsRunning(h) THEN UpdateStarted(h, c, broken)
        ELSE StartRx(UpdateToStart(h, c).graph, broken)

UpdateRtcp(g, c, broken) == UpdateControl(g, c, broken)

----------------------------------------------------------------------------
(***************************************************************************)
(* core/text/TextSession.cpp: one graph of each kind, created when they    *)
(* are first asked for.  Operators as in VideoSession.                     *)
(***************************************************************************)

CONSTANT NoRemote    \* the empty address

NewSession == [k \in Kind |-> NoGraph]

\* kSessionStateActive.
IsActive(s) == IsRunning(s.tx) \/ IsRunning(s.rx)

BrokenOf(k, broken) == {p[2] : p \in {q \in broken : q[1] = k}}

TouchTx(s, c, broken) ==
    LET b == BrokenOf("tx", broken)
    IN  IF s.tx = NoGraph THEN StartTx(CreateTx(c), b) ELSE UpdateTx(s.tx, c, b)
TouchRx(s, c, broken) ==
    LET b == BrokenOf("rx", broken)
    IN  IF s.rx = NoGraph THEN StartRx(CreateRx(c), b) ELSE UpdateRx(s.rx, c, b)
TouchRtcp(s, c, broken) ==
    LET b == BrokenOf("rtcp", broken)
    IN  IF s.rtcp = NoGraph THEN StartRtcp(CreateRtcp(c), b) ELSE UpdateRtcp(s.rtcp, c, b)

\* startGraph: the first error returns.
StartGraph(s, c, broken) ==
    LET tx      == TouchTx(s, c, broken)
        rx      == TouchRx(s, c, broken)
        rtcp    == TouchRtcp(s, c, broken)
        afterTx == [s EXCEPT !.tx = tx.graph]
        afterRx == [afterTx EXCEPT !.rx = rx.graph]
    IN  IF c.remote = NoRemote THEN [session |-> s, result |-> "INVALID_PARAM"]
        ELSE IF ~tx.ok THEN [session |-> afterTx, result |-> "START_ERROR"]
        ELSE IF ~rx.ok THEN [session |-> afterRx, result |-> "START_ERROR"]
        ELSE [session |-> [afterRx EXCEPT !.rtcp = rtcp.graph],
              result  |-> IF rtcp.ok THEN "SUCCESS" ELSE "START_ERROR"]

\* sendRtt: text is taken while the sender runs.
SendRtt(s) == IF IsRunning(s.tx) THEN "SUCCESS" ELSE "NOT_READY"

\* A graph that runs is stopped before it is deleted, by the destructor and by deactivate.
Destroyed(g) == LeftBehind(IF IsRunning(g) THEN Stop(g) ELSE g)
Leaked(s) == Destroyed(s.tx) \cup Destroyed(s.rx) \cup Destroyed(s.rtcp)

\* deactivate() deletes both RTP graphs and keeps RTCP.
Deactivate(s) == [s EXCEPT !.tx = NoGraph, !.rx = NoGraph]
LeakedByDeactivate(s) == Destroyed(s.tx) \cup Destroyed(s.rx)

----------------------------------------------------------------------------
(***************************************************************************)
(* core/text/TextManager.cpp: the sessions and the requests of             *)
(* TEXT_REQUEST_EVENT.  As audio, and unlike video, a session that is      *)
(* modified to a direction with media takes it away from another one; the  *)
(* other one loses its graphs, not only their run state.                   *)
(***************************************************************************)

CONSTANTS Sessions,     \* session identifiers
          Configs,      \* the configurations requests ask for
          Faulty,       \* what may fail to start: nodes and "Scheduler"
          MaxFaults     \* bound on the starts that fail

VARIABLES mSessions,    \* the open sessions
          session,      \* what each of them holds
          leaked,       \* nodes that run and that no graph lists any more
          served,       \* the request served last and its result (auxiliary)
          faults        \* starts that failed so far (auxiliary)

vars == <<mSessions, session, leaked, served, faults>>

NoConfig == [direction |-> "none"]

Init ==
    /\ mSessions = {}
    /\ session = [id \in Sessions |-> NewSession]
    /\ leaked = {}
    /\ served \in [op : {"none"}, id : Sessions, config : {NoConfig}, result : {"SUCCESS"}]
    /\ faults = 0

Answer(op, id, c, result) ==
    served' = [op |-> op, id |-> id, config |-> c, result |-> result]

FaultSets == {F \in {{}} \cup {{p} : p \in Kind \X Faulty} : Cardinality(F) <= MaxFaults - faults}

\* A session is opened whatever comes of its graphs.
OpenSession(id, c) ==
    /\ id \notin mSessions
    /\ \E F \in FaultSets :
           /\ faults' = faults + Cardinality(F)
           /\ session' = [session EXCEPT ![id] = StartGraph(NewSession, c, F).session]
    /\ mSessions' = mSessions \cup {id}
    /\ Answer("open", id, c, "SUCCESS")
    /\ UNCHANGED leaked

CloseSession(id) ==
    /\ id \in mSessions
    /\ mSessions' = mSessions \ {id}
    /\ leaked' = leaked \cup Leaked(session[id])
    /\ session' = [session EXCEPT ![id] = NewSession]
    /\ Answer("close", id, NoConfig, "SUCCESS")
    /\ UNCHANGED faults

ActiveOthers(id) == {o \in mSessions \ {id} : IsActive(session[o])}
\* Mutant: the other session keeps its media.
DeactivatedNone(id) == {id}
\* deactivateOtherSessionIfActive: the first other session with media that the map yields.
Deactivated(id) == IF ActiveOthers(id) = {} THEN {id} ELSE ActiveOthers(id)

ModifySession(id, c) ==
    /\ id \in mSessions
    /\ \E F \in FaultSets, o \in IF Serves("tx", c) \/ Serves("rx", c) THEN Deactivated(id) ELSE {id} :
           LET outcome == StartGraph(session[id], c, F)
               others  == IF o = id THEN session ELSE [session EXCEPT ![o] = Deactivate(@)]
           IN  /\ faults' = faults + Cardinality(F)
               /\ session' = [others EXCEPT ![id] = outcome.session]
               /\ leaked' = leaked \cup (IF o = id THEN {} ELSE LeakedByDeactivate(session[o]))
               /\ Answer("modify", id, c, outcome.result)
    /\ UNCHANGED mSessions

\* The result of sendRtt is not sent back.
SendRttToSession(id) ==
    /\ id \in mSessions
    /\ Answer("rtt", id, NoConfig, SendRtt(session[id]))
    /\ UNCHANGED <<mSessions, session, leaked, faults>>

\* An identifier in use, a session that is not open, an invalid descriptor.
Reject(op, id) ==
    /\ \/ op = "open"
       \/ op \in {"modify", "close", "rtt"} /\ id \notin mSessions
    /\ Answer(op, id, NoConfig, "INVALID_PARAM")
    /\ UNCHANGED <<mSessions, session, leaked, faults>>

Next ==
    \E id \in Sessions :
        \/ CloseSession(id)
        \/ SendRttToSession(id)
        \/ \E op \in {"open", "close", "modify", "rtt"} : Reject(op, id)
        \/ \E c \in Configs : OpenSession(id, c) \/ ModifySession(id, c)

Spec == Init /\ [][Next]_vars

----------------------------------------------------------------------------
(* modifySession never brings a further session into a state with media: the other one has
   lost its graphs by then (TextManager.cpp:116), whatever was resumed or failed before. *)
ModifyAddsNoTalker ==
    [][ served'.op = "modify" =>
            LET Talking(ss) == {id \in Sessions : IsActive(ss[id])}
            IN  \/ Cardinality(Talking(session')) <= 1
                \/ Cardinality(Talking(session')) <= Cardinality(Talking(session)) ]_vars

(* While nothing failed to start, each node of a sender or receiver that runs holds what it
   heeds of the configuration of its graph. *)
NodesFollowGraph ==
    faults = 0 => \A id \in Sessions : NodesFollow(session[id].tx) /\ NodesFollow(session[id].rx)

(* While nothing failed to start, no graph is deleted with a node that still runs, neither
   by closeSession nor by the deactivation for another session. *)
NoNodeLeaks == faults = 0 => leaked = {}
=============================================================================
