---------------------------- MODULE VideoManager ----------------------------
(***************************************************************************)
(* core/video/VideoManager.cpp: the sessions and the requests of           *)
(* VIDEO_REQUEST_EVENT, served one after the other by its worker.  What    *)
(* makes their order hard is what an earlier one left behind: a graph that *)
(* waits for a surface, one held with an old configuration, a start that   *)
(* failed half way.                                                        *)
(***************************************************************************)
EXTENDS VideoSession

CONSTANTS Sessions,     \* session identifiers
          Configs,      \* the configurations requests ask for
          Faulty,       \* what may fail to start: nodes and "Scheduler"
          MaxFaults     \* bound on the starts that fail

VARIABLES mSessions,    \* the open sessions
          session,      \* what each of them holds
          leaked,       \* nodes that run and that no graph lists any more
          served,       \* the request served last and its result (auxiliary)
          faults        \* starts that failed so far (auxiliary)

vars == <<mSessions, session, leaked, served, faults>>

NoConfig == [direction |-> "none"]

Init ==
    /\ mSessions = {}
    /\ session = [id \in Sessions |-> NewSession]
    /\ leaked = {}
    /\ served \in [op : {"none"}, id : Sessions, config : {NoConfig}, result : {"SUCCESS"}]
    /\ faults = 0

\* RequestHandler::processEvent sends the result back as an event of its own.
Answer(op, id, c, result) ==
    served' = [op |-> op, id |-> id, config |-> c, result |-> result]

FaultSets == {F \in {{}} \cup {{p} : p \in Kind \X Faulty} : Cardinality(F) <= MaxFaults - faults}

----------------------------------------------------------------------------
\* A session is opened whatever comes of its graphs.
OpenSession(id, c) ==
    /\ id \notin mSessions
    /\ \E F \in FaultSets :
           /\ faults' = faults + Cardinality(F)
           /\ session' = [session EXCEPT ![id] = StartGraph(NewSession, c, F).session]
    /\ mSessions' = mSessions \cup {id}
    /\ Answer("open", id, c, "SUCCESS")
    /\ UNCHANGED leaked

CloseSession(id) ==
    /\ id \in mSessions
    /\ mSessions' = mSessions \ {id}
    /\ leaked' = leaked \cup Leaked(session[id])
    /\ session' = [session EXCEPT ![id] = NewSession]
    /\ Answer("close", id, NoConfig, "SUCCESS")
    /\ UNCHANGED faults

ModifySession(id, c) ==
    /\ id \in mSessions
    /\ \E F \in FaultSets :
           LET outcome == StartGraph(session[id], c, F)
           IN  /\ faults' = faults + Cardinality(F)
               /\ session' = [session EXCEPT ![id] = outcome.session]
               /\ Answer("modify", id, c, outcome.result)
    /\ UNCHANGED <<mSessions, leaked>>

\* The result of the two surface requests is not sent back.
SetPreviewSurfaceToSession(id) ==
    /\ id \in mSessions
    /\ \E F \in FaultSets :
           /\ faults' = faults + Cardinality(F)
           /\ session' = [session EXCEPT ![id] = SetPreviewSurface(@, F)]
    /\ Answer("preview", id, NoConfig, "SUCCESS")
    /\ UNCHANGED <<mSessions, leaked>>
SetDisplaySurfaceToSession(id) ==
    /\ id \in mSessions
    /\ \E F \in FaultSets :
           /\ faults' = faults + Cardinality(F)
           /\ session' = [session EXCEPT ![id] = SetDisplaySurface(@, F)]
    /\ Answer("display", id, NoConfig, "SUCCESS")
    /\ UNCHANGED <<mSessions, leaked>>

\* An identifier in use, a session that is not open, an invalid descriptor, no surface.
Reject(op, id) ==
    /\ \/ op \in {"open", "preview", "display"}
       \/ op \in {"modify", "close"} /\ id \notin mSessions
    /\ Answer(op, id, NoConfig, "INVALID_PARAM")
    /\ UNCHANGED <<mSessions, session, leaked, faults>>

Next ==
    \E id \in Sessions :
        \/ CloseSession(id)
        \/ SetPreviewSurfaceToSession(id)
        \/ SetDisplaySurfaceToSession(id)
        \/ \E op \in {"open", "close", "modify", "preview", "display"} : Reject(op, id)
        \/ \E c \in Configs : OpenSession(id, c) \/ ModifySession(id, c)

Spec == Init /\ [][Next]_vars

----------------------------------------------------------------------------
(* No graph waits for a surface that its session has been given, in whatever order
   surfaces, configurations and changes of mode came (startGraph hands the surface on after
   each update, setSurface after each wait). *)
NoSurfaceForgotten ==
    \A id \in Sessions :
        LET s == session[id] IN (Waits(s.tx) => ~s.preview) /\ (Waits(s.rx) => ~s.display)

(* The camera or the pause image is on only for a preview or a direction that sends,
   whatever holds, waits for surfaces, changes of mode and half-failed starts came before. *)
CameraOffOnHold ==
    \A id \in Sessions :
        LET g == session[id].tx
        IN  "VideoSource" \in LeftBehind(g) => InPreview(g.config) \/ Serves("tx", g.config)

(* While nothing failed to start, each node of a sender or receiver that runs holds what it
   heeds of the configuration of its graph, also after it was held, waited or was updated
   while it did not run.  What the camera's node lets pass or does not compare (bitrate,
   zoom, intra interval, pause image) and the frame rate of the renderer may be older. *)
NodesFollowGraph ==
    faults = 0 => \A id \in Sessions : NodesFollow(session[id].tx) /\ NodesFollow(session[id].rx)

(* While nothing failed to start, no graph is deleted with a node that still runs: only
   the graphs that run are stopped first (VideoSession.cpp:40). *)
NoNodeLeaks == faults = 0 => leaked = {}

(* A successful modifySession during which nothing failed to start leaves each graph that its direction
   asks for running or, without a surface, waiting for it, also when earlier starts failed
   half way, unless the graph was taken for up to date because its configuration was equal
   before. *)
ServedAsAsked ==
    [][ LET q == served' s == session[q.id] t == session'[q.id] IN
        (q.op = "modify" /\ q.result = "SUCCESS" /\ faults' = faults
            /\ ~PreviewOnly(q.config)) =>
            \A k \in Kind :
                /\ t[k] # NoGraph /\ t[k].config = q.config
                /\ (Serves(k, q.config) /\ ~IsRunning(t[k]) /\ ~Waits(t[k])) =>
                       s[k] # NoGraph /\ s[k].config = q.config /\ ~IsRunning(s[k]) ]_vars
=============================================================================
