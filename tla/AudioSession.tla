---------------------------- MODULE AudioSession ----------------------------
(***************************************************************************)
(* The three stream graphs of an audio session (sending RTP, receiving     *)
(* RTP, RTCP) as AudioStreamGraphRtpTx, AudioStreamGraphRtpRx and          *)
(* AudioStreamGraphRtcp drive them over BaseStreamGraph.  A graph is the   *)
(* state getState() reports and its mConfig.  What the nodes and the       *)
(* scheduler do when they start is reduced to whether it works: a fault.   *)
(***************************************************************************)

CONSTANT Formats    \* all of an AudioConfig but its remote and its direction

Direction == {"NO_FLOW", "INACTIVE", "SEND_ONLY", "RECEIVE_ONLY", "SEND_RECEIVE"}

Kind == {"tx", "rx", "rtcp"}

\* What a request configures beside the remote address and port.
Config == [direction : Direction, format : Formats]

\* The directions in which a graph of each kind runs.
Flows == [tx   |-> {"SEND_ONLY", "SEND_RECEIVE"},
          rx   |-> {"RECEIVE_ONLY", "SEND_RECEIVE"},
          rtcp |-> Direction \ {"NO_FLOW"}]
Serves(k, c) == c.direction \in Flows[k]

\* "stalled" is a graph in kStreamStateRunning that has no worker or a stopped node:
\* an update that could not start it again does not take the state back.
NoGraph == [state |-> "none"]
Graph == {NoGraph} \cup [state : {"created", "running", "stalled"}, config : Config]

\* getState() == kStreamStateRunning.
InRunState(g) == g.state \in {"running", "stalled"}

Create(c) == [state |-> "created", config |-> c]

\* start(): a direction the kind does not serve is a success that starts nothing, and
\* nodes that cannot be started are stopped again.
Start(k, g, fault) ==
    IF Serves(k, g.config) /\ ~fault THEN [g EXCEPT !.state = "running"] ELSE g

StartFails(k, g, fault) == fault /\ Serves(k, g.config)

\* stop() of a graph that exists.
Stop(g) == IF g = NoGraph THEN g ELSE Create(g.config)

\* A running sender or RTCP graph gets its new configuration between a stop and a start of
\* its scheduler; the receiver is stopped and started as a whole.
UpdatedInPlace(k, g) == k # "rx" /\ InRunState(g)

Restarted(k, g, c, fault) ==
    IF UpdatedInPlace(k, g)
    THEN [state |-> IF fault THEN "stalled" ELSE "running", config |-> c]
    ELSE Start(k, Create(c), fault)

\* update(): nothing when the configuration is equal, stop() when its direction does not
\* include the kind, else a restart in place or a start.
UpdateWithoutPause(k, g, c, fault) ==
    IF g.config = c THEN g ELSE Restarted(k, g, c, fault)
UpdateReceiverStopped(k, g, c, fault) ==
    IF g.config = c THEN g
    ELSE IF ~Serves(k, c) \/ k = "rx" THEN Create(c)
    ELSE Restarted(k, g, c, fault)
Update(k, g, c, fault) ==
    IF g.config = c THEN g
    ELSE IF ~Serves(k, c) THEN Create(c)
    ELSE Restarted(k, g, c, fault)

\* Whether update() reports the fault: of a restart in place some faults are only logged
\* (a node of the sender, the scheduler of RTCP).
UpdateFails(k, g, c, fault, logged) ==
    /\ fault /\ g.config # c /\ Serves(k, c)
    /\ UpdatedInPlace(k, g) => ~logged

----------------------------------------------------------------------------
(***************************************************************************)
(* core/audio/AudioSession.cpp: the three lists of graphs of one session,  *)
(* one graph for each remote address and port.  isSameGraph compares just  *)
(* these, and a list gets a graph only when it has none for them, so a     *)
(* list is a function of the remote.  Every operator is a member function: *)
(* its value is the session it leaves and the result it returns.           *)
(***************************************************************************)

CONSTANTS Remotes,    \* remote addresses and ports
          NoRemote    \* the empty address

ASSUME RemotesAssumption == NoRemote \notin Remotes

Session == [graphs : [Kind -> [Remotes -> Graph]], analyzing : BOOLEAN]

NewSession == [graphs |-> [k \in Kind |-> [r \in Remotes |-> NoGraph]],
               analyzing |-> FALSE]

Result == {"SUCCESS", "INVALID_PARAM", "START_ERROR"}

\* A list of graphs as the set of its remotes.
Listed(s, k) == {r \in Remotes : s.graphs[k][r] # NoGraph}

\* kSessionStateActive, kSessionStateSending or kSessionStateReceiving.
IsActive(s) == \E k \in {"tx", "rx"}, r \in Remotes : InRunState(s.graphs[k][r])

----------------------------------------------------------------------------
(* Faults are the graphs that cannot be started during a call, as pairs of *)
(* a kind and a remote; logged are those a restart in place only logs.     *)

Touched(k, g, c, fault) ==
    IF g = NoGraph THEN Start(k, Create(c), fault) ELSE Update(k, g, c, fault)

TouchFails(k, g, c, fault, logged) ==
    IF g = NoGraph THEN StartFails(k, Create(c), fault)
                   ELSE UpdateFails(k, g, c, fault, logged)

\* The order in which startGraph visits the lists; the first error ends it.
EarlierKinds == [tx |-> {}, rx |-> {"tx"}, rtcp |-> {"tx", "rx"}]

StartGraph(s, r, c, faults, logged) ==
    LET failing == {k \in Kind : TouchFails(k, s.graphs[k][r], c, <<k, r>> \in faults,
                                            <<k, r>> \in logged)}
        reached == {k \in Kind : EarlierKinds[k] \cap failing = {}}
        after   == [k \in Kind |->
                       IF k \in reached
                       THEN [s.graphs[k] EXCEPT ![r] = Touched(k, @, c, <<k, r>> \in faults)]
                       ELSE s.graphs[k]]
    IN  IF r = NoRemote
        THEN [session |-> s, result |-> "INVALID_PARAM"]
        ELSE [session |-> [graphs |-> after, analyzing |-> c.direction # "NO_FLOW"],
              result  |-> IF failing = {} THEN "SUCCESS" ELSE "START_ERROR"]

\* deactivate(), and addGraph before it adds a graph: all RTP graphs stop.
StopRtp(s) ==
    [s EXCEPT !.graphs = [k \in Kind |->
        IF k = "rtcp" THEN s.graphs[k] ELSE [r \in Remotes |-> Stop(s.graphs[k][r])]]]

\* The other half of addGraph: RTCP graphs that do not run are started, and whether that
\* works is not looked at.
StartRtcp(s, faults) ==
    LET started(r, g) == IF g = NoGraph \/ InRunState(g) THEN g
                         ELSE Start("rtcp", g, <<"rtcp", r>> \in faults)
    IN  [s EXCEPT !.graphs = [k \in Kind |->
            IF k = "rtcp" THEN [r \in Remotes |-> started(r, s.graphs[k][r])]
                          ELSE s.graphs[k]]]

\* confirmGraph: with a graph in every list, the graphs to other remotes are stopped and
\* deleted first.
OnlySendersDeleted(s, r) ==
    [s EXCEPT !.graphs["tx"] = [q \in Remotes |->
        IF q = r THEN s.graphs["tx"][q] ELSE NoGraph]]
OthersDeleted(s, r) ==
    [s EXCEPT !.graphs = [k \in Kind |->
        [q \in Remotes |-> IF q = r THEN s.graphs[k][q] ELSE NoGraph]]]

ConfirmGraph(s, r, c, faults, logged) ==
    IF r # NoRemote /\ \A k \in Kind : Listed(s, k) # {}
    THEN StartGraph(OthersDeleted(s, r), r, c, faults, logged)
    ELSE StartGraph(s, r, c, faults, logged)

\* addGraph: what there is for the remote is updated; else the other graphs are held
\* (enableRtcp) or deleted.
AddGraph(s, r, c, enableRtcp, faults, logged) ==
    IF r = NoRemote \/ r \in Listed(s, "tx") \/ Listed(s, "tx") = {}
    THEN StartGraph(s, r, c, faults, logged)
    ELSE IF enableRtcp
    THEN StartGraph(StartRtcp(StopRtp(s), faults), r, c, faults, logged)
    ELSE ConfirmGraph(s, r, c, faults, logged)

\* deleteGraph looks for the sender first and leaves the other lists alone without it.
DeleteGraph(s, r) ==
    IF r \in Listed(s, "tx")
    THEN [session |-> [s EXCEPT !.graphs = [k \in Kind |->
                          [s.graphs[k] EXCEPT ![r] = NoGraph]]],
          result  |-> "SUCCESS"]
    ELSE [session |-> s, result |-> "INVALID_PARAM"]
=============================================================================
