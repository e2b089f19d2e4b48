-------------------------- MODULE BaseStreamGraph --------------------------
(***************************************************************************)
(* core/BaseStreamGraph.cpp and UpdateConfig of the nodes: a graph as the  *)
(* video and text sessions drive it, down to the nodes it starts and stops *)
(* and the configuration each of them holds.  mListNodeToStart and         *)
(* mListNodeStarted are two stacks that pass the nodes to each other, so   *)
(* the started nodes are a prefix of the nodes in the order they start.    *)
(* Every operator is a member function: its value is the graph it leaves   *)
(* and, as ok, whether it returns RESULT_SUCCESS.                          *)
(***************************************************************************)
EXTENDS Integers, Sequences, FiniteSets

Direction == {"NO_FLOW", "INACTIVE", "SEND_ONLY", "RECEIVE_ONLY", "SEND_RECEIVE"}
Kind == {"tx", "rx", "rtcp"}

\* The directions in which a graph of each kind runs.
Flows == [tx   |-> {"SEND_ONLY", "SEND_RECEIVE"},
          rx   |-> {"RECEIVE_ONLY", "SEND_RECEIVE"},
          rtcp |-> Direction \ {"NO_FLOW"}]
Serves(k, c) == c.direction \in Flows[k]

\* What SetConfig of each node copies: the remote address, the mode of a video source, as
\* media the codec, payload types and picture a node works with, the frame rate, and as
\* tuning what a video source copies besides: bitrate, sampling rate, zoom, intra interval
\* and the path of the pause image.  All configurations name one camera, and the source
\* follows the orientation of the device at once.
SocketWriterConfig == {"remote"}
SocketReaderConfig == {"remote"}
RtcpEncoderConfig == {"remote"}
RtcpDecoderConfig == {"remote"}
RtpEncoderConfig == {"remote", "media"}
RtpDecoderConfig == {"remote", "media"}
PayloadEncoderConfig == {"media"}
PayloadDecoderConfig == {"media"}
VideoSourceConfig == {"media", "mode", "framerate", "tuning"}
VideoRendererConfig == {"media", "framerate"}
TextSourceConfig == {"media"}
TextRendererConfig == {"media"}
Copied == [SocketWriter   |-> SocketWriterConfig,   SocketReader   |-> SocketReaderConfig,
           RtcpEncoder    |-> RtcpEncoderConfig,    RtcpDecoder    |-> RtcpDecoderConfig,
           RtpEncoder     |-> RtpEncoderConfig,     RtpDecoder     |-> RtpDecoderConfig,
           PayloadEncoder |-> PayloadEncoderConfig, PayloadDecoder |-> PayloadDecoderConfig,
           VideoSource    |-> VideoSourceConfig,    VideoRenderer  |-> VideoRendererConfig,
           TextSource     |-> TextSourceConfig,     TextRenderer   |-> TextRendererConfig]
SetConfig(node, c) == [f \in Copied[node] |-> c[f]]

\* What makes a node call SetConfig when it changes.  IsSameConfig of the renderer does not
\* compare the frame rate; the source returns success without SetConfig when it sees nothing
\* but a bitrate, a sampling rate or a zoom that changed, and compares no more than these.
Heeded == [Copied EXCEPT !.VideoRenderer = @ \ {"framerate"}, !.VideoSource = @ \ {"tuning"}]
UpToDate(node, seen, c) == \A f \in Heeded[node] : seen[f] = c[f]
UpdateConfig(node, seen, c) == IF UpToDate(node, seen, c) THEN seen ELSE SetConfig(node, c)

\* A new node goes to the front of the nodes to start: the last added starts first.
AddNode(node, nodes) == <<node>> \o nodes

NoGraph == [state |-> "none"]

\* seen is what SetConfig left in each node, dead what is in the list of started nodes but
\* could not be started again, surface whether mSurface is set.
Created(nodes, c) ==
    [state |-> "created", config |-> c, nodes |-> nodes,
     seen |-> [i \in DOMAIN nodes |-> SetConfig(nodes[i], c)],
     started |-> 0, dead |-> {}, surface |-> FALSE]

Done(g, ok) == [graph |-> g, ok |-> ok]

IsRunning(g) == g.state = "running"
StartedNodes(g) == IF g = NoGraph THEN {} ELSE {g.nodes[i] : i \in 1 .. g.started}

----------------------------------------------------------------------------
(* broken is what cannot be started during the call: nodes, and the        *)
(* scheduler.                                                              *)

\* startNodes: the first node that fails ends it, and those before it stay started.
StartNodes(g, broken) ==
    LET failing == {i \in g.started + 1 .. Len(g.nodes) : g.nodes[i] \in broken}
        reached == {i \in 0 .. Len(g.nodes) : \A j \in failing : i < j}
    IN  Done([g EXCEPT !.started = CHOOSE i \in reached : \A j \in reached : j <= i],
             failing = {} /\ "Scheduler" \notin broken)

StopNodes(g) == [g EXCEPT !.started = 0, !.dead = {}]

Stop(g) == [StopNodes(g) EXCEPT !.state = "created"]

\* start() of the base class, which RTCP uses: what could not be started is stopped again.
Start(g, broken) ==
    LET r == StartNodes(g, broken)
    IN  IF r.ok THEN Done([r.graph EXCEPT !.state = "running"], TRUE)
                ELSE Done(StopNodes(r.graph), FALSE)

\* start() of the RTP graphs: a failure leaves the nodes as they are.
StartRtp(g, broken) ==
    LET r == StartNodes(g, broken)
    IN  Done([r.graph EXCEPT !.state = IF r.ok THEN "running" ELSE "created"], r.ok)

----------------------------------------------------------------------------
\* A node that runs is stopped and started around SetConfig.
Differs(g, i, c) == ~UpToDate(g.nodes[i], g.seen[i], c)
FailsAgain(g, c, broken) ==
    {i \in 1 .. g.started :
        Differs(g, i, c) /\ g.nodes[i] \in broken /\ g.nodes[i] \notin g.dead}

\* The update of a running graph between a stop and a start of its scheduler, from the
\* node started last to the first.  The result is that of the node visited last.
UpdateStarted(g, c, broken) ==
    LET failing == FailsAgain(g, c, broken)
    IN  Done([g EXCEPT !.seen = [i \in DOMAIN g.nodes |-> UpdateConfig(g.nodes[i], @[i], c)],
                       !.dead = (@ \ {"Scheduler"}) \cup {g.nodes[i] : i \in failing}
                                                    \cup ({"Scheduler"} \cap broken)],
             1 \notin failing)

\* The same where the first error returns, with the scheduler left stopped.
UpdateUpToError(g, c, broken) ==
    LET failing == FailsAgain(g, c, broken)
        last    == CHOOSE i \in failing : \A j \in failing : j <= i
    IN  IF failing = {} THEN UpdateStarted(g, c, broken)
        ELSE Done([g EXCEPT !.seen = [i \in DOMAIN g.nodes |->
                                         IF i >= last THEN UpdateConfig(g.nodes[i], @[i], c) ELSE @[i]],
                            !.dead = @ \cup {g.nodes[last], "Scheduler"}], FALSE)

\* Mutant: no node is told.
UpdateNoneToStart(g, c) == Done(g, g.started < Len(g.nodes))
\* The update of a graph that is not running reaches the nodes that are not started.
UpdateToStart(g, c) ==
    Done([g EXCEPT !.seen = [i \in DOMAIN g.nodes |->
                                IF i > g.started THEN UpdateConfig(g.nodes[i], @[i], c) ELSE @[i]]],
         g.started < Len(g.nodes))

\* update() of an RTCP graph: one that does not run is started, its nodes as they are.
UpdateControl(g, c, broken) ==
    LET h == [g EXCEPT !.config = c]
    IN  IF g.config = c THEN Done(g, TRUE)
        ELSE IF ~Serves("rtcp", c) THEN Done(Stop(h), TRUE)
        ELSE IF IsRunning(h) THEN UpdateStarted(h, c, broken)
        ELSE Start(h, broken)

----------------------------------------------------------------------------
\* deleteNodes frees the nodes to start; a started one is left behind, and still runs.
LeftBehind(g) == StartedNodes(g) \ (IF g = NoGraph THEN {} ELSE g.dead)

\* Every node of a graph that runs holds what it heeds of the configuration of the graph.
NodesFollow(g) == IsRunning(g) => \A i \in DOMAIN g.nodes : ~Differs(g, i, g.config)
=============================================================================
