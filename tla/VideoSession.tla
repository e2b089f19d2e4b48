---------------------------- MODULE VideoSession ----------------------------
(***************************************************************************)
(* core/video/VideoStreamGraphRtpTx.cpp, VideoStreamGraphRtpRx.cpp and     *)
(* VideoStreamGraphRtcp.cpp.  An RTP graph without the surface it needs    *)
(* waits for one in kStreamStateWaitSurface; the sender has a preview mode *)
(* in which it is the camera alone.                                        *)
(***************************************************************************)
EXTENDS BaseStreamGraph

PreviewNodes == AddNode("VideoSource", <<>>)
TxNodes == AddNode("SocketWriter", AddNode("RtpEncoder", AddNode("PayloadEncoder", PreviewNodes)))
RxNodes == AddNode("VideoRenderer", AddNode("PayloadDecoder",
                   AddNode("RtpDecoder", AddNode("SocketReader", <<>>))))
RtcpNodes == AddNode("RtcpDecoder", AddNode("SocketReader",
                     AddNode("SocketWriter", AddNode("RtcpEncoder", <<>>))))

InPreview(c) == c.mode = "PREVIEW"
NeedsSurface(k, c) == k = "rx" \/ c.mode # "PAUSE_IMAGE"

CreateTx(c) == Created(IF InPreview(c) THEN PreviewNodes ELSE TxNodes, c)
CreateRx(c) == Created(RxNodes, c)
CreateRtcp(c) == Created(RtcpNodes, c)

\* start() of the sender and the receiver: a direction without their media is a success
\* that starts nothing, and so is the wait for a surface.
StartMedia(k, g, broken) ==
    IF ~Serves(k, g.config) /\ ~(k = "tx" /\ InPreview(g.config)) THEN Done(g, TRUE)
    ELSE IF NeedsSurface(k, g.config) /\ ~g.surface THEN Done([g EXCEPT !.state = "wait"], TRUE)
    ELSE StartRtp(g, broken)

StartRtcp(g, broken) == IF Serves("rtcp", g.config) THEN Start(g, broken) ELSE Done(g, TRUE)

\* setSurface: a graph that waits for the surface goes on with it, and whether that works
\* is only logged.
SetSurface(k, g, broken) ==
    LET h == [g EXCEPT !.surface = TRUE]
    IN  IF g.state = "wait" THEN StartMedia(k, [h EXCEPT !.state = "created"], broken).graph ELSE h

\* Mutant: the new nodes are not started.
SwitchModeUnstarted(c, broken) == Done(CreateTx(c), TRUE)
\* The change into or out of the preview mode replaces the nodes, and forgets the surface.
SwitchMode(c, broken) == StartMedia("tx", CreateTx(c), broken)

\* update() from here on has left the wait for a surface.
Resumed(g, c) == [g EXCEPT !.config = c, !.state = IF @ = "wait" THEN "created" ELSE @]

\* The sender asks for its surface before it updates the nodes, and returns their error.
WaitForSurface(g, c) ==
    [UpdateToStart(IF IsRunning(g) THEN Stop(g) ELSE g, c).graph EXCEPT !.state = "wait"]

\* Mutant: a direction that does not send stops nothing.
UpdateTxNotPaused(g, c, broken) ==
    LET h == Resumed(g, c)
        r == IF IsRunning(h) THEN UpdateUpToError(h, c, broken) ELSE UpdateToStart(h, c)
    IN  IF g.config = c THEN Done(g, TRUE)
        ELSE IF InPreview(c) # (g.nodes = PreviewNodes) THEN SwitchMode(c, broken)
        ELSE IF NeedsSurface("tx", c) /\ ~g.surface THEN Done(WaitForSurface(h, c), TRUE)
        ELSE IF r.ok /\ ~IsRunning(h) THEN StartMedia("tx", r.graph, broken)
        ELSE r
UpdateTx(g, c, broken) ==
    LET h == Resumed(g, c)
        r == IF IsRunning(h) THEN UpdateUpToError(h, c, broken) ELSE UpdateToStart(h, c)
    IN  IF g.config = c THEN Done(g, TRUE)
        ELSE IF InPreview(c) # (g.nodes = PreviewNodes) THEN SwitchMode(c, broken)
        ELSE IF ~Serves("tx", c) THEN Done(Stop(h), TRUE)
        ELSE IF NeedsSurface("tx", c) /\ ~g.surface THEN Done(WaitForSurface(h, c), TRUE)
        ELSE IF r.ok /\ ~IsRunning(h) THEN StartMedia("tx", r.graph, broken)
        ELSE r

\* The receiver updates its nodes, logs their errors and starts if it does not run.
UpdateRx(g, c, broken) ==
    LET h == Resumed(g, c)
    IN  IF g.config = c THEN Done(g, TRUE)
        ELSE IF ~Serves("rx", c) THEN Done(Stop(h), TRUE)
        ELSE IF IsRunning(h) THEN UpdateStarted(h, c, broken)
        ELSE StartMedia("rx", UpdateToStart(h, c).graph, broken)

UpdateRtcp(g, c, broken) == UpdateControl(g, c, broken)

----------------------------------------------------------------------------
(***************************************************************************)
(* core/video/VideoSession.cpp: one graph of each kind and the surfaces    *)
(* the application gave.  A member function is an operator whose value is  *)
(* the session it leaves and its result.  Broken is a set of pairs of a    *)
(* kind and a node that cannot be started during the call.                 *)
(***************************************************************************)

CONSTANT NoRemote    \* the empty address

NewSession == [tx |-> NoGraph, rx |-> NoGraph, rtcp |-> NoGraph,
               preview |-> FALSE, display |-> FALSE]

BrokenOf(k, broken) == {p[2] : p \in {q \in broken : q[1] = k}}

Waits(g) == g.state = "wait"

\* setPreviewSurface and setDisplaySurface keep the surface and hand it to the graph.
Surfaced(k, given, g, broken) ==
    IF given /\ g # NoGraph THEN SetSurface(k, g, BrokenOf(k, broken)) ELSE g
SetPreviewSurface(s, broken) ==
    [s EXCEPT !.preview = TRUE, !.tx = Surfaced("tx", TRUE, @, broken)]
SetDisplaySurface(s, broken) ==
    [s EXCEPT !.display = TRUE, !.rx = Surfaced("rx", TRUE, @, broken)]

----------------------------------------------------------------------------
\* startGraph: each graph is created and started, or updated, and then gets the surface the
\* session already has; the first error returns.
TouchTx(s, c, broken) ==
    LET b == BrokenOf("tx", broken)
    IN  IF s.tx # NoGraph THEN UpdateTx(s.tx, c, b)
        ELSE IF InPreview(c) \/ Serves("tx", c) THEN StartMedia("tx", CreateTx(c), b)
        ELSE Done(CreateTx(c), TRUE)

TouchRx(s, c, broken) ==
    LET b == BrokenOf("rx", broken)
    IN  IF s.rx # NoGraph THEN UpdateRx(s.rx, c, b)
        ELSE IF Serves("rx", c) THEN StartMedia("rx", CreateRx(c), b)
        ELSE Done(CreateRx(c), TRUE)

\* A receiver that is created without its media is not given the surface.
SurfaceForRx(s, c) == s.display /\ (s.rx # NoGraph \/ Serves("rx", c))

TouchRtcp(s, c, broken) ==
    LET b == BrokenOf("rtcp", broken)
    IN  IF s.rtcp # NoGraph THEN UpdateRtcp(s.rtcp, c, b) ELSE StartRtcp(CreateRtcp(c), b)

\* Before there is a remote address there is only a preview.
PreviewOnly(c) == InPreview(c) /\ c.remote = NoRemote

StartGraph(s, c, broken) ==
    LET tx      == TouchTx(s, c, broken)
        afterTx == [s EXCEPT !.tx = IF tx.ok THEN Surfaced("tx", s.preview, tx.graph, broken)
                                             ELSE tx.graph]
        rx      == TouchRx(s, c, broken)
        afterRx == [afterTx EXCEPT
                       !.rx = IF rx.ok THEN Surfaced("rx", SurfaceForRx(s, c), rx.graph, broken)
                                       ELSE rx.graph]
        rtcp    == TouchRtcp(s, c, broken)
        after   == [afterRx EXCEPT !.rtcp = rtcp.graph]
    IN  IF ~tx.ok THEN [session |-> afterTx, result |-> "START_ERROR"]
        ELSE IF PreviewOnly(c) THEN [session |-> afterTx, result |-> "SUCCESS"]
        ELSE IF ~rx.ok THEN [session |-> afterRx, result |-> "START_ERROR"]
        ELSE [session |-> after, result |-> IF rtcp.ok THEN "SUCCESS" ELSE "START_ERROR"]

\* The destructor stops the graphs that run and deletes all three; the nodes it leaves
\* behind nothing refers to any more.
Destroyed(g) == LeftBehind(IF IsRunning(g) THEN Stop(g) ELSE g)
Leaked(s) == Destroyed(s.tx) \cup Destroyed(s.rx) \cup Destroyed(s.rtcp)
=============================================================================
