------------------------------ MODULE Sessions ------------------------------
(***************************************************************************)
(* The sessions of the three media.  Their managers share no state and     *)
(* each serves its requests on a worker of its own, so the order of the    *)
(* steps of two media makes no difference: one medium is used at a time.   *)
(***************************************************************************)
EXTENDS AudioManager

CONSTANTS
    VideoSessions, VideoConfigs, VideoFaulty,  \* Sessions, Configs and Faulty of VideoManager
    TextSessions, TextConfigs, TextFaulty      \* and of TextManager

VARIABLES vSessions, vSession, vLeaked, vServed, vFaults,
          tSessions, tSession, tLeaked, tServed, tFaults

video == <<vSessions, vSession, vLeaked, vServed, vFaults>>
text == <<tSessions, tSession, tLeaked, tServed, tFaults>>

V == INSTANCE VideoManager WITH
        Sessions <- VideoSessions, Configs <- VideoConfigs, Faulty <- VideoFaulty,
        mSessions <- vSessions, session <- vSession, leaked <- vLeaked,
        served <- vServed, faults <- vFaults
T == INSTANCE TextManager WITH
        Sessions <- TextSessions, Configs <- TextConfigs, Faulty <- TextFaulty,
        mSessions <- tSessions, session <- tSession, leaked <- tLeaked,
        served <- tServed, faults <- tFaults

\* No session of the medium was opened, or the last one was closed, without a failure.
AudioIdle == mSessions = {} /\ faults = 0
VideoIdle == vSessions = {} /\ vFaults = 0
TextIdle == tSessions = {} /\ tFaults = 0

SessionsInit == Init /\ V!Init /\ T!Init
SessionsNext ==
    \/ VideoIdle /\ TextIdle /\ Next /\ UNCHANGED <<video, text>>
    \/ AudioIdle /\ TextIdle /\ V!Next /\ UNCHANGED <<vars, text>>
    \/ AudioIdle /\ VideoIdle /\ T!Next /\ UNCHANGED <<vars, video>>
SessionsSpec == SessionsInit /\ [][SessionsNext]_<<vars, video, text>>

----------------------------------------------------------------------------
(* Running senders and receivers of video and text hold in every node what it heeds of the
   configuration of their graph, as long as nothing failed to start (see VideoManager for
   what a node of video does not heed). *)
NodesFollowGraph == V!NodesFollowGraph /\ T!NodesFollowGraph

(* The camera is on only for a preview or a direction that sends, also after starts that
   failed half way, and as long as nothing failed to start no graph of video or text is
   deleted with a node that still runs (see VideoManager and TextManager). *)
NothingLeftRunning == V!CameraOffOnHold /\ V!NoNodeLeaks /\ T!NoNodeLeaks

(* What a successful modifySession of a video session asks for runs or waits for its
   surface, and no graph goes on waiting for a surface that its session was given, in
   whatever order surfaces, configurations and changes of mode came (see VideoManager). *)
VideoServedAsAsked == V!ServedAsAsked /\ []V!NoSurfaceForgotten

(* modifySession never brings a further session of audio or text into a state with media:
   another one has lost its media by then (see AudioManager and TextManager). *)
OneTalkerEach == ModifyAddsNoTalker /\ T!ModifyAddsNoTalker
=============================================================================
