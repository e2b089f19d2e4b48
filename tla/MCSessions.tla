----------------------------- MODULE MCSessions -----------------------------
(***************************************************************************)
(* Sessions of the three media on small sets of configurations.            *)
(***************************************************************************)
EXTENDS Sessions
CONSTANTS s1, s2, r1, r2, f1, f2

Media == {[direction |-> "SEND_RECEIVE", format |-> f1],
          [direction |-> "SEND_RECEIVE", format |-> f2]}
Hold == {[direction |-> "RECEIVE_ONLY", format |-> f1],
         [direction |-> "SEND_ONLY", format |-> f1], [direction |-> "INACTIVE", format |-> f1],
         [direction |-> "NO_FLOW", format |-> f1]}
\* One session with two remotes and every kind of configuration, and one that only
\* competes with it for the media; an empty address with a configuration that asks for media.
MCInputs == {s1} \X {r1, r2} \X (Media \cup Hold) \cup {s1} \X {NoRemote} \X Media
                \cup {s2} \X {r1} \X Media

VideoConfig(direction, remote, mode, media) ==
    [direction |-> direction, remote |-> remote, mode |-> mode, media |-> media,
     framerate |-> 15, tuning |-> "normal"]
TextConfig(direction, remote, media) ==
    [direction |-> direction, remote |-> remote, media |-> media]

\* A call with two formats and two remotes, each kind of hold, a pause image, a preview
\* before there is a remote, previews while the remote sends, and calls in which only the
\* frame rate or only the bitrate is another.
MCVideoConfigs ==
    {VideoConfig("SEND_RECEIVE", r1, "RECORDING", f1), VideoConfig("SEND_RECEIVE", r1, "RECORDING", f2),
     VideoConfig("SEND_RECEIVE", r2, "RECORDING", f1), VideoConfig("SEND_ONLY", r1, "PAUSE_IMAGE", f1),
     VideoConfig("RECEIVE_ONLY", r1, "RECORDING", f1), VideoConfig("INACTIVE", r1, "RECORDING", f1),
     VideoConfig("NO_FLOW", r1, "RECORDING", f1), VideoConfig("NO_FLOW", NoRemote, "PREVIEW", f1),
     VideoConfig("RECEIVE_ONLY", r1, "PREVIEW", f1), VideoConfig("RECEIVE_ONLY", r1, "PREVIEW", f2),
     [VideoConfig("SEND_RECEIVE", r1, "RECORDING", f1) EXCEPT !.framerate = 30],
     [VideoConfig("SEND_RECEIVE", r1, "RECORDING", f1) EXCEPT !.tuning = "low"]}
MCTextConfigs ==
    {TextConfig("SEND_RECEIVE", r1, f1), TextConfig("SEND_RECEIVE", r1, f2),
     TextConfig("SEND_RECEIVE", r2, f1), TextConfig("RECEIVE_ONLY", r1, f1),
     TextConfig("NO_FLOW", r1, f1), TextConfig("SEND_RECEIVE", NoRemote, f1)}

\* No step depends on the request served before it.
MCView == <<mSessions, session, faults, vSessions, vSession, vLeaked, vFaults,
            tSessions, tSession, tLeaked, tFaults>>

=============================================================================
