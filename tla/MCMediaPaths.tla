---------------------------- MODULE MCMediaPaths ----------------------------
(***************************************************************************)
(* Voice through the jitter buffer of the player, text from the typing to  *)
(* the display, video from the encoder to the decoder, digits from the     *)
(* dialler to the session of the peer, speech through the payload codecs   *)
(* with the requests it carries.  A session of one medium shares nothing   *)
(* with one of another, and the digits, the player and the codec do not    *)
(* touch each other's state, so a behaviour is of a call of one of them.   *)
(***************************************************************************)
EXTENDS AudioReceivePath, DtmfPath

(* Voice. *)
P(ssrc, seq, ts, kind, at, by) ==
    [ssrc |-> ssrc, seq |-> seq, ts |-> ts, kind |-> kind, at |-> at, by |-> by]

\* The sequence numbers wrap; any two packets may change places.
Reordered ==
    [packets |-> <<P("a", 12, 38, "voice", 0, 4), P("a", 13, 40, "voice", 2, 6),
                   P("a", 14, 42, "voice", 4, 8), P("a", 15, 44, "sid", 6, 10),
                   P("a", 0, 50, "voice", 12, 16)>>,
     copies |-> 1, delays |-> {0}]

\* The peer goes over to another SSRC.
Replaced ==
    [packets |-> <<P("a", 4, 38, "voice", 0, 2), P("a", 5, 40, "voice", 2, 4),
                   P("b", 9, 80, "voice", 6, 10), P("b", 10, 82, "voice", 8, 10),
                   P("b", 11, 84, "voice", 10, 12)>>,
     copies |-> 1, delays |-> {0}]

\* The timestamps wrap, at 2^32 / 8 in milliseconds.
Wrapped ==
    [packets |-> <<P("a", 4, 146, "voice", 0, 0), P("a", 5, 148, "voice", 2, 2),
                   P("a", 6, 0, "voice", 4, 4), P("a", 7, 2, "sid", 6, 6),
                   P("a", 8, 8, "voice", 12, 12)>>,
     copies |-> 1, delays |-> {0, 1}]

\* Silence in which the buffer grows and shrinks.
Silent ==
    [packets |-> <<P("a", 4, 38, "voice", 0, 0), P("a", 5, 40, "sid", 2, 4),
                   P("a", 6, 44, "sid", 6, 8), P("a", 7, 46, "voice", 8, 10),
                   P("a", 8, 48, "voice", 10, 12)>>,
     copies |-> 1, delays |-> {0}]

\* Packets come twice, in their order.
Doubled ==
    [packets |-> <<P("a", 4, 38, "voice", 0, 0), P("a", 5, 40, "voice", 2, 2),
                   P("a", 6, 42, "voice", 4, 4), P("a", 7, 44, "sid", 6, 6)>>,
     copies |-> 2, delays |-> {0}]

MCCalls == {Reordered, Replaced, Wrapped, Silent, Doubled}

-----------------------------------------------------------------------------
(* Text. *)
VARIABLES tCall, tTx, tNet, tRx, tJb, tRd, tShown, tRaced

text == <<tCall, tTx, tNet, tRx, tJb, tRd, tShown, tRaced>>

\* Two characters; the second packet is the last before the numbers wrap, and as many
\* faults as it takes to lose a text with the one packet that carries it again.  The two sides
\* send under one number, or each under its own.
TextCall(codec, level, keep, rx, loss) ==
    [conf |-> [codec |-> codec, level |-> level, keep |-> keep, mRtpPayloadTx |-> 112, mRtpPayloadRx |-> rx,
               mRedundantPayload |-> IF codec = "T140" THEN 0 ELSE 111],
     chars |-> 2, faults |-> loss, first |-> 65534]
TextCalls == {TextCall("T140", 0, FALSE, 112, 2), TextCall("T140", 0, FALSE, 98, 1),
              TextCall("T140_RED", 2, FALSE, 112, 2), TextCall("T140_RED", 2, FALSE, 98, 1),
              TextCall("T140_RED", 1, TRUE, 112, 2), TextCall("T140_RED", 1, TRUE, 98, 1)}

T == INSTANCE TextPath WITH
        Calls <- TextCalls, MaxBlock <- 2, MaxSent <- 6, Window <- 2, None <- NoFrame,
        call <- tCall, tx <- tTx, net <- tNet, rx <- tRx, jb <- tJb, rd <- tRd,
        shown <- tShown, raced <- tRaced

TextShownOnce == T!TextShownOnce

-----------------------------------------------------------------------------
(* Video. *)
VARIABLES vCall, vTx, vNet, vRx, vJb, vProc, vRd, vOut

video == <<vCall, vTx, vNet, vRx, vJb, vProc, vRd, vOut>>

\* Calls with a sender of each codec and one of another implementation, that each have room
\* for one question: two faults in a picture of three fragments, three pictures in a buffer
\* for two, time enough for both NACKs and the PLI, a turning camera with pictures of both
\* shapes, HEVC with its longer headers; and pictures too long for the buffer of the renderer,
\* at their last piece and before it.  The numbers wrap in the first picture or before the
\* second.
VideoCall(codec, own, idr, frames, losses, ticks, turns, shapes, first) ==
    [codec |-> codec, mode |-> "NonInterleaved", own |-> own, idr |-> idr, frames |-> frames,
     faults |-> losses, ticks |-> ticks, turns |-> turns, shapes |-> shapes, first |-> first]
VideoCalls == {VideoCall("AVC", TRUE, 12, 2, 2, 0, FALSE, {"wide"}, 65530),
               VideoCall("AVC", TRUE, 8, 3, 1, 0, FALSE, {"wide"}, 65531),
               VideoCall("AVC", TRUE, 8, 2, 1, 6, FALSE, {"wide"}, 65531),
               VideoCall("AVC", TRUE, 8, 2, 1, 0, TRUE, {"wide", "tall"}, 65531),
               VideoCall("AVC", FALSE, 8, 2, 1, 2, FALSE, {"wide"}, 65531),
               VideoCall("HEVC", TRUE, 8, 2, 1, 0, FALSE, {"wide"}, 65529),
               VideoCall("AVC", TRUE, 13, 2, 0, 0, FALSE, {"wide"}, 65531),
               VideoCall("HEVC", TRUE, 16, 1, 1, 0, FALSE, {"wide"}, 65532)}
Orientations == {[facing |-> "front", orientation |-> 90], [facing |-> "rear", orientation |-> 90]}

\* The buffer keeps two frames, and asks for a picture with the first of them.
V == INSTANCE VideoPath WITH
        MaxFragmentUnitSize <- 6, MAX_CONFIG_LEN <- 4, MaxNalSize <- 16, MAX_RTP_PAYLOAD_BUFFER_SIZE <- 13,
        mMaxSaveFrameNum <- 2, mIDRCheckCnt <- 1, mCvoValue <- 1, NonIdrSizes <- {3},
        mWidthByHeight <- "wide", Turns <- Orientations, Window <- 2, None <- NoFrame,
        Calls <- VideoCalls, call <- vCall, tx <- vTx, net <- vNet, rx <- vRx, jb <- vJb,
        proc <- vProc, rd <- vRd, out <- vOut

FramesWhole == V!FramesWhole
IdrShownAsSent == V!IdrShownAsSent
NackNamesMissing == V!NackNamesMissing
FullBufferGoesOn == V!FullBufferGoesOn

-----------------------------------------------------------------------------
(* Speech. *)
CONSTANT Garbage

VARIABLES sConf, sEncoder, sSpoken, sNet, sLosses, sPrev, sHeard, sPending, sSource, sPlayer, sAsked

speech == <<sConf, sEncoder, sSpoken, sNet, sLosses, sPrev, sHeard, sPending, sSource, sPlayer, sAsked>>

AmrCall(codec, aligned, frames, length, own, modes, cmrs) ==
    [codec |-> codec, mOctetAligned |-> aligned, frames |-> frames, full |-> FALSE, io |-> FALSE,
     mSendCMR |-> FALSE, own |-> own, bw |-> "NB", modes |-> modes, cmrs |-> cmrs, length |-> length]
EvsCall(full, io, send, length, own, bw, modes, cmrs) ==
    [codec |-> "EVS", mOctetAligned |-> FALSE, frames |-> 1, full |-> full, io |-> io,
     mSendCMR |-> send, own |-> own, bw |-> bw, modes |-> modes, cmrs |-> cmrs, length |-> length]

\* In each format every mode after every mode, with and without a request; requests of every
\* kind after each other in one mode; several frames in a packet for AMR.
SpeechCalls ==
    UNION {{AmrCall("AMR", aligned, 1, 2, 7, (0 .. 8) \cup {15}, {15, 2}),
            AmrCall("AMR_WB", aligned, 1, 2, 8, (0 .. 9) \cup {15}, {15, 8}),
            AmrCall("AMR", aligned, 1, 3, 6, {4}, {15, 7, 9, 0}),
            AmrCall("AMR", aligned, 2, 4, 6, {7, 8, 15}, {15}),
            AmrCall("AMR_WB", aligned, 3, 4, 2, {0, 9, 15}, {15})} : aligned \in BOOLEAN}
    \cup {EvsCall(FALSE, FALSE, FALSE, 2, 13, "SWB", 0 .. 12, {127}),
          EvsCall(FALSE, TRUE, FALSE, 2, 8, "WB", 0 .. 9, {7, 6}),
          EvsCall(FALSE, TRUE, FALSE, 3, 13, "SWB", {2, 9}, {7, 3, 4, 5}),
          EvsCall(TRUE, FALSE, TRUE, 2, 20, "FB", 0 .. 12, {127, 68}),
          EvsCall(TRUE, FALSE, FALSE, 2, 20, "FB", 0 .. 12, {127}),
          EvsCall(TRUE, FALSE, TRUE, 3, 13, "WB", {1}, {127, 0, 18, 47, 65, 100}),
          EvsCall(TRUE, TRUE, FALSE, 2, 8, "NB", 0 .. 9, {127, 24})}

S == INSTANCE VoicePath WITH
        VoiceCalls <- SpeechCalls, MaxLosses <- 1, None <- NoFrame, conf <- sConf, encoder <- sEncoder,
        spoken <- sSpoken, net <- sNet, losses <- sLosses, mPrevCMR <- sPrev, heard <- sHeard,
        pending <- sPending, source <- sSource, player <- sPlayer, asked <- sAsked

SpeechUnderstood == S!SpeechUnderstood

-----------------------------------------------------------------------------
\* Which call it is; what is not used stays as it begins.
VARIABLE medium

NoVoice == call = Wrapped /\ clock = 0 /\ copies = [i \in Packets |-> 0] /\ buffer = EmptyBuffer
NoText == tCall = TextCall("T140", 0, FALSE, 112, 2)
NoVideo == vCall = VideoCall("AVC", TRUE, 8, 2, 1, 6, FALSE, {"wide"}, 65531) /\ vTx.turns = <<>>
NoSpeech == sConf = AmrCall("AMR", TRUE, 1, 3, 6, {4}, {15, 7, 9, 0})

PathsInit ==
    /\ medium \in {"voice", "text", "video", "digits", "speech"}
    /\ Init /\ T!Init /\ V!Init /\ DtmfInit /\ S!Init
    /\ medium # "voice" => NoVoice
    /\ medium # "text" => NoText
    /\ medium # "video" => NoVideo
    /\ medium # "speech" => NoSpeech
PathsNext ==
    /\ \/ medium = "voice" /\ Next /\ UNCHANGED <<text, video, dtmfVars, speech>>
       \/ medium = "text" /\ T!Next /\ UNCHANGED <<vars, video, dtmfVars, speech>>
       \/ medium = "video" /\ V!Next /\ UNCHANGED <<vars, text, dtmfVars, speech>>
       \/ medium = "digits" /\ DtmfNext /\ UNCHANGED <<vars, text, video, speech>>
       \/ medium = "speech" /\ S!Next /\ UNCHANGED <<vars, text, video, dtmfVars>>
    /\ UNCHANGED medium
PathsSpec == PathsInit /\ [][PathsNext]_<<vars, text, video, dtmfVars, speech, medium>>
=============================================================================
