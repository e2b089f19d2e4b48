------------------------------ MODULE VoicePath ------------------------------
(***************************************************************************)
(* Frames of speech from the encoder of one side to the payload decoder of *)
(* the other, and the codec mode requests (CMR) they carry: the decoder    *)
(* sends a new one as an event, and when the event is handled the session  *)
(* has its own source change its mode.                                     *)
(*                                                                         *)
(* A call is the configuration of both sides: the codec, the frames in a   *)
(* packet (mPtime / 20), for EVS header-full or compact, AMR-WB IO or      *)
(* primary, mSendCMR; the best mode and bandwidth of the receiving side;   *)
(* the modes spoken, the requests made and the length in frames.           *)
(***************************************************************************)
EXTENDS AudioPayload

CONSTANTS
    VoiceCalls,
    MaxLosses    \* bound: the packets lost

VARIABLES
    conf,
    encoder,   \* AudioRtpPayloadEncoderNode
    spoken,    \* the frames so far
    net,       \* packets on their way
    losses,    \* packets lost so far
    mPrevCMR,  \* of AudioRtpPayloadDecoderNode
    heard,     \* the frames it sent on
    pending,   \* CMR events not handled yet
    source,    \* IAudioSourceNode of the receiving side: its mode and bandwidth
    player,    \* IAudioPlayerNode there: the same
    asked      \* what the packets that arrived ask of it (auxiliary)

vars == <<conf, encoder, spoken, net, losses, mPrevCMR, heard, pending, source, player, asked>>

Own(c) == [mode |-> c.own, bw |-> c.bw]

Init ==
    /\ conf \in VoiceCalls
    /\ encoder = Idle /\ spoken = <<>> /\ net = <<>> /\ losses = 0
    /\ mPrevCMR = (IF conf.codec = "EVS" THEN 127 ELSE 15)
    /\ heard = <<>> /\ pending = <<>>
    /\ source = Own(conf) /\ player = Own(conf) /\ asked = Own(conf)

(***************************************************************************)
(* Speaking.  The encoder of this implementation requests nothing; that of *)
(* a peer may.                                                             *)
(***************************************************************************)
SizeOf(c, mode) ==
    CASE mode = NoData -> 0
      [] c.codec = "AMR" -> gaAMRLen[mode + 1]
      [] c.codec = "AMR_WB" \/ c.io -> gaAMRWBLen[mode + 1]
      [] OTHER -> gaEVSPrimaryByteLen[mode + 1]

Speak(mode, cmr) ==
    LET k == Len(spoken) + 1
        frame == [size |-> SizeOf(conf, mode), data |-> [frame |-> k, form |-> "plain"], ts |-> 20 * (k - 1)]
        e == Encode(conf, encoder, frame, cmr)
        complete == e.n = conf.frames
    IN /\ k <= conf.length
       /\ spoken' = Append(spoken, [mode |-> mode, cmr |-> cmr])
       /\ encoder' = IF complete THEN Idle ELSE e
       /\ net' = IF complete /\ e.total > 0 THEN Append(net, Packet(conf, e)) ELSE net
       /\ UNCHANGED <<conf, losses, mPrevCMR, heard, pending, source, player, asked>>

Lose ==
    /\ net # <<>> /\ losses < MaxLosses
    /\ net' = Tail(net) /\ losses' = losses + 1
    /\ UNCHANGED <<conf, encoder, spoken, mPrevCMR, heard, pending, source, player, asked>>

(***************************************************************************)
(* Requests.  An event has the type and the definition of an EVS request,  *)
(* or as its type the mode of an AMR one.                                  *)
(***************************************************************************)
CodeType == [NB |-> 0, IO |-> 1, WB |-> 2, SWB |-> 3, FB |-> 4, NoReq |-> 7]
BandwidthOf == <<"NB", "IO", "WB", "SWB", "FB", "WB", "SWB">>

\* The best bandwidth as a type.  Header-full payloads take the enumerators 1, 2, 4 and 8 for
\* 0 to 3, and have no type for the last two.
TypeOfBandwidth(bw, full) ==
    IF ~full THEN CodeType[bw]
    ELSE CASE bw = "NB" -> CodeType["WB"] [] bw = "WB" -> CodeType["SWB"] [] OTHER -> CodeType["NoReq"]

\* The request for the receiver's own best mode.
Withdrawn(c, full) ==
    LET type == TypeOfBandwidth(c.bw, full) IN
    CASE c.own <= 8 -> [type |-> CodeType["IO"], define |-> c.own]
      [] type = 7 -> [type |-> type, define |-> 15]
      [] OTHER -> [type |-> type, define |-> c.own - 9]

ProcessCMRForEVS(c, full, cmr) ==
    LET event == CASE cmr = (IF full THEN 127 ELSE 7) -> Withdrawn(c, full)
                   [] ~full -> [type |-> CodeType["IO"], define |-> <<0, 1, 2, 4, 5, 7, 8>>[cmr + 1]]
                   [] OTHER -> [type |-> cmr \div 16, define |-> cmr % 16]
    IN IF event.define = 15 THEN <<>> ELSE <<event>>

\* A request like the last one makes no event.
Request(p, cmr) ==
    IF conf.codec = "EVS"
    THEN /\ mPrevCMR' = IF cmr = None THEN mPrevCMR ELSE cmr
         /\ pending' = IF cmr \in {None, mPrevCMR} THEN pending
                       ELSE pending \o ProcessCMRForEVS(conf, IsFull(p), cmr)
    ELSE LET new == cmr # mPrevCMR /\ (cmr = 15 \/ cmr <= (IF conf.codec = "AMR" THEN 7 ELSE 8)) IN
         /\ mPrevCMR' = IF new THEN cmr ELSE mPrevCMR
         /\ pending' = IF new THEN Append(pending, [type |-> cmr, define |-> None]) ELSE pending

\* IAudioSourceNode; a channel aware mode is one of 13.2 kbps.
ProcessCmr(c, s, event) ==
    CASE c.codec # "EVS" -> [s EXCEPT !.mode = IF event.type = 15 THEN c.own ELSE event.type]
      [] c.codec = "EVS" /\ event.type = 7 -> [s EXCEPT !.mode = c.own]
      [] c.codec = "EVS" /\ event.type = 1 -> [s EXCEPT !.mode = event.define]
      [] OTHER -> [mode |-> IF event.type \in {5, 6} THEN 13 ELSE 9 + event.define,
                   bw |-> BandwidthOf[event.type + 1]]

\* The player takes a request to it for one to itself, unless it is for more than it runs at.
PlayerProcessCmr(c, s, event) ==
    IF c.codec # "EVS" \/ (event.type # 7 /\ 9 + event.define > s.mode) THEN s ELSE ProcessCmr(c, s, event)

\* AudioSession::SendInternalEvent, with a sender and a receiver that run.
HandleRequest ==
    /\ pending # <<>>
    /\ pending' = Tail(pending)
    /\ source' = ProcessCmr(conf, source, Head(pending))
    /\ player' = PlayerProcessCmr(conf, player, Head(pending))
    /\ UNCHANGED <<conf, encoder, spoken, net, losses, mPrevCMR, heard, asked>>

(***************************************************************************)
(* What the requests mean to the peer that makes them.                     *)
(***************************************************************************)
\* Whether the packet of a frame carries the request made with it, or its withdrawal.
Carried(c, f) ==
    IF c.codec = "EVS" /\ ~c.full /\ c.io /\ f.mode = 9 THEN [full |-> TRUE, cmr |-> 127]
    ELSE [full |-> c.full,
          cmr |-> IF c.codec # "EVS" \/ c.io \/ (c.full /\ (f.mode = 12 \/ c.mSendCMR)) THEN f.cmr ELSE None]

Asked(c, before, f) ==
    LET r == Carried(c, f)
        asksFor(mode) == [before EXCEPT !.mode = mode]
    IN CASE r.cmr = None -> before
         [] r.cmr # None /\ c.codec # "EVS" ->
               IF r.cmr = 15 THEN asksFor(c.own)
               ELSE IF r.cmr <= Len(IF c.codec = "AMR" THEN gaAMRLen ELSE gaAMRWBLen) - 2 THEN asksFor(r.cmr)
               ELSE before
         [] c.codec = "EVS" /\ r.cmr = (IF r.full THEN 127 ELSE 7) ->
               \* withdrawals in header-full payloads do not always reach a primary mode source
               IF r.full /\ c.own > 8 THEN [mode |-> None, bw |-> None] ELSE asksFor(c.own)
         [] c.codec = "EVS" /\ ~r.full /\ r.cmr < 7 ->
               asksFor(CASE r.cmr < 3 -> r.cmr [] r.cmr \in {3, 4} -> r.cmr + 1 [] OTHER -> r.cmr + 2)
         [] OTHER ->
               LET type == r.cmr \div 16  define == r.cmr % 16 IN
               CASE define = 15 -> before
                 [] define # 15 /\ type = 1 -> asksFor(define)
                 [] OTHER -> [mode |-> IF type < 5 THEN 9 + define ELSE 13, bw |-> BandwidthOf[type + 1]]

Receive ==
    /\ net # <<>>
    /\ net' = Tail(net)
    /\ LET p == Head(net)
           payload == DecodePayload(conf, p)
       IN /\ heard' = heard \o payload.frames
          /\ Request(p, payload.cmr)
          /\ asked' = Asked(conf, asked, spoken[p.ts \div 20 + 1])
    /\ UNCHANGED <<conf, encoder, spoken, losses, source, player>>

Next ==
    \/ \E mode \in conf.modes, cmr \in conf.cmrs : Speak(mode, cmr)
    \/ Lose
    \/ Receive
    \/ HandleRequest

Spec == Init /\ [][Next]_vars

(***************************************************************************)
(* Properties.                                                             *)
(***************************************************************************)
KindOf(c, mode) ==
    CASE mode = NoData -> "NODATA"
      [] mode = (IF c.codec = "AMR" THEN 8 ELSE IF c.codec = "EVS" THEN 12 ELSE 9) -> "SID"
      [] OTHER -> "NORMAL"

\* The 2.8 kbps frame gives its first bit away in a compact payload.
Due(c, k) ==
    LET mode == spoken[k].mode IN
    [ts |-> 20 * (k - 1), kind |-> KindOf(c, mode),
     data |-> IF mode = NoData THEN None
              ELSE [frame |-> k, form |-> IF c.codec = "EVS" /\ ~c.full /\ ~c.io /\ mode = 0 THEN "cleared" ELSE "plain"]]

\* A packet of nothing but frames without data is not sent.
SentWith(c, k) ==
    LET n == IF c.codec = "EVS" THEN 1 ELSE c.frames
        first == ((k - 1) \div n) * n + 1
    IN first .. first + n - 1
Sent(c, k) == /\ SentWith(c, k) \subseteq DOMAIN spoken
              /\ \E j \in SentWith(c, k) : spoken[j].mode # NoData

\* The other side gets the frames that were spoken, each whole, with its time and its kind,
\* in their order, and without losses all of them: whatever the codec, the mode and the size
\* of the payload, by which the decoder tells the formats of EVS apart.  And once its events
\* are handled, the source speaks in the mode and bandwidth last asked for, its own best
\* after the request is withdrawn.
SpeechUnderstood ==
    /\ \A i \in DOMAIN heard : \E k \in DOMAIN spoken : heard[i] = Due(conf, k)
    /\ \A i, j \in DOMAIN heard : i < j => heard[i].ts < heard[j].ts
    /\ net = <<>> /\ losses = 0 => Len(heard) = Cardinality({k \in DOMAIN spoken : Sent(conf, k)})
    /\ pending = <<>> => asked.mode \in {source.mode, None} /\ asked.bw \in {source.bw, None}
=============================================================================
