------------------------------ MODULE VideoPath ------------------------------
(***************************************************************************)
(* Video from the encoder of one side to the decoder of the other: the     *)
(* source and its payload encoder, the RTP encoder that adds the           *)
(* orientation to IDR pictures, a network that loses, repeats and delays,  *)
(* the RTP and payload decoders, the jitter buffer, the renderer that      *)
(* takes a frame out of it entry by entry, and the feedback that asks for  *)
(* a new picture.  The renderer gets and then deletes an entry in two      *)
(* critical sections of the buffer; packets are added between any two.     *)
(***************************************************************************)
EXTENDS VideoPayload, VideoJitterBuffer, FiniteSets

CONSTANTS
    Calls,        \* what is checked: the sender, its codec, its packetization mode and
                  \* whether it is this code (own), the length of its IDR pictures, and how
                  \* many pictures, faults of the network and ticks of the clock there are,
                  \* if the camera turns, the shapes of the pictures, and the number of its
                  \* first packet
    mCvoValue,    \* the id of the orientation in the header extension, 0 for none
    NonIdrSizes,              \* lengths of any other picture
    Turns,                    \* of the camera: [facing, orientation]
    mWidthByHeight,           \* the shape of the configuration
    Window,                   \* how far a packet overtakes
    None

VARIABLES
    call,   \* one of the calls, what is left of it
    tx,     \* the sender: parameter sets, next number, orientation, that of each picture
    net,    \* RTP packets on their way
    rx,     \* RtpDecoderNode: mSubtype; and the numbers that arrived
    jb,     \* the jitter buffer
    proc,   \* the locals of ProcessData, or None between two calls
    rd,     \* the renderer
    out     \* what the last step handed to the decoder or asked the peer for

vars == <<call, tx, net, rx, jb, proc, rd, out>>

Nothing == [data |-> <<>>, ts |-> 0, idr |-> FALSE, config |-> {}, repeated |-> FALSE, nacks |-> {}]

Init ==
    /\ call \in Calls
    /\ tx = [stored |-> NoneStored, seq |-> call.first, cvo |-> None, turns |-> <<>>, seis |-> {}]
    /\ net = <<>>
    /\ rx = [mSubtype |-> None, arrived |-> {}]
    /\ jb = Empty
    /\ proc = None
    /\ rd = [mSubtype |-> None, shape |-> mWidthByHeight, told |-> None, config |-> {}, mFirstFrame |-> FALSE]
    /\ out = Nothing

(***************************************************************************)
(* The sender.                                                             *)
(***************************************************************************)
\* Mutant: the rear camera is taken for the front camera.
SetCvoExtensionAnyCamera(facing, orientation) ==
    CASE orientation = 270 -> 1 [] orientation = 180 -> 2 [] orientation = 90 -> 3 [] OTHER -> 0
\* The rotation code of the extension: that of the rear camera is mirrored.
SetCvoExtension(facing, orientation) ==
    LET code == CASE orientation = 270 -> 1 [] orientation = 180 -> 2 [] orientation = 90 -> 3 [] OTHER -> 0 IN
    IF facing = "rear" /\ code \in {1, 3} THEN 4 - code ELSE code

\* Bound: a picture is sent when no more than the window is on its way.
CanSend == Len(tx.turns) < call.frames /\ Len(net) < Window

Nal(kind, size, shape) == [kind |-> kind, size |-> size, ts |-> Len(tx.turns) + 1, shape |-> shape]
Config(shape) ==
    LET sets == <<Nal("sps", 3, shape), Nal("pps", 2, "none")>> IN
    IF call.codec = "AVC" THEN sets ELSE <<Nal("vps", 2, "none")>> \o sets

\* ProcessVideoData: the orientation goes with the last packet of an IDR picture.
Packet(payloads, i, cvo) ==
    [seq |-> (tx.seq + i - 1) % U16, ts |-> Len(tx.turns) + 1, payload |-> payloads[i],
     cvo |-> IF mCvoValue > 0 /\ payloads[i].mark /\ payloads[i].nals[1].kind = "idr" THEN cvo ELSE None]

Send(payloads, stored, cvo, seis) ==
    /\ net' = net \o [i \in DOMAIN payloads |-> Packet(payloads, i, cvo)]
    /\ tx' = [tx EXCEPT !.stored = stored, !.seq = (@ + Len(payloads)) % U16, !.seis = @ \cup seis, !.cvo = cvo,
                        !.turns = Append(@, IF cvo = None THEN None ELSE cvo.turn)]
    /\ out' = Nothing /\ UNCHANGED <<call, rx, jb, proc, rd>>

\* The codec hands out new parameter sets in a buffer before the picture; the
\* camera may have been turned, or changed, since the last one.
SendIdr(shape, turn) ==
    LET cvo == IF turn = None \/ mCvoValue = 0 THEN tx.cvo
               ELSE [turn |-> turn, code |-> SetCvoExtension(turn.facing, turn.orientation)]
        before == IF shape = tx.stored.sps.shape THEN [stored |-> tx.stored, packets |-> <<>>]
                  ELSE Encode(call.codec, call.mode, tx.stored, Config(shape))
        coded == Encode(call.codec, call.mode, before.stored, <<Nal("idr", call.idr, shape)>>) IN
    /\ call.own /\ CanSend /\ (turn # None => call.turns)
    /\ Send(before.packets \o coded.packets, coded.stored, cvo, {})

SendNonIdr(size) ==
    LET coded == Encode(call.codec, call.mode, tx.stored, <<Nal("non", size, "none")>>) IN
    /\ tx.turns # <<>> /\ CanSend
    /\ Send(coded.packets, coded.stored, tx.cvo, {})

\* Another implementation aggregates, and sends an SEI message before the picture.
SendAggregated(shape) ==
    /\ ~call.own /\ CanSend
    /\ Send(<<Whole(Nal("sei", 4, "none"), FALSE), StapA(Config(shape) \o <<Nal("idr", call.idr, shape)>>, TRUE)>>,
            tx.stored, None, {tx.seq})

(***************************************************************************)
(* The network and the receiver up to the buffer.                          *)
(***************************************************************************)
Rotation(code) == CASE code \in {0, 4} -> 0 [] code \in {1, 5} -> 90 [] code \in {2, 6} -> 180 [] OTHER -> 270
\* The id is read from a signed byte: 8 and more come out negative.
CvoKnown(packet) == packet.cvo # None /\ mCvoValue < 8

OnMediaDataInd(packet) ==
    LET subtype == IF CvoKnown(packet) THEN Rotation(packet.cvo.code) ELSE rx.mSubtype
        pieces == Decode(call.codec, packet.payload)
        Entry(piece) == [nal |-> piece.nal, from |-> piece.from, to |-> piece.to, header |-> piece.header,
                         mark |-> piece.mark, type |-> piece.type, seq |-> packet.seq, ts |-> packet.ts,
                         subtype |-> subtype, valid |-> FALSE] IN
    /\ rx' = [mSubtype |-> subtype, arrived |-> rx.arrived \cup {packet.seq}]
    /\ jb' = FoldLeft(Add, jb, [i \in DOMAIN pieces |-> Entry(pieces[i])])
    /\ proc' = IF proc # None /\ packet.seq \in rx.arrived THEN [proc EXCEPT !.repeated = TRUE] ELSE proc
    /\ out' = Nothing

Fault == call.faults > 0 /\ call' = [call EXCEPT !.faults = @ - 1]

Deliver ==
    /\ net # <<>> /\ OnMediaDataInd(Head(net))
    /\ net' = Tail(net)
    /\ UNCHANGED <<call, tx, rd>>

Overtake(i) ==
    /\ i \in DOMAIN net /\ Fault /\ OnMediaDataInd(net[i])
    /\ net' = RemoveAt(net, i)
    /\ UNCHANGED <<tx, rd>>

Repeat ==
    /\ net # <<>> /\ Fault /\ OnMediaDataInd(Head(net))
    /\ \E i \in 1 .. Min({Len(net), Window}) : net' = InsertAt(Tail(net), i, Head(net))
    /\ UNCHANGED <<tx, rd>>

Lose ==
    /\ net # <<>> /\ Fault
    /\ net' = Tail(net)
    /\ out' = Nothing /\ UNCHANGED <<tx, rx, jb, proc, rd>>

(***************************************************************************)
(* The renderer.                                                           *)
(***************************************************************************)
\* The shape the application is told, the device held upright.
NotifyPeerDimensionChanged(r) ==
    [r EXCEPT !.told = CASE r.mSubtype \in {0, 180} -> r.shape
                         [] r.mSubtype \in {90, 270} -> IF r.shape = "wide" THEN "tall" ELSE "wide"
                         [] OTHER -> @]

CheckResolution(r, shape) ==
    IF shape = r.shape THEN r ELSE NotifyPeerDimensionChanged([r EXCEPT !.shape = shape])

SaveConfigFrame(r, nal) == [r EXCEPT !.config = {n \in @ : n.kind # nal.kind} \cup {nal}]

\* A frame that is to be shown: the first is announced, and a new orientation.
ShowFrame(r, subtype) ==
    LET first == IF r.mFirstFrame THEN r
                 ELSE [r EXCEPT !.mFirstFrame = TRUE, !.told = IF mCvoValue <= 0 THEN r.shape ELSE @]
        turned == IF r.mSubtype = None /\ subtype = None THEN 0 ELSE subtype IN
    IF mCvoValue > 0 /\ turned # None /\ turned # r.mSubtype
    THEN NotifyPeerDimensionChanged([first EXCEPT !.mSubtype = turned]) ELSE first

\* The parameter sets kept go to the decoder before an IDR picture.
QueueConfigFrame == {n \in rd.config : n.kind \in ConfigKinds(call.codec)}

\* ProcessData after its loop, which left data, subtype and timestamp.
GetFrameType(data) == IF data[1].header THEN data[1].nal.kind ELSE "unknown"
HandOver(data, subtype, ts, repeated, nacks) ==
    LET kind == GetFrameType(data)
        saved == SaveConfigFrame(rd, data[1].nal) IN
    IF data = <<>> THEN rd' = rd /\ out' = [Nothing EXCEPT !.nacks = nacks]
    ELSE IF kind \in {"vps", "sps", "pps"}
    THEN /\ rd' = IF kind = "sps" THEN CheckResolution(saved, data[1].nal.shape) ELSE saved
         /\ out' = [Nothing EXCEPT !.nacks = nacks]
    ELSE /\ rd' = ShowFrame(rd, subtype)
         /\ out' = [data |-> data, ts |-> ts, idr |-> kind = "idr", repeated |-> repeated, nacks |-> nacks,
                    config |-> IF kind = "idr" THEN QueueConfigFrame ELSE {}]

Begun == IF proc = None THEN [data |-> <<>>, ts |-> 0, subtype |-> None, ends |-> FALSE, got |-> FALSE, repeated |-> FALSE]
         ELSE proc
\* hasStartingCode: an entry of no more than the start code is not taken for one.
HasStartingCode(e) == e.header /\ e.to > e.from

\* The bytes of an entry, the start code counting as one.  What would not fit in mBuffer ends
\* the call: it is deleted, and what was put together before it is not shown.
Bytes(e) == (e.to - e.from) + IF e.header THEN 1 ELSE 0
Exceeds(data, e) == FoldSeq(LAMBDA x, size : Bytes(x) + size, Bytes(e), data) > MAX_RTP_PAYLOAD_BUFFER_SIZE
Accumulated(data, e) == IF Exceeds(data, e) THEN <<>> ELSE Append(data, e)

\* One GetData of the loop; it ends when nothing is got, at another timestamp and at
\* a start code, and what was got last is the subtype of the frame.
ProcessDataGet(due) ==
    LET r == Get(jb, due)
        e == r.buffer.q[1] IN
    /\ ~Begun.got
    /\ jb' = r.buffer
    /\ IF ~r.goes
       THEN proc' = None /\ HandOver(Begun.data, None, 0, Begun.repeated, r.nacks)
       ELSE IF Begun.ts # 0 /\ (e.ts # Begun.ts \/ HasStartingCode(e))
       THEN proc' = None /\ HandOver(Begun.data, e.subtype, e.ts, Begun.repeated, r.nacks)
       ELSE /\ proc' = [Begun EXCEPT !.data = Accumulated(@, e), !.ts = e.ts, !.subtype = e.subtype,
                                       !.ends = e.mark \/ Exceeds(Begun.data, e), !.got = TRUE]
            /\ out' = [Nothing EXCEPT !.nacks = r.nacks] /\ rd' = rd
    /\ UNCHANGED <<call, tx, net, rx>>

ProcessDataDelete ==
    /\ proc # None /\ proc.got
    /\ jb' = Delete(jb)
    /\ IF proc.ends
       THEN proc' = None /\ HandOver(proc.data, proc.subtype, proc.ts, proc.repeated, {})
       ELSE proc' = [proc EXCEPT !.got = FALSE] /\ out' = Nothing /\ rd' = rd
    /\ UNCHANGED <<call, tx, net, rx>>

(***************************************************************************)
(* Feedback and time.                                                      *)
(***************************************************************************)
Time == call.ticks > 0 /\ call' = [call EXCEPT !.ticks = @ - 1]

UpdateRoundTripTimeDelay ==
    /\ Time /\ ~jb.mResponseWaitTime /\ jb' = [jb EXCEPT !.mResponseWaitTime = TRUE]
    /\ out' = Nothing /\ UNCHANGED <<tx, net, rx, proc, rd>>

Tick ==
    /\ Time /\ jb' = PassTime(jb)
    /\ out' = Nothing /\ UNCHANGED <<tx, net, rx, proc, rd>>

Next ==
    \/ \E shape \in call.shapes, turn \in Turns \cup {None} : SendIdr(shape, turn)
    \/ \E size \in NonIdrSizes : SendNonIdr(size)
    \/ \E shape \in call.shapes : SendAggregated(shape)
    \/ Deliver
    \/ \E i \in 2 .. Window : Overtake(i)
    \/ Repeat
    \/ Lose
    \/ \E due \in BOOLEAN : ProcessDataGet(due)
    \/ ProcessDataDelete
    \/ UpdateRoundTripTimeDelay
    \/ Tick

Spec == Init /\ [][Next]_vars

(***************************************************************************)
(* Properties.                                                             *)
(***************************************************************************)
\* Everything handed to the decoder is of one NAL unit and without a hole.  It is the
\* beginning of a unit that fits, with its start code, in the buffer of the renderer, and all
\* of it unless a packet came twice while it was put together: the renderer takes a frame out
\* of the jitter buffer piece by piece, packets being added between any two, and pieces of two
\* frames, or one with a gap, would show as a broken picture.  (Of a longer unit the rest is
\* handed on without its beginning: see the README.)
FramesWhole ==
    LET d == out.data
        Fits(nal) == nal.size + 1 <= MAX_RTP_PAYLOAD_BUFFER_SIZE IN
    d # <<>> =>
        /\ \A i \in DOMAIN d : d[i].nal = d[1].nal /\ (i > 1 => d[i].from = d[i - 1].to)
        /\ Fits(d[1].nal) =>
               /\ d[1].header /\ d[1].from = 0
               /\ d[Len(d)].to = d[1].nal.size \/ out.repeated

\* How far the receiver has to turn a picture of the camera that sent it.
ToTurn(turn) == IF turn.facing = "rear" THEN turn.orientation ELSE (360 - turn.orientation) % 360

\* A whole IDR picture is shown turned as it was when it was sent, and the
\* application knows the shape it has then, whatever order its packets and those
\* of the pictures around it came in: the orientation travels with one packet and
\* stays behind in the decoder for all that follow.
IdrShownAsSent ==
    LET sent == tx.turns[out.data[1].ts] IN
    (out.data # <<>> /\ out.idr /\ ~out.repeated /\ mCvoValue > 0 /\ sent # None) =>
        /\ rd.mSubtype = ToTurn(sent)
        /\ rd.told = IF ToTurn(sent) \in {90, 270} THEN (IF rd.shape = "wide" THEN "tall" ELSE "wide") ELSE rd.shape

\* A NACK names no packet that has arrived, except an SEI message, which the buffer
\* does not keep: what is asked for again is counted in two ways, from the first
\* number lost and from how many are due.
NackNamesMissing == \A nack \in out.nacks : Named(nack) \cap rx.arrived \subseteq tx.seis

\* A Get on a buffer with more frames than it may keep hands an entry out, unless
\* the pacing holds it back, or drops the oldest frame: no hole before the head and
\* no frame that is never whole stops the video for good.
FullBufferGoesOn ==
    LET r == Get(jb, TRUE) IN
    jb.mNewInputData /\ Len(jb.q) > mMaxSaveFrameNum /\ Scan(jb).saved > mMaxSaveFrameNum => r.goes \/ Len(r.buffer.q) < Len(jb.q)
=============================================================================
