------------------------------ MODULE TextPath -------------------------------
(***************************************************************************)
(* Real time text from what one side types to what the other is shown: the *)
(* source and its payload encoder, a network that loses, repeats and       *)
(* delays, the RTP and payload decoders, the jitter buffer, and the        *)
(* renderer.  Packets are decoded and added by the thread of the socket    *)
(* monitor, block by block; the renderer, on the thread of the scheduler,  *)
(* gets a block, shows it, and deletes the first of the buffer.            *)
(***************************************************************************)
EXTENDS TextPayload

CONSTANTS
    Calls,       \* [conf, chars: how many are typed, faults of the network, first: its first number]
    MaxBlock,    \* RTT_MAX_CHAR_PER_BUFFERING
    MaxSent,     \* bound on the packets of a call
    Window,      \* how far a packet overtakes
    None

VARIABLES
    call,    \* one of the calls, what is left of it
    tx,      \* the source and the encoder
    net,     \* packets on their way, n the place in the call
    rx,      \* the receiver: mSubtype, the packet it is at, its blocks still to be added, those
             \* that came; and if one came under an unknown number (auxiliary)
    jb,      \* the jitter buffer
    rd,      \* the renderer
    shown,   \* what it has shown: a block, and how many replacements before it
    raced    \* another block was deleted than the one shown (auxiliary)

vars == <<call, tx, net, rx, jb, rd, shown, raced>>

Init ==
    /\ call \in Calls
    /\ tx = [mDataQueue |-> <<>>, typed |-> 0, mSentBOM |-> FALSE, mRedundantCount |-> 0,
             mBufferQueue |-> <<>>, blocks |-> <<>>]
    /\ net = <<>>
    /\ rx = [mSubtype |-> "undefined", n |-> 0, incoming |-> <<>>, arrived |-> {}, unknown |-> FALSE]
    /\ jb = [q |-> <<>>, mFirstFrameReceived |-> FALSE, mLastPlayedSeqNum |-> 0]
    /\ rd = [got |-> None, mFirstFrameReceived |-> FALSE, mBOMReceived |-> FALSE, mLastPlayedSeq |-> 0,
             waiting |-> FALSE]
    /\ shown = <<>> /\ raced = FALSE

(***************************************************************************)
(* The sender.                                                             *)
(***************************************************************************)
\* SendRtt: one character after the other.
SendRtt ==
    /\ tx.typed < call.chars
    /\ tx' = [tx EXCEPT !.typed = @ + 1, !.mDataQueue = AddEntry(@, tx.typed + 1)]
    /\ UNCHANGED <<call, net, rx, jb, rd, shown, raced>>

\* ProcessData of the source, when the buffering time is over: the byte order mark first,
\* then what was typed, then empty blocks that carry the last text again.
NextBlock ==
    IF tx.mDataQueue = <<>> THEN <<>>
    ELSE IF ~tx.mSentBOM THEN <<BOM>>
    ELSE SubSeq(tx.mDataQueue, 1, Min({MaxBlock, Len(tx.mDataQueue)}))
Sent(n) == (call.first + n - 1) % U16

ProcessData(idle, stale) ==
    LET text == NextBlock
        coded == EncodeT140(call.conf, tx.mBufferQueue, text, idle \/ tx.blocks = <<>>, stale) IN
    /\ tx.mDataQueue # <<>> \/ tx.mRedundantCount > 0
    /\ Len(tx.blocks) < MaxSent /\ Len(net) < Window
    /\ stale > 0 => idle /\ ~HasText(tx.mBufferQueue)
    /\ tx' = [tx EXCEPT !.mBufferQueue = coded.queue, !.blocks = Append(@, text), !.mSentBOM = @ \/ text # <<>>,
                        !.mDataQueue = IF text = <<BOM>> THEN @ ELSE SubSeq(@, Len(text) + 1, Len(@)),
                        !.mRedundantCount = IF text = <<>> THEN @ - 1 ELSE call.conf.level + 1]
    /\ net' = Append(net, [n |-> Len(tx.blocks) + 1, packet |-> coded.packet])
    /\ UNCHANGED <<call, rx, jb, rd, shown, raced>>

(***************************************************************************)
(* The network, and the receiver up to the buffer.                         *)
(***************************************************************************)
OnMediaDataInd(p) ==
    LET own == Peer(call.conf)
        subtype == Subtype(own, p.packet.type, rx.mSubtype)
        blocks == DecodeT140(subtype, p.packet, Sent(p.n)) IN
    /\ rx.incoming = <<>>
    /\ rx' = [rx EXCEPT !.mSubtype = subtype, !.n = p.n, !.incoming = blocks,
                        !.arrived = IF blocks = <<>> THEN @ \cup {p.n} ELSE @,
                        !.unknown = @ \/ ~Known(own, p.packet.type)]

Fault == call.faults > 0 /\ call' = [call EXCEPT !.faults = @ - 1]

Deliver ==
    /\ net # <<>> /\ OnMediaDataInd(Head(net))
    /\ net' = Tail(net)
    /\ UNCHANGED <<call, tx, jb, rd, shown, raced>>

Overtake(i) ==
    /\ i \in DOMAIN net /\ Fault /\ OnMediaDataInd(net[i])
    /\ net' = RemoveAt(net, i)
    /\ UNCHANGED <<tx, jb, rd, shown, raced>>

Repeat ==
    /\ net # <<>> /\ Fault /\ OnMediaDataInd(Head(net))
    /\ net' = Append(Tail(net), Head(net))
    /\ UNCHANGED <<tx, jb, rd, shown, raced>>

Lose ==
    /\ net # <<>> /\ Fault
    /\ net' = Tail(net)
    /\ UNCHANGED <<tx, rx, jb, rd, shown, raced>>

\* USHORT_SEQ_ROUND_COMPARE: a is b or later, the sequence numbers going round.
RoundCompare(a, b) ==
    \/ a >= b /\ (b >= 655 \/ a <= 65535 - 655)
    \/ a <= 655 /\ b >= 65535 - 655

\* Add of the jitter buffer: in the order of the numbers, each once, none that is too late.
FirstLater(q, seq) == SelectInSeq(q, LAMBDA e : ~RoundCompare(seq, e.seq))
IsThere(q, seq) == \E i \in DOMAIN q : q[i].seq = seq
TooLate(seq) == jb.mFirstFrameReceived /\ RoundCompare(jb.mLastPlayedSeqNum, seq)
Placed(q, block) ==
    IF q = <<>> \/ ~RoundCompare(LastEntry(q).seq, block.seq) THEN AddEntry(q, block)
    ELSE IF IsThere(q, block.seq) THEN q
    ELSE InsertEntryAt(q, FirstLater(q, block.seq) - 1, block)

Add ==
    LET block == Head(rx.incoming) IN
    /\ rx.incoming # <<>>
    /\ rx' = [rx EXCEPT !.incoming = Tail(@), !.arrived = IF Len(rx.incoming) = 1 THEN @ \cup {rx.n} ELSE @]
    /\ jb' = IF TooLate(block.seq) THEN jb ELSE [jb EXCEPT !.q = Placed(@, block)]
    /\ UNCHANGED <<call, tx, net, rd, shown, raced>>

(***************************************************************************)
(* The renderer.                                                           *)
(***************************************************************************)
Unread == rd.got = None /\ HasEntryAt(jb.q, 0)
Lost == LET diff == (FirstEntry(jb.q).seq - rd.mLastPlayedSeq) % U16 IN
        IF rd.mFirstFrameReceived /\ diff > 1 THEN diff - 1 ELSE 0

\* A packet is missing: it is waited for from now on.
WaitForLost ==
    /\ Unread /\ Lost > 0 /\ ~rd.waiting
    /\ rd' = [rd EXCEPT !.waiting = TRUE]
    /\ UNCHANGED <<call, tx, net, rx, jb, shown, raced>>

\* The place in the call of the packet with a sequence number.
PlaceOf(seq) == ((seq - call.first + 32768) % U16) - 32768 + 1
TextOf(n) == IF n \in DOMAIN tx.blocks THEN SelectSeq(tx.blocks[n], LAMBDA c : c # BOM) ELSE <<>>
Level == IF call.conf.codec = "T140" THEN 0 ELSE call.conf.level
Carried(n) == n .. n + Level

\* What was got is shown, after as many replacements as packets are missing when the time to
\* wait for them is over.
Show ==
    LET e == FirstEntry(jb.q)
        text == IF ~rd.mBOMReceived /\ e.text # <<>> /\ Head(e.text) = BOM THEN Tail(e.text) ELSE e.text
        n == PlaceOf(e.seq) IN
    /\ Unread /\ (Lost > 0 => rd.waiting)
    /\ rd' = [got |-> e, mFirstFrameReceived |-> TRUE, mBOMReceived |-> rd.mBOMReceived \/ text # e.text,
              mLastPlayedSeq |-> e.seq, waiting |-> FALSE]
    /\ shown' = Append(shown, [n |-> n, lost |-> Lost, text |-> text,
                               gaveUpTooEarly |-> \E k \in n - Lost .. n - 1 :
                                                    TextOf(k) # <<>> /\ Carried(k) \cap rx.arrived # {}])
    /\ UNCHANGED <<call, tx, net, rx, jb, raced>>

Deleted(b) == [q |-> DeleteEntry(b.q), mFirstFrameReceived |-> TRUE, mLastPlayedSeqNum |-> FirstEntry(b.q).seq]

DeleteData ==
    /\ rd.got # None
    /\ jb' = Deleted(jb)
    /\ rd' = [rd EXCEPT !.got = None]
    /\ raced' = (raced \/ FirstEntry(jb.q) # rd.got)
    /\ UNCHANGED <<call, tx, net, rx, shown>>

Next ==
    \/ SendRtt
    \/ \E idle \in BOOLEAN, stale \in 0 .. Len(tx.mBufferQueue) : ProcessData(idle, stale)
    \/ Deliver
    \/ \E i \in 2 .. Window : Overtake(i)
    \/ Repeat
    \/ Lose
    \/ Add
    \/ WaitForLost
    \/ Show
    \/ DeleteData

Spec == Init /\ [][Next]_vars

(***************************************************************************)
(* Properties.                                                             *)
(***************************************************************************)
\* From the first block shown on, every block of the call is shown, in the order it was
\* sent, once, and unchanged, or a replacement stands for it; and text is only replaced when
\* neither its own packet nor any of those that carry it again has come.  The blocks come in
\* any of several packets, out of order and twice, and are added while others are shown.
\* This is so until a packet comes under a number the receiver does not know, which can only
\* be redundant text that the two sides do not send under the same number.  (A block added
\* before the one being shown is deleted in its place: see the README.)
TextShownOnce ==
    /\ rx.unknown => call.conf.codec # "T140" /\ call.conf.mRtpPayloadTx # call.conf.mRtpPayloadRx
    /\ ~raced /\ ~rx.unknown => \A i \in DOMAIN shown :
           /\ IF i = 1 THEN shown[i].lost = 0 ELSE shown[i].n = shown[i - 1].n + shown[i].lost + 1
           /\ shown[i].text = TextOf(shown[i].n)
           /\ ~shown[i].gaveUpTooEarly

\* Text without redundant blocks is sent in a T.140 RTP packet: under the payload type of
\* T.140, whatever the level.
NewTextIsSentAsT140 ==
    \A i \in DOMAIN net :
        call.conf.mRedundantPayload > 0 /\ ~net[i].packet.red =>
            net[i].packet.type = call.conf.mRedundantPayload
=============================================================================
