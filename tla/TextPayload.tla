----------------------------- MODULE TextPayload -----------------------------
(***************************************************************************)
(* Real time text in RTP payloads: a T.140 block as it is, or, with the    *)
(* redundancy of RFC 4103, after the blocks of the packets before it.  A   *)
(* block is a sequence of characters.  The configuration of a stream is    *)
(* its codec, mRedundantLevel, mKeepRedundantLevel, and three payload type *)
(* numbers: mRtpPayloadTx, mRtpPayloadRx, and mRedundantPayload, that of   *)
(* the T.140 blocks within redundant text, or 0.                           *)
(***************************************************************************)
EXTENDS ImsMediaDataQueue, SequencesExt

BOM == 0
HEADER == -1   \* the bytes of the headers of redundant blocks, where they are taken for text
U16 == 65536

(***************************************************************************)
(* The encoder keeps the blocks it has sent, each with how often it still  *)
(* is to be sent.                                                          *)
(***************************************************************************)
HasText(queue) == \E i \in DOMAIN queue : queue[i].text # <<>>

\* The first stale entries are too long ago for the timestamp offset.
WithoutSpent(queue) ==
    LET first == SelectInSeq(queue, LAMBDA e : e.left # 0) IN
    IF first = 0 THEN ClearEntries(queue) ELSE SubSeq(queue, first, Len(queue))
Remaining(level, queue, stale) ==
    LET within == SubSeq(queue, Len(queue) - Min({level, Len(queue)}) + 1, Len(queue)) IN
    WithoutSpent(SubSeq(within, Min({stale, Len(within)}) + 1, Len(within)))

\* After an idle period only new text is sent, unless older text is still to be repeated.
\* Mutant: the text still to be repeated is forgotten.
AfterIdleForgetful(queue, mark) == IF mark THEN ClearEntries(queue) ELSE queue
AfterIdle(queue, mark) == IF mark /\ ~HasText(queue) THEN ClearEntries(queue) ELSE queue

NullBlock == [text |-> <<>>, left |-> 1]
Padded(conf, queue) ==
    IF conf.keep THEN [i \in 1 .. conf.level - Len(queue) |-> NullBlock] \o queue ELSE queue

\* ProcessTextData: the payload type.  Redundant blocks go under the number to send; without
\* them it is that of T.140 if the level is above 1, and otherwise the number to receive.
PayloadType(conf, red) ==
    IF red THEN conf.mRtpPayloadTx
    ELSE IF conf.level > 1 /\ conf.mRedundantPayload > 0 THEN conf.mRedundantPayload
    ELSE conf.mRtpPayloadRx

Packet(conf, queue, text) ==
    [red |-> queue # <<>>, blocks |-> [i \in DOMAIN queue |-> queue[i].text], text |-> text,
     type |-> PayloadType(conf, queue # <<>>)]

\* idle: more than the buffering time has passed since the last packet.
EncodeT140(conf, queue, text, idle, stale) ==
    LET kept == Padded(conf, AfterIdle(Remaining(conf.level, queue, stale), text # <<>> /\ idle))
        once == [i \in DOMAIN kept |-> [kept[i] EXCEPT !.left = @ - 1]] IN
    IF conf.codec = "T140" \/ (text = <<>> /\ queue = <<>>)
    THEN [queue |-> queue, packet |-> Packet(conf, <<>>, text)]
    ELSE [queue |-> AddEntry(once, [text |-> text, left |-> conf.level]), packet |-> Packet(conf, kept, text)]

(***************************************************************************)
(* The decoder hands on each block with the sequence number its packet had *)
(* when the block was new.                                                 *)
(***************************************************************************)
\* The other side receives what this side sends, and sends what it receives.
Peer(conf) == [conf EXCEPT !.mRtpPayloadTx = conf.mRtpPayloadRx, !.mRtpPayloadRx = conf.mRtpPayloadTx]

\* OnMediaDataInd asks for the number to send, not the one to receive.  A packet under a
\* number that is neither this nor that of T.140 is what the one before it was.
Known(conf, type) == type \in {conf.mRtpPayloadTx, conf.mRedundantPayload}
Subtype(conf, type, before) ==
    IF ~Known(conf, type) THEN before
    ELSE IF type = conf.mRtpPayloadTx /\ conf.mRedundantPayload # 0 THEN "T140_RED" ELSE "T140"

\* A T.140 block taken for redundant ones: what begins a byte order mark is the header of a
\* block that is not there, and the first byte of other text that of the primary block.
Misread(text, seq) ==
    IF text[1] = BOM THEN <<>> ELSE <<[seq |-> seq, text |-> Tail(text)]>>

\* Redundant blocks taken for one T.140 block: the headers are part of its text.
Unseparated(packet) == IF packet.red THEN <<HEADER>> \o FlattenSeq(packet.blocks) \o packet.text ELSE packet.text

RedundantSeq(seq, n, i) == (seq - (n - i + 1)) % U16

DecodeT140(subtype, packet, seq) ==
    LET n == Len(packet.blocks)
        primary == [seq |-> seq, text |-> packet.text]
        redundant == [i \in 1 .. n |-> [seq |-> RedundantSeq(seq, n, i), text |-> packet.blocks[i]]] IN
    CASE subtype = "undefined" -> <<>>
      [] subtype = "T140" -> <<[primary EXCEPT !.text = Unseparated(packet)]>>
      [] subtype = "T140_RED" /\ packet.red -> Append(redundant, primary)
      [] subtype = "T140_RED" /\ ~packet.red /\ packet.text = <<>> -> <<primary>>
      [] OTHER -> Misread(packet.text, seq)
=============================================================================
