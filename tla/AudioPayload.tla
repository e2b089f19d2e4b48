----------------------------- MODULE AudioPayload -----------------------------
(***************************************************************************)
(* The payloads of AMR, AMR-WB and EVS: AudioRtpPayloadEncoderNode writes  *)
(* a header and one or more frames bit by bit, AudioRtpPayloadDecoderNode  *)
(* tells the formats apart by size and takes the payload to pieces.        *)
(*                                                                         *)
(* A payload is a set of fields, each at its bit; a frame's data is one    *)
(* field.  What was not written is zero, and a field read across others is *)
(* Garbage.                                                                *)
(***************************************************************************)
EXTENDS Integers, Sequences, FiniteSets, SequencesExt, FiniteSetsExt

CONSTANTS None, Garbage

NoData == 15

(***************************************************************************)
(* ImsMediaAudioUtil: the sizes of frames in bytes and bits, of mode 0 on. *)
(***************************************************************************)
gaAMRLen == <<12, 13, 15, 17, 19, 20, 26, 31, 5>>
gaAMRBitLen == <<95, 103, 118, 134, 148, 159, 204, 244, 39>>
gaAMRWBLen == <<17, 23, 32, 36, 40, 46, 50, 58, 60, 5>>
gaAMRWBbitLen == <<132, 177, 253, 285, 317, 365, 397, 461, 477, 40>>
gaEVSPrimaryByteLen == <<7, 18, 20, 24, 33, 41, 61, 80, 120, 160, 240, 320, 6>>
gaEVSPrimaryBitLen == [i \in 1 .. 13 |-> 8 * gaEVSPrimaryByteLen[i]]
gaEVSAmrWbIoBitLen == [i \in 1 .. 10 |-> 8 * gaAMRWBLen[i]]

\* The first mode of that many bytes, and the bits of a mode.
ModeOf(table, len, none) ==
    IF len \notin Range(table) THEN none ELSE Min({i \in DOMAIN table : table[i] = len}) - 1
BitsOf(table, mode) == IF mode + 1 \in DOMAIN table THEN table[mode + 1] ELSE 0

ConvertLenToAmrMode(len) == ModeOf(gaAMRLen, len, NoData)
ConvertLenToAmrWbMode(len) == ModeOf(gaAMRWBLen, len, NoData)
ConvertLenToEVSAudioMode(len) == ModeOf(gaEVSPrimaryByteLen, len, 0)
ConvertAmrModeToBitLen(mode) == BitsOf(gaAMRBitLen, mode)
ConvertAmrWbModeToBitLen(mode) == BitsOf(gaAMRWBbitLen, mode)
ConvertEVSAudioModeToBitLen(mode) == BitsOf(gaEVSPrimaryBitLen, mode)

\* What the size alone says of a payload: compact, in which codec mode and with which id.
ConvertEVSPayloadMode(size) ==
    CASE 8 * size \in Range(gaEVSPrimaryBitLen) ->
            [compact |-> TRUE, io |-> FALSE, id |-> ModeOf(gaEVSPrimaryByteLen, size, 0)]
      [] 8 * size \in Range(gaEVSAmrWbIoBitLen) ->
            [compact |-> TRUE, io |-> TRUE, id |-> ModeOf(gaAMRWBLen, size, 0)]
      [] OTHER -> [compact |-> FALSE, io |-> FALSE, id |-> 32]

(***************************************************************************)
(* ImsMediaBitWriter and ImsMediaBitReader.                                *)
(***************************************************************************)
Field(len, val) == [len |-> len, val |-> val]
Pad(bits) == ((bits + 7) \div 8) * 8
LenOf(fields) == FoldLeft(LAMBDA n, f : n + f.len, 0, fields)
Padded(fields) == fields \o (IF LenOf(fields) % 8 = 0 THEN <<>> ELSE <<Field(8 - (LenOf(fields) % 8), 0)>>)

Placed(fields, from) ==
    {[at |-> from + LenOf(SubSeq(fields, 1, i - 1)), len |-> fields[i].len, val |-> fields[i].val] :
        i \in DOMAIN fields}
Overlap(f, g) == f.at < g.at + g.len /\ g.at < f.at + f.len

\* The header is written from the start and the data from where its writer was sent; what
\* the data covers of the header is gone.
Payload(head, seek, body) ==
    LET data == Placed(body, seek)
    IN [fields |-> data \cup {h \in Placed(head, 0) : ~\E d \in data : Overlap(h, d)},
        size |-> Pad(seek + LenOf(body)) \div 8]

\* None past the end of the payload.
Read(p, at, len) ==
    LET there == {f \in p.fields : Overlap(f, [at |-> at, len |-> len])} IN
    CASE at + len > 8 * p.size -> None
      [] there = {} -> 0
      [] \E f \in there : f.at = at /\ f.len = len -> (CHOOSE f \in there : TRUE).val
      [] OTHER -> Garbage
\* The data of a frame is a field of its own; zeros and other bits in its place are Garbage.
ReadData(p, at, len) ==
    LET there == {f \in p.fields : f.at = at /\ f.len = len} IN
    CASE at + len > 8 * p.size -> None
      [] at + len <= 8 * p.size /\ there = {} -> Garbage
      [] OTHER -> (CHOOSE f \in there : TRUE).val

(***************************************************************************)
(* AudioRtpPayloadEncoderNode, for a configuration c.  A frame is its size *)
(* in bytes, its data and its time; the encoder is the number of frames so *)
(* far, what its two writers have written, the bytes of data and the time  *)
(* of the packet.                                                          *)
(***************************************************************************)
Begun(head, seek, ts) == [n |-> 0, head |-> head, seek |-> seek, body |-> <<>>, total |-> 0, ts |-> ts]
Idle == Begun(<<>>, 0, 0)
DataField(bits, data) == IF bits = 0 THEN <<>> ELSE <<Field(bits, data)>>
More(c, e) == IF e.n + 1 = c.frames THEN 0 ELSE 1

AmrBitLen(c, ft) == IF c.codec = "AMR" THEN ConvertAmrModeToBitLen(ft) ELSE ConvertAmrWbModeToBitLen(ft)

EncodePayloadAmr(c, e, f, cmr) ==
    LET b == IF e.n > 0 THEN e
             ELSE IF c.mOctetAligned THEN Begun(<<Field(4, cmr), Field(4, 0)>>, 8 + 8 * c.frames, f.ts)
             ELSE Begun(<<Field(4, cmr)>>, 4 + 6 * c.frames, f.ts)
        ft == IF c.codec = "AMR" THEN ConvertLenToAmrMode(f.size) ELSE ConvertLenToAmrWbMode(f.size)
        head == b.head \o <<Field(1, More(c, b)), Field(4, ft), Field(1, 1)>>
        body == b.body \o DataField(AmrBitLen(c, ft), f.data)
    IN [b EXCEPT !.n = @ + 1, !.total = @ + f.size,
                 !.head = IF c.mOctetAligned THEN Padded(head) ELSE head,
                 !.body = IF c.mOctetAligned THEN Padded(body) ELSE body]

CmrByte(cmr) == <<Field(1, 1), Field(3, cmr \div 16), Field(4, cmr % 16)>>
Toc(more, io, mode) == <<Field(1, 0), Field(1, more), Field(1, io), Field(1, io), Field(4, mode)>>

\* Compact: the frame alone, or behind three bits of request and with its first bit put last;
\* for a SID of AMR-WB IO there is no compact form.  The top bit of the lowest rate is cleared.
EncodeCompact(c, f, cmr) ==
    LET ft == IF c.io THEN ConvertLenToAmrWbMode(f.size) ELSE ConvertLenToEVSAudioMode(f.size)
        b == IF ~c.io THEN Begun(<<>>, 0, f.ts)
             ELSE IF ft = 9 THEN Begun(CmrByte(127) \o Toc(0, 1, 9), 16, f.ts)
             ELSE Begun(<<Field(3, cmr)>>, 3, f.ts)
        form == IF c.io /\ ft # 9 THEN "turned" ELSE IF ~c.io /\ ft = 0 THEN "cleared" ELSE "plain"
        bits == IF c.io THEN ConvertAmrWbModeToBitLen(ft) ELSE ConvertEVSAudioModeToBitLen(ft)
    IN [b EXCEPT !.n = c.frames, !.total = f.size, !.body = DataField(bits, [f.data EXCEPT !.form = form])]

\* Header-full: every frame sets the writers back to the start of the buffer.
EncodeHeaderFull(c, e, f, cmr) ==
    LET ft == IF c.io THEN ConvertLenToAmrWbMode(f.size) ELSE ConvertLenToEVSAudioMode(f.size)
        first == e.n = 0
        asks == first /\ (c.io \/ ft = 12 \/ c.mSendCMR)
        bits == IF c.io THEN ConvertAmrWbModeToBitLen(ft) ELSE ConvertEVSAudioModeToBitLen(ft)
    IN [n |-> e.n + 1, total |-> e.total + f.size, ts |-> IF first THEN f.ts ELSE e.ts,
        head |-> (IF asks THEN CmrByte(cmr) ELSE <<>>) \o Toc(More(c, e), IF c.io THEN 1 ELSE 0, ft),
        seek |-> (IF asks THEN 8 ELSE 0) + (IF first THEN 8 * c.frames ELSE 0),
        body |-> Padded(DataField(bits, f.data))]

Encode(c, e, f, cmr) ==
    IF c.codec # "EVS" THEN EncodePayloadAmr(c, e, f, cmr)
    ELSE IF f.size = 0 THEN e
    ELSE IF c.full THEN EncodeHeaderFull(c, e, f, cmr) ELSE EncodeCompact(c, f, cmr)

\* Mutant: a header-full payload keeps a size that is taken for a compact one.
CheckPaddingNecessityNone(size) == size
\* Header-full payloads of a compact size are made longer.
CheckPaddingNecessity(size) == Min({s \in size .. size + 4 : ~ConvertEVSPayloadMode(s).compact})

Packet(c, e) ==
    LET p == Payload(e.head, e.seek, e.body)
    IN [fields |-> p.fields, ts |-> e.ts,
        size |-> IF c.codec = "EVS" /\ c.full THEN CheckPaddingNecessity(p.size) ELSE p.size]

(***************************************************************************)
(* AudioRtpPayloadDecoderNode: the frames of a payload, and the request in *)
(* it.  What random bits would make of a header is not followed.           *)
(***************************************************************************)
\* The frames that are whole, one after the other behind the header; of each frame announced
\* its length in bits and its kind.
Frames(p, first, tocs, aligned) ==
    LET len(i) == IF aligned THEN Pad(tocs[i].bits) ELSE tocs[i].bits
        at == [i \in 1 .. Len(tocs) + 1 |-> first + FoldLeft(LAMBDA n, j : n + len(j), 0, [j \in 1 .. i - 1 |-> j])]
        whole == {i \in DOMAIN tocs : at[i + 1] <= 8 * p.size}
    IN [i \in 1 .. Cardinality(whole) |->
            [ts |-> p.ts + 20 * (i - 1), kind |-> tocs[i].kind,
             data |-> IF tocs[i].bits = 0 THEN None ELSE ReadData(p, at[i], tocs[i].bits)]]

GetAmrFrameType(c, ft) ==
    CASE AmrBitLen(c, ft) = 0 -> "NODATA"
      [] ft = (IF c.codec = "AMR" THEN 8 ELSE 9) -> "SID"
      [] OTHER -> "NORMAL"

DecodePayloadAmr(c, p) ==
    LET from == IF c.mOctetAligned THEN 8 ELSE 4
        toc == IF c.mOctetAligned THEN 8 ELSE 6
        last == Min({i \in 1 .. 1 + 8 * p.size : Read(p, from + toc * (i - 1), 1) # 1})
        announced(ft) == [bits |-> AmrBitLen(c, ft), kind |-> GetAmrFrameType(c, ft)]
    IN [cmr |-> Read(p, 0, 4),
        frames |-> IF from + toc * last > 8 * p.size THEN <<>>
                   ELSE Frames(p, from + toc * last, [i \in 1 .. last |-> announced(Read(p, from + toc * (i - 1) + 1, 4))],
                               c.mOctetAligned)]

\* A byte that is the ToC of a SID, and the first bit of a payload of a size where it tells.
SidToc(p, at) == \A i \in 0 .. 4 : Read(p, at + i, IF i = 4 THEN 4 ELSE 1) = (IF i = 4 THEN 12 ELSE 0)
TopBit(p) == IF Read(p, 0, 1) = 1 THEN 1 ELSE 0
SidBehindCmr(p) == TopBit(p) = 1 /\ SidToc(p, 8)
SidInFull(p) == \/ p.size \in {7, 8} /\ SidBehindCmr(p)
                \/ p.size = 7 /\ SidToc(p, 0)
SubType(p) == IF p.size = 1 THEN "NODATA" ELSE IF p.size \in {5, 6} \/ SidInFull(p) THEN "SID" ELSE "NORMAL"
IsFull(p) ==
    LET m == ConvertEVSPayloadMode(p.size)
    IN IF p.size = 7 /\ ~SidInFull(p) THEN TopBit(p) = 1 ELSE SidInFull(p) \/ ~m.compact

DecodeCompact(p) ==
    LET io == ConvertEVSPayloadMode(p.size).io
        ft == IF io THEN ConvertLenToAmrWbMode(p.size) ELSE ConvertLenToEVSAudioMode(p.size)
        from == IF io /\ ft # 9 THEN 3 ELSE 0
        data == ReadData(p, from, IF io THEN ConvertAmrWbModeToBitLen(ft) ELSE ConvertEVSAudioModeToBitLen(ft))
    IN [cmr |-> IF from = 3 /\ Read(p, 0, 3) # Garbage THEN Read(p, 0, 3) ELSE None,
        frames |-> IF data = None THEN <<>>
                   ELSE <<[ts |-> p.ts, kind |-> SubType(p),
                           data |-> IF from = 3 /\ data # Garbage /\ data.form = "turned"
                                    THEN [data EXCEPT !.form = "plain"] ELSE data]>>]

\* Bytes with the first bit set are requests; the others are ToCs, the last with F = 0.
DecodeHeaderFull(p) ==
    LET last == Min({i \in 1 .. p.size + 1 : Read(p, 8 * (i - 1), 1) # 1 /\ Read(p, 8 * i - 7, 1) # 1})
        tocAt == SelectSeq([i \in 1 .. last |-> 8 * (i - 1)], LAMBDA at : Read(p, at, 1) # 1)
        tocs == [i \in DOMAIN tocAt |-> <<Read(p, tocAt[i] + 2, 1), Read(p, tocAt[i] + 4, 4)>>]
        announced(toc) == [bits |-> IF toc[1] = 0 THEN ConvertEVSAudioModeToBitLen(toc[2])
                                    ELSE ConvertAmrWbModeToBitLen(toc[2]),
                           kind |-> SubType(p)]
        readable == last <= p.size /\ Read(p, 0, 1) \in {0, 1} /\ \A i \in DOMAIN tocs : tocs[i][2] # Garbage
    IN [cmr |-> IF readable /\ Read(p, 0, 1) = 1 THEN 16 * Read(p, 1, 3) + Read(p, 4, 4) ELSE None,
        frames |-> IF readable THEN Frames(p, 8 * last, [i \in DOMAIN tocs |-> announced(tocs[i])], TRUE) ELSE <<>>]

DecodePayload(c, p) ==
    IF c.codec # "EVS" THEN DecodePayloadAmr(c, p)
    ELSE IF IsFull(p) THEN DecodeHeaderFull(p) ELSE DecodeCompact(p)
=============================================================================
