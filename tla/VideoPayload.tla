---------------------------- MODULE VideoPayload -----------------------------
(***************************************************************************)
(* How a video frame becomes RTP payloads and what the receiver makes of   *)
(* each payload: the NAL units of AVC and HEVC, sent as they are, in       *)
(* fragments, or several in one aggregation packet of the peer.  A NAL     *)
(* unit is its kind, its length, the frame it is of, and for a parameter   *)
(* set the shape of the picture it announces; of a payload the bytes are   *)
(* kept as the part of the unit they are.                                  *)
(***************************************************************************)
EXTENDS Integers, Sequences, SequencesExt

CONSTANTS
    MaxFragmentUnitSize,  \* the MTU of the configuration
    MAX_CONFIG_LEN,       \* the room for a parameter set
    MAX_RTP_PAYLOAD_BUFFER_SIZE,  \* the longest NAL unit of AVC, and the room for a frame to show
    MaxNalSize            \* bound on the length of a NAL unit

Mtu == (MaxFragmentUnitSize * 9) \div 10
NoNal == [kind |-> "none", size |-> 0, ts |-> 0, shape |-> "none"]
NoneStored == [vps |-> NoNal, sps |-> NoNal, pps |-> NoNal]
ConfigKinds(codec) == IF codec = "AVC" THEN {"sps", "pps"} ELSE {"vps", "sps", "pps"}

\* One RTP payload: a part of a NAL unit, or the units of an aggregation packet.
Whole(nal, mark) ==
    [unit |-> "single", nals |-> <<nal>>, from |-> 0, to |-> nal.size, S |-> FALSE, E |-> FALSE, mark |-> mark]
Part(nal, from, to, mark) ==
    [unit |-> "fu", nals |-> <<nal>>, from |-> from, to |-> to, S |-> from = 0, E |-> to = nal.size, mark |-> mark]
StapA(nals, mark) ==
    [unit |-> "stap", nals |-> nals, from |-> 0, to |-> 0, S |-> FALSE, E |-> FALSE, mark |-> mark]

(***************************************************************************)
(* The encoder.  The fragments are of the MTU while two of them are left,  *)
(* then of half of what remains; only the last may bear the marker.        *)
(***************************************************************************)
Cut(remain) == CASE remain <= Mtu -> remain
                 [] remain > Mtu /\ remain >= 2 * Mtu -> Mtu
                 [] OTHER -> remain \div 2
Cuts[remain \in 0 .. MaxNalSize] ==
    IF remain = 0 THEN <<>> ELSE <<Cut(remain)>> \o Cuts[remain - Cut(remain)]

Fragments(nal, mark) ==
    LET cuts == Cuts[nal.size]
        End(i) == FoldSeq(LAMBDA x, y : x + y, 0, SubSeq(cuts, 1, i)) IN
    [i \in DOMAIN cuts |-> Part(nal, End(i - 1), End(i), mark /\ i = Len(cuts))]

Fragmented(mode, nal) == mode = "NonInterleaved" /\ nal.size > Mtu
Encodable(nal) == nal.size # 0 /\ nal.size <= MAX_RTP_PAYLOAD_BUFFER_SIZE
EncodeAvcNALUnit(mode, nal, mark) ==
    CASE ~Encodable(nal) -> <<>>
      [] Encodable(nal) /\ Fragmented(mode, nal) -> Fragments(nal, mark)
      [] OTHER -> <<Whole(nal, mark)>>
\* The header of a unit is of two bytes; its length has no limit.
EncodeHevcNALUnit(mode, nal, mark) ==
    CASE nal.size < 2 -> <<>>
      [] nal.size >= 2 /\ Fragmented(mode, nal) -> Fragments(nal, mark)
      [] OTHER -> <<Whole(nal, mark)>>

EncodeAll(codec, mode, nals) ==
    FlattenSeq([i \in DOMAIN nals |-> IF codec = "AVC" THEN EncodeAvcNALUnit(mode, nals[i], FALSE)
                                      ELSE EncodeHevcNALUnit(mode, nals[i], FALSE)])

\* A buffer is its parameter sets and then, or not, one more NAL unit; a set too
\* long to be stored ends it.
LeadingConfig(codec, nals) == SelectSeq(nals, LAMBDA n : n.kind \in ConfigKinds(codec))
TooLong(nals) == SelectInSeq(nals, LAMBDA n : n.size > MAX_CONFIG_LEN)
Fitting(nals) == IF TooLong(nals) = 0 THEN nals ELSE SubSeq(nals, 1, TooLong(nals) - 1)
Store(stored, nals) == FoldLeft(LAMBDA acc, n : [acc EXCEPT ![n.kind] = n], stored, Fitting(nals))

\* AVC keeps the parameter sets back and sends them before each IDR picture.
EncodeAvc(mode, stored, nals) ==
    LET config == LeadingConfig("AVC", nals)
        kept == Store(stored, config)
        last == nals[Len(nals)] IN
    [stored |-> kept,
     packets |-> IF TooLong(config) # 0 \/ Len(config) = Len(nals) THEN <<>>
                 ELSE (IF last.kind = "idr" THEN EncodeAll("AVC", mode, <<kept.sps, kept.pps>>) ELSE <<>>)
                      \o EncodeAvcNALUnit(mode, last, TRUE)]

\* HEVC sends them as they come too; a set that ends its buffer bears the marker.
EncodeHevc(mode, stored, nals) ==
    LET config == LeadingConfig("HEVC", Front(nals))
        kept == Store(stored, config)
        last == nals[Len(nals)] IN
    IF TooLong(config) # 0
    THEN [stored |-> kept, packets |-> EncodeAll("HEVC", mode, SubSeq(config, 1, TooLong(config)))]
    ELSE [stored |-> IF last.kind \in ConfigKinds("HEVC") THEN Store(kept, <<last>>) ELSE kept,
          packets |-> EncodeAll("HEVC", mode, config)
                      \o (IF last.kind = "idr" THEN EncodeAll("HEVC", mode, <<kept.vps, kept.sps, kept.pps>>) ELSE <<>>)
                      \o EncodeHevcNALUnit(mode, last, TRUE)]

Encode(codec, mode, stored, nals) ==
    IF codec = "AVC" THEN EncodeAvc(mode, stored, nals) ELSE EncodeHevc(mode, stored, nals)

(***************************************************************************)
(* The decoder hands the jitter buffer one entry for each unit or part: a  *)
(* start code before what begins a unit, and the marker of a fragment from *)
(* its end bit.                                                            *)
(***************************************************************************)
AvcType(kind) ==
    CASE kind \in {"sps", "pps"} -> "CONFIGSTRING" [] kind = "idr" -> "IDR_FRAME"
      [] kind = "sei" -> "SEI_FRAME" [] OTHER -> "NON_IDR_FRAME"
HevcType(kind) ==
    CASE kind \in {"vps", "sps", "pps"} -> "CONFIGSTRING" [] kind = "idr" -> "IDR_FRAME"
      [] OTHER -> "NON_IDR_FRAME"

Piece(type, nal, from, to, header, mark) ==
    [nal |-> nal, from |-> from, to |-> to, header |-> header, mark |-> mark, type |-> type]
PieceOf(type, p) ==
    Piece(type, p.nals[1], p.from, p.to, p.unit = "single" \/ p.S, IF p.unit = "single" THEN p.mark ELSE p.E)

DecodeAvc(p) ==
    IF p.unit # "stap" THEN <<PieceOf(AvcType(p.nals[1].kind), p)>>
    ELSE [i \in DOMAIN p.nals |->
            Piece(AvcType(p.nals[i].kind), p.nals[i], 0, p.nals[i].size, TRUE, p.mark /\ i = Len(p.nals))]
\* An aggregation packet is not read.
DecodeHevc(p) == IF p.unit = "stap" THEN <<>> ELSE <<PieceOf(HevcType(p.nals[1].kind), p)>>

Decode(codec, p) == IF codec = "AVC" THEN DecodeAvc(p) ELSE DecodeHevc(p)
=============================================================================
