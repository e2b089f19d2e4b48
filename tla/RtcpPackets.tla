----------------------------- MODULE RtcpPackets -----------------------------
(***************************************************************************)
(* The compound RTCP packet and its form on the wire.  A wire is a         *)
(* sequence of 32-bit words; the header word is kept as the record of its  *)
(* fields (the version, 2 in every packet formed, is left out), a word of  *)
(* a report block that packs two fields as the record of both.  What a     *)
(* word cannot hold is cut where the code cuts it: the loss to 24 bits.    *)
(***************************************************************************)
EXTENDS Integers, Sequences, SequencesExt

LostMod == 16777216      \* 2^24, the width of the cumulative loss
RTP_MAX_RECEP_REP_CNT == 31
CNAME == 1

\* RtcpHeader: the length of a packet is its number of words less one.
FormHeader(count, pt, words) == [count |-> count, pt |-> pt, len |-> words - 1]

\* A packet: the header word, the SSRC of the sender, the rest.
FormPacket(count, pt, ssrc, rest) ==
    <<FormHeader(count, pt, 2 + Len(rest)), ssrc>> \o rest

\* The header at the front of what is left, and the SSRC behind it.
DecodeRtcpHeader(words) ==
    [count |-> words[1].count, pt |-> words[1].pt, len |-> words[1].len, ssrc |-> words[2]]

(***************************************************************************)
(* Report blocks, six words each.                                          *)
(***************************************************************************)
\* Mutant: the fraction is written over the top of an uncut loss.
FormReportBlockUncut(b) ==
    <<b.ssrc, [frac |-> b.frac, lost |-> b.lost], b.ext, b.jitter, b.lsr, b.dlsr>>

FormReportBlock(b) ==
    <<b.ssrc, [frac |-> b.frac, lost |-> b.lost % LostMod], b.ext, b.jitter, b.lsr, b.dlsr>>

DecodeReportBlock(w) ==
    [ssrc |-> w[1], frac |-> w[2].frac, lost |-> w[2].lost, ext |-> w[3], jitter |-> w[4],
     lsr |-> w[5], dlsr |-> w[6]]

\* As many blocks as the packet has room for, whatever its count says.
DecodeRrPacket(words) ==
    [i \in 1 .. Len(words) \div 6 |-> DecodeReportBlock(SubSeq(words, 6 * i - 5, 6 * i))]

FormRrPacket(p) ==
    FormPacket(p.count, "RR", p.ssrc, FlattenSeq([i \in DOMAIN p.blocks |-> FormReportBlock(p.blocks[i])]))

\* The sender's five words come before the blocks.  They are written from the
\* start of the buffer: a compound has one SR, and it is the first.
FormSrPacket(p) ==
    FormPacket(p.count, "SR", p.ssrc,
               p.info \o FlattenSeq([i \in DOMAIN p.blocks |-> FormReportBlock(p.blocks[i])]))

DecodeSrPacket(h, words) ==
    [count |-> h.count, ssrc |-> h.ssrc, info |-> SubSeq(words, 1, 5),
     blocks |-> DecodeRrPacket(SubSeq(words, 6, Len(words)))]

(***************************************************************************)
(* The others.  The one chunk of an SDES packet has its SSRC where other   *)
(* packets have that of the sender.  An item is two octets, its value and  *)
(* a zero, filled up to a word; its first word stands for all of it.       *)
(***************************************************************************)
ItemWords(item) == (2 + item.length + 1 + 3) \div 4
FormItem(item) == <<item>> \o [i \in 1 .. ItemWords(item) - 1 |-> 0]
FormRtcpChunk(items) == FlattenSeq([i \in DOMAIN items |-> FormItem(items[i])])
FormSdesPacket(p) == FormPacket(1, "SDES", p.ssrc, FormRtcpChunk(p.items))

\* As many items as this side would send itself.
DecodeRtcpChunk(words, items) ==
    LET read[n \in 0 .. items] ==
            IF n = 0 THEN [items |-> <<>>, rest |-> words]
            ELSE LET before == read[n - 1]
                     rest == before.rest
                 IN IF rest = <<>> THEN before
                    ELSE [items |-> Append(before.items, rest[1]),
                          rest |-> SubSeq(rest, ItemWords(rest[1]) + 1, Len(rest))]
    IN read[items].items

DecodeSdesPacket(words, items) ==
    LET got == DecodeRtcpChunk(words, items)
    IN [ok |-> \E i \in DOMAIN got : got[i].type = CNAME, items |-> got]

\* The first SSRC that leaves is in the header, the list has the others.
FormByePacket(p) == FormPacket(p.count, "BYE", p.ssrc, p.list)
DecodeByePacket(count, words) ==
    SubSeq(words, 1, IF count = 0 THEN 0 ELSE IF count - 1 < Len(words) THEN count - 1 ELSE Len(words))

FormRtcpFbPacket(p) == FormPacket(p.fmt, p.pt, p.ssrc, <<p.media>> \o p.fci)
DecodeRtcpFbPacket(h, words) ==
    [fmt |-> h.count, pt |-> h.pt, ssrc |-> h.ssrc, media |-> words[1], fci |-> Tail(words)]
FormRtcpXrPacket(p) == FormPacket(0, "XR", p.ssrc, p.blocks)

(***************************************************************************)
(* Compound packets.  Only the first feedback is formed.                   *)
(***************************************************************************)
EmptyCompound == [sr |-> <<>>, rr |-> <<>>, sdes |-> <<>>, bye |-> <<>>, fb |-> <<>>, xr |-> <<>>]

CanForm(c) == /\ c.sr # <<>> \/ c.rr # <<>> \/ c.bye # <<>>
              /\ c.bye # <<>> \/ c.sdes # <<>> \/ c.fb # <<>>

FormRtcpPacket(c) ==
    FlattenSeq([i \in DOMAIN c.sr |-> FormSrPacket(c.sr[i])])
    \o FlattenSeq([i \in DOMAIN c.rr |-> FormRrPacket(c.rr[i])])
    \o (IF c.sdes = <<>> THEN <<>> ELSE FormSdesPacket(c.sdes[1]))
    \o (IF c.bye = <<>> THEN <<>> ELSE FormByePacket(c.bye[1]))
    \o (IF c.fb = <<>> THEN <<>> ELSE FormRtcpFbPacket(c.fb[1]))
    \o (IF c.xr = <<>> THEN <<>> ELSE FormRtcpXrPacket(c.xr[1]))

\* SR, RR and feedback are lists; of the others the last is kept.
AddPacketData(c, kind, p) == [c EXCEPT ![kind] = Append(@, p)]

\* One packet added to what has been decoded.
DecodeOne(c, h, rest, items) ==
    CASE h.pt = "SR" ->
             IF Len(rest) < 5 THEN [ok |-> FALSE, c |-> c]
             ELSE [ok |-> TRUE, c |-> AddPacketData(c, "sr", DecodeSrPacket(h, rest))]
      [] h.pt = "RR" ->
             [ok |-> TRUE, c |-> AddPacketData(c, "rr", [count |-> h.count, ssrc |-> h.ssrc, blocks |-> DecodeRrPacket(rest)])]
      [] h.pt = "SDES" ->
             LET d == DecodeSdesPacket(rest, items)
             IN [ok |-> d.ok, c |-> [c EXCEPT !.sdes = <<[ssrc |-> h.ssrc, items |-> d.items]>>]]
      [] h.pt = "BYE" ->
             [ok |-> TRUE, c |-> [c EXCEPT !.bye = <<[count |-> h.count, ssrc |-> h.ssrc, list |-> DecodeByePacket(h.count, rest)]>>]]
      [] h.pt \in {"RTPFB", "PSFB"} ->
             [ok |-> TRUE, c |-> AddPacketData(c, "fb", DecodeRtcpFbPacket(h, rest))]
      [] h.pt = "XR" ->     \* its blocks are not read
             [ok |-> TRUE, c |-> [c EXCEPT !.xr = <<[ssrc |-> h.ssrc, blocks |-> <<>>]>>]]
      [] OTHER -> [ok |-> TRUE, c |-> c]

\* One packet after the other while there is a header; an unread one ends it.
DecodeNext(d, items) ==
    LET h == DecodeRtcpHeader(d.rest)
        one == DecodeOne(d.c, h, SubSeq(d.rest, 3, 1 + h.len), items)
    IN IF h.len = 0 \/ h.len - 1 > Len(d.rest) - 2 THEN [d EXCEPT !.ok = FALSE]
       ELSE [ok |-> one.ok, c |-> one.c, rest |-> SubSeq(d.rest, h.len + 2, Len(d.rest))]
DecodeFrom(words, items) ==
    LET decoded[n \in 0 .. Len(words)] ==
            IF n = 0 THEN [ok |-> TRUE, c |-> EmptyCompound, rest |-> words]
            ELSE LET before == decoded[n - 1]
                 IN IF before.ok /\ Len(before.rest) >= 2 THEN DecodeNext(before, items) ELSE before
    IN decoded[Len(words)]

\* A lone header word is accepted and says nothing.
DecodeRtcpPacket(words, items) ==
    LET d == DecodeFrom(words, items)
    IN [ok |-> Len(words) = 1 \/ (d.ok /\ d.c # EmptyCompound), c |-> d.c]
=============================================================================
