----------------------------- MODULE RtpSession ------------------------------
(***************************************************************************)
(* One RTP session: the sequence numbers it sends and counts, the members  *)
(* it hears of, its RTCP packets, and a collision of its SSRC.  The thread *)
(* of the RTP socket, the thread of the RTCP socket, the RTCP timer and    *)
(* the threads that ask for feedback meet in it; a compound packet is made *)
(* and then sent under the lock of the session, which a received RTP       *)
(* packet takes too, but a received RTCP packet, an RTP packet to send and *)
(* the XR block of the quality analyzer do not.  The network may lose,     *)
(* repeat and reorder.  When the timer runs is the module RtcpTimer.       *)
(***************************************************************************)
EXTENDS RtpReceiverInfo, RtcpPackets, FiniteSets

CONSTANTS
    PeerSsrcs, LocalSsrcs,  \* SSRCs of others; those generated for this side
    CsrcLists,              \* CSRC lists of the packets received
    StartSeq,               \* the first sequence number of each sender
    MtuSize, SdesItems,
    MaxIdx, MaxSteps,       \* bounds
    Nothing

\* There is always another SSRC to take, and the blocks of all others fit in one
\* report.
ASSUME SessionAssumption ==
    /\ RTP_SEQ_MOD \in Nat /\ MaxDropout \in Nat \ {0} /\ MaxMisorder \in Nat \ {0}
    /\ MaxDropout + MaxMisorder < RTP_SEQ_MOD
    /\ StartSeq \in 0 .. RTP_SEQ_MOD - 1 /\ MaxIdx \in Nat /\ MaxSteps \in Nat /\ Nothing \notin Nat
    /\ CsrcLists \subseteq Seq(PeerSsrcs \cup LocalSsrcs)
    /\ IsFiniteSet(PeerSsrcs) /\ Cardinality(PeerSsrcs) <= RTP_MAX_RECEP_REP_CNT
    /\ \A x \in LocalSsrcs : LocalSsrcs # {x}
    /\ SdesItems \in Nat /\ MtuSize \in Nat
    /\ 40 + 8 * SdesItems + 24 * Cardinality(PeerSsrcs) < MtuSize

VARIABLES
    session,   \* the members of RtpSession that are no list
    app,       \* rtpStarted, rtcpStarted, mEnableRtcpTx of IRtpSession; its peer's SSRC
    members,   \* m_pobjRtpRcvrInfoList
    held,      \* the compound packet between its making and its sending, or Nothing
    colliding, \* the RTP thread has met its own SSRC and is about to send a BYE
    out,       \* what the last step handed on: an RTP packet to the decoder,
               \* (or refused), an RTCP packet to the socket, or nothing
    told,      \* of each SSRC, what came, counted without wrapping
    steps      \* taken towards the bound

rtpVars == <<session, app, members, held, colliding, out, told, steps>>

Port == 1
Idx == 0 .. MaxIdx
NumberOf(idx) == (StartSeq + idx) % RTP_SEQ_MOD
Unheard == [by |-> "none", first |-> 0, highest |-> 0, got |-> 0, expPrior |-> 0, gotPrior |-> 0,
            odd |-> Nothing, heard |-> FALSE]

RtpInit ==
    /\ \E ssrc \in LocalSsrcs : session = [m_uiSsrc |-> ssrc, m_usSeqNum |-> RTP_SEQ_MOD - 1, sent |-> FALSE,
           m_bEnableRTP |-> FALSE, m_bEnableRTCP |-> FALSE, m_bEnableRTCPBye |-> FALSE,
           m_bFirstRtpRecvd |-> FALSE, m_bRtpSendPkt |-> FALSE, m_bSelfCollisionByeSent |-> FALSE,
           m_bSndRtcpByePkt |-> FALSE, m_bisXr |-> FALSE, xr |-> FALSE]
    /\ app = [rtpStarted |-> 0, rtcpStarted |-> 0, mEnableRtcpTx |-> FALSE, mPeerRtpSsrc |-> 0]
    /\ members = <<>> /\ held = Nothing /\ colliding = FALSE
    /\ out = Nothing
    /\ told = [p \in PeerSsrcs |-> Unheard]
    /\ steps = 0

Step == steps < MaxSteps /\ steps' = steps + 1

(***************************************************************************)
(* Starting and stopping.  The encoder and the decoder share the session;  *)
(* the encoder may set the sequence number to go on with.                  *)
(***************************************************************************)
StartRtp(context) ==
    /\ app.rtpStarted < 2 /\ Step
    /\ app' = [app EXCEPT !.rtpStarted = @ + 1]
    /\ session' = [session EXCEPT !.m_bEnableRTP = TRUE, !.m_usSeqNum = IF context = Nothing THEN @ ELSE (context + 1) % RTP_SEQ_MOD]
    /\ out' = Nothing /\ UNCHANGED <<members, held, colliding, told>>

StopRtp ==
    /\ app.rtpStarted > 0 /\ Step
    /\ app' = [app EXCEPT !.rtpStarted = @ - 1]
    /\ session' = [session EXCEPT !.m_bEnableRTP = app.rtpStarted > 1]
    /\ out' = Nothing /\ UNCHANGED <<members, held, colliding, told>>

StartRtcp(bye) ==
    /\ app.rtcpStarted = 0 /\ Step
    /\ app' = [app EXCEPT !.rtcpStarted = 1, !.mEnableRtcpTx = TRUE]
    /\ session' = [session EXCEPT !.m_bEnableRTCP = TRUE, !.m_bEnableRTCPBye = bye]
    /\ out' = Nothing /\ UNCHANGED <<members, held, colliding, told>>

StopRtcp ==
    /\ app.rtcpStarted > 0 /\ Step
    /\ app' = [app EXCEPT !.rtcpStarted = 0, !.mEnableRtcpTx = FALSE]
    /\ session' = [session EXCEPT !.m_bEnableRTCP = FALSE, !.m_bEnableRTCPBye = FALSE]
    /\ out' = Nothing /\ UNCHANGED <<members, held, colliding, told>>

\* The first packet has the number the session began with.
createRtpPacket(s) ==
    [s EXCEPT !.m_usSeqNum = IF s.sent THEN (@ + 1) % RTP_SEQ_MOD ELSE @, !.sent = TRUE, !.m_bRtpSendPkt = TRUE]

SendRtp ==
    /\ session.m_bEnableRTP /\ Step
    /\ session' = createRtpPacket(session)
    /\ out' = Nothing /\ UNCHANGED <<app, members, held, colliding, told>>

(***************************************************************************)
(* Receiving RTP.                                                          *)
(***************************************************************************)
IndexIn(ms, ssrc) == IF \E i \in DOMAIN ms : ms[i].ssrc = ssrc
                     THEN CHOOSE i \in DOMAIN ms : ms[i].ssrc = ssrc /\ \A j \in 1 .. i - 1 : ms[j].ssrc # ssrc
                     ELSE 0
findEntryInRcvrList(ms, ssrc) == IndexIn(ms, ssrc) # 0
\* The members at the places S, in their order.
Chosen(ms, S) ==
    LET taken[n \in 0 .. Len(ms)] ==
            IF n = 0 THEN <<>> ELSE IF n \in S THEN Append(taken[n - 1], ms[n]) ELSE taken[n - 1]
    IN taken[Len(ms)]

\* The address of a member is that of the one peer; only ports can differ.
checkSsrcCollisionOnRcv(ssrc, port) ==
    LET i == IndexIn(members, ssrc) IN
    CASE i = 0 -> "new"
      [] i # 0 /\ members[i].csrc -> "csrc"
      [] i # 0 /\ ~members[i].csrc /\ members[i].port # port -> "collision"
      [] OTHER -> "old"

processCsrcList(ms, csrcs) ==
    LET listed[n \in 0 .. Len(csrcs)] ==
            IF n = 0 THEN ms
            ELSE LET before == listed[n - 1]
                 IN IF findEntryInRcvrList(before, csrcs[n]) THEN before
                    ELSE Append(before, [NewReceiverInfo(csrcs[n], 0) EXCEPT !.csrc = TRUE])
    IN listed[Len(csrcs)]

generateNewSsrc == CHOOSE x \in LocalSsrcs : x # session.m_uiSsrc

\* The member a packet belongs to as it is before the packet is counted.
MemberFor(ssrc, seq) ==
    LET i == IndexIn(members, ssrc)
        result == checkSsrcCollisionOnRcv(ssrc, Port)
        fresh(m) == [InitSeq(m, seq) EXCEPT !.sender = TRUE]
    IN CASE result = "new" -> fresh(NewReceiverInfo(ssrc, Port))
         [] result = "csrc" -> [fresh(members[i]) EXCEPT !.port = Port]
         [] result = "old" /\ ~session.m_bFirstRtpRecvd -> fresh(members[i])
         [] OTHER -> members[i]

\* What came, counted without wrapping: a jump starts over when the number
\* after it comes.  A member first heard of by RTCP is counted only when its
\* packet is the first of the session, one listed as a CSRC never.
Follows(t, idx) == idx - t.highest > -MaxMisorder /\ idx - t.highest < MaxDropout
Begun(idx) == [Unheard EXCEPT !.by = "rtp", !.first = idx, !.highest = idx, !.got = 1, !.heard = TRUE]
Heard(t, idx) ==
    CASE Follows(t, idx) -> [t EXCEPT !.got = @ + 1, !.highest = IF idx > @ THEN idx ELSE @, !.heard = TRUE]
      [] ~Follows(t, idx) /\ t.odd # Nothing /\ NumberOf(idx) = NumberOf(t.odd + 1) -> Begun(idx)
      [] OTHER -> [t EXCEPT !.odd = idx, !.heard = TRUE]
Told(ssrc, idx, csrcs) ==
    [p \in PeerSsrcs |->
        LET t == told[p]
            begins == \/ t.by = "none"
                      \/ t.by = "other" /\ ~session.m_bFirstRtpRecvd /\ checkSsrcCollisionOnRcv(p, Port) = "old"
        IN CASE p = ssrc /\ begins -> Begun(idx)
             [] p = ssrc /\ t.by = "rtp" -> Heard(t, idx)
             [] p # ssrc /\ t.by = "none" /\ p \in Range(csrcs) -> [t EXCEPT !.by = "other"]
             [] OTHER -> t]

\* One of this side's own SSRC: with BYE packets the identity changes once
\* the BYE is sent, without at once.
RecvOwn(ssrc, csrcs) ==
    /\ ssrc = session.m_uiSsrc \/ session.m_uiSsrc \in Range(csrcs)
    /\ session.m_bEnableRTP /\ held = Nothing /\ ~colliding /\ Step
    /\ IF session.m_bEnableRTCP /\ session.m_bEnableRTCPBye /\ session.m_bRtpSendPkt
       THEN session' = [session EXCEPT !.m_bSelfCollisionByeSent = TRUE]
       ELSE session' = [session EXCEPT !.m_uiSsrc = generateNewSsrc]
    /\ colliding' = TRUE
    /\ out' = Nothing /\ UNCHANGED <<app, members, held, told>>

\* What the service hands to the listener of the session, which learns the
\* SSRC of the peer from it.
Arrived(ssrc, idx, handed) == [rtp |-> ssrc, idx |-> idx, handed |-> handed]
OnPeerInd(ssrc, ok) == app' = [app EXCEPT !.mPeerRtpSsrc = IF ok THEN ssrc ELSE @]

RecvRtp(ssrc, idx, csrcs) ==
    /\ ssrc # session.m_uiSsrc /\ session.m_uiSsrc \notin Range(csrcs)
    /\ session.m_bEnableRTP /\ held = Nothing /\ ~colliding /\ Step
    /\ IF checkSsrcCollisionOnRcv(ssrc, Port) = "collision"
       THEN out' = Arrived(ssrc, idx, FALSE) /\ UNCHANGED <<session, app, members, told>>
       ELSE LET i == IndexIn(members, ssrc)
                known == processCsrcList(IF i = 0 THEN Append(members, MemberFor(ssrc, NumberOf(idx))) ELSE members, csrcs)
                updated == UpdateSeq(MemberFor(ssrc, NumberOf(idx)), NumberOf(idx))
            IN /\ members' = [known EXCEPT ![IndexIn(known, ssrc)] = [updated.m EXCEPT !.total = TRUE, !.sender = TRUE]]
               /\ session' = [session EXCEPT !.m_bFirstRtpRecvd = TRUE]
               /\ OnPeerInd(ssrc, updated.ok)
               /\ out' = Arrived(ssrc, idx, updated.ok)
               /\ told' = Told(ssrc, idx, csrcs)
    /\ UNCHANGED <<held, colliding>>

\* A payload type that was not agreed on: the packet is dropped before it counts.
RecvUnknownPayload ==
    /\ session.m_bEnableRTP /\ held = Nothing /\ ~colliding /\ Step
    /\ out' = Nothing /\ UNCHANGED <<session, app, members, held, colliding, told>>

(***************************************************************************)
(* Receiving RTCP, without the lock.                                       *)
(***************************************************************************)
processRtcpPkt(ms, ssrc, port) ==
    IF findEntryInRcvrList(ms, ssrc) THEN ms ELSE Append(ms, NewReceiverInfo(ssrc, port))

\* An SSRC is listed once.  The one who leaves first is in the header; nothing
\* is deleted when the list of the others is empty.
delEntryFromRcvrList(ms, ssrcs) == Chosen(ms, {i \in DOMAIN ms : ms[i].ssrc \notin ssrcs})
processByePacket(ms, bye) ==
    IF bye.list = <<>> THEN ms ELSE delEntryFromRcvrList(ms, {bye.ssrc} \cup Range(bye.list))

AfterSr(ms, sr) == LET known == processRtcpPkt(ms, sr.ssrc, Port)
                   IN [known EXCEPT ![IndexIn(known, sr.ssrc)].lsr = 1]

processRcvdRtcpPkt(c) ==
    LET sr == IF c.sr = <<>> THEN members ELSE AfterSr(members, c.sr[1])
        rr == IF c.rr = <<>> THEN sr ELSE processRtcpPkt(sr, c.rr[1].ssrc, Port - Len(c.sr))
    IN IF c.bye = <<>> THEN rr ELSE processByePacket(rr, c.bye[1])

RecvRtcp(words) ==
    LET got == DecodeRtcpPacket(words, SdesItems)
        ms == processRcvdRtcpPkt(got.c)
    IN /\ session.m_bEnableRTCP /\ Step /\ got.ok
       /\ members' = ms
       /\ told' = [p \in PeerSsrcs |->
              CASE ~findEntryInRcvrList(ms, p) -> Unheard
                [] findEntryInRcvrList(ms, p) /\ told[p].by = "none" -> [told[p] EXCEPT !.by = "other"]
                [] OTHER -> told[p]]
       /\ out' = Nothing /\ UNCHANGED <<session, app, held, colliding>>

(***************************************************************************)
(* Making a compound packet.                                               *)
(***************************************************************************)
getSenderCount == Cardinality({i \in DOMAIN members : members[i].sender /\ members[i].total})

estimateRtcpPktSize ==
    IF session.m_bSelfCollisionByeSent \/ session.m_bSndRtcpByePkt THEN 8 ELSE IF SdesItems > 0 THEN 4 + 8 * SdesItems ELSE 0
ReportDefSize(isSR) == IF isSR THEN 28 ELSE 8
calculateTotalRtcpSize(n, isSR) ==
    LET packets == IF n = 0 THEN 1 ELSE (n + RTP_MAX_RECEP_REP_CNT - 1) \div RTP_MAX_RECEP_REP_CNT
    IN estimateRtcpPktSize + packets * ReportDefSize(isSR) + n * 24
numberOfReportBlocks ==
    LET room == MtuSize - estimateRtcpPktSize
        full == ReportDefSize(TRUE) + RTP_MAX_RECEP_REP_CNT * 24
    IN ((room % full) - ReportDefSize(TRUE)) \div 24 + (room \div full) * RTP_MAX_RECEP_REP_CNT
ReportCount(isSR) == IF calculateTotalRtcpSize(getSenderCount, isSR) < MtuSize THEN getSenderCount ELSE numberOfReportBlocks

\* The members a report of n blocks is about (one more when there are more
\* senders); they have not sent since.  The list is turned round: members that
\* did not send come first, the first of them last.
Reporting(ms, n) ==
    {i \in DOMAIN ms : ms[i].sender /\ n > 0 /\ Cardinality({j \in 1 .. i - 1 : ms[j].sender}) <= n}
populateReportPacket(ms, n) ==
    LET S == Reporting(ms, n)
        after == [i \in DOMAIN ms |-> IF i \in S THEN [Reported(ms[i]) EXCEPT !.sender = FALSE] ELSE ms[i]]
        others == Chosen(ms, {i \in DOMAIN ms \ S : ~ms[i].csrc})
        kept == Chosen(after, {i \in DOMAIN ms : i \in S \/ ms[i].csrc})
        reported == Chosen(ms, S)
    IN [blocks |-> [i \in DOMAIN reported |-> PopulateReportBlock(reported[i])],
        members |-> IF n = 0 THEN ms
                    ELSE IF others = <<>> THEN kept ELSE Tail(others) \o <<Head(others)>> \o kept]

\* As many packets as hold n blocks, one at least.
formReportList(n) ==
    LET packets == IF n = 0 THEN 1 ELSE (n + RTP_MAX_RECEP_REP_CNT - 1) \div RTP_MAX_RECEP_REP_CNT
        formed[k \in 0 .. packets] ==
            IF k = 0 THEN [list |-> <<>>, members |-> members]
            ELSE LET before == formed[k - 1]
                     left == n - (k - 1) * RTP_MAX_RECEP_REP_CNT
                     now == IF left > RTP_MAX_RECEP_REP_CNT THEN RTP_MAX_RECEP_REP_CNT ELSE left
                     made == populateReportPacket(before.members, now)
                 IN [list |-> Append(before.list, [count |-> now, ssrc |-> session.m_uiSsrc, blocks |-> made.blocks]),
                     members |-> made.members]
    IN formed[packets]
SenderInfo == <<0, 0, 0, IF session.sent THEN 1 ELSE 0, 0>>
formSrList(n) ==
    LET made == formReportList(n)
        sr(r) == [count |-> r.count, ssrc |-> r.ssrc, info |-> SenderInfo, blocks |-> r.blocks]
    IN [list |-> [i \in DOMAIN made.list |-> sr(made.list[i])], members |-> made.members]
formRrList(n) == formReportList(n)

populateByePacket == [count |-> 1, ssrc |-> session.m_uiSsrc, list |-> <<>>]
constructSdesPkt == [ssrc |-> session.m_uiSsrc, items |-> [i \in 1 .. SdesItems |-> [type |-> CNAME, length |-> 3]]]
\* A block whose buffer is gone is sent as zeros.
populateRtcpXrPacket == [ssrc |-> session.m_uiSsrc, blocks |-> IF session.xr THEN <<1>> ELSE <<0>>]
populateRtcpFbPacket(f) == [fmt |-> f.fmt, pt |-> f.pt, ssrc |-> session.m_uiSsrc, media |-> app.mPeerRtpSsrc, fci |-> f.fci]

\* What the reports owe: each one heard since the last, and its losses.
Due == {[ssrc |-> p, ext |-> NumberOf(told[p].first) + told[p].highest - told[p].first,
         lost |-> told[p].highest - told[p].first + 1 - told[p].got,
         frac |-> Fraction(told[p].highest - told[p].first + 1 - told[p].expPrior, told[p].got - told[p].gotPrior)]
        : p \in {q \in PeerSsrcs : told[q].by = "rtp" /\ told[q].heard}}
Accounted == [p \in PeerSsrcs |->
    IF told[p].by = "rtp" /\ told[p].heard
    THEN [told[p] EXCEPT !.heard = FALSE, !.expPrior = told[p].highest - told[p].first + 1, !.gotPrior = told[p].got]
    ELSE told[p]]

rtpMakeCompoundRtcpPacket(kind, leaving, feedback) ==
    LET isSR == session.m_bRtpSendPkt \/ session.m_bSelfCollisionByeSent \/ leaving
        made == IF isSR THEN formSrList(ReportCount(TRUE)) ELSE formRrList(ReportCount(FALSE))
        says == session.m_bSelfCollisionByeSent \/ leaving
    IN /\ held = Nothing
       /\ held' = [kind |-> kind, due |-> Due,
                   c |-> [sr |-> IF isSR THEN made.list ELSE <<>>, rr |-> IF isSR THEN <<>> ELSE made.list,
                          bye |-> IF says THEN <<populateByePacket>> ELSE <<>>,
                          sdes |-> IF ~says /\ SdesItems > 0 THEN <<constructSdesPkt>> ELSE <<>>,
                          fb |-> feedback,
                          xr |-> IF session.m_bisXr THEN <<populateRtcpXrPacket>> ELSE <<>>]]
       /\ members' = made.members /\ told' = Accounted
       /\ session' = [session EXCEPT !.m_bisXr = FALSE, !.m_bSndRtcpByePkt = leaving]
       /\ out' = Nothing /\ UNCHANGED app

\* rtcpTimerExpiry once it is time to send.
MakeReport ==
    /\ session.m_bEnableRTCP /\ Step
    /\ rtpMakeCompoundRtcpPacket("report", session.m_bSndRtcpByePkt, <<>>)
    /\ UNCHANGED colliding

\* What a node asks SendRtcpFeedback for while its RTCP is started: a NACK, a PLI, a TMMBR.
Feedbacks == {[pt |-> "RTPFB", fmt |-> 1, fci |-> <<1>>], [pt |-> "PSFB", fmt |-> 1, fci |-> <<>>],
              [pt |-> "RTPFB", fmt |-> 3, fci |-> <<1, 2>>]}
\* sendRtcpRtpFbPacket, sendRtcpPayloadFbPacket
MakeFeedback(f) ==
    /\ app.rtcpStarted > 0 /\ Step
    /\ rtpMakeCompoundRtcpPacket("feedback", session.m_bSndRtcpByePkt, <<populateRtcpFbPacket(f)>>)
    /\ UNCHANGED colliding

\* Mutant: no BYE while the flag, which RecvOwn sets, says that one was sent.
SendRtcpByePacketOnce ==
    /\ colliding /\ session.m_bEnableRTCP /\ session.m_bEnableRTCPBye
    /\ ~session.m_bSelfCollisionByeSent
    /\ rtpMakeCompoundRtcpPacket("bye", TRUE, <<>>)
    /\ UNCHANGED <<colliding, steps>>

\* sendRtcpByePacket, which the RTP thread calls when it met its own SSRC.
\* Once set, m_bSndRtcpByePkt stays.
SendRtcpByePacket ==
    /\ colliding /\ session.m_bEnableRTCP /\ session.m_bEnableRTCPBye
    /\ rtpMakeCompoundRtcpPacket("bye", TRUE, <<>>)
    /\ UNCHANGED <<colliding, steps>>
NoByeToSend ==
    /\ colliding /\ ~(session.m_bEnableRTCP /\ session.m_bEnableRTCPBye) /\ held = Nothing
    /\ colliding' = FALSE
    /\ out' = Nothing /\ UNCHANGED <<session, app, members, held, told, steps>>

\* What is formed goes out while the listener has its RTCP started.
OnRtcpPacket(c) == IF app.mEnableRtcpTx /\ CanForm(c) THEN [rtcp |-> FormRtcpPacket(c), of |-> c] ELSE Nothing

\* rtpSendRtcpPacket and what its callers do after it.
RtpSendRtcpPacket ==
    /\ held # Nothing
    /\ out' = OnRtcpPacket(held.c)
    /\ session' = [session EXCEPT !.xr = FALSE, !.m_bRtpSendPkt = @ /\ held.kind # "report",
                                  !.m_uiSsrc = IF held.kind = "bye" /\ session.m_bSelfCollisionByeSent
                                               THEN generateNewSsrc ELSE @]
    /\ colliding' = (colliding /\ held.kind # "bye")
    /\ held' = Nothing /\ UNCHANGED <<app, members, told, steps>>

\* sendRtcpXrPacket, without the lock.
SendRtcpXr ==
    /\ app.rtcpStarted > 0 /\ ~session.m_bisXr /\ Step
    /\ session' = [session EXCEPT !.m_bisXr = TRUE, !.xr = TRUE]
    /\ out' = Nothing /\ UNCHANGED <<app, members, held, colliding, told>>

\* What the peer sends: reports of its own, feedback, and who leaves.
PeerReport(p) == [count |-> 1, ssrc |-> p, blocks |-> <<[ssrc |-> session.m_uiSsrc, frac |-> 0, lost |-> 0,
                  ext |-> 0, jitter |-> 0, lsr |-> 0, dlsr |-> 0]>>]
PeerItems == [i \in 1 .. SdesItems |-> [type |-> CNAME, length |-> 5]]
PeerCompounds ==
    {[EmptyCompound EXCEPT !.sr = <<[info |-> SenderInfo] @@ PeerReport(p)>>, !.sdes = <<[ssrc |-> p, items |-> PeerItems]>>] : p \in PeerSsrcs}
    \cup {[EmptyCompound EXCEPT !.rr = <<PeerReport(p)>>, !.bye = <<[count |-> 1 + Cardinality(PeerSsrcs \ {p}), ssrc |-> p, list |-> SetToSeq(PeerSsrcs \ {p})]>>] : p \in PeerSsrcs}
    \cup {[EmptyCompound EXCEPT !.rr = <<PeerReport(p)>>, !.bye = <<[count |-> 1, ssrc |-> p, list |-> <<>>]>>] : p \in PeerSsrcs}
    \cup {[EmptyCompound EXCEPT !.rr = <<PeerReport(p)>>, !.fb = <<[fmt |-> 1, pt |-> "PSFB", ssrc |-> p, media |-> session.m_uiSsrc, fci |-> <<>>]>>] : p \in PeerSsrcs}

\* What is on its way is never so late or so far ahead that its number means
\* another packet.
Arriving(ssrc, idx) ==
    told[ssrc].by = "rtp" => /\ idx - told[ssrc].highest >= -MaxMisorder
                             /\ idx - told[ssrc].highest < RTP_SEQ_MOD - MaxMisorder

RtpNext ==
    \/ \E context \in {Nothing, RTP_SEQ_MOD - 2} : StartRtp(context)
    \/ StopRtp
    \/ \E bye \in BOOLEAN : StartRtcp(bye)
    \/ StopRtcp
    \/ SendRtp
    \/ \E ssrc \in PeerSsrcs, csrcs \in CsrcLists : RecvOwn(ssrc, csrcs)
    \/ \E ssrc \in PeerSsrcs, idx \in Idx, csrcs \in CsrcLists : Arriving(ssrc, idx) /\ RecvRtp(ssrc, idx, csrcs)
    \/ RecvUnknownPayload
    \/ \E c \in PeerCompounds : RecvRtcp(FormRtcpPacket(c))
    \/ MakeReport
    \/ \E f \in Feedbacks : MakeFeedback(f)
    \/ SendRtcpByePacket \/ NoByeToSend
    \/ RtpSendRtcpPacket
    \/ SendRtcpXr

\* The thread that met its own SSRC goes on, and whoever holds the lock.
RtpFairness == WF_rtpVars(SendRtcpByePacket \/ NoByeToSend) /\ WF_rtpVars(RtpSendRtcpPacket)

RtpSpec == RtpInit /\ [][RtpNext]_rtpVars /\ RtpFairness

------------------------------------------------------------------------------
\* Every SSRC heard since the last report is in the report, with the losses
\* and the extended sequence number an observer without wrapping counts.
LossReportsTrue ==
    held # Nothing =>
        \A d \in held.due :
            \E r \in Range(held.c.sr) \cup Range(held.c.rr) :
                \E b \in Range(r.blocks) : b.ssrc = d.ssrc /\ b.ext = d.ext /\ b.lost = d.lost /\ b.frac = d.frac

\* A packet that is the first of its sender, or comes within the window of
\* what came before, reaches the decoder.
Punctual(ssrc, idx) == told[ssrc].by = "none" \/ (told[ssrc].by = "rtp" /\ Follows(told[ssrc], idx))
PunctualDelivered ==
    [][(out' # Nothing /\ "rtp" \in DOMAIN out' /\ Punctual(out'.rtp, out'.idx)) => out'.handed]_rtpVars

\* What goes out reads back as what was meant, losses cut to their 24 bits and
\* XR blocks unread.
Sent(c) ==
    LET cut(r) == [r EXCEPT !.blocks = [i \in DOMAIN r.blocks |-> [r.blocks[i] EXCEPT !.lost = @ % LostMod]]]
    IN [c EXCEPT !.sr = [i \in DOMAIN c.sr |-> cut(c.sr[i])], !.rr = [i \in DOMAIN c.rr |-> cut(c.rr[i])],
                 !.xr = [i \in DOMAIN c.xr |-> [c.xr[i] EXCEPT !.blocks = <<>>]]]
WireRoundTrip ==
    (out # Nothing /\ "rtcp" \in DOMAIN out) =>
        DecodeRtcpPacket(out.rtcp, SdesItems) = [ok |-> TRUE, c |-> Sent(out.of)]

\* Having met its own SSRC the session takes another, unless RTCP stops first.
CollisionIsResolved ==
    \A x \in LocalSsrcs :
        (/\ colliding /\ session.m_bSelfCollisionByeSent /\ session.m_uiSsrc = x
         /\ session.m_bEnableRTCP /\ session.m_bEnableRTCPBye)
            ~> (session.m_uiSsrc # x \/ ~session.m_bEnableRTCP)
=============================================================================
