-------------------------- MODULE RtpSession_proofs --------------------------
(***************************************************************************)
(* An RTP session, in two parts.                                           *)
(*                                                                         *)
(* RtpSession, for any peers whose blocks fit in one report, any number of *)
(* packets and any sequence numbers: the reports tell the losses, and what *)
(* comes in its window reaches the decoder.  The members are compared with *)
(* what an observer counts without wrapping.  What the session sends reads *)
(* back, part by part, as what was meant.                                  *)
(*                                                                         *)
(* RtcpTimer, for any number of timers and of overlapping restarts: a      *)
(* callback that is left when the session is deleted does nothing with it. *)
(***************************************************************************)
EXTENDS RtpSession, RtcpTimer, FiniteSetTheorems, SequenceTheorems, WellFoundedInduction, TLAPS

(* The members of one SSRC, port and time of the last SR. *)
MembersOf(ssrc, port, lsr) ==
    [ssrc : {ssrc}, port : {port}, sender : BOOLEAN, csrc : BOOLEAN, total : BOOLEAN,
     base : Nat, max : Nat, bad : Nat, cycles : Int, received : Int,
     expectedPrior : Int, receivedPrior : Int, lsr : {lsr}]
IsMember(m) == m \in MembersOf(m.ssrc, m.port, m.lsr)

(* What an observer of one SSRC can have counted. *)
Counts ==
    [by : {"none", "other", "rtp"}, first : Nat, highest : Nat, got : Nat, expPrior : Int,
     gotPrior : Int, odd : Nat \cup {Nothing}, heard : BOOLEAN]

(* A list of members, none listed twice. *)
IsList(q) == q \in Seq(Range(q))
Apart(f, S) == \A i, j \in S : f[i].ssrc = f[j].ssrc => i = j
Lineup(ms) == IsList(ms) /\ (\A i \in DOMAIN ms : IsMember(ms[i])) /\ Apart(ms, DOMAIN ms)

(* Who has sent since its last report is one of the peers. *)
Roster(ms) == Lineup(ms) /\ \A i \in DOMAIN ms : ms[i].sender => ms[i].total /\ ms[i].ssrc \in PeerSsrcs

(* A member that is no CSRC, of the one port of the peer. *)
Plain(m) == m.port = Port /\ ~m.csrc

(* A member m agrees with what the observer t counted without wrapping: its highest
   number is that of the highest packet, its cycles make up the difference, and the
   number it waits for after a jump is the one after the packet that jumped. *)
Same(m, t) ==
    /\ m.base = NumberOf(t.first) /\ m.max = NumberOf(t.highest)
    /\ GetExtSeqNum(m) - m.base = t.highest - t.first
    /\ m.received = t.got /\ m.expectedPrior = t.expPrior /\ m.receivedPrior = t.gotPrior
    /\ m.bad = IF t.odd = Nothing THEN RTP_SEQ_MOD + 1 ELSE NumberOf(t.odd + 1)

Agrees(m, t) == Plain(m) /\ m.total /\ (m.sender <=> t.heard) /\ Same(m, t)

(* Whom the observer knows is listed, and a sender of RTP packets agrees with it. *)
Observed(ms, td, received) ==
    /\ Roster(ms) /\ td \in [PeerSsrcs -> Counts]
    /\ \A p \in PeerSsrcs : td[p].by = "none" => \A i \in DOMAIN ms : ms[i].ssrc # p
    /\ \A p \in PeerSsrcs : td[p].by # "none" => \E i \in DOMAIN ms : ms[i].ssrc = p
    /\ \A i \in DOMAIN ms : ms[i].ssrc \in PeerSsrcs /\ td[ms[i].ssrc].by = "rtp" =>
           received /\ Agrees(ms[i], td[ms[i].ssrc])

RtpTypeOK ==
    /\ session \in [m_uiSsrc : LocalSsrcs, m_usSeqNum : 0 .. RTP_SEQ_MOD - 1, sent : BOOLEAN,
           m_bEnableRTP : BOOLEAN, m_bEnableRTCP : BOOLEAN, m_bEnableRTCPBye : BOOLEAN,
           m_bFirstRtpRecvd : BOOLEAN, m_bRtpSendPkt : BOOLEAN, m_bSelfCollisionByeSent : BOOLEAN,
           m_bSndRtcpByePkt : BOOLEAN, m_bisXr : BOOLEAN, xr : BOOLEAN]
    /\ app \in [rtpStarted : 0 .. 2, rtcpStarted : 0 .. 1, mEnableRtcpTx : BOOLEAN,
                mPeerRtpSsrc : PeerSsrcs \cup {0}]
    /\ colliding \in BOOLEAN /\ steps \in 0 .. MaxSteps

ReportsInv == RtpTypeOK /\ Observed(members, told, session.m_bFirstRtpRecvd) /\ LossReportsTrue

(* The least element of a set of numbers. *)
LessThan == {p \in Nat \X Nat : p[1] < p[2]}

LEMMA LessThanIsWellFounded == IsWellFoundedOn(LessThan, Nat)
<1>1. LessThan = OpToRel(<, Nat)
  BY Zenon DEF LessThan, OpToRel
<1> QED
  BY <1>1, NatLessThanWellFounded

LEMMA LeastNat == ASSUME NEW T \in SUBSET Nat, T # {} PROVE \E x \in T : \A y \in T : x <= y
<1>4. PICK x \in T : \A y \in T : ~ (<<y, x>> \in LessThan)
  BY LessThanIsWellFounded, WFMin
<1>5. ASSUME NEW y \in T PROVE x <= y
  <2>1. x \in Nat /\ y \in Nat
    OBVIOUS
  <2>2. y < x => <<y, x>> \in LessThan
    BY <2>1 DEF LessThan
  <2> QED
    BY <1>4, <2>1, <2>2
<1> QED
  BY <1>5

LEMMA Bounds ==
  /\ RTP_SEQ_MOD \in Nat /\ MaxDropout \in Nat /\ MaxMisorder \in Nat /\ StartSeq \in Nat
  /\ MaxDropout > 0 /\ MaxMisorder > 0 /\ MaxDropout + MaxMisorder < RTP_SEQ_MOD
  /\ StartSeq < RTP_SEQ_MOD /\ Nothing \notin Nat
  BY SessionAssumption

(* Division with a remainder. *)
LEMMA Divided ==
  ASSUME NEW a \in Int
  PROVE  \E q \in Int : a = q * RTP_SEQ_MOD + (a % RTP_SEQ_MOD) /\ a % RTP_SEQ_MOD \in 0 .. RTP_SEQ_MOD - 1
<1>1. RTP_SEQ_MOD \in Nat /\ RTP_SEQ_MOD > 0
  BY Bounds
<1>2. a = RTP_SEQ_MOD * (a \div RTP_SEQ_MOD) + (a % RTP_SEQ_MOD) /\ a % RTP_SEQ_MOD \in 0 .. RTP_SEQ_MOD - 1
  BY <1>1
<1>3. a \div RTP_SEQ_MOD \in Int
  BY <1>1
<1> QED
  BY <1>1, <1>2, <1>3

(* A remainder is determined by the number it leaves after whole cycles. *)
LEMMA Remainder ==
  ASSUME NEW a \in Int, NEW q \in Int, NEW r \in 0 .. RTP_SEQ_MOD - 1, a = q * RTP_SEQ_MOD + r
  PROVE  a % RTP_SEQ_MOD = r
<1>1. RTP_SEQ_MOD \in Nat /\ RTP_SEQ_MOD > 0
  BY Bounds
<1>2. PICK p \in Int : a = p * RTP_SEQ_MOD + (a % RTP_SEQ_MOD) /\ a % RTP_SEQ_MOD \in 0 .. RTP_SEQ_MOD - 1
  BY Divided
<1> DEFINE k == p - q
           s == a % RTP_SEQ_MOD
<1>3. k \in Int /\ k * RTP_SEQ_MOD = r - s
  <2>1. (p - q) * RTP_SEQ_MOD = p * RTP_SEQ_MOD - q * RTP_SEQ_MOD
    BY <1>1
  <2> QED
    BY <2>1, <1>1, <1>2
<1>4. s \in 0 .. RTP_SEQ_MOD - 1
  BY <1>2
<1> HIDE DEF k, s
<1>5. CASE k >= 1
  <2>1. k * RTP_SEQ_MOD >= RTP_SEQ_MOD
    BY <1>5, <1>3, <1>1
  <2> QED
    BY <2>1, <1>3, <1>4, <1>1
<1>6. CASE k <= -1
  <2>1. k * RTP_SEQ_MOD <= -RTP_SEQ_MOD
    BY <1>6, <1>3, <1>1
  <2> QED
    BY <2>1, <1>3, <1>4, <1>1
<1>7. CASE k = 0
  BY <1>7, <1>3, <1>4, <1>1 DEF s
<1> QED
  BY <1>3, <1>5, <1>6, <1>7

LEMMA NumberType == \A n \in Nat : NumberOf(n) \in 0 .. RTP_SEQ_MOD - 1 /\ NumberOf(n) \in Nat /\ NumberOf(n) \in Int
<1> SUFFICES ASSUME NEW n \in Nat PROVE NumberOf(n) \in 0 .. RTP_SEQ_MOD - 1
  BY Bounds
<1>1. StartSeq + n \in Int
  BY Bounds
<1> QED
  BY <1>1, Divided DEF NumberOf

(* Two packets less than a cycle apart have numbers as far apart, or a cycle less. *)
LEMMA NumbersApart ==
  ASSUME NEW a \in Nat, NEW b \in Nat, b <= a, a - b < RTP_SEQ_MOD
  PROVE  /\ NumberOf(a) >= NumberOf(b) => NumberOf(a) - NumberOf(b) = a - b
         /\ NumberOf(a) < NumberOf(b) => NumberOf(a) - NumberOf(b) = a - b - RTP_SEQ_MOD
         /\ (NumberOf(a) - NumberOf(b)) % RTP_SEQ_MOD = a - b
         /\ a # b => (NumberOf(b) - NumberOf(a)) % RTP_SEQ_MOD = RTP_SEQ_MOD - (a - b)
<1>1. RTP_SEQ_MOD \in Nat /\ RTP_SEQ_MOD > 0 /\ StartSeq + a \in Int /\ StartSeq + b \in Int /\ StartSeq \in Nat
  BY Bounds
<1> DEFINE x == NumberOf(a)
           y == NumberOf(b)
           d == a - b
<1>2. PICK p \in Int : StartSeq + a = p * RTP_SEQ_MOD + x /\ x \in 0 .. RTP_SEQ_MOD - 1
  BY <1>1, Divided DEF NumberOf
<1>3. PICK q \in Int : StartSeq + b = q * RTP_SEQ_MOD + y /\ y \in 0 .. RTP_SEQ_MOD - 1
  BY <1>1, Divided DEF NumberOf
<1> DEFINE k == p - q
<1>4. k \in Int /\ k * RTP_SEQ_MOD = d - (x - y) /\ d \in 0 .. RTP_SEQ_MOD - 1
  <2>1. (p - q) * RTP_SEQ_MOD = p * RTP_SEQ_MOD - q * RTP_SEQ_MOD
    BY <1>1
  <2> QED
    BY <2>1, <1>1, <1>2, <1>3
<1>5. x \in Int /\ y \in Int /\ x < RTP_SEQ_MOD /\ y < RTP_SEQ_MOD /\ x >= 0 /\ y >= 0
  BY <1>2, <1>3, <1>1
<1> HIDE DEF k, d, x, y
<1>6. k >= 2 => k * RTP_SEQ_MOD >= 2 * RTP_SEQ_MOD
  BY <1>4, <1>1
<1>7. k <= -1 => k * RTP_SEQ_MOD <= -RTP_SEQ_MOD
  BY <1>4, <1>1
<1>8. k = 0 \/ k = 1
  BY <1>4, <1>5, <1>6, <1>7, <1>1
<1>9. /\ x >= y => x - y = d
      /\ x < y => x - y = d - RTP_SEQ_MOD
  BY <1>4, <1>5, <1>8, <1>1
<1>10. x - y \in Int /\ y - x \in Int /\ 0 \in Int /\ 1 \in Int /\ -1 \in Int
  BY <1>5
<1>11. (x - y) % RTP_SEQ_MOD = d
  <2>1. x >= y => x - y = 0 * RTP_SEQ_MOD + d
    BY <1>9, <1>4, <1>1
  <2>2. x < y => x - y = (-1) * RTP_SEQ_MOD + d
    BY <1>9, <1>4, <1>1
  <2> QED
    BY <2>1, <2>2, <1>10, <1>4, <1>5, Remainder
<1>12. d # 0 => (y - x) % RTP_SEQ_MOD = RTP_SEQ_MOD - d
  <2> SUFFICES ASSUME d # 0 PROVE (y - x) % RTP_SEQ_MOD = RTP_SEQ_MOD - d
    OBVIOUS
  <2>0. RTP_SEQ_MOD - d \in 0 .. RTP_SEQ_MOD - 1
    BY <1>4, <1>1
  <2>1. x >= y => y - x = (-1) * RTP_SEQ_MOD + (RTP_SEQ_MOD - d)
    BY <1>9, <1>4, <1>1, <1>5
  <2>2. x < y => y - x = 0 * RTP_SEQ_MOD + (RTP_SEQ_MOD - d)
    BY <1>9, <1>4, <1>1, <1>5
  <2> QED
    BY <2>0, <2>1, <2>2, <1>10, <1>5, Remainder
<1> QED
  BY <1>9, <1>11, <1>12 DEF x, y, d

LEMMA NumberAfter ==
  ASSUME NEW n \in Nat
  PROVE  (NumberOf(n) + 1) % RTP_SEQ_MOD = NumberOf(n + 1)
<1>1. RTP_SEQ_MOD \in Nat /\ RTP_SEQ_MOD > 0 /\ StartSeq \in Nat /\ StartSeq + n \in Int /\ n + 1 \in Nat
  BY Bounds
<1>2. PICK q \in Int : StartSeq + n = q * RTP_SEQ_MOD + NumberOf(n)
  BY <1>1, Divided DEF NumberOf
<1>3. NumberOf(n) \in Nat /\ NumberOf(n) + 1 \in Int /\ StartSeq + (n + 1) \in Int
  BY <1>1, NumberType
<1>4. PICK p \in Int : NumberOf(n) + 1 = p * RTP_SEQ_MOD + ((NumberOf(n) + 1) % RTP_SEQ_MOD)
                       /\ (NumberOf(n) + 1) % RTP_SEQ_MOD \in 0 .. RTP_SEQ_MOD - 1
  BY <1>3, Divided
<1> DEFINE r == (NumberOf(n) + 1) % RTP_SEQ_MOD
<1>5. r \in Int /\ r \in 0 .. RTP_SEQ_MOD - 1 /\ NumberOf(n) + 1 = p * RTP_SEQ_MOD + r
  BY <1>1, <1>4
<1> HIDE DEF r
<1>6. q + p \in Int /\ (q + p) * RTP_SEQ_MOD = q * RTP_SEQ_MOD + p * RTP_SEQ_MOD
  BY <1>1
<1>7. StartSeq + (n + 1) = (q + p) * RTP_SEQ_MOD + r
  <2>1. q * RTP_SEQ_MOD \in Int /\ p * RTP_SEQ_MOD \in Int
    BY <1>1
  <2> QED
    BY <1>1, <1>2, <1>3, <1>5, <1>6, <2>1
<1>8. (StartSeq + (n + 1)) % RTP_SEQ_MOD = r
  BY <1>3, <1>5, <1>6, <1>7, Remainder
<1> QED
  BY <1>8 DEF NumberOf, r

(***************************************************************************)
(* One member.                                                             *)
(***************************************************************************)
LEMMA MemberOf ==
  ASSUME NEW s, NEW p, NEW l, NEW m \in MembersOf(s, p, l)
  PROVE  IsMember(m) /\ m.ssrc = s /\ m.port = p /\ m.lsr = l
<1>1. m.ssrc = s /\ m.port = p /\ m.lsr = l
  BY DEF MembersOf
<1> QED
  BY <1>1 DEF IsMember

LEMMA MemberFields ==
  ASSUME NEW m, IsMember(m)
  PROVE  /\ m.sender \in BOOLEAN /\ m.csrc \in BOOLEAN /\ m.total \in BOOLEAN
         /\ m.base \in Nat /\ m.max \in Nat /\ m.bad \in Nat
         /\ m.cycles \in Int /\ m.received \in Int /\ m.expectedPrior \in Int /\ m.receivedPrior \in Int
  BY DEF IsMember, MembersOf

(* The same SSRC and port, a CSRC or not as before. *)
Kin(g, m) == g.ssrc = m.ssrc /\ g.port = m.port /\ g.csrc = m.csrc

LEMMA KinSteps ==
  ASSUME NEW a, NEW b, Kin(b, a)
  PROVE  /\ b.ssrc = a.ssrc /\ b.port = a.port
         /\ Plain(a) => Plain(b)
         /\ \A c : Kin(c, b) => Kin(c, a)
<1>1. Plain(a) => Plain(b)
  BY Zenon DEF Kin, Plain
<1>2. \A c : Kin(c, b) => Kin(c, a)
  BY Zenon DEF Kin
<1> QED
  BY <1>1, <1>2 DEF Kin

LEMMA InitSeqSteps ==
  ASSUME NEW m, IsMember(m), NEW seq \in Nat, NEW i, i = InitSeq(m, seq)
  PROVE  /\ IsMember(i) /\ Kin(i, m)
         /\ i.base = seq /\ i.max = seq /\ i.bad = RTP_SEQ_MOD + 1
         /\ i.cycles = 0 /\ i.received = 0 /\ i.expectedPrior = 0 /\ i.receivedPrior = 0
<1>1. /\ i.base = seq /\ i.max = seq /\ i.bad = RTP_SEQ_MOD + 1
      /\ i.cycles = 0 /\ i.received = 0 /\ i.expectedPrior = 0 /\ i.receivedPrior = 0
  BY DEF IsMember, MembersOf, InitSeq
<1>2. RTP_SEQ_MOD + 1 \in Nat /\ 0 \in Nat /\ 0 \in Int
  BY Bounds
<1>3. i \in MembersOf(m.ssrc, m.port, m.lsr)
  BY <1>2 DEF IsMember, MembersOf, InitSeq
<1>4. i.csrc = m.csrc
  BY DEF IsMember, MembersOf, InitSeq
<1>5. IsMember(i) /\ Kin(i, m)
  BY <1>3, <1>4, MemberOf DEF Kin
<1> QED
  BY <1>1, <1>5

LEMMA CountedSteps ==
  ASSUME NEW m, IsMember(m), NEW g, g = Counted(m).m
  PROVE  /\ Counted(m).ok /\ IsMember(g) /\ Kin(g, m)
         /\ g.base = m.base /\ g.max = m.max /\ g.bad = m.bad
         /\ g.cycles = m.cycles /\ g.received = m.received + 1
         /\ g.expectedPrior = m.expectedPrior /\ g.receivedPrior = m.receivedPrior
<1>1. Counted(m).ok /\ g = [m EXCEPT !.received = @ + 1]
  BY DEF Counted
<1>2. /\ g.base = m.base /\ g.max = m.max /\ g.bad = m.bad
      /\ g.cycles = m.cycles /\ g.received = m.received + 1
      /\ g.expectedPrior = m.expectedPrior /\ g.receivedPrior = m.receivedPrior
  BY <1>1 DEF IsMember, MembersOf
<1>3. g \in MembersOf(m.ssrc, m.port, m.lsr)
  BY <1>1 DEF IsMember, MembersOf
<1>4. g.csrc = m.csrc
  BY <1>1 DEF IsMember, MembersOf
<1>5. IsMember(g) /\ Kin(g, m)
  BY <1>3, <1>4, MemberOf DEF Kin
<1> QED
  BY <1>1, <1>2, <1>5

(* The highest number moved on. *)
Advanced(m, seq) == [m EXCEPT !.max = seq, !.cycles = IF seq < m.max THEN @ + 1 ELSE @]

LEMMA AdvancedSteps ==
  ASSUME NEW m, IsMember(m), NEW seq \in Nat, NEW g, g = Advanced(m, seq)
  PROVE  /\ IsMember(g) /\ Kin(g, m)
         /\ g.base = m.base /\ g.max = seq /\ g.bad = m.bad
         /\ seq < m.max => g.cycles = m.cycles + 1
         /\ ~(seq < m.max) => g.cycles = m.cycles
         /\ g.received = m.received
         /\ g.expectedPrior = m.expectedPrior /\ g.receivedPrior = m.receivedPrior
<1> DEFINE c == IF seq < m.max THEN m.cycles + 1 ELSE m.cycles
<1>1. c \in Int
  BY MemberFields
<1>2. g = [m EXCEPT !.max = seq, !.cycles = c]
  BY DEF Advanced, IsMember, MembersOf
<1> HIDE DEF c
<1>3. /\ g.base = m.base /\ g.max = seq /\ g.bad = m.bad /\ g.cycles = c
      /\ g.received = m.received
      /\ g.expectedPrior = m.expectedPrior /\ g.receivedPrior = m.receivedPrior
  BY <1>2 DEF IsMember, MembersOf
<1>4. g \in MembersOf(m.ssrc, m.port, m.lsr)
  BY <1>1, <1>2 DEF IsMember, MembersOf
<1>5. g.csrc = m.csrc
  BY <1>2 DEF IsMember, MembersOf
<1>6. IsMember(g) /\ Kin(g, m)
  BY <1>4, <1>5, MemberOf DEF Kin
<1> QED
  BY <1>3, <1>6 DEF c

(* What UpdateSeq does, case by case. *)
LEMMA UpdateSeqCases ==
  ASSUME NEW m, IsMember(m), NEW seq \in Nat, NEW delta, delta = (seq - m.max) % RTP_SEQ_MOD
  PROVE  /\ delta < MaxDropout => UpdateSeq(m, seq) = Counted(Advanced(m, seq))
         /\ delta >= MaxDropout /\ delta <= RTP_SEQ_MOD - MaxMisorder /\ seq = m.bad =>
                UpdateSeq(m, seq) = Counted(InitSeq(m, seq))
         /\ delta >= MaxDropout /\ delta <= RTP_SEQ_MOD - MaxMisorder /\ seq # m.bad =>
                UpdateSeq(m, seq) = [ok |-> FALSE, m |-> [m EXCEPT !.bad = (seq + 1) % RTP_SEQ_MOD]]
         /\ delta > RTP_SEQ_MOD - MaxMisorder => UpdateSeq(m, seq) = Counted(m)
<1>1. delta \in Int
  <2>1. m.max \in Nat
    BY MemberFields
  <2>2. seq - m.max \in Int
    BY <2>1
  <2> QED
    BY <2>2, Divided
<1> QED
  BY <1>1, Bounds DEF UpdateSeq, Advanced

LEMMA UpdateSeqType ==
  ASSUME NEW m, IsMember(m), NEW seq \in Nat
  PROVE  IsMember(UpdateSeq(m, seq).m) /\ Kin(UpdateSeq(m, seq).m, m)
<1> DEFINE delta == (seq - m.max) % RTP_SEQ_MOD
           u == UpdateSeq(m, seq)
<1>1. m.max \in Nat
  BY MemberFields
<1>2. delta \in Int
  <2>1. seq - m.max \in Int
    BY <1>1
  <2> QED
    BY <2>1, Divided
<1>3. (seq + 1) % RTP_SEQ_MOD \in Nat
  <2>1. seq + 1 \in Int
    OBVIOUS
  <2> QED
    BY <2>1, Divided, Bounds
<1>4. delta = (seq - m.max) % RTP_SEQ_MOD
  OBVIOUS
<1> HIDE DEF delta, u
<1> DEFINE Typed(g) == u = Counted(g) /\ IsMember(g) /\ Kin(g, m)
<1>5. ASSUME NEW g, Typed(g) PROVE IsMember(u.m) /\ Kin(u.m, m)
  <2>1. IsMember(u.m) /\ Kin(u.m, g)
    BY <1>5, CountedSteps
  <2> QED
    BY <2>1, <1>5, KinSteps
<1>6. CASE delta < MaxDropout
  <2>1. Typed(Advanced(m, seq))
    BY <1>6, <1>4, UpdateSeqCases, AdvancedSteps DEF u
  <2> QED
    BY <2>1, <1>5 DEF u
<1>7. CASE delta >= MaxDropout /\ delta <= RTP_SEQ_MOD - MaxMisorder /\ seq = m.bad
  <2>1. Typed(InitSeq(m, seq))
    BY <1>7, <1>4, UpdateSeqCases, InitSeqSteps DEF u
  <2> QED
    BY <2>1, <1>5 DEF u
<1>8. CASE delta >= MaxDropout /\ delta <= RTP_SEQ_MOD - MaxMisorder /\ seq # m.bad
  <2> DEFINE g == [m EXCEPT !.bad = (seq + 1) % RTP_SEQ_MOD]
  <2>1. u.m = g
    BY <1>8, <1>4, UpdateSeqCases DEF u
  <2>2. g.csrc = m.csrc
    BY DEF IsMember, MembersOf
  <2>3. g \in MembersOf(m.ssrc, m.port, m.lsr)
    BY <1>3 DEF IsMember, MembersOf
  <2> HIDE DEF g
  <2> QED
    BY <2>1, <2>2, <2>3, MemberOf DEF u, Kin
<1>9. CASE delta > RTP_SEQ_MOD - MaxMisorder
  <2>1. Typed(m)
    BY <1>9, <1>4, UpdateSeqCases DEF u, Kin
  <2> QED
    BY <2>1, <1>5 DEF u
<1> QED
  BY <1>2, <1>6, <1>7, <1>8, <1>9, Bounds

(* The flags a received packet sets. *)
Received(m) == [m EXCEPT !.total = TRUE, !.sender = TRUE]

LEMMA ReceivedSteps ==
  ASSUME NEW m, IsMember(m), NEW g, g = Received(m)
  PROVE  /\ IsMember(g) /\ Kin(g, m) /\ g.sender /\ g.total
         /\ g.base = m.base /\ g.max = m.max /\ g.bad = m.bad
         /\ g.cycles = m.cycles /\ g.received = m.received
         /\ g.expectedPrior = m.expectedPrior /\ g.receivedPrior = m.receivedPrior
<1>1. g.sender /\ g.total
  BY DEF IsMember, MembersOf, Received
<1>2. /\ g.base = m.base /\ g.max = m.max /\ g.bad = m.bad
      /\ g.cycles = m.cycles /\ g.received = m.received
      /\ g.expectedPrior = m.expectedPrior /\ g.receivedPrior = m.receivedPrior
  BY DEF IsMember, MembersOf, Received
<1>3. g \in MembersOf(m.ssrc, m.port, m.lsr)
  BY DEF IsMember, MembersOf, Received
<1>4. g.csrc = m.csrc
  BY DEF IsMember, MembersOf, Received
<1>5. IsMember(g) /\ Kin(g, m)
  BY <1>3, <1>4, MemberOf DEF Kin
<1> QED
  BY <1>1, <1>2, <1>5

(* The flags of a received packet disturb nothing of that. *)
LEMMA ReceivedAgrees ==
  ASSUME NEW m, IsMember(m), Plain(m), NEW t, t.heard, Same(m, t)
  PROVE  Agrees(Received(m), t)
<1> DEFINE g == Received(m)
<1>1. /\ IsMember(g) /\ Kin(g, m)
      /\ g.base = m.base /\ g.max = m.max /\ g.bad = m.bad
      /\ g.cycles = m.cycles /\ g.received = m.received
      /\ g.expectedPrior = m.expectedPrior /\ g.receivedPrior = m.receivedPrior
  BY ReceivedSteps
<1>2. g.sender /\ g.total
  BY ReceivedSteps
<1> HIDE DEF g
<1>3. Plain(g)
  BY <1>1, KinSteps
<1>4. Same(g, t)
  BY <1>1 DEF Same, GetExtSeqNum
<1> QED
  BY <1>2, <1>3, <1>4 DEF Agrees, g

(* A member whose counting begins with the number seq. *)
Fresh(m, seq) == [InitSeq(m, seq) EXCEPT !.sender = TRUE]
Zeroed(m, seq) ==
    /\ m.base = seq /\ m.max = seq /\ m.bad = RTP_SEQ_MOD + 1
    /\ m.cycles = 0 /\ m.received = 0 /\ m.expectedPrior = 0 /\ m.receivedPrior = 0

LEMMA FreshSteps ==
  ASSUME NEW m, IsMember(m), NEW seq \in Nat, NEW g, g = Fresh(m, seq)
  PROVE  IsMember(g) /\ Kin(g, m) /\ Zeroed(g, seq)
<1> DEFINE i == InitSeq(m, seq)
<1>1. IsMember(i) /\ Kin(i, m) /\ Zeroed(i, seq)
  BY InitSeqSteps DEF Zeroed
<1>2. g = [i EXCEPT !.sender = TRUE]
  BY DEF Fresh
<1> HIDE DEF i
<1>3. Zeroed(g, seq)
  BY <1>1, <1>2 DEF IsMember, MembersOf, Zeroed
<1>4. g \in MembersOf(i.ssrc, i.port, i.lsr)
  BY <1>1, <1>2 DEF IsMember, MembersOf
<1>5. g.csrc = i.csrc
  BY <1>1, <1>2 DEF IsMember, MembersOf
<1>6. IsMember(g) /\ Kin(g, i)
  BY <1>4, <1>5, MemberOf DEF Kin
<1> QED
  BY <1>1, <1>3, <1>6, KinSteps

(* What the observer begins with. *)
LEMMA BegunIs ==
  ASSUME NEW idx \in Nat
  PROVE  /\ Begun(idx) \in Counts /\ Begun(idx).by = "rtp" /\ Begun(idx).heard
         /\ Begun(idx).first = idx /\ Begun(idx).highest = idx /\ Begun(idx).got = 1
         /\ Begun(idx).expPrior = 0 /\ Begun(idx).gotPrior = 0 /\ Begun(idx).odd = Nothing
<1>1. /\ Begun(idx).first = idx /\ Begun(idx).highest = idx /\ Begun(idx).got = 1 /\ Begun(idx).by = "rtp"
      /\ Begun(idx).expPrior = 0 /\ Begun(idx).gotPrior = 0 /\ Begun(idx).odd = Nothing
  BY DEF Begun, Unheard
<1>2. Unheard \in Counts
  BY DEF Unheard, Counts
<1>3. Begun(idx) \in Counts
  BY <1>2 DEF Begun, Counts
<1>4. Begun(idx).heard
  BY DEF Begun, Unheard
<1> QED
  BY <1>1, <1>3, <1>4

(* A jump that is confirmed counts like a first packet. *)
LEMMA ZeroedCounts ==
  ASSUME NEW m, IsMember(m), NEW idx \in Nat, Zeroed(m, NumberOf(idx)), NEW g, g = Counted(m).m
  PROVE  Same(g, Begun(idx))
<1>1. /\ NumberOf(idx) \in Nat
      /\ g.base = m.base /\ g.max = m.max /\ g.bad = m.bad
      /\ g.cycles = m.cycles /\ g.received = m.received + 1
      /\ g.expectedPrior = m.expectedPrior /\ g.receivedPrior = m.receivedPrior
  BY CountedSteps, NumberType
<1>2. /\ Begun(idx).first = idx /\ Begun(idx).highest = idx /\ Begun(idx).got = 1
      /\ Begun(idx).expPrior = 0 /\ Begun(idx).gotPrior = 0 /\ Begun(idx).odd = Nothing
  BY BegunIs
<1> QED
  BY <1>1, <1>2, Bounds DEF Same, Zeroed, GetExtSeqNum

(* The first packet of a sender is counted, and the member agrees from then on. *)
LEMMA FirstCounts ==
  ASSUME NEW m, IsMember(m), NEW idx \in Nat, Zeroed(m, NumberOf(idx))
  PROVE  LET u == UpdateSeq(m, NumberOf(idx)) IN
         u.ok /\ IsMember(u.m) /\ Kin(u.m, m) /\ Same(u.m, Begun(idx))
<1> DEFINE seq == NumberOf(idx)
           h == Advanced(m, seq)
           u == UpdateSeq(m, seq)
<1>1. seq \in Nat /\ m.max = seq /\ ~(seq < m.max)
  BY NumberType DEF Zeroed
<1>2. Zeroed(m, seq)
  OBVIOUS
<1> HIDE DEF seq
<1>3. (seq - m.max) % RTP_SEQ_MOD = 0
  <2>1. 0 \in Int /\ 0 \in 0 .. RTP_SEQ_MOD - 1 /\ 0 = 0 * RTP_SEQ_MOD + 0
    BY Bounds
  <2>2. seq - m.max = 0
    BY <1>1
  <2> QED
    BY <2>1, <2>2, Remainder
<1>4. u = Counted(h)
  <2>1. 0 < MaxDropout
    BY Bounds
  <2> QED
    BY <1>1, <1>3, <2>1, UpdateSeqCases
<1>5. /\ IsMember(h) /\ Kin(h, m)
      /\ h.base = m.base /\ h.max = seq /\ h.bad = m.bad /\ h.cycles = m.cycles
      /\ h.received = m.received /\ h.expectedPrior = m.expectedPrior /\ h.receivedPrior = m.receivedPrior
  BY <1>1, AdvancedSteps
<1>6. Zeroed(h, seq)
  BY <1>1, <1>2, <1>5 DEF Zeroed
<1> HIDE DEF h, u
<1>7. u.ok /\ IsMember(u.m) /\ Kin(u.m, h)
  BY <1>4, <1>5, CountedSteps
<1>8. Same(u.m, Begun(idx))
  BY <1>4, <1>5, <1>6, ZeroedCounts DEF seq
<1>9. Kin(u.m, m)
  BY <1>5, <1>7, KinSteps
<1> QED
  BY <1>7, <1>8, <1>9 DEF u, seq

(* What the observer makes of one more packet. *)
LEMMA CountsFields ==
  ASSUME NEW t \in Counts
  PROVE  /\ t.first \in Nat /\ t.highest \in Nat /\ t.got \in Nat /\ t.expPrior \in Int /\ t.gotPrior \in Int
         /\ t.odd \in Nat \cup {Nothing} /\ t.by \in {"none", "other", "rtp"}
  BY DEF Counts

LEMMA HeardFollows ==
  ASSUME NEW t \in Counts, NEW idx \in Nat, Follows(t, idx), NEW h, h = Heard(t, idx)
  PROVE  /\ h \in Counts /\ h.heard /\ h.by = t.by
         /\ h.first = t.first /\ h.got = t.got + 1 /\ h.expPrior = t.expPrior /\ h.gotPrior = t.gotPrior
         /\ h.odd = t.odd
         /\ idx > t.highest => h.highest = idx
         /\ ~(idx > t.highest) => h.highest = t.highest
<1> DEFINE top == IF idx > t.highest THEN idx ELSE t.highest
<1> DEFINE more == t.got + 1
<1>1. h = [t EXCEPT !.got = more, !.highest = top, !.heard = TRUE]
  BY DEF Heard, Counts
<1>2. top \in Nat /\ more \in Nat
  BY CountsFields
<1> HIDE DEF top, more
<1>3. h \in Counts
  BY <1>1, <1>2 DEF Counts
<1>4. h.heard
  BY <1>1 DEF Counts
<1>5. /\ h.by = t.by /\ h.first = t.first /\ h.got = more /\ h.expPrior = t.expPrior
      /\ h.gotPrior = t.gotPrior /\ h.odd = t.odd /\ h.highest = top
  BY <1>1 DEF Counts
<1> QED
  BY <1>3, <1>4, <1>5 DEF top, more

LEMMA HeardJump ==
  ASSUME NEW t \in Counts, NEW idx \in Nat, ~Follows(t, idx), NEW h, h = Heard(t, idx),
         ~(t.odd # Nothing /\ NumberOf(idx) = NumberOf(t.odd + 1))
  PROVE  /\ h \in Counts /\ h.heard /\ h.by = t.by
         /\ h.first = t.first /\ h.got = t.got /\ h.expPrior = t.expPrior /\ h.gotPrior = t.gotPrior
         /\ h.odd = idx /\ h.highest = t.highest
<1>1. h = [t EXCEPT !.odd = idx, !.heard = TRUE]
  BY DEF Heard
<1>3. h \in Counts
  BY <1>1 DEF Counts
<1>4. h.heard
  BY <1>1 DEF Counts
<1>5. /\ h.by = t.by /\ h.first = t.first /\ h.got = t.got /\ h.expPrior = t.expPrior
      /\ h.gotPrior = t.gotPrior /\ h.odd = idx /\ h.highest = t.highest
  BY <1>1 DEF Counts
<1> QED
  BY <1>3, <1>4, <1>5

LEMMA HeardRestart ==
  ASSUME NEW t \in Counts, NEW idx \in Nat, ~Follows(t, idx),
         t.odd # Nothing, NumberOf(idx) = NumberOf(t.odd + 1)
  PROVE  Heard(t, idx) = Begun(idx)
  BY DEF Heard

(* How far a number that is not too late and not too far ahead is from the highest. *)
LEMMA HowFar ==
  ASSUME NEW t \in Counts, NEW idx \in Nat, NEW delta, delta = (NumberOf(idx) - NumberOf(t.highest)) % RTP_SEQ_MOD,
         idx - t.highest >= -MaxMisorder, idx - t.highest < RTP_SEQ_MOD - MaxMisorder
  PROVE  /\ idx >= t.highest => delta = idx - t.highest
         /\ idx < t.highest => delta = RTP_SEQ_MOD - (t.highest - idx)
         /\ idx >= t.highest /\ NumberOf(idx) < NumberOf(t.highest) =>
                NumberOf(idx) - NumberOf(t.highest) = idx - t.highest - RTP_SEQ_MOD
         /\ idx >= t.highest /\ ~(NumberOf(idx) < NumberOf(t.highest)) =>
                NumberOf(idx) - NumberOf(t.highest) = idx - t.highest
<1>1. t.highest \in Nat
  BY CountsFields
<1>2. /\ RTP_SEQ_MOD \in Nat /\ MaxMisorder \in Nat /\ MaxDropout \in Nat /\ MaxMisorder > 0
      /\ MaxDropout + MaxMisorder < RTP_SEQ_MOD
  BY Bounds
<1>3. CASE idx >= t.highest
  <2>1. /\ NumberOf(idx) >= NumberOf(t.highest) => NumberOf(idx) - NumberOf(t.highest) = idx - t.highest
        /\ NumberOf(idx) < NumberOf(t.highest) =>
               NumberOf(idx) - NumberOf(t.highest) = idx - t.highest - RTP_SEQ_MOD
        /\ delta = idx - t.highest
    <3>1. idx - t.highest < RTP_SEQ_MOD
      BY <1>1, <1>2, <1>3
    <3> QED
      BY <1>1, <1>3, <3>1, NumbersApart
  <2>2. NumberOf(idx) \in Nat /\ NumberOf(t.highest) \in Nat
    BY <1>1, NumberType
  <2> QED
    BY <1>1, <1>3, <2>1, <2>2
<1>4. CASE idx < t.highest
  <2>1. t.highest - idx < RTP_SEQ_MOD /\ idx <= t.highest /\ idx # t.highest
    BY <1>1, <1>2, <1>4
  <2>2. delta = RTP_SEQ_MOD - (t.highest - idx)
    BY <1>1, <2>1, NumbersApart
  <2> QED
    BY <1>1, <1>4, <2>2
<1> QED
  BY <1>1, <1>3, <1>4

(* A packet that is neither too late nor too far ahead is counted as the observer
   counts it, and handed on if it follows what came. *)
LEMMA NextCounts ==
  ASSUME NEW m, IsMember(m), NEW t \in Counts, Same(m, t), NEW idx \in Nat, t.by = "rtp",
         idx - t.highest >= -MaxMisorder, idx - t.highest < RTP_SEQ_MOD - MaxMisorder
  PROVE  LET u == UpdateSeq(m, NumberOf(idx)) IN
         /\ Heard(t, idx) \in Counts /\ Heard(t, idx).heard /\ Heard(t, idx).by = "rtp"
         /\ IsMember(u.m) /\ Kin(u.m, m) /\ Same(u.m, Heard(t, idx))
         /\ Follows(t, idx) => u.ok
<1> DEFINE seq == NumberOf(idx)
           delta == (seq - m.max) % RTP_SEQ_MOD
           u == UpdateSeq(m, seq)
           h == Heard(t, idx)
<1>1. /\ t.first \in Nat /\ t.highest \in Nat /\ t.got \in Nat /\ t.expPrior \in Int /\ t.gotPrior \in Int
      /\ t.odd \in Nat \cup {Nothing}
  BY CountsFields
<1>2. /\ seq \in Nat /\ seq < RTP_SEQ_MOD
      /\ NumberOf(t.highest) \in Nat /\ NumberOf(t.highest) < RTP_SEQ_MOD
      /\ NumberOf(t.first) \in Nat
  BY <1>1, NumberType, Bounds
<1>3. /\ m.base = NumberOf(t.first) /\ m.max = NumberOf(t.highest)
      /\ GetExtSeqNum(m) - m.base = t.highest - t.first
      /\ m.received = t.got /\ m.expectedPrior = t.expPrior /\ m.receivedPrior = t.gotPrior
      /\ m.bad = IF t.odd = Nothing THEN RTP_SEQ_MOD + 1 ELSE NumberOf(t.odd + 1)
  BY Zenon DEF Same
<1>4. m.cycles \in Int /\ m.base \in Nat /\ m.max \in Nat
  BY MemberFields
<1>5. /\ RTP_SEQ_MOD \in Nat /\ MaxMisorder \in Nat /\ MaxDropout \in Nat /\ MaxMisorder > 0 /\ MaxDropout > 0
      /\ MaxDropout + MaxMisorder < RTP_SEQ_MOD
  BY Bounds
<1>6. /\ idx >= t.highest => delta = idx - t.highest
      /\ idx < t.highest => delta = RTP_SEQ_MOD - (t.highest - idx)
      /\ idx >= t.highest /\ seq < m.max => seq - m.max = idx - t.highest - RTP_SEQ_MOD
      /\ idx >= t.highest /\ ~(seq < m.max) => seq - m.max = idx - t.highest
  BY <1>3, HowFar
<1>7. IsMember(u.m) /\ Kin(u.m, m)
  BY <1>2, UpdateSeqType
<1>8. Follows(t, idx) <=> idx - t.highest > -MaxMisorder /\ idx - t.highest < MaxDropout
  BY DEF Follows
<1>9. delta = (seq - m.max) % RTP_SEQ_MOD
  OBVIOUS
<1>10. h = Heard(t, idx)
  OBVIOUS
<1> HIDE DEF seq, delta, u, h
<1>11. CASE Follows(t, idx) /\ idx >= t.highest
  <2>1. delta < MaxDropout
    BY <1>1, <1>5, <1>6, <1>8, <1>11
  <2>2. u = Counted(Advanced(m, seq))
    BY <1>2, <1>9, <2>1, UpdateSeqCases DEF u
  <2> DEFINE a == Advanced(m, seq)
             g == u.m
  <2>3. /\ IsMember(a) /\ a.base = m.base /\ a.max = seq /\ a.bad = m.bad
        /\ seq < m.max => a.cycles = m.cycles + 1
        /\ ~(seq < m.max) => a.cycles = m.cycles
        /\ a.received = m.received
        /\ a.expectedPrior = m.expectedPrior /\ a.receivedPrior = m.receivedPrior
    BY <1>2, AdvancedSteps
  <2> HIDE DEF a
  <2>4. /\ u.ok /\ g.base = a.base /\ g.max = a.max /\ g.bad = a.bad /\ g.cycles = a.cycles
        /\ g.received = a.received + 1 /\ g.expectedPrior = a.expectedPrior /\ g.receivedPrior = a.receivedPrior
    BY <2>2, <2>3, CountedSteps DEF a
  <2>5. /\ h \in Counts /\ h.heard /\ h.by = t.by
        /\ h.first = t.first /\ h.got = t.got + 1 /\ h.expPrior = t.expPrior /\ h.gotPrior = t.gotPrior
        /\ h.odd = t.odd /\ h.highest = idx
    <3>1. ~(idx > t.highest) => idx = t.highest
      BY <1>1, <1>11
    <3> QED
      BY <1>10, <1>11, <3>1, HeardFollows
  <2>6. GetExtSeqNum(g) - g.base = idx - t.first
    <3> DEFINE ext == m.cycles * RTP_SEQ_MOD
    <3>00. GetExtSeqNum(m) - m.base = t.highest - t.first
      BY <1>3
    <3>0. ext \in Int /\ GetExtSeqNum(m) = ext + m.max
      BY <1>4, <1>5 DEF GetExtSeqNum
    <3>1. CASE seq < m.max
      <4>1. g.cycles = m.cycles + 1 /\ g.max = seq /\ g.base = m.base
        BY <2>3, <2>4, <3>1
      <4>2. GetExtSeqNum(g) = ext + RTP_SEQ_MOD + seq
        BY <1>4, <1>5, <4>1 DEF GetExtSeqNum
      <4>3. seq - m.max = idx - t.highest - RTP_SEQ_MOD
        BY <1>6, <1>11, <3>1
      <4> HIDE DEF ext
      <4> QED
        BY <1>1, <1>2, <1>4, <1>5, <4>3, <3>0, <4>1, <4>2, <3>00
    <3>2. CASE ~(seq < m.max)
      <4>1. g.cycles = m.cycles /\ g.max = seq /\ g.base = m.base
        BY <2>3, <2>4, <3>2
      <4>2. GetExtSeqNum(g) = ext + seq
        BY <4>1 DEF GetExtSeqNum
      <4>3. seq - m.max = idx - t.highest
        BY <1>6, <1>11, <3>2
      <4> HIDE DEF ext
      <4> QED
        BY <1>1, <1>2, <1>4, <1>5, <4>3, <3>0, <4>1, <4>2, <3>00
    <3> QED
      BY <3>1, <3>2
  <2>7. Same(g, h)
    <3>1. /\ g.base = NumberOf(h.first) /\ g.max = NumberOf(h.highest)
          /\ GetExtSeqNum(g) - g.base = h.highest - h.first
      BY <1>3, <2>3, <2>4, <2>5, <2>6 DEF seq
    <3>2. g.received = h.got /\ g.expectedPrior = h.expPrior /\ g.receivedPrior = h.gotPrior
      BY <1>3, <2>3, <2>4, <2>5
    <3>3. g.bad = m.bad /\ h.odd = t.odd
      BY <2>3, <2>4, <2>5
    <3>4. g.bad = IF h.odd = Nothing THEN RTP_SEQ_MOD + 1 ELSE NumberOf(h.odd + 1)
      BY Zenon, <1>3, <3>3
    <3> HIDE DEF g
    <3> QED
      BY Zenon, <3>1, <3>2, <3>4 DEF Same
  <2> QED
    BY <1>7, <2>4, <2>5, <2>7 DEF u, h, seq, g
<1>12. CASE Follows(t, idx) /\ idx < t.highest
  <2>1. delta > RTP_SEQ_MOD - MaxMisorder
    BY <1>1, <1>5, <1>6, <1>8, <1>12
  <2>2. u = Counted(m)
    BY <1>2, <1>9, <2>1, UpdateSeqCases DEF u
  <2> DEFINE g == u.m
  <2>4. /\ u.ok /\ g.base = m.base /\ g.max = m.max /\ g.bad = m.bad /\ g.cycles = m.cycles
        /\ g.received = m.received + 1 /\ g.expectedPrior = m.expectedPrior /\ g.receivedPrior = m.receivedPrior
    BY <2>2, CountedSteps
  <2>5. /\ h \in Counts /\ h.heard /\ h.by = t.by
        /\ h.first = t.first /\ h.got = t.got + 1 /\ h.expPrior = t.expPrior /\ h.gotPrior = t.gotPrior
        /\ h.odd = t.odd /\ h.highest = t.highest
    <3>1. ~(idx > t.highest)
      BY <1>1, <1>12
    <3> QED
      BY <1>10, <1>12, <3>1, HeardFollows
  <2>7. Same(g, h)
    BY <1>3, <2>4, <2>5 DEF Same, GetExtSeqNum
  <2> QED
    BY <1>7, <2>4, <2>5, <2>7 DEF u, h, seq, g
<1>13. ~Follows(t, idx) => delta >= MaxDropout /\ delta <= RTP_SEQ_MOD - MaxMisorder
  BY <1>1, <1>5, <1>6, <1>8
<1>14. seq = m.bad <=> t.odd # Nothing /\ seq = NumberOf(t.odd + 1)
  BY <1>2, <1>3, <1>5
<1>15. CASE ~Follows(t, idx) /\ t.odd # Nothing /\ seq = NumberOf(t.odd + 1)
  <2>1. h = Begun(idx)
    BY <1>10, <1>15, HeardRestart DEF seq
  <2>2. u = Counted(InitSeq(m, seq))
    BY <1>2, <1>9, <1>13, <1>14, <1>15, UpdateSeqCases DEF u
  <2>3. IsMember(InitSeq(m, seq)) /\ Zeroed(InitSeq(m, seq), seq)
    BY <1>2, InitSeqSteps DEF Zeroed
  <2>4. Same(u.m, Begun(idx))
    BY <2>2, <2>3, ZeroedCounts DEF seq
  <2> QED
    BY <1>7, <1>15, <2>1, <2>4, BegunIs DEF u, h, seq
<1>16. CASE ~Follows(t, idx) /\ ~(t.odd # Nothing /\ seq = NumberOf(t.odd + 1))
  <2>1. /\ h \in Counts /\ h.heard /\ h.by = t.by
        /\ h.first = t.first /\ h.got = t.got /\ h.expPrior = t.expPrior /\ h.gotPrior = t.gotPrior
        /\ h.odd = idx /\ h.highest = t.highest
    BY <1>10, <1>16, HeardJump DEF seq
  <2> DEFINE g == u.m
  <2>2. g = [m EXCEPT !.bad = (seq + 1) % RTP_SEQ_MOD]
    BY <1>2, <1>9, <1>13, <1>14, <1>16, UpdateSeqCases DEF u
  <2>3. /\ g.base = m.base /\ g.max = m.max /\ g.bad = (seq + 1) % RTP_SEQ_MOD /\ g.cycles = m.cycles
        /\ g.received = m.received /\ g.expectedPrior = m.expectedPrior /\ g.receivedPrior = m.receivedPrior
    BY <2>2 DEF IsMember, MembersOf
  <2>4. (seq + 1) % RTP_SEQ_MOD = NumberOf(idx + 1)
    BY NumberAfter DEF seq
  <2>5. idx # Nothing
    BY Bounds
  <2>7. Same(g, h)
    BY <1>3, <2>1, <2>3, <2>4, <2>5 DEF Same, GetExtSeqNum
  <2> QED
    BY <1>7, <1>16, <2>1, <2>7 DEF u, h, seq, g
<1> QED
  BY <1>1, <1>11, <1>12, <1>15, <1>16 DEF u, h, seq

(***************************************************************************)
(* Lists of members.                                                       *)
(***************************************************************************)
LEMMA ListIs ==
  ASSUME NEW q, IsList(q)
  PROVE  Len(q) \in Nat /\ DOMAIN q = 1 .. Len(q) /\ q \in [1 .. Len(q) -> Range(q)]
  BY LenProperties DEF IsList

LEMMA InList ==
  ASSUME NEW T, NEW q \in Seq(T)
  PROVE  IsList(q)
<1>1. Len(q) \in Nat /\ DOMAIN q = 1 .. Len(q) /\ q \in [1 .. Len(q) -> T]
  BY LenProperties
<1>2. q \in [1 .. Len(q) -> Range(q)]
  BY <1>1 DEF Range
<1> QED
  BY <1>1, <1>2, SeqDef DEF IsList

LEMMA Appended ==
  ASSUME NEW q, IsList(q), NEW e
  PROVE  /\ IsList(Append(q, e)) /\ Len(Append(q, e)) = Len(q) + 1 /\ DOMAIN Append(q, e) = 1 .. Len(q) + 1
         /\ \A k \in 1 .. Len(q) : Append(q, e)[k] = q[k]
         /\ Append(q, e)[Len(q) + 1] = e
<1> DEFINE T == Range(q) \cup {e}
<1>1. q \in Seq(T) /\ e \in T
  BY SeqMonotonic DEF IsList
<1> HIDE DEF T
<1>2. /\ Append(q, e) \in Seq(T) /\ Len(Append(q, e)) = Len(q) + 1
      /\ \A k \in 1 .. Len(q) : Append(q, e)[k] = q[k]
      /\ Append(q, e)[Len(q) + 1] = e
  BY <1>1, AppendProperties
<1>3. DOMAIN Append(q, e) = 1 .. Len(q) + 1
  BY <1>2, LenProperties
<1> QED
  BY <1>2, <1>3, InList

LEMMA Joined ==
  ASSUME NEW a, IsList(a), NEW b, IsList(b)
  PROVE  /\ IsList(a \o b) /\ Len(a \o b) = Len(a) + Len(b) /\ DOMAIN (a \o b) = 1 .. Len(a) + Len(b)
         /\ \A k \in 1 .. Len(a) : (a \o b)[k] = a[k]
         /\ \A k \in 1 .. Len(b) : (a \o b)[Len(a) + k] = b[k]
<1> DEFINE T == Range(a) \cup Range(b)
<1>1. a \in Seq(T) /\ b \in Seq(T)
  BY SeqMonotonic DEF IsList
<1>2. Len(a) \in Nat /\ Len(b) \in Nat
  BY ListIs
<1> HIDE DEF T
<1>3. /\ a \o b \in Seq(T) /\ Len(a \o b) = Len(a) + Len(b)
      /\ \A k \in 1 .. Len(a) + Len(b) : (a \o b)[k] = IF k <= Len(a) THEN a[k] ELSE b[k - Len(a)]
  BY <1>1, ConcatProperties
<1>4. DOMAIN (a \o b) = 1 .. Len(a) + Len(b)
  BY <1>3, LenProperties
<1>5. ASSUME NEW k \in 1 .. Len(a) PROVE (a \o b)[k] = a[k]
  BY <1>2, <1>3
<1>6. ASSUME NEW k \in 1 .. Len(b) PROVE (a \o b)[Len(a) + k] = b[k]
  <2>1. Len(a) + k \in 1 .. Len(a) + Len(b) /\ ~(Len(a) + k <= Len(a)) /\ Len(a) + k - Len(a) = k
    BY <1>2
  <2> QED
    BY <2>1, <1>3
<1> QED
  BY <1>3, <1>4, <1>5, <1>6, InList

(* The list q has the members f[i] of the places i \in S, each of them once. *)
Picks(q, f, S) ==
    /\ IsList(q)
    /\ \A k \in DOMAIN q : \E i \in S : q[k] = f[i]
    /\ \A i \in S : \E k \in DOMAIN q : q[k] = f[i]
    /\ \A j, k \in DOMAIN q : q[j].ssrc = q[k].ssrc => j = k

LEMMA PicksNone ==
  ASSUME NEW f
  PROVE  Picks(<<>>, f, {})
<1>1. <<>> \in Seq({}) /\ DOMAIN <<>> = {}
  BY EmptySeq
<1> QED
  BY <1>1, InList DEF Picks

LEMMA PicksOne ==
  ASSUME NEW q, NEW f, NEW S, Picks(q, f, S), NEW i, i \notin S, Apart(f, S \cup {i})
  PROVE  Picks(Append(q, f[i]), f, S \cup {i})
<1> DEFINE r == Append(q, f[i])
<1>1. /\ IsList(q) /\ Len(q) \in Nat /\ DOMAIN q = 1 .. Len(q)
      /\ \A k \in DOMAIN q : \E j \in S : q[k] = f[j]
      /\ \A j \in S : \E k \in DOMAIN q : q[k] = f[j]
      /\ \A j, k \in DOMAIN q : q[j].ssrc = q[k].ssrc => j = k
  BY ListIs DEF Picks
<1>2. /\ IsList(r) /\ DOMAIN r = 1 .. Len(q) + 1
      /\ \A k \in 1 .. Len(q) : r[k] = q[k]
      /\ r[Len(q) + 1] = f[i]
  BY <1>1, Appended
<1>3. DOMAIN r = DOMAIN q \cup {Len(q) + 1} /\ Len(q) + 1 \notin DOMAIN q
  BY <1>1, <1>2
<1> HIDE DEF r
<1>4. ASSUME NEW k \in DOMAIN r PROVE \E j \in S \cup {i} : r[k] = f[j]
  BY <1>1, <1>2, <1>3
<1>5. ASSUME NEW j \in S \cup {i} PROVE \E k \in DOMAIN r : r[k] = f[j]
  BY <1>1, <1>2, <1>3
<1>6. ASSUME NEW k \in DOMAIN q PROVE r[k].ssrc # r[Len(q) + 1].ssrc
  <2>1. PICK j \in S : q[k] = f[j]
    BY <1>1
  <2>2. j # i /\ j \in S \cup {i} /\ i \in S \cup {i}
    OBVIOUS
  <2>3. f[j].ssrc # f[i].ssrc
    BY <2>2 DEF Apart
  <2>4. r[k] = f[j] /\ r[Len(q) + 1] = f[i]
    BY <1>1, <1>2, <2>1
  <2> QED
    BY <2>3, <2>4
<1>7. ASSUME NEW j \in DOMAIN r, NEW k \in DOMAIN r, r[j].ssrc = r[k].ssrc PROVE j = k
  <2>1. \A x \in DOMAIN q : r[x] = q[x]
    BY <1>1, <1>2
  <2> QED
    BY <1>1, <1>3, <1>6, <1>7, <2>1
<1> QED
  BY <1>2, <1>4, <1>5, <1>7 DEF Picks, r

LEMMA PicksBoth ==
  ASSUME NEW a, NEW b, NEW f, NEW S, NEW T, Picks(a, f, S), Picks(b, f, T),
         S \cap T = {}, Apart(f, S \cup T)
  PROVE  Picks(a \o b, f, S \cup T)
<1> DEFINE r == a \o b
<1>1. /\ IsList(a) /\ Len(a) \in Nat /\ DOMAIN a = 1 .. Len(a)
      /\ \A k \in DOMAIN a : \E j \in S : a[k] = f[j]
      /\ \A j \in S : \E k \in DOMAIN a : a[k] = f[j]
      /\ \A j, k \in DOMAIN a : a[j].ssrc = a[k].ssrc => j = k
  BY ListIs DEF Picks
<1>2. /\ IsList(b) /\ Len(b) \in Nat /\ DOMAIN b = 1 .. Len(b)
      /\ \A k \in DOMAIN b : \E j \in T : b[k] = f[j]
      /\ \A j \in T : \E k \in DOMAIN b : b[k] = f[j]
      /\ \A j, k \in DOMAIN b : b[j].ssrc = b[k].ssrc => j = k
  BY ListIs DEF Picks
<1>3. /\ IsList(r) /\ DOMAIN r = 1 .. Len(a) + Len(b)
      /\ \A k \in DOMAIN a : r[k] = a[k]
      /\ \A k \in DOMAIN b : r[Len(a) + k] = b[k]
  BY <1>1, <1>2, Joined
<1>4. \A k \in DOMAIN r : k \in DOMAIN a \/ \E l \in DOMAIN b : k = Len(a) + l
  <2> SUFFICES ASSUME NEW k \in DOMAIN r, k \notin DOMAIN a PROVE \E l \in DOMAIN b : k = Len(a) + l
    OBVIOUS
  <2>1. k - Len(a) \in DOMAIN b /\ k = Len(a) + (k - Len(a))
    BY <1>1, <1>2, <1>3
  <2> QED
    BY <2>1
<1>5. DOMAIN a \subseteq DOMAIN r /\ \A l \in DOMAIN b : Len(a) + l \in DOMAIN r
  BY <1>1, <1>2, <1>3
<1> HIDE DEF r
<1>6. ASSUME NEW k \in DOMAIN r PROVE \E j \in S \cup T : r[k] = f[j]
  BY <1>1, <1>2, <1>3, <1>4
<1>7. ASSUME NEW j \in S \cup T PROVE \E k \in DOMAIN r : r[k] = f[j]
  BY <1>1, <1>2, <1>3, <1>5
<1>8. ASSUME NEW k \in DOMAIN a, NEW l \in DOMAIN b PROVE r[k].ssrc # r[Len(a) + l].ssrc
  <2>1. PICK j \in S : a[k] = f[j]
    BY <1>1
  <2>2. PICK i \in T : b[l] = f[i]
    BY <1>2
  <2>3. f[j].ssrc # f[i].ssrc
    BY DEF Apart
  <2> QED
    BY <1>3, <2>1, <2>2, <2>3
<1>9. ASSUME NEW j \in DOMAIN r, NEW k \in DOMAIN r, r[j].ssrc = r[k].ssrc PROVE j = k
  <2>1. CASE j \in DOMAIN a /\ k \in DOMAIN a
    BY <1>1, <1>3, <1>9, <2>1
  <2>2. CASE j \in DOMAIN a /\ k \notin DOMAIN a
    BY <1>4, <1>8, <1>9, <2>2
  <2>3. CASE j \notin DOMAIN a /\ k \in DOMAIN a
    BY <1>4, <1>8, <1>9, <2>3
  <2>4. CASE j \notin DOMAIN a /\ k \notin DOMAIN a
    <3>1. PICK x \in DOMAIN b : j = Len(a) + x
      BY <1>4, <2>4
    <3>2. PICK y \in DOMAIN b : k = Len(a) + y
      BY <1>4, <2>4
    <3>3. b[x].ssrc = b[y].ssrc
      BY <1>3, <1>9, <3>1, <3>2
    <3> QED
      BY <1>2, <3>1, <3>2, <3>3
  <2> QED
    BY <2>1, <2>2, <2>3, <2>4
<1> QED
  BY <1>3, <1>6, <1>7, <1>9 DEF Picks, r

(* The first one goes last. *)
LEMMA PicksShifted ==
  ASSUME NEW q, NEW f, NEW S, Picks(q, f, S), NEW r, IsList(r), DOMAIN r = DOMAIN q, Len(q) # 0,
         \A k \in 1 .. Len(q) - 1 : r[k] = q[k + 1], r[Len(q)] = q[1]
  PROVE  Picks(r, f, S)
<1>1. /\ IsList(q) /\ Len(q) \in Nat /\ DOMAIN q = 1 .. Len(q)
      /\ \A k \in DOMAIN q : \E j \in S : q[k] = f[j]
      /\ \A j \in S : \E k \in DOMAIN q : q[k] = f[j]
      /\ \A j, k \in DOMAIN q : q[j].ssrc = q[k].ssrc => j = k
  BY ListIs DEF Picks
<1> DEFINE at(k) == IF k = Len(q) THEN 1 ELSE k + 1
<1>5. DOMAIN r = DOMAIN q
  OBVIOUS
<1>6. ASSUME NEW k \in DOMAIN q PROVE at(k) \in DOMAIN q /\ r[k] = q[at(k)]
  <2>1. CASE k = Len(q)
    BY <1>1, <2>1
  <2>2. CASE k # Len(q)
    <3>1. k \in 1 .. Len(q) - 1 /\ k + 1 \in 1 .. Len(q)
      BY <1>1, <2>2
    <3> QED
      BY <1>1, <2>2, <3>1
  <2> QED
    BY <2>1, <2>2
<1>7. ASSUME NEW j \in DOMAIN q, NEW k \in DOMAIN q, at(j) = at(k) PROVE j = k
  BY <1>1, <1>7
<1>8. ASSUME NEW k \in DOMAIN q PROVE \E j \in DOMAIN q : at(j) = k
  <2>1. CASE k = 1
    BY <1>1, <2>1
  <2>2. CASE k # 1
    <3>1. k - 1 \in DOMAIN q /\ k - 1 # Len(q)
      BY <1>1, <2>2
    <3>2. at(k - 1) = k
      BY <1>1, <3>1
    <3> QED
      BY <3>1, <3>2
  <2> QED
    BY <2>1, <2>2
<1> HIDE DEF at
<1>9. ASSUME NEW k \in DOMAIN r PROVE \E j \in S : r[k] = f[j]
  <2>1. at(k) \in DOMAIN q /\ r[k] = q[at(k)]
    BY <1>5, <1>6
  <2>2. \E j \in S : q[at(k)] = f[j]
    BY <1>1, <2>1, Zenon
  <2> QED
    BY <2>1, <2>2, Zenon
<1>10. ASSUME NEW j \in S PROVE \E k \in DOMAIN r : r[k] = f[j]
  BY <1>1, <1>5, <1>6, <1>8
<1>11. ASSUME NEW j \in DOMAIN r, NEW k \in DOMAIN r, r[j].ssrc = r[k].ssrc PROVE j = k
  <2>1. q[at(j)].ssrc = q[at(k)].ssrc /\ at(j) \in DOMAIN q /\ at(k) \in DOMAIN q
    BY <1>5, <1>6, <1>11
  <2>2. at(j) = at(k)
    BY <1>1, <2>1
  <2> QED
    BY <1>5, <1>7, <2>2
<1> QED
  BY <1>9, <1>10, <1>11 DEF Picks

LEMMA PicksTurned ==
  ASSUME NEW q, NEW f, NEW S, Picks(q, f, S), q # <<>>
  PROVE  Picks(Tail(q) \o <<Head(q)>>, f, S)
<1> SUFFICES ASSUME NEW a, a = Tail(q), NEW b, b = <<Head(q)>>, NEW r, r = a \o b
             PROVE  Picks(r, f, S)
  OBVIOUS
<1>1. /\ IsList(q) /\ Len(q) \in Nat /\ DOMAIN q = 1 .. Len(q)
  BY ListIs DEF Picks
<1>2. /\ Len(q) # 0 /\ Head(q) = q[1] /\ a \in Seq(Range(q)) /\ Len(a) = Len(q) - 1
      /\ \A k \in 1 .. Len(a) : a[k] = q[k + 1]
  <2>1. q \in Seq(Range(q))
    BY <1>1 DEF IsList
  <2>2. Len(q) # 0
    BY <2>1, EmptySeq
  <2>3. /\ a \in Seq(Range(q)) /\ Len(a) = Len(q) - 1 /\ \A k \in 1 .. Len(a) : a[k] = q[k + 1]
    BY <2>1, HeadTailProperties
  <2>4. Head(q) = q[1]
    BY <2>1
  <2> QED
    BY <2>2, <2>3, <2>4
<1>3. IsList(a) /\ IsList(b) /\ Len(b) = 1 /\ b[1] = q[1]
  <2>1. b \in Seq({Head(q)}) /\ Len(b) = 1 /\ b[1] = Head(q)
    OBVIOUS
  <2> QED
    BY <1>2, <2>1, InList
<1>4. /\ IsList(r) /\ DOMAIN r = 1 .. Len(a) + Len(b)
      /\ \A k \in 1 .. Len(a) : r[k] = a[k]
      /\ \A k \in 1 .. Len(b) : r[Len(a) + k] = b[k]
  BY <1>3, Joined
<1>5. /\ DOMAIN r = DOMAIN q
      /\ \A k \in 1 .. Len(q) - 1 : r[k] = q[k + 1]
      /\ r[Len(q)] = q[1]
  <2>0. \A n, k, l : n \in Nat /\ k = n - 1 /\ l = 1 =>
                        k + l = n /\ n - 1 = k /\ k + 1 = n /\ 1 \in 1 .. l
    OBVIOUS
  <2>1. Len(a) + Len(b) = Len(q) /\ Len(q) - 1 = Len(a) /\ Len(a) + 1 = Len(q) /\ 1 \in 1 .. Len(b)
    BY Zenon, <2>0, <1>1, <1>2, <1>3
  <2>2. r[Len(a) + 1] = b[1]
    BY Zenon, <1>4, <2>1
  <2>3. \A k \in 1 .. Len(a) : r[k] = q[k + 1]
    BY Zenon, <1>2, <1>4
  <2> QED
    BY Zenon, <1>1, <1>3, <1>4, <2>1, <2>2, <2>3
<1> QED
  BY <1>2, <1>4, <1>5, PicksShifted

(* Chosen goes through the list from its first member. *)
IsTaken(g, ms, S, n) ==
    g = [k \in 0 .. n |-> IF k = 0 THEN <<>> ELSE IF k \in S THEN Append(g[k - 1], ms[k]) ELSE g[k - 1]]

LEMMA TakenExists ==
  ASSUME NEW ms, NEW S, NEW n \in Nat
  PROVE  \E g : IsTaken(g, ms, S, n)
<1> DEFINE T == {m \in Nat : ~\E g : IsTaken(g, ms, S, m)}
<1> SUFFICES ASSUME T # {} PROVE FALSE
  OBVIOUS
<1>1. PICK m \in T : \A k \in T : m <= k
  BY LeastNat
<1>2. m # 0
  <2>1. IsTaken([k \in 0 .. 0 |-> <<>>], ms, S, 0)
    BY DEF IsTaken
  <2> QED
    BY <2>1, <1>1
<1>3. m \in Nat /\ m - 1 \in Nat /\ m - 1 \notin T
  BY <1>1, <1>2
<1>4. PICK g : IsTaken(g, ms, S, m - 1)
  BY <1>3
<1> DEFINE h == [k \in 0 .. m |-> IF k = m THEN IF m \in S THEN Append(g[m - 1], ms[m]) ELSE g[m - 1] ELSE g[k]]
<1>5. \A k \in 0 .. m - 1 : g[k] = IF k = 0 THEN <<>> ELSE IF k \in S THEN Append(g[k - 1], ms[k]) ELSE g[k - 1]
  BY <1>4, <1>3 DEF IsTaken
<1>6. \A k \in 0 .. m : h[k] = IF k = 0 THEN <<>> ELSE IF k \in S THEN Append(h[k - 1], ms[k]) ELSE h[k - 1]
  BY <1>3, <1>5, <1>2
<1>7. IsTaken(h, ms, S, m)
  BY <1>6 DEF IsTaken
<1> QED
  BY <1>7, <1>1

LEMMA ChosenPicks ==
  ASSUME NEW ms, IsList(ms), NEW S \in SUBSET DOMAIN ms, Apart(ms, DOMAIN ms)
  PROVE  Picks(Chosen(ms, S), ms, S)
<1>1. Len(ms) \in Nat /\ DOMAIN ms = 1 .. Len(ms)
  BY ListIs
<1> DEFINE g == CHOOSE x : IsTaken(x, ms, S, Len(ms))
<1>2. IsTaken(g, ms, S, Len(ms))
  BY <1>1, TakenExists
<1>3. Chosen(ms, S) = g[Len(ms)]
  BY DEF Chosen, IsTaken
<1> HIDE DEF g
<1>4. \A k \in 0 .. Len(ms) : g[k] = IF k = 0 THEN <<>> ELSE IF k \in S THEN Append(g[k - 1], ms[k]) ELSE g[k - 1]
  BY <1>2 DEF IsTaken
<1> DEFINE P(n) == Picks(g[n], ms, {i \in S : i <= n})
<1>5. P(0)
  <2>1. {i \in S : i <= 0} = {}
    BY <1>1
  <2>2. g[0] = <<>>
    BY <1>1, <1>4
  <2> QED
    BY <2>1, <2>2, PicksNone
<1>6. ASSUME NEW n \in 1 .. Len(ms), P(n - 1) PROVE P(n)
  <2>1. g[n] = IF n \in S THEN Append(g[n - 1], ms[n]) ELSE g[n - 1]
    BY <1>1, <1>4
  <2>2. CASE n \in S
    <3> DEFINE U == {i \in S : i <= n - 1}
    <3>1. {i \in S : i <= n} = U \cup {n} /\ n \notin U
      BY <1>1, <2>2
    <3>2. Apart(ms, U \cup {n})
      BY <2>2 DEF Apart
    <3>3. Picks(Append(g[n - 1], ms[n]), ms, U \cup {n})
      BY <1>6, <3>1, <3>2, PicksOne
    <3> QED
      BY <2>1, <2>2, <3>1, <3>3
  <2>3. CASE n \notin S
    <3>1. {i \in S : i <= n} = {i \in S : i <= n - 1}
      BY <1>1, <2>3
    <3> QED
      BY <1>6, <2>1, <2>3, <3>1
  <2> QED
    BY <2>2, <2>3
<1> HIDE DEF P
<1>7. \A n \in 0 .. Len(ms) : P(n)
  <2> DEFINE T == {n \in 0 .. Len(ms) : ~P(n)}
  <2> SUFFICES ASSUME T # {} PROVE FALSE
    OBVIOUS
  <2>1. T \in SUBSET Nat
    BY <1>1
  <2>2. PICK n \in T : \A k \in T : n <= k
    BY <2>1, LeastNat
  <2>3. n # 0
    BY <1>5, <2>2
  <2>4. n \in 1 .. Len(ms) /\ n - 1 \in 0 .. Len(ms) /\ ~(n <= n - 1)
    BY <1>1, <2>2, <2>3
  <2>5. P(n - 1)
    BY <2>2, <2>4
  <2> QED
    BY <1>6, <2>2, <2>4, <2>5
<1>8. P(Len(ms))
  BY <1>1, <1>7
<1>9. {i \in S : i <= Len(ms)} = S
  BY <1>1
<1> QED
  BY <1>3, <1>8, <1>9 DEF P

(* The place of an SSRC in a list. *)
LEMMA IndexIs ==
  ASSUME NEW ms, IsList(ms), NEW ssrc, NEW i, i = IndexIn(ms, ssrc)
  PROVE  /\ (\E k \in DOMAIN ms : ms[k].ssrc = ssrc) => i \in DOMAIN ms /\ ms[i].ssrc = ssrc /\ i # 0
         /\ ~(\E k \in DOMAIN ms : ms[k].ssrc = ssrc) => i = 0
<1>1. Len(ms) \in Nat /\ DOMAIN ms = 1 .. Len(ms)
  BY ListIs
<1>2. ASSUME \E k \in DOMAIN ms : ms[k].ssrc = ssrc PROVE i \in DOMAIN ms /\ ms[i].ssrc = ssrc /\ i # 0
  <2> DEFINE T == {k \in DOMAIN ms : ms[k].ssrc = ssrc}
  <2>1. T \in SUBSET Nat /\ T # {}
    BY <1>1, <1>2
  <2>2. PICK k \in T : \A j \in T : k <= j
    BY <2>1, LeastNat
  <2>3. k \in DOMAIN ms /\ ms[k].ssrc = ssrc /\ \A j \in 1 .. k - 1 : ms[j].ssrc # ssrc
    <3>1. ASSUME NEW j \in 1 .. k - 1 PROVE ms[j].ssrc # ssrc
      <4>1. j \in DOMAIN ms /\ ~(k <= j)
        BY <1>1, <2>2
      <4> QED
        BY <2>2, <4>1
    <3> QED
      BY <2>2, <3>1
  <2>4. i = CHOOSE x \in DOMAIN ms : ms[x].ssrc = ssrc /\ \A j \in 1 .. x - 1 : ms[j].ssrc # ssrc
    BY Zenon, <1>2 DEF IndexIn
  <2>5. i \in DOMAIN ms /\ ms[i].ssrc = ssrc
    BY Zenon, <2>3, <2>4
  <2> QED
    BY <1>1, <2>5
<1>3. ASSUME ~(\E k \in DOMAIN ms : ms[k].ssrc = ssrc) PROVE i = 0
  BY Zenon, <1>3 DEF IndexIn
<1> QED
  BY <1>2, <1>3

LEMMA FoundIs ==
  ASSUME NEW ms, IsList(ms), NEW ssrc
  PROVE  findEntryInRcvrList(ms, ssrc) <=> \E k \in DOMAIN ms : ms[k].ssrc = ssrc
  BY IndexIs DEF findEntryInRcvrList

LEMMA NewMember ==
  ASSUME NEW s, NEW p, NEW m, m = NewReceiverInfo(s, p)
  PROVE  /\ IsMember(m) /\ m.ssrc = s /\ m.port = p /\ ~m.csrc /\ ~m.sender
         /\ \A c : c = [m EXCEPT !.csrc = TRUE] => IsMember(c) /\ c.ssrc = s /\ ~c.sender
<1>1. m \in MembersOf(s, p, 0)
  BY DEF NewReceiverInfo, MembersOf
<1>2. ~m.csrc /\ ~m.sender
  BY DEF NewReceiverInfo
<1>3. ASSUME NEW c, c = [m EXCEPT !.csrc = TRUE] PROVE IsMember(c) /\ c.ssrc = s /\ ~c.sender
  <2>1. c \in MembersOf(s, p, 0)
    BY <1>1, <1>3 DEF MembersOf
  <2>2. ~c.sender
    BY <1>3 DEF NewReceiverInfo
  <2> QED
    BY <2>1, <2>2, MemberOf
<1> QED
  BY <1>1, <1>2, <1>3, MemberOf

(* The list q begins with the list ms; whoever else is in it is of the SSRCs C, is
   no sender, and all of C are in it. *)
Extended(q, ms, C) ==
    /\ Lineup(q) /\ DOMAIN ms \subseteq DOMAIN q /\ \A k \in DOMAIN ms : q[k] = ms[k]
    /\ \A k \in DOMAIN q : k \in DOMAIN ms \/ (q[k].ssrc \in C /\ ~q[k].sender)
    /\ \A c \in C : \E k \in DOMAIN q : q[k].ssrc = c

LEMMA ExtendedByNone ==
  ASSUME NEW ms, Lineup(ms)
  PROVE  Extended(ms, ms, {})
  BY DEF Extended

LEMMA LineupOne ==
  ASSUME NEW q, Lineup(q), NEW e, IsMember(e), \A k \in DOMAIN q : q[k].ssrc # e.ssrc
  PROVE  Lineup(Append(q, e))
<1>1. /\ IsList(q) /\ Len(q) \in Nat /\ DOMAIN q = 1 .. Len(q) /\ (\A k \in DOMAIN q : IsMember(q[k]))
      /\ \A j, k \in DOMAIN q : q[j].ssrc = q[k].ssrc => j = k
  BY ListIs DEF Lineup, Apart
<1> DEFINE r == Append(q, e)
<1>2. /\ IsList(r) /\ DOMAIN r = 1 .. Len(q) + 1 /\ r[Len(q) + 1] = e
      /\ \A k \in 1 .. Len(q) : r[k] = q[k]
  BY <1>1, Appended
<1>3. DOMAIN r = DOMAIN q \cup {Len(q) + 1} /\ \A k \in DOMAIN q : r[k] = q[k]
  BY <1>1, <1>2
<1> HIDE DEF r
<1>4. \A k \in DOMAIN r : IsMember(r[k])
  BY <1>1, <1>2, <1>3
<1>5. ASSUME NEW j \in DOMAIN r, NEW k \in DOMAIN r, r[j].ssrc = r[k].ssrc PROVE j = k
  <2>1. CASE j \in DOMAIN q /\ k \in DOMAIN q
    BY <1>1, <1>3, <1>5, <2>1
  <2>2. CASE j \in DOMAIN q /\ k = Len(q) + 1
    BY <1>2, <1>3, <1>5, <2>2
  <2>3. CASE j = Len(q) + 1 /\ k \in DOMAIN q
    BY <1>2, <1>3, <1>5, <2>3
  <2> QED
    BY <1>3, <2>1, <2>2, <2>3
<1> QED
  BY <1>2, <1>4, <1>5 DEF Lineup, Apart, r

LEMMA ExtendedByOne ==
  ASSUME NEW q, NEW ms, NEW C, Extended(q, ms, C), NEW e, IsMember(e), ~e.sender,
         \A k \in DOMAIN q : q[k].ssrc # e.ssrc
  PROVE  Extended(Append(q, e), ms, C \cup {e.ssrc})
<1> DEFINE r == Append(q, e)
<1>1. Lineup(r)
  BY LineupOne DEF Extended
<1>2. /\ IsList(q) /\ Len(q) \in Nat /\ DOMAIN q = 1 .. Len(q)
      /\ DOMAIN ms \subseteq DOMAIN q /\ (\A k \in DOMAIN ms : q[k] = ms[k])
      /\ (\A k \in DOMAIN q : k \in DOMAIN ms \/ (q[k].ssrc \in C /\ ~q[k].sender))
      /\ \A c \in C : \E k \in DOMAIN q : q[k].ssrc = c
  BY ListIs DEF Extended, Lineup
<1>3. /\ DOMAIN r = 1 .. Len(q) + 1 /\ r[Len(q) + 1] = e
      /\ \A k \in 1 .. Len(q) : r[k] = q[k]
  BY <1>2, Appended
<1>4. DOMAIN r = DOMAIN q \cup {Len(q) + 1} /\ \A k \in DOMAIN q : r[k] = q[k]
  BY <1>2, <1>3
<1> HIDE DEF r
<1> QED
  BY <1>1, <1>2, <1>3, <1>4 DEF Extended, r

LEMMA ExtendedByFound ==
  ASSUME NEW q, NEW ms, NEW C, Extended(q, ms, C), NEW c, \E k \in DOMAIN q : q[k].ssrc = c
  PROVE  Extended(q, ms, C \cup {c})
  BY DEF Extended

(* The CSRCs of a packet are listed, whoever is not yet. *)
IsListed(g, ms, csrcs, n) ==
    g = [k \in 0 .. n |->
            IF k = 0 THEN ms
            ELSE LET before == g[k - 1]
                 IN IF findEntryInRcvrList(before, csrcs[k]) THEN before
                    ELSE Append(before, [NewReceiverInfo(csrcs[k], 0) EXCEPT !.csrc = TRUE])]

LEMMA ListedExists ==
  ASSUME NEW ms, NEW csrcs, NEW n \in Nat
  PROVE  \E g : IsListed(g, ms, csrcs, n)
<1> DEFINE more(q, k) == IF findEntryInRcvrList(q, csrcs[k]) THEN q
                         ELSE Append(q, [NewReceiverInfo(csrcs[k], 0) EXCEPT !.csrc = TRUE])
           T == {m \in Nat : ~\E g : IsListed(g, ms, csrcs, m)}
<1>0. \A g, m : IsListed(g, ms, csrcs, m) <=> g = [k \in 0 .. m |-> IF k = 0 THEN ms ELSE more(g[k - 1], k)]
  BY DEF IsListed
<1> HIDE DEF more
<1> SUFFICES ASSUME T # {} PROVE FALSE
  OBVIOUS
<1>1. PICK m \in T : \A k \in T : m <= k
  BY LeastNat
<1>2. m # 0
  <2>1. IsListed([k \in 0 .. 0 |-> ms], ms, csrcs, 0)
    BY <1>0
  <2> QED
    BY <2>1, <1>1
<1>3. m \in Nat /\ m - 1 \in Nat /\ m - 1 \notin T
  BY <1>1, <1>2
<1>4. PICK g : IsListed(g, ms, csrcs, m - 1)
  BY <1>3
<1> DEFINE h == [k \in 0 .. m |-> IF k = m THEN more(g[m - 1], m) ELSE g[k]]
<1>5. \A k \in 0 .. m - 1 : g[k] = IF k = 0 THEN ms ELSE more(g[k - 1], k)
  <2>1. g = [k \in 0 .. m - 1 |-> IF k = 0 THEN ms ELSE more(g[k - 1], k)]
    BY <1>0, <1>4
  <2> QED
    BY <2>1
<1>6. \A k \in 0 .. m : h[k] = IF k = 0 THEN ms ELSE more(h[k - 1], k)
  BY <1>3, <1>5, <1>2
<1>7. h = [k \in 0 .. m |-> IF k = 0 THEN ms ELSE more(h[k - 1], k)]
  BY <1>6
<1> HIDE DEF h
<1> QED
  BY <1>0, <1>7, <1>1

LEMMA CsrcsListed ==
  ASSUME NEW ms, Lineup(ms), NEW csrcs, IsList(csrcs)
  PROVE  Extended(processCsrcList(ms, csrcs), ms, Range(csrcs))
<1>1. Len(csrcs) \in Nat /\ DOMAIN csrcs = 1 .. Len(csrcs)
  BY ListIs
<1> DEFINE g == CHOOSE x : IsListed(x, ms, csrcs, Len(csrcs))
           new(c) == [NewReceiverInfo(c, 0) EXCEPT !.csrc = TRUE]
<1>2. IsListed(g, ms, csrcs, Len(csrcs))
  BY <1>1, ListedExists
<1>3. processCsrcList(ms, csrcs) = g[Len(csrcs)]
  BY DEF processCsrcList, IsListed
<1> HIDE DEF g
<1>4. /\ g[0] = ms
      /\ \A k \in 1 .. Len(csrcs) :
            g[k] = IF findEntryInRcvrList(g[k - 1], csrcs[k]) THEN g[k - 1] ELSE Append(g[k - 1], new(csrcs[k]))
  <2>1. g = [k \in 0 .. Len(csrcs) |->
                IF k = 0 THEN ms
                ELSE IF findEntryInRcvrList(g[k - 1], csrcs[k]) THEN g[k - 1] ELSE Append(g[k - 1], new(csrcs[k]))]
    BY <1>2 DEF IsListed
  <2> HIDE DEF new
  <2>2. 0 \in 0 .. Len(csrcs) /\ \A k \in 1 .. Len(csrcs) : k \in 0 .. Len(csrcs) /\ k # 0
    BY <1>1
  <2> QED
    BY <2>1, <2>2
<1> DEFINE P(n) == Extended(g[n], ms, {csrcs[k] : k \in 1 .. n})
<1>5. P(0)
  <2>1. {csrcs[k] : k \in 1 .. 0} = {}
    OBVIOUS
  <2> QED
    BY <2>1, <1>4, ExtendedByNone
<1>6. ASSUME NEW n \in 1 .. Len(csrcs), P(n - 1) PROVE P(n)
  <2> DEFINE before == g[n - 1]
             C == {csrcs[k] : k \in 1 .. n - 1}
             e == new(csrcs[n])
  <2>1. g[n] = IF findEntryInRcvrList(before, csrcs[n]) THEN before ELSE Append(before, e)
    BY <1>4
  <2>2. {csrcs[k] : k \in 1 .. n} = C \cup {csrcs[n]}
    <3>1. 1 .. n = (1 .. n - 1) \cup {n}
      BY <1>1
    <3> QED
      BY <3>1
  <2>3. IsMember(e) /\ e.ssrc = csrcs[n] /\ ~e.sender
    <3> SUFFICES ASSUME NEW m, m = NewReceiverInfo(csrcs[n], 0)
                 PROVE  LET c == [m EXCEPT !.csrc = TRUE] IN IsMember(c) /\ c.ssrc = csrcs[n] /\ ~c.sender
      OBVIOUS
    <3> QED
      BY Zenon, NewMember
  <2>4. Extended(before, ms, C)
    BY <1>6
  <2> HIDE DEF before, C, e
  <2>5. findEntryInRcvrList(before, csrcs[n]) <=> \E k \in DOMAIN before : before[k].ssrc = csrcs[n]
    BY <2>4, FoundIs DEF Extended, Lineup
  <2>6. CASE findEntryInRcvrList(before, csrcs[n])
    <3>1. Extended(before, ms, C \cup {csrcs[n]})
      BY <2>4, <2>5, <2>6, ExtendedByFound
    <3> QED
      BY <2>1, <2>2, <2>6, <3>1
  <2>7. CASE ~findEntryInRcvrList(before, csrcs[n])
    <3>1. Extended(Append(before, e), ms, C \cup {csrcs[n]})
      BY <2>3, <2>4, <2>5, <2>7, ExtendedByOne
    <3> QED
      BY <2>1, <2>2, <2>7, <3>1
  <2> QED
    BY <2>6, <2>7
<1> HIDE DEF P
<1>7. \A n \in 0 .. Len(csrcs) : P(n)
  <2> DEFINE T == {n \in 0 .. Len(csrcs) : ~P(n)}
  <2> SUFFICES ASSUME T # {} PROVE FALSE
    OBVIOUS
  <2>1. T \in SUBSET Nat
    BY <1>1
  <2>2. PICK n \in T : \A k \in T : n <= k
    BY <2>1, LeastNat
  <2>3. n # 0
    BY <1>5, <2>2
  <2>4. n \in 1 .. Len(csrcs) /\ n - 1 \in 0 .. Len(csrcs) /\ ~(n <= n - 1)
    BY <1>1, <2>2, <2>3
  <2>5. P(n - 1)
    BY <2>2, <2>4
  <2> QED
    BY <1>6, <2>2, <2>4, <2>5
<1>8. P(Len(csrcs))
  BY <1>1, <1>7
<1>9. {csrcs[k] : k \in 1 .. Len(csrcs)} = Range(csrcs)
  BY <1>1 DEF Range
<1> QED
  BY <1>3, <1>8, <1>9 DEF P

(***************************************************************************)
(* An RTP packet that comes.                                               *)
(***************************************************************************)
LEMMA Replaced ==
  ASSUME NEW q, Lineup(q), NEW i \in DOMAIN q, NEW e, IsMember(e), e.ssrc = q[i].ssrc,
         NEW r, r = [q EXCEPT ![i] = e]
  PROVE  Lineup(r) /\ DOMAIN r = DOMAIN q /\ r[i] = e /\ \A k \in DOMAIN q : k # i => r[k] = q[k]
<1>1. /\ Len(q) \in Nat /\ DOMAIN q = 1 .. Len(q) /\ q \in [1 .. Len(q) -> Range(q)]
      /\ (\A k \in DOMAIN q : IsMember(q[k]))
      /\ \A j, k \in DOMAIN q : q[j].ssrc = q[k].ssrc => j = k
  BY ListIs DEF Lineup, Apart
<1>2. DOMAIN r = DOMAIN q /\ r[i] = e /\ \A k \in DOMAIN q : k # i => r[k] = q[k]
  BY <1>1
<1>3. IsList(r)
  <2>1. r \in [1 .. Len(q) -> Range(q) \cup {e}]
    BY <1>1
  <2>2. r \in Seq(Range(q) \cup {e})
    BY <1>1, <2>1, SeqDef
  <2> QED
    BY <2>2, InList
<1>4. \A k \in DOMAIN r : IsMember(r[k])
  BY <1>1, <1>2
<1>5. \A k \in DOMAIN r : r[k].ssrc = q[k].ssrc
  BY <1>2
<1>6. Apart(r, DOMAIN r)
  BY <1>1, <1>2, <1>5 DEF Apart
<1> QED
  BY <1>2, <1>3, <1>4, <1>6 DEF Lineup

(* The member of the sender is there, new or not, and becomes e; the CSRCs follow. *)
LEMMA Placed ==
  ASSUME NEW ms, Lineup(ms), NEW csrcs, IsList(csrcs), NEW ssrc,
         NEW m, IsMember(m), m.ssrc = ssrc, NEW e, IsMember(e), e.ssrc = ssrc,
         NEW known, known = processCsrcList(IF IndexIn(ms, ssrc) = 0 THEN Append(ms, m) ELSE ms, csrcs),
         NEW r, r = [known EXCEPT ![IndexIn(known, ssrc)] = e]
  PROVE  /\ Lineup(r) /\ \E k \in DOMAIN r : r[k] = e
         /\ \A k \in DOMAIN r : \/ r[k] = e
                                \/ r[k].ssrc # ssrc /\ \E i \in DOMAIN ms : r[k] = ms[i]
                                \/ /\ r[k].ssrc # ssrc /\ r[k].ssrc \in Range(csrcs) /\ ~r[k].sender
                                   /\ \A i \in DOMAIN ms : ms[i].ssrc # r[k].ssrc
         /\ \A i \in DOMAIN ms : ms[i].ssrc # ssrc => \E k \in DOMAIN r : r[k] = ms[i]
         /\ \A c \in Range(csrcs) : \E k \in DOMAIN r : r[k].ssrc = c
<1> DEFINE base == IF IndexIn(ms, ssrc) = 0 THEN Append(ms, m) ELSE ms
<1>1. /\ IsList(ms) /\ Len(ms) \in Nat /\ DOMAIN ms = 1 .. Len(ms)
      /\ \A j, k \in DOMAIN ms : ms[j].ssrc = ms[k].ssrc => j = k
  BY ListIs DEF Lineup, Apart
<1>2. /\ Lineup(base) /\ DOMAIN ms \subseteq DOMAIN base /\ \A k \in DOMAIN ms : base[k] = ms[k]
      /\ \A k \in DOMAIN base : k \in DOMAIN ms \/ base[k].ssrc = ssrc
      /\ \E k \in DOMAIN base : base[k].ssrc = ssrc
  <2>1. CASE IndexIn(ms, ssrc) = 0
    <3>1. \A k \in DOMAIN ms : ms[k].ssrc # m.ssrc
      BY <1>1, <2>1, IndexIs
    <3>2. Lineup(Append(ms, m))
      BY <3>1, LineupOne
    <3>3. /\ DOMAIN Append(ms, m) = 1 .. Len(ms) + 1 /\ Append(ms, m)[Len(ms) + 1] = m
          /\ \A k \in 1 .. Len(ms) : Append(ms, m)[k] = ms[k]
      BY <1>1, Appended
    <3>4. base = Append(ms, m)
      BY <2>1
    <3> HIDE DEF base
    <3>5. /\ DOMAIN base = DOMAIN ms \cup {Len(ms) + 1} /\ base[Len(ms) + 1] = m
          /\ \A k \in DOMAIN ms : base[k] = ms[k]
      BY <1>1, <3>3, <3>4
    <3> QED
      BY <3>2, <3>4, <3>5
  <2>2. CASE IndexIn(ms, ssrc) # 0
    <3>1. \E k \in DOMAIN ms : ms[k].ssrc = ssrc
      BY <1>1, <2>2, IndexIs
    <3> QED
      BY <2>2, <3>1
  <2> QED
    BY <2>1, <2>2
<1>3. known = processCsrcList(base, csrcs)
  OBVIOUS
<1> HIDE DEF base
<1>4. Extended(known, base, Range(csrcs))
  BY <1>2, <1>3, CsrcsListed
<1>5. /\ Lineup(known) /\ IsList(known) /\ DOMAIN base \subseteq DOMAIN known
      /\ (\A k \in DOMAIN base : known[k] = base[k])
      /\ (\A k \in DOMAIN known : k \in DOMAIN base \/ (known[k].ssrc \in Range(csrcs) /\ ~known[k].sender))
      /\ (\A c \in Range(csrcs) : \E k \in DOMAIN known : known[k].ssrc = c)
      /\ \A j, k \in DOMAIN known : known[j].ssrc = known[k].ssrc => j = k
  BY <1>4 DEF Extended, Lineup, Apart
<1> DEFINE at == IndexIn(known, ssrc)
<1>6. at \in DOMAIN known /\ known[at].ssrc = ssrc
  <2>1. \E k \in DOMAIN known : known[k].ssrc = ssrc
    BY <1>2, <1>5
  <2> QED
    BY <1>5, <2>1, IndexIs
<1>7. r = [known EXCEPT ![at] = e]
  OBVIOUS
<1> HIDE DEF at
<1>8. Lineup(r) /\ DOMAIN r = DOMAIN known /\ r[at] = e /\ \A k \in DOMAIN known : k # at => r[k] = known[k]
  BY <1>5, <1>6, <1>7, Replaced
<1>9. ASSUME NEW k \in DOMAIN r
      PROVE  \/ r[k] = e
             \/ r[k].ssrc # ssrc /\ \E i \in DOMAIN ms : r[k] = ms[i]
             \/ /\ r[k].ssrc # ssrc /\ r[k].ssrc \in Range(csrcs) /\ ~r[k].sender
                /\ \A i \in DOMAIN ms : ms[i].ssrc # r[k].ssrc
  <2>1. CASE k = at
    BY <1>8, <2>1
  <2>2. CASE k # at
    <3>1. r[k] = known[k] /\ known[k].ssrc # ssrc
      BY <1>5, <1>6, <1>8, <2>2
    <3>2. CASE k \in DOMAIN ms
      BY <1>2, <1>5, <3>1, <3>2
    <3>3. CASE k \notin DOMAIN ms
      <4>1. k \notin DOMAIN base
        BY <1>2, <1>5, <3>1, <3>3
      <4>2. ASSUME NEW i \in DOMAIN ms PROVE ms[i].ssrc # known[k].ssrc
        <5>1. i \in DOMAIN known /\ known[i] = ms[i] /\ i # k
          BY <1>2, <1>5, <4>1
        <5> QED
          BY <1>5, <1>8, <5>1
      <4> QED
        BY <1>5, <1>8, <3>1, <4>1, <4>2
    <3> QED
      BY <3>2, <3>3
  <2> QED
    BY <2>1, <2>2
<1>10. ASSUME NEW i \in DOMAIN ms, ms[i].ssrc # ssrc PROVE \E k \in DOMAIN r : r[k] = ms[i]
  <2>1. i \in DOMAIN known /\ known[i] = ms[i]
    BY <1>2, <1>5
  <2>2. i # at
    BY <1>6, <1>10, <2>1
  <2> QED
    BY <1>8, <2>1, <2>2
<1>11. ASSUME NEW c \in Range(csrcs) PROVE \E k \in DOMAIN r : r[k].ssrc = c
  <2>1. PICK k \in DOMAIN known : known[k].ssrc = c
    BY <1>5
  <2> QED
    BY <1>6, <1>8, <2>1
<1> QED
  BY <1>6, <1>8, <1>9, <1>10, <1>11

(* What a packet of an SSRC is taken for. *)
LEMMA Verdict ==
  ASSUME Lineup(members), NEW ssrc, NEW i, i = IndexIn(members, ssrc),
         NEW v, v = checkSsrcCollisionOnRcv(ssrc, Port)
  PROVE  /\ i = 0 <=> v = "new"
         /\ i # 0 => i \in DOMAIN members /\ IsMember(members[i]) /\ members[i].ssrc = ssrc
         /\ i # 0 /\ Plain(members[i]) <=> v = "old"
         /\ v \in {"new", "csrc", "collision", "old"}
<1>1. i # 0 => i \in DOMAIN members /\ IsMember(members[i]) /\ members[i].ssrc = ssrc
  BY IndexIs DEF Lineup
<1>2. CASE i = 0
  <2>1. v = "new"
    BY <1>2 DEF checkSsrcCollisionOnRcv
  <2> QED
    BY <1>2, <2>1
<1>3. CASE i # 0 /\ members[i].csrc
  <2>1. v = "csrc"
    BY <1>3 DEF checkSsrcCollisionOnRcv
  <2>2. ~Plain(members[i])
    BY <1>3 DEF Plain
  <2> QED
    BY <1>1, <1>3, <2>1, <2>2
<1>4. CASE i # 0 /\ ~members[i].csrc /\ members[i].port # Port
  <2>1. v = "collision"
    BY <1>4 DEF checkSsrcCollisionOnRcv
  <2>2. ~Plain(members[i])
    BY <1>4 DEF Plain
  <2> QED
    BY <1>1, <1>4, <2>1, <2>2
<1>5. CASE i # 0 /\ ~members[i].csrc /\ members[i].port = Port
  <2>1. v = "old"
    BY <1>5 DEF checkSsrcCollisionOnRcv
  <2>2. Plain(members[i])
    BY <1>5 DEF Plain
  <2> QED
    BY <1>1, <1>5, <2>1, <2>2
<1> QED
  BY <1>2, <1>3, <1>4, <1>5

(* The member the packet is counted for. *)
LEMMA MemberForIs ==
  ASSUME Lineup(members), NEW ssrc, NEW seq \in Nat, NEW i, i = IndexIn(members, ssrc),
         NEW v, v = checkSsrcCollisionOnRcv(ssrc, Port), NEW m, m = MemberFor(ssrc, seq)
  PROVE  /\ IsMember(m) /\ m.ssrc = ssrc
         /\ v = "new" => Plain(m) /\ Zeroed(m, seq)
         /\ v = "old" /\ ~session.m_bFirstRtpRecvd => Plain(m) /\ Zeroed(m, seq)
         /\ v = "old" /\ session.m_bFirstRtpRecvd => m = members[i]
<1>1. /\ i = 0 <=> v = "new"
      /\ i # 0 => IsMember(members[i]) /\ members[i].ssrc = ssrc
      /\ i # 0 /\ Plain(members[i]) <=> v = "old"
      /\ v \in {"new", "csrc", "collision", "old"}
  BY Verdict
<1>2. CASE v = "new"
  <2> DEFINE n == NewReceiverInfo(ssrc, Port)
  <2>1. IsMember(n) /\ n.ssrc = ssrc /\ Plain(n)
    BY NewMember DEF Plain
  <2>2. m = Fresh(n, seq)
    BY <1>2 DEF MemberFor, Fresh
  <2> HIDE DEF n
  <2>3. IsMember(m) /\ Kin(m, n) /\ Zeroed(m, seq)
    BY <2>1, <2>2, FreshSteps
  <2>4. m.ssrc = ssrc /\ Plain(m)
    BY <2>1, <2>3, KinSteps
  <2> QED
    BY <1>2, <2>3, <2>4
<1>3. CASE v = "csrc"
  <2> DEFINE f == Fresh(members[i], seq)
  <2>1. IsMember(members[i]) /\ members[i].ssrc = ssrc
    BY <1>1, <1>3
  <2>2. m = [f EXCEPT !.port = Port]
    BY <1>3 DEF MemberFor, Fresh
  <2>3. IsMember(f) /\ f.ssrc = ssrc
    BY <2>1, FreshSteps, KinSteps
  <2> HIDE DEF f
  <2>4. m \in MembersOf(ssrc, Port, f.lsr)
    BY <2>2, <2>3 DEF IsMember, MembersOf
  <2> QED
    BY <1>3, <2>4, MemberOf
<1>4. CASE v = "old" /\ ~session.m_bFirstRtpRecvd
  <2>1. IsMember(members[i]) /\ members[i].ssrc = ssrc /\ Plain(members[i])
    BY <1>1, <1>4
  <2>2. m = Fresh(members[i], seq)
    BY <1>4 DEF MemberFor, Fresh
  <2>3. IsMember(m) /\ Kin(m, members[i]) /\ Zeroed(m, seq)
    BY <2>1, <2>2, FreshSteps
  <2>4. m.ssrc = ssrc /\ Plain(m)
    BY <2>1, <2>3, KinSteps
  <2> QED
    BY <1>4, <2>3, <2>4
<1>5. CASE v = "collision" \/ (v = "old" /\ session.m_bFirstRtpRecvd)
  <2>1. m = members[i]
    BY <1>5 DEF MemberFor
  <2> QED
    BY <1>1, <1>5, <2>1
<1> QED
  BY <1>1, <1>2, <1>3, <1>4, <1>5

(* What the observer makes of a packet, for its sender and for everyone else. *)
LEMMA ToldIs ==
  ASSUME NEW ssrc, NEW idx, NEW csrcs, NEW p \in PeerSsrcs, NEW t, t = Told(ssrc, idx, csrcs)[p]
  PROVE  /\ p = ssrc /\ told[p].by = "none" => t = Begun(idx)
         /\ p = ssrc /\ told[p].by = "other" /\ ~session.m_bFirstRtpRecvd /\ checkSsrcCollisionOnRcv(p, Port) = "old" =>
                t = Begun(idx)
         /\ p = ssrc /\ told[p].by = "other" /\ ~(~session.m_bFirstRtpRecvd /\ checkSsrcCollisionOnRcv(p, Port) = "old") =>
                t = told[p]
         /\ p = ssrc /\ told[p].by = "rtp" => t = Heard(told[p], idx)
         /\ p # ssrc /\ told[p].by = "none" /\ p \in Range(csrcs) => t = [told[p] EXCEPT !.by = "other"]
         /\ p # ssrc /\ ~(told[p].by = "none" /\ p \in Range(csrcs)) => t = told[p]
  BY DEF Told

LEMMA OtherCounts ==
  ASSUME NEW t \in Counts, NEW h, h = [t EXCEPT !.by = "other"]
  PROVE  h \in Counts /\ h.by = "other"
  BY DEF Counts

(* The member the packet is counted for agrees with the observer afterwards; a
   packet that is punctual is no collision and is handed on. *)
LEMMA PacketCounts ==
  ASSUME NEW ssrc \in PeerSsrcs, NEW idx \in Nat, NEW csrcs, Arriving(ssrc, idx),
         Observed(members, told, session.m_bFirstRtpRecvd),
         NEW u, u = UpdateSeq(MemberFor(ssrc, NumberOf(idx)), NumberOf(idx)),
         NEW t, t = Told(ssrc, idx, csrcs)[ssrc]
  PROVE  /\ IsMember(Received(u.m)) /\ Received(u.m).ssrc = ssrc
         /\ Received(u.m).sender /\ Received(u.m).total
         /\ t \in Counts /\ t.by # "none"
         /\ t.by = "rtp" => Agrees(Received(u.m), t)
         /\ Punctual(ssrc, idx) => u.ok /\ checkSsrcCollisionOnRcv(ssrc, Port) # "collision"
<1> DEFINE seq == NumberOf(idx)
           m == MemberFor(ssrc, seq)
           i == IndexIn(members, ssrc)
           v == checkSsrcCollisionOnRcv(ssrc, Port)
           s == told[ssrc]
           received == session.m_bFirstRtpRecvd
           g == u.m
<1>1. /\ Lineup(members) /\ IsList(members) /\ s \in Counts
      /\ s.by = "none" => \A k \in DOMAIN members : members[k].ssrc # ssrc
      /\ s.by # "none" => \E k \in DOMAIN members : members[k].ssrc = ssrc
      /\ \A k \in DOMAIN members : members[k].ssrc \in PeerSsrcs /\ told[members[k].ssrc].by = "rtp" =>
             received /\ Agrees(members[k], told[members[k].ssrc])
  BY DEF Observed, Roster, Lineup
<1>2. seq \in Nat
  BY NumberType
<1>3. /\ i = 0 <=> v = "new"
      /\ i # 0 => i \in DOMAIN members /\ IsMember(members[i]) /\ members[i].ssrc = ssrc
      /\ i # 0 /\ Plain(members[i]) <=> v = "old"
      /\ v \in {"new", "csrc", "collision", "old"}
  BY <1>1, Verdict
<1>4. /\ IsMember(m) /\ m.ssrc = ssrc
      /\ v = "new" => Plain(m) /\ Zeroed(m, seq)
      /\ v = "old" /\ ~received => Plain(m) /\ Zeroed(m, seq)
      /\ v = "old" /\ received => m = members[i]
  BY <1>1, <1>2, MemberForIs
<1>5. IsMember(g) /\ Kin(g, m) /\ g.ssrc = ssrc
  BY <1>2, <1>4, UpdateSeqType, KinSteps
<1>6. IsMember(Received(g)) /\ Received(g).ssrc = ssrc /\ Received(g).sender /\ Received(g).total
  BY <1>5, ReceivedSteps, KinSteps
<1>7. s.by = "none" => v = "new"
  BY <1>1, <1>3, IndexIs
<1>8. s.by = "rtp" => v = "old" /\ received /\ Agrees(members[i], s)
  <2> SUFFICES ASSUME s.by = "rtp" PROVE v = "old" /\ received /\ Agrees(members[i], s)
    OBVIOUS
  <2>1. i \in DOMAIN members /\ members[i].ssrc = ssrc /\ i # 0
    BY <1>1, IndexIs
  <2>2. received /\ Agrees(members[i], s)
    BY <1>1, <2>1
  <2>3. Plain(members[i])
    BY <2>2 DEF Agrees
  <2> QED
    BY <1>3, <2>1, <2>2, <2>3
<1>9. u = UpdateSeq(m, seq)
  OBVIOUS
<1>10. Punctual(ssrc, idx) <=> s.by = "none" \/ (s.by = "rtp" /\ Follows(s, idx))
  BY DEF Punctual
<1>11. s.by \in {"none", "other", "rtp"} /\ s.highest \in Nat
  BY <1>1, CountsFields
<1> DEFINE Goal == /\ t \in Counts /\ t.by # "none"
                   /\ t.by = "rtp" => Agrees(Received(g), t)
                   /\ Punctual(ssrc, idx) => u.ok /\ v # "collision"
<1>12. /\ s.by = "none" => t = Begun(idx)
       /\ s.by = "other" /\ ~received /\ v = "old" => t = Begun(idx)
       /\ s.by = "other" /\ ~(~received /\ v = "old") => t = s
       /\ s.by = "rtp" => t = Heard(s, idx)
  BY ToldIs
<1>13. s.by = "rtp" => idx - s.highest >= -MaxMisorder /\ idx - s.highest < RTP_SEQ_MOD - MaxMisorder
  BY DEF Arriving
<1>14. seq = NumberOf(idx)
  OBVIOUS
<1> HIDE DEF seq, m, i, v, s, received, g
<1>15. CASE s.by = "none" \/ (s.by = "other" /\ ~received /\ v = "old")
  <2>1. Plain(m) /\ Zeroed(m, NumberOf(idx)) /\ v # "collision"
    BY <1>4, <1>7, <1>14, <1>15
  <2>2. u.ok /\ Same(g, Begun(idx))
    BY <1>4, <1>9, <1>14, <2>1, FirstCounts DEF g
  <2>3. t = Begun(idx)
    BY <1>12, <1>15
  <2>4. Begun(idx) \in Counts /\ Begun(idx).by = "rtp" /\ Begun(idx).heard
    BY BegunIs
  <2>5. Plain(g)
    BY <1>5, <2>1, KinSteps
  <2>6. Agrees(Received(g), Begun(idx))
    BY <1>5, <2>2, <2>4, <2>5, ReceivedAgrees
  <2>7. Goal
    BY <2>1, <2>2, <2>3, <2>4, <2>6
  <2> QED
    BY <1>6, <2>7 DEF g, v
<1>16. CASE s.by = "other" /\ ~(~received /\ v = "old")
  <2>1. t = s
    BY <1>12, <1>16
  <2>2. ~Punctual(ssrc, idx)
    BY <1>10, <1>16
  <2>3. Goal
    BY <1>1, <1>16, <2>1, <2>2
  <2> QED
    BY <1>6, <2>3 DEF g, v
<1>17. CASE s.by = "rtp"
  <2>1. m = members[i] /\ v = "old" /\ received /\ Agrees(members[i], s)
    BY <1>4, <1>8, <1>17
  <2>2. Plain(m) /\ Same(m, s)
    BY <2>1 DEF Agrees
  <2>3. /\ Heard(s, idx) \in Counts /\ Heard(s, idx).heard /\ Heard(s, idx).by = "rtp"
        /\ Same(g, Heard(s, idx))
        /\ Follows(s, idx) => u.ok
    BY <1>1, <1>4, <1>9, <1>13, <1>14, <1>17, <2>2, NextCounts DEF g
  <2>4. Plain(g)
    BY <1>5, <2>2, KinSteps
  <2>5. Agrees(Received(g), Heard(s, idx))
    BY <1>5, <2>3, <2>4, ReceivedAgrees
  <2>6. t = Heard(s, idx)
    BY <1>12, <1>17
  <2>7. Goal
    BY <1>10, <1>17, <2>1, <2>3, <2>5, <2>6
  <2> QED
    BY <1>6, <2>7 DEF g, v
<1> QED
  BY <1>11, <1>15, <1>16, <1>17

(* After a packet the observer still knows whom the session knows, as it knows them. *)
LEMMA RecvRtpObserved ==
  ASSUME NEW ssrc \in PeerSsrcs, NEW idx \in Nat, NEW csrcs, IsList(csrcs), Arriving(ssrc, idx),
         Observed(members, told, session.m_bFirstRtpRecvd),
         NEW e, e = Received(UpdateSeq(MemberFor(ssrc, NumberOf(idx)), NumberOf(idx)).m),
         NEW known, known = processCsrcList(IF IndexIn(members, ssrc) = 0
                                            THEN Append(members, MemberFor(ssrc, NumberOf(idx))) ELSE members, csrcs),
         NEW ms, ms = [known EXCEPT ![IndexIn(known, ssrc)] = e],
         NEW td, td = Told(ssrc, idx, csrcs)
  PROVE  Observed(ms, td, TRUE)
<1>1. /\ Lineup(members) /\ told \in [PeerSsrcs -> Counts]
      /\ \A k \in DOMAIN members : members[k].sender => members[k].total /\ members[k].ssrc \in PeerSsrcs
      /\ \A p \in PeerSsrcs : told[p].by = "none" => \A k \in DOMAIN members : members[k].ssrc # p
      /\ \A p \in PeerSsrcs : told[p].by # "none" => \E k \in DOMAIN members : members[k].ssrc = p
      /\ \A k \in DOMAIN members : members[k].ssrc \in PeerSsrcs /\ told[members[k].ssrc].by = "rtp" =>
             Agrees(members[k], told[members[k].ssrc])
  BY DEF Observed, Roster
<1>2. /\ IsMember(e) /\ e.ssrc = ssrc /\ e.sender /\ e.total
      /\ td[ssrc] \in Counts /\ td[ssrc].by # "none"
      /\ td[ssrc].by = "rtp" => Agrees(e, td[ssrc])
  BY PacketCounts
<1>3. IsMember(MemberFor(ssrc, NumberOf(idx))) /\ MemberFor(ssrc, NumberOf(idx)).ssrc = ssrc
  BY <1>1, NumberType, MemberForIs
<1>4. /\ Lineup(ms) /\ \E k \in DOMAIN ms : ms[k] = e
      /\ \A k \in DOMAIN ms : \/ ms[k] = e
                              \/ ms[k].ssrc # ssrc /\ \E i \in DOMAIN members : ms[k] = members[i]
                              \/ /\ ms[k].ssrc # ssrc /\ ms[k].ssrc \in Range(csrcs) /\ ~ms[k].sender
                                 /\ \A i \in DOMAIN members : members[i].ssrc # ms[k].ssrc
      /\ \A i \in DOMAIN members : members[i].ssrc # ssrc => \E k \in DOMAIN ms : ms[k] = members[i]
      /\ \A c \in Range(csrcs) : \E k \in DOMAIN ms : ms[k].ssrc = c
  BY <1>1, <1>2, <1>3, Placed, SMTT(30)
<1>5. \A p \in PeerSsrcs : p # ssrc =>
         /\ told[p].by = "none" /\ p \in Range(csrcs) => td[p] \in Counts /\ td[p].by = "other"
         /\ ~(told[p].by = "none" /\ p \in Range(csrcs)) => td[p] = told[p]
  <2> TAKE p \in PeerSsrcs
  <2>1. told[p] \in Counts
    BY <1>1
  <2> QED
    BY <2>1, ToldIs, OtherCounts
<1>6. td \in [PeerSsrcs -> Counts]
  <2>1. \A p \in PeerSsrcs : td[p] \in Counts
    BY <1>1, <1>2, <1>5
  <2>2. td = [p \in PeerSsrcs |-> td[p]]
    BY DEF Told
  <2> QED
    BY <2>1, <2>2
<1>7. ASSUME NEW k \in DOMAIN ms, ms[k].sender PROVE ms[k].total /\ ms[k].ssrc \in PeerSsrcs
  BY <1>1, <1>2, <1>4, <1>7
<1>8. ASSUME NEW p \in PeerSsrcs, td[p].by = "none", NEW k \in DOMAIN ms PROVE ms[k].ssrc # p
  <2>1. p # ssrc
    BY <1>2, <1>8
  <2>2. told[p].by = "none" /\ p \notin Range(csrcs)
    <3>1. ~(td[p].by = "other")
      BY <1>8
    <3> QED
      BY <1>5, <1>8, <2>1, <3>1
  <2> QED
    BY <1>1, <1>2, <1>4, <2>1, <2>2
<1>9. ASSUME NEW p \in PeerSsrcs, td[p].by # "none" PROVE \E k \in DOMAIN ms : ms[k].ssrc = p
  <2>1. CASE p = ssrc
    BY <1>2, <1>4, <2>1
  <2>2. CASE p # ssrc /\ p \in Range(csrcs)
    BY <1>4, <2>2
  <2>3. CASE p # ssrc /\ p \notin Range(csrcs)
    <3>1. told[p].by # "none"
      BY <1>5, <1>9, <2>3
    <3>2. PICK i \in DOMAIN members : members[i].ssrc = p
      BY <1>1, <3>1
    <3> QED
      BY <1>4, <2>3, <3>2
  <2> QED
    BY <2>1, <2>2, <2>3
<1>10. ASSUME NEW k \in DOMAIN ms, ms[k].ssrc \in PeerSsrcs, td[ms[k].ssrc].by = "rtp"
       PROVE  Agrees(ms[k], td[ms[k].ssrc])
  <2>1. CASE ms[k] = e
    BY <1>2, <1>10, <2>1
  <2>2. CASE ms[k].ssrc # ssrc
    <3> DEFINE p == ms[k].ssrc
    <3>1. td[p] = told[p] /\ told[p].by = "rtp"
      <4>1. ~(td[p].by = "other")
        BY <1>10
      <4> QED
        BY <1>5, <1>10, <2>2, <4>1
    <3>2. PICK i \in DOMAIN members : members[i].ssrc = p
      <4>1. told[p].by # "none"
        BY <3>1
      <4> QED
        BY <1>1, <1>10, <4>1
    <3>3. PICK j \in DOMAIN members : ms[k] = members[j]
      BY <1>2, <1>4, <2>2, <3>2
    <3>4. Agrees(members[j], told[p])
      BY <1>1, <1>10, <3>1, <3>3
    <3> QED
      BY <3>1, <3>3, <3>4
  <2> QED
    BY <1>4, <2>1, <2>2
<1> QED
  BY <1>4, <1>6, <1>7, <1>8, <1>9, <1>10 DEF Observed, Roster

(***************************************************************************)
(* An RTCP packet that comes.                                              *)
(***************************************************************************)
(* A list that could be that of the session, as far as the observer knows. *)
Agreeing(ms, td, received) ==
    \A i \in DOMAIN ms : ms[i].ssrc \in PeerSsrcs /\ td[ms[i].ssrc].by = "rtp" =>
        received /\ Agrees(ms[i], td[ms[i].ssrc])
Carries(ms) ==
    /\ Roster(ms) /\ Agreeing(ms, told, session.m_bFirstRtpRecvd)
    /\ \A p \in PeerSsrcs : told[p].by # "none" => \E i \in DOMAIN ms : ms[i].ssrc = p

LEMMA CarriesExtended ==
  ASSUME NEW ms, Carries(ms), NEW q, NEW C, Extended(q, ms, C)
  PROVE  Carries(q)
<1>1. /\ \A i \in DOMAIN ms : ms[i].sender => ms[i].total /\ ms[i].ssrc \in PeerSsrcs
      /\ \A i \in DOMAIN ms : ms[i].ssrc \in PeerSsrcs /\ told[ms[i].ssrc].by = "rtp" =>
             session.m_bFirstRtpRecvd /\ Agrees(ms[i], told[ms[i].ssrc])
      /\ \A p \in PeerSsrcs : told[p].by # "none" => \E i \in DOMAIN ms : ms[i].ssrc = p
  BY DEF Carries, Roster, Agreeing
<1>2. /\ Lineup(q) /\ DOMAIN ms \subseteq DOMAIN q /\ \A k \in DOMAIN ms : q[k] = ms[k]
      /\ \A k \in DOMAIN q : k \in DOMAIN ms \/ ~q[k].sender
      /\ \A j, k \in DOMAIN q : q[j].ssrc = q[k].ssrc => j = k
  BY DEF Extended, Lineup, Apart
<1>3. Roster(q)
  BY <1>1, <1>2 DEF Roster
<1>4. \A p \in PeerSsrcs : told[p].by # "none" => \E i \in DOMAIN q : q[i].ssrc = p
  BY <1>1, <1>2
<1>5. ASSUME NEW k \in DOMAIN q, q[k].ssrc \in PeerSsrcs, told[q[k].ssrc].by = "rtp"
      PROVE  session.m_bFirstRtpRecvd /\ Agrees(q[k], told[q[k].ssrc])
  <2>1. told[q[k].ssrc].by # "none"
    BY <1>5
  <2>2. PICK i \in DOMAIN ms : ms[i].ssrc = q[k].ssrc
    BY <1>1, <1>5, <2>1
  <2>3. i = k
    BY <1>2, <2>2
  <2> QED
    BY <1>1, <1>2, <1>5, <2>2, <2>3
<1> QED
  BY <1>3, <1>4, <1>5 DEF Carries, Agreeing

LEMMA SrSteps ==
  ASSUME NEW m, IsMember(m), NEW e, e = [m EXCEPT !.lsr = 1]
  PROVE  /\ IsMember(e) /\ Kin(e, m) /\ (e.sender <=> m.sender) /\ (e.total <=> m.total)
         /\ e.base = m.base /\ e.max = m.max /\ e.bad = m.bad
         /\ e.cycles = m.cycles /\ e.received = m.received
         /\ e.expectedPrior = m.expectedPrior /\ e.receivedPrior = m.receivedPrior
<1>1. e \in MembersOf(m.ssrc, m.port, 1)
  BY DEF IsMember, MembersOf
<1>2. e.sender = m.sender /\ e.total = m.total /\ e.csrc = m.csrc
  BY DEF IsMember, MembersOf
<1>3. /\ e.base = m.base /\ e.max = m.max /\ e.bad = m.bad
      /\ e.cycles = m.cycles /\ e.received = m.received
      /\ e.expectedPrior = m.expectedPrior /\ e.receivedPrior = m.receivedPrior
  BY DEF IsMember, MembersOf
<1>4. IsMember(e) /\ Kin(e, m)
  BY <1>1, <1>2, MemberOf DEF Kin
<1> QED
  BY Zenon, <1>2, <1>3, <1>4

LEMMA CarriesSr ==
  ASSUME NEW ms, Carries(ms), NEW i \in DOMAIN ms, NEW e, e = [ms[i] EXCEPT !.lsr = 1],
         NEW q, q = [ms EXCEPT ![i] = e]
  PROVE  Carries(q)
<1>1. /\ Lineup(ms) /\ IsMember(ms[i])
      /\ \A k \in DOMAIN ms : ms[k].sender => ms[k].total /\ ms[k].ssrc \in PeerSsrcs
      /\ \A k \in DOMAIN ms : ms[k].ssrc \in PeerSsrcs /\ told[ms[k].ssrc].by = "rtp" =>
             session.m_bFirstRtpRecvd /\ Agrees(ms[k], told[ms[k].ssrc])
      /\ \A p \in PeerSsrcs : told[p].by # "none" => \E k \in DOMAIN ms : ms[k].ssrc = p
  BY DEF Carries, Roster, Agreeing, Lineup
<1> DEFINE m == ms[i]
<1>3. /\ IsMember(e) /\ Kin(e, m) /\ (e.sender <=> m.sender) /\ (e.total <=> m.total)
      /\ e.base = m.base /\ e.max = m.max /\ e.bad = m.bad
      /\ e.cycles = m.cycles /\ e.received = m.received
      /\ e.expectedPrior = m.expectedPrior /\ e.receivedPrior = m.receivedPrior
  BY <1>1, SrSteps
<1>4. e.ssrc = m.ssrc /\ (Plain(m) => Plain(e))
  BY <1>3, KinSteps
<1>5. Lineup(q) /\ DOMAIN q = DOMAIN ms /\ q[i] = e /\ \A k \in DOMAIN ms : k # i => q[k] = ms[k]
  BY <1>1, <1>3, <1>4, Replaced
<1>6. \A t : Agrees(m, t) => Agrees(e, t)
  <2> TAKE t
  <2> HIDE DEF m
  <2>1. Same(m, t) => Same(e, t)
    BY <1>3 DEF Same, GetExtSeqNum
  <2> QED
    BY Zenon, <1>3, <1>4, <2>1 DEF Agrees
<1>7. \A k \in DOMAIN ms : q[k].ssrc = ms[k].ssrc /\ \A t : Agrees(ms[k], t) => Agrees(q[k], t)
  BY <1>4, <1>5, <1>6
<1>8. \A k \in DOMAIN ms : (q[k].sender => ms[k].sender) /\ (ms[k].total => q[k].total)
  BY <1>3, <1>5
<1>9. Roster(q)
  BY <1>1, <1>5, <1>7, <1>8 DEF Roster
<1>10. Agreeing(q, told, session.m_bFirstRtpRecvd)
  BY <1>1, <1>5, <1>7 DEF Agreeing
<1>11. \A p \in PeerSsrcs : told[p].by # "none" => \E k \in DOMAIN q : q[k].ssrc = p
  BY <1>1, <1>5, <1>7
<1> QED
  BY <1>9, <1>10, <1>11 DEF Carries

LEMMA PicksRoster ==
  ASSUME NEW ms, Roster(ms), Agreeing(ms, told, session.m_bFirstRtpRecvd), NEW S \in SUBSET DOMAIN ms,
         NEW q, Picks(q, ms, S)
  PROVE  Roster(q) /\ Agreeing(q, told, session.m_bFirstRtpRecvd)
<1>1. \A k \in DOMAIN q : \E i \in DOMAIN ms : q[k] = ms[i]
  BY DEF Picks
<1>2. Lineup(q)
  BY <1>1 DEF Picks, Roster, Lineup, Apart
<1>3. Roster(q)
  BY <1>1, <1>2 DEF Roster
<1>4. Agreeing(q, told, session.m_bFirstRtpRecvd)
  BY <1>1 DEF Agreeing
<1> QED
  BY <1>3, <1>4

LEMMA HeardOfByRtcp ==
  ASSUME NEW ms, Carries(ms), NEW ssrc, NEW port, NEW q, q = processRtcpPkt(ms, ssrc, port)
  PROVE  Carries(q) /\ \E k \in DOMAIN q : q[k].ssrc = ssrc
<1>1. Lineup(ms) /\ IsList(ms)
  BY DEF Carries, Roster, Lineup
<1>2. Extended(ms, ms, {})
  BY <1>1, ExtendedByNone
<1>3. findEntryInRcvrList(ms, ssrc) <=> \E k \in DOMAIN ms : ms[k].ssrc = ssrc
  BY <1>1, FoundIs
<1>4. Extended(q, ms, {ssrc})
  <2>1. CASE findEntryInRcvrList(ms, ssrc)
    <3>1. Extended(ms, ms, {} \cup {ssrc})
      BY <1>2, <1>3, <2>1, ExtendedByFound
    <3> QED
      BY <2>1, <3>1 DEF processRtcpPkt
  <2>2. CASE ~findEntryInRcvrList(ms, ssrc)
    <3> DEFINE e == NewReceiverInfo(ssrc, port)
    <3>1. IsMember(e) /\ e.ssrc = ssrc /\ ~e.sender
      BY NewMember
    <3>2. q = Append(ms, e)
      BY <2>2 DEF processRtcpPkt
    <3> HIDE DEF e
    <3>3. Extended(q, ms, {} \cup {ssrc})
      BY <1>2, <1>3, <2>2, <3>1, <3>2, ExtendedByOne
    <3> QED
      BY <3>3
  <2> QED
    BY <2>1, <2>2
<1>5. Carries(q)
  BY <1>4, CarriesExtended
<1> QED
  BY <1>4, <1>5 DEF Extended

(* All a compound packet does to the list leaves it in agreement with the observer. *)
LEMMA RtcpKeepsRoster ==
  ASSUME Carries(members), NEW c, NEW ms, ms = processRcvdRtcpPkt(c)
  PROVE  Roster(ms) /\ Agreeing(ms, told, session.m_bFirstRtpRecvd)
<1> DEFINE sr == IF c.sr = <<>> THEN members ELSE AfterSr(members, c.sr[1])
           rr == IF c.rr = <<>> THEN sr ELSE processRtcpPkt(sr, c.rr[1].ssrc, Port - Len(c.sr))
<1>1. Carries(sr)
  <2>1. CASE c.sr = <<>>
    BY <2>1
  <2>2. CASE c.sr # <<>>
    <3> DEFINE p == c.sr[1].ssrc
               known == processRtcpPkt(members, p, Port)
    <3>1. Carries(known) /\ \E k \in DOMAIN known : known[k].ssrc = p
      BY HeardOfByRtcp
    <3>2. sr = [known EXCEPT ![IndexIn(known, p)] = [known[IndexIn(known, p)] EXCEPT !.lsr = 1]]
      BY <2>2 DEF AfterSr
    <3> HIDE DEF known, p, sr
    <3>3. IndexIn(known, p) \in DOMAIN known
      BY <3>1, IndexIs DEF Carries, Roster, Lineup
    <3> QED
      BY <3>1, <3>2, <3>3, CarriesSr
  <2> QED
    BY <2>1, <2>2
<1> HIDE DEF sr
<1>2. Carries(rr)
  <2>1. CASE c.rr = <<>>
    BY <1>1, <2>1
  <2>2. CASE c.rr # <<>>
    <3>1. rr = processRtcpPkt(sr, c.rr[1].ssrc, Port - Len(c.sr))
      BY <2>2
    <3> QED
      BY <1>1, <3>1, HeardOfByRtcp
  <2> QED
    BY <2>1, <2>2
<1>3. ms = IF c.bye = <<>> THEN rr ELSE processByePacket(rr, c.bye[1])
  BY DEF processRcvdRtcpPkt, sr
<1> HIDE DEF rr
<1>4. CASE c.bye = <<>> \/ c.bye[1].list = <<>>
  <2>1. ms = rr
    BY <1>3, <1>4 DEF processByePacket
  <2> QED
    BY <1>2, <2>1 DEF Carries
<1>5. CASE ~(c.bye = <<>> \/ c.bye[1].list = <<>>)
  <2> DEFINE S == {i \in DOMAIN rr : rr[i].ssrc \notin {c.bye[1].ssrc} \cup Range(c.bye[1].list)}
  <2>1. ms = Chosen(rr, S)
    BY <1>3, <1>5 DEF processByePacket, delEntryFromRcvrList
  <2>2. S \in SUBSET DOMAIN rr
    OBVIOUS
  <2> HIDE DEF S
  <2>3. IsList(rr) /\ Apart(rr, DOMAIN rr) /\ Roster(rr) /\ Agreeing(rr, told, session.m_bFirstRtpRecvd)
    BY <1>2 DEF Carries, Roster, Lineup
  <2>4. Picks(ms, rr, S)
    BY <2>1, <2>2, <2>3, ChosenPicks
  <2> QED
    BY <2>2, <2>3, <2>4, PicksRoster
<1> QED
  BY <1>4, <1>5

LEMMA UnheardCounts == Unheard \in Counts /\ Unheard.by = "none"
  BY DEF Unheard, Counts

LEMMA RecvRtcpObserved ==
  ASSUME Observed(members, told, session.m_bFirstRtpRecvd), NEW c,
         NEW ms, ms = processRcvdRtcpPkt(c),
         NEW td, td = [p \in PeerSsrcs |->
                CASE ~findEntryInRcvrList(ms, p) -> Unheard
                  [] findEntryInRcvrList(ms, p) /\ told[p].by = "none" -> [told[p] EXCEPT !.by = "other"]
                  [] OTHER -> told[p]]
  PROVE  Observed(ms, td, session.m_bFirstRtpRecvd)
<1>1. Carries(members) /\ told \in [PeerSsrcs -> Counts]
  BY DEF Observed, Carries, Agreeing
<1>2. Roster(ms) /\ Agreeing(ms, told, session.m_bFirstRtpRecvd)
  BY <1>1, RtcpKeepsRoster
<1>3. ASSUME NEW p \in PeerSsrcs
      PROVE  /\ td[p] \in Counts
             /\ ~(\E k \in DOMAIN ms : ms[k].ssrc = p) => td[p].by = "none"
             /\ (\E k \in DOMAIN ms : ms[k].ssrc = p) => td[p].by # "none"
             /\ td[p].by = "rtp" => td[p] = told[p]
  <2>1. findEntryInRcvrList(ms, p) <=> \E k \in DOMAIN ms : ms[k].ssrc = p
    BY <1>2, FoundIs DEF Roster, Lineup
  <2>2. told[p] \in Counts
    BY <1>1
  <2>3. CASE ~findEntryInRcvrList(ms, p)
    <3>1. td[p] = Unheard
      BY <2>3
    <3> QED
      BY <2>1, <2>3, <3>1, UnheardCounts
  <2>4. CASE findEntryInRcvrList(ms, p) /\ told[p].by = "none"
    <3>1. td[p] = [told[p] EXCEPT !.by = "other"]
      BY <2>4
    <3> QED
      BY <2>1, <2>2, <2>4, <3>1, OtherCounts
  <2>5. CASE findEntryInRcvrList(ms, p) /\ told[p].by # "none"
    <3>1. td[p] = told[p]
      BY <2>5
    <3> QED
      BY <2>1, <2>2, <2>5, <3>1
  <2> QED
    BY <2>3, <2>4, <2>5
<1>4. td \in [PeerSsrcs -> Counts]
  <2>1. td = [p \in PeerSsrcs |-> td[p]]
    OBVIOUS
  <2> QED
    BY <2>1, <1>3
<1>5. Agreeing(ms, td, session.m_bFirstRtpRecvd)
  BY <1>2, <1>3 DEF Agreeing
<1>6. ASSUME NEW p \in PeerSsrcs PROVE td[p].by = "none" <=> \A k \in DOMAIN ms : ms[k].ssrc # p
  BY ZenonT(30), <1>3
<1>7. /\ \A p \in PeerSsrcs : td[p].by = "none" => \A k \in DOMAIN ms : ms[k].ssrc # p
      /\ \A p \in PeerSsrcs : td[p].by # "none" => \E k \in DOMAIN ms : ms[k].ssrc = p
  BY Zenon, <1>6
<1> QED
  BY Zenon, <1>2, <1>4, <1>5, <1>7 DEF Observed, Agreeing

(***************************************************************************)
(* A report.                                                               *)
(***************************************************************************)
(* A sender whose losses have been reported. *)
Cleared(m) == [Reported(m) EXCEPT !.sender = FALSE]

LEMMA ReportedSteps ==
  ASSUME NEW m, IsMember(m), NEW e, e = Cleared(m)
  PROVE  /\ IsMember(e) /\ Kin(e, m) /\ ~e.sender /\ (e.total <=> m.total)
         /\ e.base = m.base /\ e.max = m.max /\ e.bad = m.bad
         /\ e.cycles = m.cycles /\ e.received = m.received
         /\ e.expectedPrior = GetExtSeqNum(m) - m.base + 1 /\ e.receivedPrior = m.received
<1> DEFINE x == GetExtSeqNum(m) - m.base + 1
<1>1. /\ m.base \in Nat /\ m.max \in Nat /\ m.cycles \in Int /\ m.received \in Int /\ RTP_SEQ_MOD \in Nat
  BY MemberFields, Bounds
<1>2. x \in Int
  BY <1>1 DEF GetExtSeqNum
<1>3. e = [m EXCEPT !.expectedPrior = x, !.receivedPrior = m.received, !.sender = FALSE]
  BY DEF Cleared, Reported, Expected, IsMember, MembersOf
<1> HIDE DEF x
<1>4. e \in MembersOf(m.ssrc, m.port, m.lsr)
  BY <1>1, <1>2, <1>3 DEF IsMember, MembersOf
<1>5. ~e.sender
  BY <1>3 DEF IsMember, MembersOf
<1>6. e.total = m.total /\ e.csrc = m.csrc
  BY <1>3 DEF IsMember, MembersOf
<1>7. /\ e.base = m.base /\ e.max = m.max /\ e.bad = m.bad
      /\ e.cycles = m.cycles /\ e.received = m.received
      /\ e.expectedPrior = x /\ e.receivedPrior = m.received
  BY <1>3 DEF IsMember, MembersOf
<1>8. IsMember(e) /\ Kin(e, m)
  BY <1>4, <1>6, MemberOf DEF Kin
<1> QED
  BY Zenon, <1>5, <1>6, <1>7, <1>8 DEF x

(* What the observer counts as reported. *)
Acknowledged(t) == [t EXCEPT !.heard = FALSE, !.expPrior = t.highest - t.first + 1, !.gotPrior = t.got]

LEMMA SettledSteps ==
  ASSUME NEW t \in Counts, NEW h, h = Acknowledged(t)
  PROVE  /\ h \in Counts /\ ~h.heard /\ h.by = t.by
         /\ h.first = t.first /\ h.highest = t.highest /\ h.got = t.got /\ h.odd = t.odd
         /\ h.expPrior = t.highest - t.first + 1 /\ h.gotPrior = t.got
<1> DEFINE x == t.highest - t.first + 1
<1>1. x \in Int /\ t.got \in Int
  BY CountsFields
<1>2. h = [t EXCEPT !.heard = FALSE, !.expPrior = x, !.gotPrior = t.got]
  BY DEF Acknowledged
<1> HIDE DEF x
<1>3. h \in Counts
  BY <1>1, <1>2 DEF Counts
<1>4. ~h.heard
  BY <1>2 DEF Counts
<1>5. /\ h.by = t.by /\ h.first = t.first /\ h.highest = t.highest /\ h.got = t.got /\ h.odd = t.odd
      /\ h.expPrior = x /\ h.gotPrior = t.got
  BY <1>2 DEF Counts
<1> QED
  BY <1>3, <1>4, <1>5 DEF x

LEMMA ReportedAgrees ==
  ASSUME NEW m, IsMember(m), NEW t \in Counts, Agrees(m, t)
  PROVE  Agrees(Cleared(m), Acknowledged(t))
<1> DEFINE e == Cleared(m)
           h == Acknowledged(t)
<1>1. /\ IsMember(e) /\ Kin(e, m) /\ ~e.sender /\ (e.total <=> m.total)
      /\ e.base = m.base /\ e.max = m.max /\ e.bad = m.bad
      /\ e.cycles = m.cycles /\ e.received = m.received
      /\ e.expectedPrior = GetExtSeqNum(m) - m.base + 1 /\ e.receivedPrior = m.received
  BY ReportedSteps
<1>2. /\ ~h.heard
      /\ h.first = t.first /\ h.highest = t.highest /\ h.got = t.got /\ h.odd = t.odd
      /\ h.expPrior = t.highest - t.first + 1 /\ h.gotPrior = t.got
  BY SettledSteps
<1>3. Plain(m) /\ m.total /\ Same(m, t)
  BY DEF Agrees
<1> HIDE DEF e, h
<1>4. Plain(e)
  BY <1>1, <1>3, KinSteps
<1>5. GetExtSeqNum(e) = GetExtSeqNum(m)
  BY <1>1 DEF GetExtSeqNum
<1>6. Same(e, h)
  BY <1>1, <1>2, <1>3, <1>5 DEF Same
<1> QED
  BY Zenon, <1>1, <1>2, <1>3, <1>4, <1>6 DEF Agrees, e, h

(* The block about a member says what the observer counted. *)
LEMMA BlockIs ==
  ASSUME NEW m, IsMember(m), NEW t \in Counts, Agrees(m, t), NEW b, b = PopulateReportBlock(m)
  PROVE  /\ b.ssrc = m.ssrc
         /\ b.ext = NumberOf(t.first) + t.highest - t.first
         /\ b.lost = t.highest - t.first + 1 - t.got
         /\ b.frac = Fraction(t.highest - t.first + 1 - t.expPrior, t.got - t.gotPrior)
<1>1. /\ m.base = NumberOf(t.first) /\ GetExtSeqNum(m) - m.base = t.highest - t.first
      /\ m.received = t.got /\ m.expectedPrior = t.expPrior /\ m.receivedPrior = t.gotPrior
  BY Zenon DEF Agrees, Same
<1>2. /\ b.ssrc = m.ssrc /\ b.ext = GetExtSeqNum(m) /\ b.lost = FindLostRtpPkts(m) /\ b.frac = FractionLost(m)
  BY DEF PopulateReportBlock
<1>3. /\ GetExtSeqNum(m) \in Int /\ m.base \in Nat /\ t.first \in Nat /\ t.highest \in Nat
      /\ NumberOf(t.first) \in Nat
  <2>1. m.cycles \in Int /\ m.base \in Nat /\ m.max \in Nat /\ RTP_SEQ_MOD \in Nat
    BY MemberFields, Bounds
  <2>2. GetExtSeqNum(m) \in Int
    BY <2>1 DEF GetExtSeqNum
  <2> QED
    BY <2>1, <2>2, CountsFields, NumberType
<1>4. GetExtSeqNum(m) = NumberOf(t.first) + t.highest - t.first
  BY <1>1, <1>3
<1>5. Expected(m) = t.highest - t.first + 1
  BY <1>1 DEF Expected
<1> DEFINE x == t.highest - t.first + 1
<1>6. FindLostRtpPkts(m) = x - t.got
  <2> HIDE DEF x
  <2>1. Expected(m) = x
    BY <1>5 DEF x
  <2> QED
    BY Zenon, <1>1, <2>1 DEF FindLostRtpPkts
<1>7. FractionLost(m) = Fraction(x - t.expPrior, t.got - t.gotPrior)
  <2> HIDE DEF x
  <2>1. Expected(m) = x
    BY <1>5 DEF x
  <2> QED
    BY Zenon, <1>1, <2>1 DEF FractionLost
<1>8. x - t.got = t.highest - t.first + 1 - t.got /\ x - t.expPrior = t.highest - t.first + 1 - t.expPrior
  <2>1. t.first \in Int /\ t.highest \in Int /\ t.got \in Int /\ t.expPrior \in Int
    BY CountsFields
  <2> QED
    BY <2>1
<1> HIDE DEF x
<1>9. b.lost = t.highest - t.first + 1 - t.got
  BY Zenon, <1>2, <1>6, <1>8
<1>10. b.frac = Fraction(t.highest - t.first + 1 - t.expPrior, t.got - t.gotPrior)
  BY Zenon, <1>2, <1>7, <1>8
<1> QED
  BY Zenon, <1>2, <1>4, <1>9, <1>10

(* The places of those who have sent since their last report: no more than peers. *)
SendersIn(ms) == {i \in DOMAIN ms : ms[i].sender}

LEMMA SendersFit ==
  ASSUME Roster(members), NEW n, n = getSenderCount
  PROVE  /\ IsFiniteSet(SendersIn(members)) /\ n = Cardinality(SendersIn(members)) /\ n \in Nat
         /\ n <= Cardinality(PeerSsrcs) /\ Cardinality(PeerSsrcs) \in Nat
         /\ n = 0 <=> SendersIn(members) = {}
<1> DEFINE S == SendersIn(members)
<1>1. {i \in DOMAIN members : members[i].sender /\ members[i].total} = S
  BY DEF Roster, SendersIn
<1>2. n = Cardinality(S)
  BY <1>1 DEF getSenderCount
<1>3. IsFiniteSet(PeerSsrcs)
  BY SessionAssumption
<1> DEFINE f == [i \in S |-> members[i].ssrc]
<1>4. f \in Injection(S, PeerSsrcs)
  <2>1. f \in [S -> PeerSsrcs]
    BY DEF Roster, SendersIn
  <2>2. \A i, j \in S : f[i] = f[j] => i = j
    BY DEF Roster, Lineup, Apart, SendersIn
  <2> QED
    BY <2>1, <2>2 DEF Injection, IsInjective
<1> HIDE DEF f, S
<1>5. IsFiniteSet(S) /\ Cardinality(S) <= Cardinality(PeerSsrcs)
  BY <1>3, <1>4, FS_Injection
<1>6. Cardinality(S) \in Nat /\ Cardinality(PeerSsrcs) \in Nat /\ (Cardinality(S) = 0 <=> S = {})
  BY <1>3, <1>5, FS_CardinalityType, FS_EmptySet
<1> QED
  BY <1>2, <1>5, <1>6 DEF S

LEMMA AllReporting ==
  ASSUME Roster(members), NEW n, n = getSenderCount
  PROVE  Reporting(members, n) = SendersIn(members)
<1> DEFINE S == SendersIn(members)
<1>1. IsFiniteSet(S) /\ n = Cardinality(S) /\ n \in Nat /\ (n = 0 <=> S = {})
  BY SendersFit
<1>2. Len(members) \in Nat /\ DOMAIN members = 1 .. Len(members)
  BY ListIs DEF Roster, Lineup
<1>3. ASSUME NEW i \in S PROVE n > 0 /\ Cardinality({j \in 1 .. i - 1 : members[j].sender}) <= n
  <2> DEFINE T == {j \in 1 .. i - 1 : members[j].sender}
  <2>1. i \in 1 .. Len(members)
    BY <1>2 DEF SendersIn
  <2>2. T \in SUBSET S
    BY <1>2, <2>1 DEF SendersIn
  <2> HIDE DEF T, S
  <2>3. Cardinality(T) <= Cardinality(S)
    BY <1>1, <2>2, FS_Subset
  <2>4. n > 0
    BY <1>1
  <2> QED
    BY <1>1, <2>3, <2>4 DEF T
<1> QED
  BY <1>3 DEF Reporting, SendersIn

(* The blocks of all senders fit in one report. *)
LEMMA CountIs ==
  ASSUME Roster(members), NEW isSR
  PROVE  ReportCount(isSR) = getSenderCount
<1> DEFINE n == getSenderCount
           cost == estimateRtcpPktSize
           packets == IF n = 0 THEN 1 ELSE (n + RTP_MAX_RECEP_REP_CNT - 1) \div RTP_MAX_RECEP_REP_CNT
<1>1. n \in Nat /\ n <= Cardinality(PeerSsrcs) /\ Cardinality(PeerSsrcs) \in Nat
  BY SendersFit
<1>2. /\ Cardinality(PeerSsrcs) <= 31 /\ SdesItems \in Nat /\ MtuSize \in Nat
      /\ 40 + 8 * SdesItems + 24 * Cardinality(PeerSsrcs) < MtuSize
  BY SessionAssumption DEF RTP_MAX_RECEP_REP_CNT
<1>3. cost \in Nat /\ cost <= 12 + 8 * SdesItems
  BY <1>2 DEF estimateRtcpPktSize
<1>4. ReportDefSize(isSR) \in Nat /\ ReportDefSize(isSR) <= 28
  BY DEF ReportDefSize
<1>5. calculateTotalRtcpSize(n, isSR) = cost + packets * ReportDefSize(isSR) + n * 24
  BY DEF calculateTotalRtcpSize
<1> HIDE DEF n, cost
<1>6. packets = 1
  <2>1. CASE n = 0
    BY <2>1
  <2>2. CASE n # 0
    <3>1. (n + 31 - 1) \div 31 = 1
      BY <1>1, <1>2, <2>2
    <3> QED
      BY <2>2, <3>1 DEF RTP_MAX_RECEP_REP_CNT
  <2> QED
    BY <2>1, <2>2
<1> HIDE DEF packets
<1>7. cost + packets * ReportDefSize(isSR) + n * 24 < MtuSize
  <2>1. packets * ReportDefSize(isSR) = ReportDefSize(isSR)
    BY <1>4, <1>6
  <2>2. n * 24 <= 24 * Cardinality(PeerSsrcs)
    BY <1>1
  <2> QED
    BY <1>1, <1>2, <1>3, <1>4, <2>1, <2>2
<1> QED
  BY <1>5, <1>7 DEF ReportCount, n

(* One report holds them. *)
LEMMA FormedIs ==
  ASSUME NEW n \in Nat, n <= RTP_MAX_RECEP_REP_CNT, NEW f, f = formReportList(n)
  PROVE  /\ f.list = <<[count |-> n, ssrc |-> session.m_uiSsrc, blocks |-> populateReportPacket(members, n).blocks]>>
         /\ f.members = populateReportPacket(members, n).members
<1> DEFINE packets == IF n = 0 THEN 1 ELSE (n + RTP_MAX_RECEP_REP_CNT - 1) \div RTP_MAX_RECEP_REP_CNT
           now(k) == IF n - (k - 1) * RTP_MAX_RECEP_REP_CNT > RTP_MAX_RECEP_REP_CNT THEN RTP_MAX_RECEP_REP_CNT
                     ELSE n - (k - 1) * RTP_MAX_RECEP_REP_CNT
           more(before, k) ==
               [list |-> Append(before.list, [count |-> now(k), ssrc |-> session.m_uiSsrc,
                                              blocks |-> populateReportPacket(before.members, now(k)).blocks]),
                members |-> populateReportPacket(before.members, now(k)).members]
           first == [list |-> <<>>, members |-> members]
           g == CHOOSE x : x = [k \in 0 .. packets |-> IF k = 0 THEN first ELSE more(x[k - 1], k)]
<1>1. f = g[packets]
  BY DEF formReportList
<1>2. packets = 1
  <2>1. CASE n = 0
    BY <2>1
  <2>2. CASE n # 0
    <3>1. (n + 31 - 1) \div 31 = 1
      BY <2>2 DEF RTP_MAX_RECEP_REP_CNT
    <3> QED
      BY <2>2, <3>1 DEF RTP_MAX_RECEP_REP_CNT
  <2> QED
    BY <2>1, <2>2
<1>3. now(1) = n
  BY DEF RTP_MAX_RECEP_REP_CNT
<1>4. more(first, 1) = [list |-> <<[count |-> n, ssrc |-> session.m_uiSsrc,
                                    blocks |-> populateReportPacket(members, n).blocks]>>,
                        members |-> populateReportPacket(members, n).members]
  BY <1>3
<1> HIDE DEF packets, more, first
<1>5. \E x : x = [k \in 0 .. packets |-> IF k = 0 THEN first ELSE more(x[k - 1], k)]
  <2> DEFINE x == [k \in 0 .. packets |-> IF k = 0 THEN first ELSE more(first, 1)]
  <2>1. \A k \in 0 .. packets : k = 0 \/ (k = 1 /\ k - 1 = 0)
    BY <1>2
  <2>2. x[0] = first
    BY <1>2
  <2>3. \A k \in 0 .. packets : x[k] = IF k = 0 THEN first ELSE more(x[k - 1], k)
    BY <2>1, <2>2
  <2>4. x = [k \in 0 .. packets |-> x[k]]
    OBVIOUS
  <2> HIDE DEF x
  <2>5. x = [k \in 0 .. packets |-> IF k = 0 THEN first ELSE more(x[k - 1], k)]
    BY <2>3, <2>4
  <2> QED
    BY <2>5
<1>6. g = [k \in 0 .. packets |-> IF k = 0 THEN first ELSE more(g[k - 1], k)]
  BY <1>5
<1> HIDE DEF g
<1>7. g[0] = first /\ g[1] = more(g[0], 1)
  <2>1. 0 \in 0 .. packets /\ 1 \in 0 .. packets /\ 1 # 0 /\ 1 - 1 = 0
    BY <1>2
  <2> QED
    BY <1>6, <2>1
<1>8. f = more(first, 1)
  BY <1>1, <1>2, <1>7
<1> QED
  BY <1>4, <1>8

(* After a report all members are still there: those reported on with their losses
   accounted for, the others as they were. *)
After(ms, S) == [i \in DOMAIN ms |-> IF i \in S THEN Cleared(ms[i]) ELSE ms[i]]

LEMMA PopulatedIs ==
  ASSUME Roster(members), NEW n, n = getSenderCount, NEW r, r = populateReportPacket(members, n)
  PROVE  /\ Picks(r.members, After(members, SendersIn(members)), DOMAIN members)
         /\ \A i \in SendersIn(members) : \E k \in DOMAIN r.blocks : r.blocks[k] = PopulateReportBlock(members[i])
<1> DEFINE S == SendersIn(members)
           after == After(members, S)
           O == {i \in DOMAIN members \ S : ~members[i].csrc}
           K == {i \in DOMAIN members : i \in S \/ members[i].csrc}
           others == Chosen(members, O)
           kept == Chosen(after, K)
           reported == Chosen(members, S)
<1>1. /\ Lineup(members) /\ IsList(members) /\ Len(members) \in Nat /\ DOMAIN members = 1 .. Len(members)
      /\ (\A i \in DOMAIN members : IsMember(members[i])) /\ Apart(members, DOMAIN members)
  BY ListIs DEF Roster, Lineup
<1>2. Reporting(members, n) = S /\ (n = 0 <=> S = {}) /\ S \in SUBSET DOMAIN members
  BY AllReporting, SendersFit DEF SendersIn
<1>3. /\ r.blocks = [i \in DOMAIN reported |-> PopulateReportBlock(reported[i])]
      /\ r.members = IF n = 0 THEN members
                     ELSE IF others = <<>> THEN kept ELSE Tail(others) \o <<Head(others)>> \o kept
  BY <1>2 DEF populateReportPacket, After, Cleared
<1>4. /\ DOMAIN after = DOMAIN members
      /\ \A i \in DOMAIN members : i \notin S => after[i] = members[i]
      /\ \A i \in DOMAIN members : i \in S => after[i] = Cleared(members[i])
  BY DEF After
<1>5. \A i \in DOMAIN members : after[i].ssrc = members[i].ssrc
  <2> TAKE i \in DOMAIN members
  <2>1. CASE i \in S
    <3>1. after[i] = Cleared(members[i]) /\ IsMember(members[i])
      BY <1>1, <1>4, <2>1
    <3> QED
      BY <3>1, ReportedSteps, KinSteps
  <2>2. CASE i \notin S
    BY <1>4, <2>2
  <2> QED
    BY <2>1, <2>2
<1>6. IsList(after)
  <2>1. after = [i \in 1 .. Len(members) |-> after[i]]
    BY <1>1 DEF After
  <2> HIDE DEF after
  <2>2. after \in [1 .. Len(members) -> Range(after)]
    BY <1>1, <1>4, <2>1 DEF Range
  <2>3. after \in Seq(Range(after))
    BY <1>1, <2>2, SeqDef
  <2> QED
    BY <2>3 DEF IsList
<1>7. O \in SUBSET DOMAIN members /\ K \in SUBSET DOMAIN members /\ O \cap K = {} /\ O \cup K = DOMAIN members
      /\ O \cap S = {}
  BY <1>1, <1>2, MemberFields
<1> HIDE DEF after, O, K
<1>8. Apart(after, DOMAIN members)
  BY <1>1, <1>4, <1>5 DEF Apart
<1>9. Picks(others, after, O)
  <2>1. Picks(others, members, O)
    BY <1>1, <1>7, ChosenPicks
  <2>2. \A i \in O : after[i] = members[i]
    BY <1>4, <1>7
  <2> HIDE DEF others
  <2> QED
    BY <2>1, <2>2 DEF Picks
<1>10. Picks(kept, after, K)
  BY <1>4, <1>6, <1>7, <1>8, ChosenPicks
<1>11. Picks(reported, members, S)
  BY <1>1, <1>2, ChosenPicks
<1> HIDE DEF others, kept, reported, S
<1>12. \A i \in S : \E k \in DOMAIN r.blocks : r.blocks[k] = PopulateReportBlock(members[i])
  <2> TAKE i \in S
  <2>1. PICK k \in DOMAIN reported : reported[k] = members[i]
    BY <1>11 DEF Picks
  <2>2. k \in DOMAIN r.blocks /\ r.blocks[k] = PopulateReportBlock(members[i])
    BY <1>3, <2>1
  <2> QED
    BY <2>2
<1>13. CASE n = 0
  <2>1. r.members = members /\ \A i \in DOMAIN members : after[i] = members[i]
    BY <1>2, <1>3, <1>4, <1>13
  <2>2. Picks(members, after, DOMAIN members)
    BY <1>1, <2>1 DEF Picks, Apart
  <2> QED
    BY <1>12, <2>1, <2>2 DEF after, S
<1>14. CASE n # 0 /\ others = <<>>
  <2>1. O = {}
    <3>1. \A i \in O : \E k \in DOMAIN others : others[k] = after[i]
      BY <1>9 DEF Picks
    <3>2. DOMAIN others = {}
      BY <1>14
    <3> QED
      BY <3>1, <3>2
  <2>2. K = DOMAIN members
    BY <1>7, <2>1
  <2>3. r.members = kept
    BY <1>3, <1>14
  <2> QED
    BY <1>10, <1>12, <2>2, <2>3 DEF after, S
<1>15. CASE n # 0 /\ others # <<>>
  <2> DEFINE turned == Tail(others) \o <<Head(others)>>
  <2>1. Picks(turned, after, O)
    BY <1>9, <1>15, PicksTurned
  <2>2. r.members = turned \o kept
    BY <1>3, <1>15
  <2> HIDE DEF turned
  <2>3. Apart(after, O \cup K)
    BY <1>7, <1>8
  <2>4. Picks(turned \o kept, after, O \cup K)
    BY <1>7, <1>10, <2>1, <2>3, PicksBoth
  <2> QED
    BY <1>7, <1>12, <2>2, <2>4 DEF after, S
<1> QED
  BY <1>13, <1>14, <1>15

(* Once it has been told, the observer agrees with what the members then are. *)
LEMMA ReportObserved ==
  ASSUME Observed(members, told, session.m_bFirstRtpRecvd),
         NEW q, Picks(q, After(members, SendersIn(members)), DOMAIN members), NEW td, td = Accounted
  PROVE  Observed(q, td, session.m_bFirstRtpRecvd)
<1> DEFINE received == session.m_bFirstRtpRecvd
           S == SendersIn(members)
           after == After(members, S)
<1>1. /\ Lineup(members) /\ told \in [PeerSsrcs -> Counts]
      /\ \A i \in DOMAIN members : IsMember(members[i])
      /\ \A i \in DOMAIN members : members[i].sender => members[i].total /\ members[i].ssrc \in PeerSsrcs
      /\ \A p \in PeerSsrcs : told[p].by = "none" => \A i \in DOMAIN members : members[i].ssrc # p
      /\ \A p \in PeerSsrcs : told[p].by # "none" => \E i \in DOMAIN members : members[i].ssrc = p
      /\ \A i \in DOMAIN members : members[i].ssrc \in PeerSsrcs /\ told[members[i].ssrc].by = "rtp" =>
             received /\ Agrees(members[i], told[members[i].ssrc])
  BY DEF Observed, Roster, Lineup
<1>2. /\ \A i \in DOMAIN members : i \notin S => after[i] = members[i]
      /\ \A i \in DOMAIN members : i \in S => after[i] = Cleared(members[i])
      /\ \A i \in DOMAIN members : i \in S <=> members[i].sender
  BY DEF After, SendersIn
<1>3. \A i \in DOMAIN members : IsMember(after[i]) /\ after[i].ssrc = members[i].ssrc /\ ~after[i].sender
  <2> TAKE i \in DOMAIN members
  <2>1. CASE i \in S
    <3>1. after[i] = Cleared(members[i]) /\ IsMember(members[i])
      BY <1>1, <1>2, <2>1
    <3> QED
      BY <3>1, ReportedSteps, KinSteps
  <2>2. CASE i \notin S
    BY <1>1, <1>2, <2>2
  <2> QED
    BY <2>1, <2>2
<1> HIDE DEF after, S
<1>4. /\ IsList(q) /\ \A j, k \in DOMAIN q : q[j].ssrc = q[k].ssrc => j = k
      /\ \A k \in DOMAIN q : \E i \in DOMAIN members : q[k] = after[i]
      /\ \A i \in DOMAIN members : \E k \in DOMAIN q : q[k] = after[i]
  BY DEF Picks, after, S
<1>5. Lineup(q)
  BY <1>3, <1>4 DEF Lineup, Apart
<1>6. Roster(q)
  BY <1>3, <1>4, <1>5 DEF Roster
<1>7. ASSUME NEW p \in PeerSsrcs
      PROVE  /\ td[p] \in Counts /\ td[p].by = told[p].by
             /\ told[p].by = "rtp" /\ told[p].heard => td[p] = Acknowledged(told[p])
             /\ ~(told[p].by = "rtp" /\ told[p].heard) => td[p] = told[p]
  <2>0. told[p] \in Counts
    BY <1>1
  <2>1. CASE told[p].by = "rtp" /\ told[p].heard
    <3>1. td[p] = Acknowledged(told[p])
      BY <2>1 DEF Accounted, Acknowledged
    <3> QED
      BY <2>0, <2>1, <3>1, SettledSteps
  <2>2. CASE ~(told[p].by = "rtp" /\ told[p].heard)
    <3>1. td[p] = told[p]
      BY <2>2 DEF Accounted
    <3> QED
      BY <2>0, <2>2, <3>1
  <2> QED
    BY <2>1, <2>2
<1>8. td \in [PeerSsrcs -> Counts]
  <2>1. td = [p \in PeerSsrcs |-> td[p]]
    BY DEF Accounted
  <2> QED
    BY <1>7, <2>1
<1>9. \A p \in PeerSsrcs : td[p].by = "none" => \A k \in DOMAIN q : q[k].ssrc # p
  BY <1>1, <1>3, <1>4, <1>7
<1>10. \A p \in PeerSsrcs : td[p].by # "none" => \E k \in DOMAIN q : q[k].ssrc = p
  BY <1>1, <1>3, <1>4, <1>7
<1>11. ASSUME NEW k \in DOMAIN q, q[k].ssrc \in PeerSsrcs, td[q[k].ssrc].by = "rtp"
       PROVE  received /\ Agrees(q[k], td[q[k].ssrc])
  <2> DEFINE p == q[k].ssrc
  <2>1. PICK i \in DOMAIN members : q[k] = after[i]
    BY <1>4
  <2>2. members[i].ssrc = p /\ told[p].by = "rtp"
    BY <1>3, <1>7, <1>11, <2>1
  <2>3. received /\ Agrees(members[i], told[p]) /\ told[p] \in Counts /\ IsMember(members[i])
    BY <1>1, <1>11, <2>2
  <2>4. members[i].sender <=> told[p].heard
    BY Zenon, <2>3 DEF Agrees
  <2>5. CASE told[p].heard
    <3>1. after[i] = Cleared(members[i]) /\ td[p] = Acknowledged(told[p])
      BY <1>2, <1>7, <1>11, <2>2, <2>4, <2>5
    <3> QED
      BY <2>1, <2>3, <3>1, ReportedAgrees
  <2>6. CASE ~told[p].heard
    <3>1. after[i] = members[i] /\ td[p] = told[p]
      BY <1>2, <1>7, <1>11, <2>4, <2>6
    <3> QED
      BY <2>1, <2>3, <3>1
  <2> QED
    BY <2>5, <2>6
<1> QED
  BY <1>6, <1>8, <1>9, <1>10, <1>11 DEF Observed

(* The blocks of the report tell what is due. *)
LEMMA ReportTells ==
  ASSUME Observed(members, told, session.m_bFirstRtpRecvd), NEW d \in Due,
         NEW blocks, \A i \in SendersIn(members) : \E k \in DOMAIN blocks : blocks[k] = PopulateReportBlock(members[i])
  PROVE  \E b \in Range(blocks) : b.ssrc = d.ssrc /\ b.ext = d.ext /\ b.lost = d.lost /\ b.frac = d.frac
<1>1. /\ told \in [PeerSsrcs -> Counts]
      /\ \A i \in DOMAIN members : IsMember(members[i])
      /\ \A p \in PeerSsrcs : told[p].by # "none" => \E i \in DOMAIN members : members[i].ssrc = p
      /\ \A i \in DOMAIN members : members[i].ssrc \in PeerSsrcs /\ told[members[i].ssrc].by = "rtp" =>
             Agrees(members[i], told[members[i].ssrc])
  BY DEF Observed, Roster, Lineup
<1>2. PICK p \in PeerSsrcs :
        /\ told[p].by = "rtp" /\ told[p].heard
        /\ d.ssrc = p /\ d.ext = NumberOf(told[p].first) + told[p].highest - told[p].first
        /\ d.lost = told[p].highest - told[p].first + 1 - told[p].got
        /\ d.frac = Fraction(told[p].highest - told[p].first + 1 - told[p].expPrior, told[p].got - told[p].gotPrior)
  BY DEF Due
<1>3. told[p].by # "none" /\ told[p] \in Counts
  BY <1>1, <1>2
<1>4. PICK i \in DOMAIN members : members[i].ssrc = p
  BY <1>1, <1>3
<1>5. IsMember(members[i]) /\ Agrees(members[i], told[p])
  BY <1>1, <1>2, <1>4
<1>6. i \in SendersIn(members)
  <2>1. members[i].sender
    BY Zenon, <1>2, <1>5 DEF Agrees
  <2> QED
    BY <2>1 DEF SendersIn
<1>7. PICK k \in DOMAIN blocks : blocks[k] = PopulateReportBlock(members[i])
  BY <1>6
<1> DEFINE b == PopulateReportBlock(members[i])
<1>8. /\ b.ssrc = members[i].ssrc
      /\ b.ext = NumberOf(told[p].first) + told[p].highest - told[p].first
      /\ b.lost = told[p].highest - told[p].first + 1 - told[p].got
      /\ b.frac = Fraction(told[p].highest - told[p].first + 1 - told[p].expPrior, told[p].got - told[p].gotPrior)
  BY <1>3, <1>5, BlockIs
<1> HIDE DEF b
<1>9. b \in Range(blocks)
  BY <1>7 DEF Range, b
<1>10. b.ssrc = d.ssrc /\ b.ext = d.ext /\ b.lost = d.lost /\ b.frac = d.frac
  BY Zenon, <1>2, <1>4, <1>8
<1> QED
  BY <1>9, <1>10

LEMMA ReportMade ==
  ASSUME RtpTypeOK, Observed(members, told, session.m_bFirstRtpRecvd),
         NEW kind, NEW leaving, NEW feedback, rtpMakeCompoundRtcpPacket(kind, leaving, feedback)
  PROVE  /\ Observed(members', told', session'.m_bFirstRtpRecvd) /\ LossReportsTrue'
         /\ out' = Nothing
<1> DEFINE isSR == session.m_bRtpSendPkt \/ session.m_bSelfCollisionByeSent \/ leaving
           n == getSenderCount
           f == formReportList(n)
           r == populateReportPacket(members, n)
           report == [count |-> n, ssrc |-> session.m_uiSsrc, blocks |-> r.blocks]
           srs == [i \in DOMAIN f.list |-> [count |-> f.list[i].count, ssrc |-> f.list[i].ssrc, info |-> SenderInfo,
                                            blocks |-> f.list[i].blocks]]
           list == IF isSR THEN srs ELSE f.list
<1>1. Roster(members)
  BY DEF Observed
<1>2. n \in Nat /\ n <= RTP_MAX_RECEP_REP_CNT
  <2>1. n \in Nat /\ n <= Cardinality(PeerSsrcs) /\ Cardinality(PeerSsrcs) \in Nat
    BY <1>1, SendersFit
  <2>2. Cardinality(PeerSsrcs) <= RTP_MAX_RECEP_REP_CNT
    BY SessionAssumption
  <2> QED
    BY <2>1, <2>2 DEF RTP_MAX_RECEP_REP_CNT
<1>3. f.list = <<report>> /\ f.members = r.members
  BY <1>2, FormedIs
<1>4. ReportCount(TRUE) = n /\ ReportCount(FALSE) = n
  BY <1>1, CountIs
<1>5. /\ Picks(r.members, After(members, SendersIn(members)), DOMAIN members)
      /\ \A i \in SendersIn(members) : \E k \in DOMAIN r.blocks : r.blocks[k] = PopulateReportBlock(members[i])
  BY <1>1, PopulatedIs
<1>a. formRrList(n) = f /\ formSrList(n).list = srs /\ formSrList(n).members = f.members
  BY DEF formSrList, formRrList
<1>6. /\ members' = f.members /\ told' = Accounted /\ out' = Nothing
      /\ session' = [session EXCEPT !.m_bisXr = FALSE, !.m_bSndRtcpByePkt = leaving]
      /\ held'.due = Due
      /\ held'.c.sr = (IF isSR THEN list ELSE <<>>) /\ held'.c.rr = (IF isSR THEN <<>> ELSE list)
  <2> DEFINE a == IF isSR THEN formSrList(ReportCount(TRUE)) ELSE formRrList(ReportCount(FALSE))
  <2>1. a.members = f.members /\ a.list = list
    BY <1>4, <1>a
  <2>2. /\ members' = a.members /\ told' = Accounted /\ out' = Nothing
        /\ session' = [session EXCEPT !.m_bisXr = FALSE, !.m_bSndRtcpByePkt = leaving]
        /\ held'.due = Due
        /\ held'.c.sr = (IF isSR THEN a.list ELSE <<>>) /\ held'.c.rr = (IF isSR THEN <<>> ELSE a.list)
    <3> HIDE DEF n, f, r, report, srs, list
    <3> QED
      BY DEF rtpMakeCompoundRtcpPacket
  <2> HIDE DEF a, list, isSR, f
  <2> QED
    BY <2>1, <2>2
<1>7. session'.m_bFirstRtpRecvd = session.m_bFirstRtpRecvd
  BY <1>6 DEF RtpTypeOK
<1>8. Observed(members', told', session'.m_bFirstRtpRecvd)
  BY <1>3, <1>5, <1>6, <1>7, ReportObserved
<1>9. 1 \in DOMAIN list /\ list[1].blocks = r.blocks
  <2>1. 1 \in DOMAIN f.list /\ f.list[1] = report
    BY <1>3
  <2>2. CASE isSR
    <3> HIDE DEF f, report
    <3>1. 1 \in DOMAIN srs /\ srs[1].blocks = f.list[1].blocks
      BY <2>1
    <3>2. report.blocks = r.blocks
      BY DEF report
    <3> QED
      BY <2>1, <2>2, <3>1, <3>2
  <2>3. CASE ~isSR
    BY <2>1, <2>3
  <2> QED
    BY <2>2, <2>3
<1> HIDE DEF list, isSR, f, r, srs
<1>10. list[1] \in Range(held'.c.sr) \cup Range(held'.c.rr)
  BY <1>6, <1>9 DEF Range
<1>11. ASSUME NEW d \in held'.due
       PROVE  \E x \in Range(held'.c.sr) \cup Range(held'.c.rr) :
                \E b \in Range(x.blocks) : b.ssrc = d.ssrc /\ b.ext = d.ext /\ b.lost = d.lost /\ b.frac = d.frac
  <2>1. d \in Due
    BY <1>6
  <2>2. \E b \in Range(r.blocks) : b.ssrc = d.ssrc /\ b.ext = d.ext /\ b.lost = d.lost /\ b.frac = d.frac
    BY <1>5, <2>1, ReportTells
  <2> QED
    BY <1>9, <1>10, <2>2
<1> QED
  BY <1>6, <1>8, <1>11 DEF LossReportsTrue

(***************************************************************************)
(* Compound packets on the wire.                                           *)
(***************************************************************************)
LEMMA SameList ==
  ASSUME NEW a, IsList(a), NEW b, IsList(b), Len(a) = Len(b), \A k \in 1 .. Len(a) : a[k] = b[k]
  PROVE  a = b
<1> DEFINE T == Range(a) \cup Range(b)
<1>1. a \in Seq(T) /\ b \in Seq(T)
  BY SeqMonotonic DEF IsList
<1> HIDE DEF T
<1> QED
  BY <1>1, SeqEqual

(* A piece of a list. *)
LEMMA Piece ==
  ASSUME NEW q, NEW m \in Int, NEW n \in Int, IsList(q), 1 <= m, n <= Len(q)
  PROVE  /\ IsList(SubSeq(q, m, n)) /\ Len(SubSeq(q, m, n)) = IF m <= n THEN n - m + 1 ELSE 0
         /\ \A k \in 1 .. n - m + 1 : SubSeq(q, m, n)[k] = q[m + k - 1]
<1>1. Len(q) \in Nat /\ \A i \in 1 .. Len(q) : q[i] \in Range(q)
  BY ListIs DEF Range
<1>2. \A i \in m .. n : q[i] \in Range(q)
  BY <1>1
<1>3. /\ SubSeq(q, m, n) \in Seq(Range(q))
      /\ Len(SubSeq(q, m, n)) = IF m <= n THEN n - m + 1 ELSE 0
      /\ \A i \in 1 .. n - m + 1 : SubSeq(q, m, n)[i] = q[m + i - 1]
  BY <1>2, SubSeqProperties
<1> QED
  BY <1>3, InList

LEMMA Halves ==
  ASSUME NEW a, IsList(a), NEW b, IsList(b)
  PROVE  SubSeq(a \o b, 1, Len(a)) = a /\ SubSeq(a \o b, Len(a) + 1, Len(a) + Len(b)) = b
<1>1. Len(a) \in Nat /\ Len(b) \in Nat
  BY ListIs
<1>2. /\ IsList(a \o b) /\ Len(a \o b) = Len(a) + Len(b)
      /\ \A k \in 1 .. Len(a) : (a \o b)[k] = a[k]
      /\ \A k \in 1 .. Len(b) : (a \o b)[Len(a) + k] = b[k]
  BY Joined
<1> DEFINE q == a \o b
           x == SubSeq(q, 1, Len(a))
           y == SubSeq(q, Len(a) + 1, Len(a) + Len(b))
<1> HIDE DEF q
<1>3. /\ IsList(x) /\ Len(x) = Len(a) /\ \A k \in 1 .. Len(a) : x[k] = q[k]
  <2>1. 1 \in Int /\ Len(a) \in Int /\ 1 <= 1 /\ Len(a) <= Len(q) /\ IsList(q)
    BY <1>1, <1>2 DEF q
  <2>2. /\ IsList(x) /\ Len(x) = IF 1 <= Len(a) THEN Len(a) - 1 + 1 ELSE 0
        /\ \A k \in 1 .. Len(a) - 1 + 1 : x[k] = q[1 + k - 1]
    BY <2>1, Piece
  <2> QED
    BY <1>1, <2>2
<1>4. /\ IsList(y) /\ Len(y) = Len(b) /\ \A k \in 1 .. Len(b) : y[k] = q[Len(a) + k]
  <2> DEFINE m == Len(a) + 1
             n == Len(a) + Len(b)
  <2>1. m \in Int /\ n \in Int /\ 1 <= m /\ n <= Len(q) /\ IsList(q)
    BY <1>1, <1>2 DEF q
  <2>2. /\ IsList(y) /\ Len(y) = IF m <= n THEN n - m + 1 ELSE 0
        /\ \A k \in 1 .. n - m + 1 : y[k] = q[m + k - 1]
    <3> HIDE DEF m, n
    <3>1. /\ IsList(SubSeq(q, m, n)) /\ Len(SubSeq(q, m, n)) = IF m <= n THEN n - m + 1 ELSE 0
          /\ \A k \in 1 .. n - m + 1 : SubSeq(q, m, n)[k] = q[m + k - 1]
      BY <2>1, Piece
    <3> QED
      BY <3>1 DEF m, n
  <2> HIDE DEF y
  <2> QED
    BY <1>1, <2>2
<1>5. x = a
  BY <1>2, <1>3, SameList DEF q
<1>6. y = b
  BY <1>2, <1>4, SameList DEF q
<1> QED
  BY <1>5, <1>6 DEF q

LEMMA Middle ==
  ASSUME NEW a, IsList(a), NEW b, IsList(b), NEW c, IsList(c)
  PROVE  SubSeq((a \o b) \o c, Len(a) + 1, Len(a) + Len(b)) = b
<1> DEFINE T == Range(a) \cup Range(b) \cup Range(c)
           m == Len(a) + 1
           n == Len(a) + Len(b)
           q == a \o b
<1>1. Len(a) \in Nat /\ Len(b) \in Nat
  BY ListIs
<1>2. IsList(q) /\ Len(q) = n /\ SubSeq(q, m, n) = b
  BY Joined, Halves
<1>3. q \in Seq(T) /\ c \in Seq(T) /\ b \in Seq(T)
  <2>1. a \in Seq(T) /\ b \in Seq(T) /\ c \in Seq(T)
    BY SeqMonotonic DEF IsList
  <2> HIDE DEF T
  <2> QED
    BY <2>1, ConcatProperties
<1>4. CASE Len(b) = 0
  <2>1. b = <<>>
    BY <1>3, <1>4, EmptySeq
  <2>2. m \in Int /\ n \in Int /\ n < m
    BY <1>1, <1>4
  <2> HIDE DEF m, n, q
  <2>3. SubSeq(q \o c, m, n) = <<>>
    BY <2>2, SubSeqEmpty
  <2> QED
    BY <2>1, <2>3 DEF m, n, q
<1>5. CASE Len(b) # 0
  <2>1. m \in 1 .. Len(q) /\ n \in 1 .. Len(q)
    BY <1>1, <1>2, <1>5
  <2> HIDE DEF m, n, q, T
  <2>2. SubSeq(q \o c, m, n) = SubSeq(q, m, n)
    BY <1>3, <2>1, SubSeqOfConcat1
  <2> QED
    BY <1>2, <2>2 DEF m, n, q
<1> QED
  BY <1>4, <1>5

LEMMA Nil == IsList(<<>>) /\ Len(<<>>) = 0 /\ \A q : IsList(q) => <<>> \o q = q /\ q \o <<>> = q
<1>1. <<>> \in Seq({}) /\ Len(<<>>) = 0
  BY EmptySeq
<1> QED
  BY <1>1, InList, ConcatEmptySeq DEF IsList

(* Lists of one, two and six things. *)
LEMMA Short ==
  ASSUME NEW a, NEW b
  PROVE  /\ IsList(<<a>>) /\ Len(<<a>>) = 1 /\ <<a>>[1] = a
         /\ IsList(<<a, b>>) /\ Len(<<a, b>>) = 2 /\ <<a, b>>[1] = a /\ <<a, b>>[2] = b
<1>1. <<a>> \in Seq({a}) /\ <<a, b>> \in Seq({a, b})
  OBVIOUS
<1> QED
  BY <1>1, InList

LEMMA Associated ==
  ASSUME NEW a, IsList(a), NEW b, IsList(b), NEW c, IsList(c)
  PROVE  (a \o b) \o c = a \o (b \o c)
<1> DEFINE T == Range(a) \cup Range(b) \cup Range(c)
<1>1. a \in Seq(T) /\ b \in Seq(T) /\ c \in Seq(T)
  BY SeqMonotonic DEF IsList
<1> HIDE DEF T
<1> QED
  BY <1>1, ConcatAssociative

(* A packet is its two words and the rest, and in front of others it is read as such. *)
HeaderOf(count, pt, ssrc, rest) == [count |-> count, pt |-> pt, len |-> Len(rest) + 1, ssrc |-> ssrc]

LEMMA PacketIs ==
  ASSUME NEW count, NEW pt, NEW ssrc, NEW rest, IsList(rest), NEW w, w = FormPacket(count, pt, ssrc, rest)
  PROVE  /\ IsList(w) /\ Len(w) = 2 + Len(rest)
         /\ w[1].count = count /\ w[1].pt = pt /\ w[1].len = Len(rest) + 1 /\ w[2] = ssrc
<1> DEFINE h == FormHeader(count, pt, 2 + Len(rest))
<1>1. Len(rest) \in Nat
  BY ListIs
<1>2. h.count = count /\ h.pt = pt /\ h.len = Len(rest) + 1
  BY <1>1 DEF FormHeader
<1> HIDE DEF h
<1>3. w = <<h, ssrc>> \o rest
  BY DEF FormPacket, h
<1>4. IsList(<<h, ssrc>>) /\ Len(<<h, ssrc>>) = 2 /\ <<h, ssrc>>[1] = h /\ <<h, ssrc>>[2] = ssrc
  BY Short
<1>5. /\ IsList(w) /\ Len(w) = 2 + Len(rest)
      /\ w[1] = h /\ w[2] = ssrc
  BY <1>3, <1>4, Joined
<1> QED
  BY <1>2, <1>5

LEMMA PacketRead ==
  ASSUME NEW count, NEW pt, NEW ssrc, NEW rest, IsList(rest), NEW tail, IsList(tail), NEW items,
         NEW d, d.rest = FormPacket(count, pt, ssrc, rest) \o tail
  PROVE  /\ LET one == DecodeOne(d.c, HeaderOf(count, pt, ssrc, rest), rest, items)
            IN DecodeNext(d, items) = [ok |-> one.ok, c |-> one.c, rest |-> tail]
         /\ IsList(d.rest) /\ Len(d.rest) = 2 + Len(rest) + Len(tail)
<1> DEFINE w == FormPacket(count, pt, ssrc, rest)
           n == Len(rest)
           two == <<FormHeader(count, pt, 2 + n), ssrc>>
<1>1. n \in Nat /\ Len(tail) \in Nat
  BY ListIs
<1>2. /\ IsList(w) /\ Len(w) = 2 + n
      /\ w[1].count = count /\ w[1].pt = pt /\ w[1].len = n + 1 /\ w[2] = ssrc
  BY PacketIs
<1>3. IsList(two) /\ Len(two) = 2
  BY Short
<1>4. w = two \o rest
  BY DEF FormPacket
<1> HIDE DEF two, w
<1>5. /\ IsList(d.rest) /\ Len(d.rest) = 2 + n + Len(tail)
      /\ d.rest[1] = w[1] /\ d.rest[2] = w[2]
  <2>1. d.rest = w \o tail
    BY DEF w
  <2>2. 1 \in 1 .. Len(w) /\ 2 \in 1 .. Len(w)
    BY <1>1, <1>2
  <2>3. IsList(w)
    BY <1>2
  <2>4. /\ IsList(w \o tail) /\ Len(w \o tail) = Len(w) + Len(tail)
        /\ \A k \in 1 .. Len(w) : (w \o tail)[k] = w[k]
    BY <2>3, Joined
  <2> HIDE DEF n
  <2> QED
    BY <1>2, <2>1, <2>2, <2>4
<1> DEFINE h == DecodeRtcpHeader(d.rest)
<1>6. h = HeaderOf(count, pt, ssrc, rest)
  BY <1>2, <1>5 DEF DecodeRtcpHeader, HeaderOf
<1>7. h.len = n + 1
  BY <1>6 DEF HeaderOf
<1>8. SubSeq(d.rest, 3, 1 + h.len) = rest
  <2>1. d.rest = (two \o rest) \o tail
    BY <1>4 DEF w
  <2>2. SubSeq((two \o rest) \o tail, Len(two) + 1, Len(two) + n) = rest
    BY <1>3, Middle
  <2>3. Len(two) + 1 = 3 /\ Len(two) + n = 1 + h.len
    BY <1>1, <1>3, <1>7
  <2> QED
    BY <2>1, <2>2, <2>3
<1>9. SubSeq(d.rest, h.len + 2, Len(d.rest)) = tail
  <2>1. SubSeq(w \o tail, Len(w) + 1, Len(w) + Len(tail)) = tail
    BY <1>2, Halves
  <2>2. h.len + 2 = Len(w) + 1 /\ Len(d.rest) = Len(w) + Len(tail)
    BY <1>1, <1>2, <1>5, <1>7
  <2> QED
    BY <2>1, <2>2 DEF w
<1>10. ~(h.len = 0 \/ h.len - 1 > Len(d.rest) - 2)
  BY <1>1, <1>5, <1>7
<1> DEFINE one == DecodeOne(d.c, h, SubSeq(d.rest, 3, 1 + h.len), items)
<1>11. DecodeNext(d, items) = [ok |-> one.ok, c |-> one.c, rest |-> SubSeq(d.rest, h.len + 2, Len(d.rest))]
  BY <1>10, Zenon DEF DecodeNext
<1>12. one = DecodeOne(d.c, HeaderOf(count, pt, ssrc, rest), rest, items)
  BY <1>6, <1>8, Zenon
<1> HIDE DEF h, one
<1> QED
  BY <1>1, <1>5, <1>9, <1>11, <1>12

LEMMA FunctionIsList ==
  ASSUME NEW f, NEW n \in Nat, DOMAIN f = 1 .. n, f = [i \in DOMAIN f |-> f[i]]
  PROVE  IsList(f) /\ Len(f) = n
<1>1. f \in [1 .. n -> Range(f)]
  BY DEF Range
<1>2. f \in Seq(Range(f))
  BY <1>1, SeqDef
<1>3. Len(f) \in Nat /\ DOMAIN f = 1 .. Len(f)
  BY <1>2, LenProperties
<1>4. Len(f) = n
  BY <1>3
<1> QED
  BY <1>2, <1>4 DEF IsList

(* Lists of lists of one length, put behind each other. *)
IsFlat(g, seqs, n) == g = [i \in 1 .. n |-> IF i = 1 THEN seqs[i] ELSE g[i - 1] \o seqs[i]]

LEMMA FlatExists ==
  ASSUME NEW seqs, NEW n \in Nat
  PROVE  \E g : IsFlat(g, seqs, n)
<1> DEFINE T == {m \in Nat : ~\E g : IsFlat(g, seqs, m)}
<1> SUFFICES ASSUME T # {} PROVE FALSE
  OBVIOUS
<1>1. PICK m \in T : \A k \in T : m <= k
  BY LeastNat
<1>2. m # 0
  <2>1. IsFlat([i \in 1 .. 0 |-> <<>>], seqs, 0)
    BY DEF IsFlat
  <2> QED
    BY <2>1, <1>1
<1>3. m \in Nat /\ m - 1 \in Nat /\ m - 1 \notin T
  BY <1>1, <1>2
<1>4. PICK g : IsFlat(g, seqs, m - 1)
  BY <1>3
<1> DEFINE h == [i \in 1 .. m |-> IF i = m THEN IF m = 1 THEN seqs[m] ELSE g[m - 1] \o seqs[m] ELSE g[i]]
<1>5. \A i \in 1 .. m - 1 : g[i] = IF i = 1 THEN seqs[i] ELSE g[i - 1] \o seqs[i]
  BY <1>4, <1>3 DEF IsFlat
<1>6. \A i \in 1 .. m : h[i] = IF i = 1 THEN seqs[i] ELSE h[i - 1] \o seqs[i]
  BY <1>3, <1>5, <1>2
<1>7. IsFlat(h, seqs, m)
  BY <1>6 DEF IsFlat
<1> QED
  BY <1>7, <1>1

LEMMA Flattened ==
  ASSUME NEW seqs, IsList(seqs), NEW k \in {2, 6},
         \A i \in 1 .. Len(seqs) : IsList(seqs[i]) /\ Len(seqs[i]) = k,
         NEW q, q = FlattenSeq(seqs)
  PROVE  /\ IsList(q) /\ Len(q) = k * Len(seqs)
         /\ \A i \in 1 .. Len(seqs) : SubSeq(q, k * i - k + 1, k * i) = seqs[i]
<1> DEFINE n == Len(seqs)
<1>1. n \in Nat /\ k \in Nat
  BY ListIs
<1> HIDE DEF n
<1>2. CASE n = 0
  <2>1. q = seqs
    BY <1>2 DEF FlattenSeq, n
  <2>2. k * 0 = 0
    BY <1>1
  <2> QED
    BY <1>2, <2>1, <2>2 DEF n
<1>3. CASE n # 0
  <2> DEFINE g == CHOOSE x : IsFlat(x, seqs, n)
  <2>1. IsFlat(g, seqs, n)
    BY <1>1, FlatExists
  <2>2. q = g[n]
    BY <1>3 DEF FlattenSeq, IsFlat, n
  <2> HIDE DEF g
  <2>3. \A i \in 1 .. n : g[i] = IF i = 1 THEN seqs[i] ELSE g[i - 1] \o seqs[i]
    BY <2>1 DEF IsFlat
  <2> DEFINE P(m) == /\ IsList(g[m]) /\ Len(g[m]) = k * m
                     /\ \A i \in 1 .. m : SubSeq(g[m], k * i - k + 1, k * i) = seqs[i]
  <2>4. P(1)
    <3>1. g[1] = seqs[1] /\ IsList(seqs[1]) /\ Len(seqs[1]) = k
      BY <1>1, <1>3, <2>3 DEF n
    <3>2. k * 1 = k /\ k * 1 - k + 1 = 1
      BY <1>1
    <3>3. SubSeq(seqs[1], 1, k) = seqs[1]
      BY <3>1, SubSeqFull DEF IsList
    <3>4. \A i \in 1 .. 1 : i = 1
      OBVIOUS
    <3> QED
      BY <3>1, <3>2, <3>3, <3>4
  <2>5. ASSUME NEW m \in 2 .. n, P(m - 1) PROVE P(m)
    <3> DEFINE a == g[m - 1]
               b == seqs[m]
    <3>1. g[m] = a \o b /\ IsList(a) /\ IsList(b) /\ Len(a) = k * (m - 1) /\ Len(b) = k
      <4>1. m \in 1 .. n /\ m # 1
        BY <1>1
      <4>2. g[m] = a \o b
        BY <2>3, <4>1, Zenon
      <4>3. IsList(a) /\ Len(a) = k * (m - 1)
        BY <2>5
      <4>4. IsList(b) /\ Len(b) = k
        BY <4>1 DEF n
      <4> QED
        BY <4>2, <4>3, <4>4
    <3>2. k * (m - 1) + k = k * m /\ k * m - k + 1 = k * (m - 1) + 1
      <4>1. CASE k = 2
        BY <1>1, <4>1
      <4>2. CASE k = 6
        BY <1>1, <4>2
      <4> QED
        BY <4>1, <4>2
    <3>3. \A i \in 1 .. m - 1 : SubSeq(a, k * i - k + 1, k * i) = seqs[i]
      BY <2>5
    <3> HIDE DEF a, b
    <3>4. IsList(a \o b) /\ Len(a \o b) = k * m
      BY <3>1, <3>2, Joined
    <3>5. SubSeq(a \o b, k * m - k + 1, k * m) = b
      BY <3>1, <3>2, Halves
    <3>6. ASSUME NEW i \in 1 .. m - 1 PROVE SubSeq(a \o b, k * i - k + 1, k * i) = seqs[i]
      <4> DEFINE x == k * i - k + 1
                 y == k * i
      <4>1. x \in 1 .. Len(a) /\ y \in 1 .. Len(a)
        <5>1. CASE k = 2
          <6>1. Len(a) = 2 * (m - 1) /\ x = 2 * i - 1 /\ y = 2 * i
            BY <3>1, <5>1
          <6> QED
            BY <1>1, <6>1
        <5>2. CASE k = 6
          <6>1. Len(a) = 6 * (m - 1) /\ x = 6 * i - 5 /\ y = 6 * i
            BY <3>1, <5>2
          <6> QED
            BY <1>1, <6>1
        <5> QED
          BY <5>1, <5>2
      <4> DEFINE T == Range(a) \cup Range(b)
      <4>2. a \in Seq(T) /\ b \in Seq(T)
        BY <3>1, SeqMonotonic DEF IsList
      <4> HIDE DEF x, y, T
      <4>3. SubSeq(a \o b, x, y) = SubSeq(a, x, y)
        BY <4>1, <4>2, SubSeqOfConcat1
      <4> QED
        BY <3>3, <4>3 DEF x, y
    <3>7. \A i \in 1 .. m : i \in 1 .. m - 1 \/ i = m
      OBVIOUS
    <3> QED
      BY <3>1, <3>4, <3>5, <3>6, <3>7 DEF b
  <2> HIDE DEF P
  <2>6. \A m \in 1 .. n : P(m)
    <3> DEFINE T == {m \in 1 .. n : ~P(m)}
    <3> SUFFICES ASSUME T # {} PROVE FALSE
      OBVIOUS
    <3>1. T \in SUBSET Nat
      BY <1>1
    <3>2. PICK m \in T : \A i \in T : m <= i
      BY <3>1, LeastNat
    <3>3. m # 1
      BY <2>4, <3>2
    <3>4. m \in 2 .. n /\ m - 1 \in 1 .. n /\ ~(m <= m - 1)
      BY <1>1, <3>2, <3>3
    <3> QED
      BY <2>5, <3>2, <3>4
  <2>7. P(n)
    BY <1>1, <1>3, <2>6
  <2> QED
    BY <2>2, <2>7 DEF P, n
<1> QED
  BY <1>2, <1>3

(* Report blocks: the losses lose what 24 bits do not hold. *)
IsBlock(b) ==
    b = [ssrc |-> b.ssrc, frac |-> b.frac, lost |-> b.lost, ext |-> b.ext, jitter |-> b.jitter, lsr |-> b.lsr,
         dlsr |-> b.dlsr]
Blocks(q) == IsList(q) /\ \A i \in DOMAIN q : IsBlock(q[i])
Cut(q) == [i \in DOMAIN q |-> [q[i] EXCEPT !.lost = @ % LostMod]]
WordsOf(q) == FlattenSeq([i \in DOMAIN q |-> FormReportBlock(q[i])])

LEMMA BlockRead ==
  ASSUME NEW b, IsBlock(b)
  PROVE  /\ IsList(FormReportBlock(b)) /\ Len(FormReportBlock(b)) = 6
         /\ DecodeReportBlock(FormReportBlock(b)) = [b EXCEPT !.lost = @ % LostMod]
<1> DEFINE w == FormReportBlock(b)
           f == [frac |-> b.frac, lost |-> b.lost % LostMod]
<1>1. w = <<b.ssrc, f, b.ext, b.jitter, b.lsr, b.dlsr>>
  BY DEF FormReportBlock
<1>2. f.frac = b.frac /\ f.lost = b.lost % LostMod
  OBVIOUS
<1> HIDE DEF w, f
<1>3. /\ w \in Seq({b.ssrc, f, b.ext, b.jitter, b.lsr, b.dlsr}) /\ Len(w) = 6
      /\ w[1] = b.ssrc /\ w[2] = f /\ w[3] = b.ext /\ w[4] = b.jitter /\ w[5] = b.lsr /\ w[6] = b.dlsr
  BY <1>1
<1>4. DecodeReportBlock(w) = [ssrc |-> b.ssrc, frac |-> b.frac, lost |-> b.lost % LostMod, ext |-> b.ext,
                              jitter |-> b.jitter, lsr |-> b.lsr, dlsr |-> b.dlsr]
  BY <1>2, <1>3 DEF DecodeReportBlock
<1> DEFINE cut == b.lost % LostMod
<1>5. DecodeReportBlock(w) = [b EXCEPT !.lost = cut]
  <2> HIDE DEF cut
  <2>1. b = [ssrc |-> b.ssrc, frac |-> b.frac, lost |-> b.lost, ext |-> b.ext, jitter |-> b.jitter, lsr |-> b.lsr,
             dlsr |-> b.dlsr]
    BY DEF IsBlock
  <2> QED
    BY <1>4, <2>1 DEF cut
<1> QED
  BY <1>3, <1>5, InList DEF w

LEMMA BlocksRead ==
  ASSUME NEW q, Blocks(q)
  PROVE  IsList(WordsOf(q)) /\ Len(WordsOf(q)) \in Nat /\ DecodeRrPacket(WordsOf(q)) = Cut(q)
<1> DEFINE n == Len(q)
           formed == [i \in DOMAIN q |-> FormReportBlock(q[i])]
           w == WordsOf(q)
<1>1. n \in Nat /\ DOMAIN q = 1 .. n
  BY ListIs DEF Blocks
<1>2. IsList(formed) /\ Len(formed) = n
  <2>1. DOMAIN formed = 1 .. n /\ formed = [i \in DOMAIN formed |-> formed[i]]
    BY <1>1
  <2> HIDE DEF formed
  <2> QED
    BY <1>1, <2>1, FunctionIsList
<1>3. \A i \in 1 .. n : formed[i] = FormReportBlock(q[i]) /\ IsBlock(q[i])
  BY <1>1 DEF Blocks
<1>4. \A i \in 1 .. n : IsList(formed[i]) /\ Len(formed[i]) = 6
  BY <1>3, BlockRead
<1>5. w = FlattenSeq(formed)
  BY DEF WordsOf
<1> HIDE DEF formed, w
<1>6. /\ IsList(w) /\ Len(w) = 6 * n
      /\ \A i \in 1 .. n : SubSeq(w, 6 * i - 6 + 1, 6 * i) = formed[i]
  BY <1>2, <1>4, <1>5, Flattened
<1>7. Len(w) \div 6 = n /\ Len(w) \in Nat
  <2>1. \A x \in Nat : (6 * x) \div 6 = x
    OBVIOUS
  <2> HIDE DEF n
  <2> QED
    BY <1>1, <1>6, <2>1
<1>8. DecodeRrPacket(w) = [i \in 1 .. n |-> DecodeReportBlock(SubSeq(w, 6 * i - 5, 6 * i))]
  BY <1>7 DEF DecodeRrPacket
<1>9. \A i \in 1 .. n : DecodeReportBlock(SubSeq(w, 6 * i - 5, 6 * i)) = [q[i] EXCEPT !.lost = @ % LostMod]
  <2> TAKE i \in 1 .. n
  <2>1. 6 * i - 6 + 1 = 6 * i - 5
    BY <1>1
  <2>2. SubSeq(w, 6 * i - 5, 6 * i) = FormReportBlock(q[i])
    BY <1>3, <1>6, <2>1
  <2> QED
    BY <1>3, <2>2, BlockRead
<1>10. DecodeRrPacket(w) = Cut(q)
  BY <1>1, <1>8, <1>9 DEF Cut
<1> QED
  BY <1>6, <1>7, <1>10 DEF w

(* The words of a sender's report are behind its five of its own. *)
LEMMA SenderRead ==
  ASSUME NEW h, NEW info, IsList(info), Len(info) = 5, NEW q, Blocks(q)
  PROVE  /\ IsList(info \o WordsOf(q)) /\ Len(info \o WordsOf(q)) >= 5
         /\ DecodeSrPacket(h, info \o WordsOf(q)) = [count |-> h.count, ssrc |-> h.ssrc, info |-> info, blocks |-> Cut(q)]
<1> DEFINE b == WordsOf(q)
           w == info \o b
<1>1. IsList(b) /\ Len(b) \in Nat /\ DecodeRrPacket(b) = Cut(q)
  BY BlocksRead
<1> HIDE DEF b
<1>2. IsList(w) /\ Len(w) = 5 + Len(b)
  <2>1. IsList(info) /\ IsList(b)
    BY <1>1
  <2>2. IsList(info \o b) /\ Len(info \o b) = Len(info) + Len(b)
    BY <2>1, Joined
  <2> QED
    BY <2>2
<1>3. SubSeq(w, 1, 5) = info /\ SubSeq(w, 6, Len(w)) = b
  <2>1. SubSeq(w, 1, Len(info)) = info /\ SubSeq(w, Len(info) + 1, Len(info) + Len(b)) = b
    BY <1>1, Halves
  <2> HIDE DEF w
  <2> QED
    BY <1>2, <2>1
<1> HIDE DEF w
<1>4. DecodeSrPacket(h, w) = [count |-> h.count, ssrc |-> h.ssrc, info |-> info, blocks |-> Cut(q)]
  BY <1>1, <1>3 DEF DecodeSrPacket
<1> QED
  BY <1>1, <1>2, <1>4 DEF w, b

(* Items of the size this side sends: a word of the item and a word of zeros. *)
OwnItem == [type |-> CNAME, length |-> 3]
OwnItems(n) == [i \in 1 .. n |-> OwnItem]

LEMMA ItemIs ==
  /\ ItemWords(OwnItem) = 2
  /\ IsList(FormItem(OwnItem)) /\ Len(FormItem(OwnItem)) = 2 /\ FormItem(OwnItem)[1] = OwnItem
<1>1. ItemWords(OwnItem) = 2
  BY DEF ItemWords, OwnItem
<1> DEFINE zeros == [i \in 1 .. 1 |-> 0]
<1>2. FormItem(OwnItem) = <<OwnItem>> \o zeros
  BY <1>1 DEF FormItem
<1>3. IsList(zeros) /\ Len(zeros) = 1
  <2>1. DOMAIN zeros = 1 .. 1 /\ zeros = [i \in DOMAIN zeros |-> zeros[i]]
    OBVIOUS
  <2> HIDE DEF zeros
  <2> QED
    BY <2>1, FunctionIsList
<1> HIDE DEF zeros
<1>4. IsList(<<OwnItem>>) /\ Len(<<OwnItem>>) = 1 /\ <<OwnItem>>[1] = OwnItem
  BY Short
<1> DEFINE one == <<OwnItem>>
<1>5. one = <<OwnItem>>
  OBVIOUS
<1> HIDE DEF one
<1>6. /\ IsList(one \o zeros) /\ Len(one \o zeros) = Len(one) + Len(zeros)
      /\ \A k \in 1 .. Len(one) : (one \o zeros)[k] = one[k]
  <2>1. IsList(one) /\ IsList(zeros)
    BY <1>3, <1>4, <1>5
  <2> QED
    BY <2>1, Joined
<1> QED
  BY <1>1, <1>2, <1>3, <1>4, <1>5, <1>6

LEMMA ChunkIs ==
  ASSUME NEW n \in Nat, NEW w, w = FormRtcpChunk(OwnItems(n))
  PROVE  IsList(w) /\ Len(w) = 2 * n /\ \A i \in 1 .. n : w[2 * i - 1] = OwnItem
<1> DEFINE formed == [i \in DOMAIN OwnItems(n) |-> FormItem(OwnItems(n)[i])]
<1>1. IsList(formed) /\ Len(formed) = n /\ \A i \in 1 .. n : formed[i] = FormItem(OwnItem)
  <2>1. DOMAIN formed = 1 .. n /\ formed = [i \in DOMAIN formed |-> formed[i]]
    BY DEF OwnItems
  <2>2. \A i \in 1 .. n : formed[i] = FormItem(OwnItem)
    BY DEF OwnItems
  <2> HIDE DEF formed
  <2> QED
    BY <2>1, <2>2, FunctionIsList
<1>2. w = FlattenSeq(formed)
  BY DEF FormRtcpChunk
<1> HIDE DEF formed
<1>3. \A i \in 1 .. Len(formed) : IsList(formed[i]) /\ Len(formed[i]) = 2
  BY <1>1, ItemIs
<1>4. /\ IsList(w) /\ Len(w) = 2 * n
      /\ \A i \in 1 .. n : SubSeq(w, 2 * i - 2 + 1, 2 * i) = formed[i]
  BY <1>1, <1>2, <1>3, Flattened
<1>5. ASSUME NEW i \in 1 .. n PROVE w[2 * i - 1] = OwnItem
  <2> DEFINE x == 2 * i - 2 + 1
             y == 2 * i
  <2>1. x \in Int /\ y \in Int /\ 1 <= x /\ y <= Len(w) /\ 1 \in 1 .. y - x + 1 /\ x + 1 - 1 = 2 * i - 1
    BY <1>4
  <2>2. SubSeq(w, x, y)[1] = OwnItem
    BY <1>1, <1>4, ItemIs
  <2> HIDE DEF x, y
  <2>3. SubSeq(w, x, y)[1] = w[x + 1 - 1]
    BY <1>4, <2>1, Piece
  <2> QED
    BY <2>1, <2>2, <2>3
<1> QED
  BY <1>4, <1>5

(* The items of a chunk are read one by one. *)
NextItem(before) ==
    IF before.rest = <<>> THEN before
    ELSE [items |-> Append(before.items, before.rest[1]),
          rest |-> SubSeq(before.rest, ItemWords(before.rest[1]) + 1, Len(before.rest))]
AreItems(g, words, n) ==
    g = [k \in 0 .. n |-> IF k = 0 THEN [items |-> <<>>, rest |-> words] ELSE NextItem(g[k - 1])]

LEMMA ItemsExist ==
  ASSUME NEW words, NEW n \in Nat
  PROVE  \E g : AreItems(g, words, n)
<1> DEFINE T == {m \in Nat : ~\E g : AreItems(g, words, m)}
           first == [items |-> <<>>, rest |-> words]
<1> SUFFICES ASSUME T # {} PROVE FALSE
  OBVIOUS
<1>1. PICK m \in T : \A k \in T : m <= k
  BY LeastNat
<1>2. m # 0
  <2>1. AreItems([k \in 0 .. 0 |-> first], words, 0)
    BY DEF AreItems
  <2> QED
    BY <2>1, <1>1
<1>3. m \in Nat /\ m - 1 \in Nat /\ m - 1 \notin T
  BY <1>1, <1>2
<1>4. PICK g : AreItems(g, words, m - 1)
  BY <1>3
<1> DEFINE h == [k \in 0 .. m |-> IF k = m THEN NextItem(g[m - 1]) ELSE g[k]]
<1>5. \A k \in 0 .. m - 1 : g[k] = IF k = 0 THEN first ELSE NextItem(g[k - 1])
  BY <1>4, <1>3 DEF AreItems
<1>6. \A k \in 0 .. m : h[k] = IF k = 0 THEN first ELSE NextItem(h[k - 1])
  BY <1>3, <1>5, <1>2
<1>7. AreItems(h, words, m)
  BY <1>6 DEF AreItems
<1> QED
  BY <1>7, <1>1

LEMMA ChunkRead ==
  ASSUME NEW n \in Nat
  PROVE  DecodeRtcpChunk(FormRtcpChunk(OwnItems(n)), n) = OwnItems(n)
<1> DEFINE w == FormRtcpChunk(OwnItems(n))
           g == CHOOSE x : AreItems(x, w, n)
<1>1. IsList(w) /\ Len(w) = 2 * n /\ \A i \in 1 .. n : w[2 * i - 1] = OwnItem
  BY ChunkIs
<1> HIDE DEF w
<1>2. AreItems(g, w, n)
  BY ItemsExist
<1>3. DecodeRtcpChunk(w, n) = g[n].items
  BY DEF DecodeRtcpChunk, AreItems, NextItem
<1> HIDE DEF g
<1>4. \A k \in 0 .. n : g[k] = IF k = 0 THEN [items |-> <<>>, rest |-> w] ELSE NextItem(g[k - 1])
  BY <1>2 DEF AreItems
<1> DEFINE P(k) == /\ g[k].items = OwnItems(k)
                   /\ IsList(g[k].rest) /\ Len(g[k].rest) = 2 * (n - k)
                   /\ \A j \in 1 .. 2 * (n - k) : g[k].rest[j] = w[2 * k + j]
<1>5. P(0)
  <2>1. g[0] = [items |-> <<>>, rest |-> w]
    BY <1>4
  <2>2. OwnItems(0) = <<>>
    <3>1. DOMAIN OwnItems(0) = 1 .. 0 /\ OwnItems(0) = [i \in DOMAIN OwnItems(0) |-> OwnItems(0)[i]]
      BY DEF OwnItems
    <3>2. IsList(OwnItems(0)) /\ Len(OwnItems(0)) = 0
      BY <3>1, FunctionIsList
    <3> QED
      BY <3>2, Nil, SameList
  <2> QED
    BY <1>1, <2>1, <2>2
<1>6. ASSUME NEW k \in 1 .. n, P(k - 1) PROVE P(k)
  <2> DEFINE r == g[k - 1].rest
             m == Len(r)
             s == SubSeq(r, 3, m)
  <2>1. IsList(r) /\ m = 2 * (n - k) + 2 /\ \A j \in 1 .. m : r[j] = w[2 * k - 2 + j]
    <3>1. 2 * (n - (k - 1)) = 2 * (n - k) + 2 /\ 2 * (k - 1) = 2 * k - 2
      OBVIOUS
    <3> QED
      BY <1>6, <3>1
  <2>2. m \in Nat /\ m >= 2 /\ r # <<>>
    BY <2>1, Nil
  <2>3. r[1] = OwnItem
    <3>1. 2 * k - 2 + 1 = 2 * k - 1 /\ 1 \in 1 .. m
      BY <2>2
    <3> QED
      BY <1>1, <2>1, <3>1
  <2>4. g[k] = [items |-> Append(g[k - 1].items, OwnItem), rest |-> s]
    <3>1. g[k] = NextItem(g[k - 1])
      BY <1>4
    <3>2. ItemWords(r[1]) + 1 = 3
      BY <2>3, ItemIs
    <3> QED
      BY <2>2, <2>3, <3>1, <3>2 DEF NextItem
  <2>5. IsList(s) /\ Len(s) = m - 2 /\ \A j \in 1 .. m - 2 : s[j] = r[2 + j]
    <3>1. 3 \in Int /\ m \in Int /\ 1 <= 3 /\ m <= Len(r)
      BY <2>2
    <3> HIDE DEF r
    <3>2. /\ IsList(s) /\ Len(s) = IF 3 <= m THEN m - 3 + 1 ELSE 0
          /\ \A j \in 1 .. m - 3 + 1 : s[j] = r[3 + j - 1]
      BY <2>1, <3>1, Piece
    <3> HIDE DEF s, m
    <3>3. ASSUME NEW j \in 1 .. m - 2 PROVE s[j] = r[2 + j]
      <4>1. j \in 1 .. m - 3 + 1 /\ 3 + j - 1 = 2 + j
        BY <2>2
      <4> QED
        BY <3>2, <4>1
    <3> QED
      BY <2>2, <3>2, <3>3
  <2>6. \A j \in 1 .. m - 2 : s[j] = w[2 * k + j]
    <3> TAKE j \in 1 .. m - 2
    <3>1. 2 + j \in 1 .. m /\ 2 * k - 2 + (2 + j) = 2 * k + j
      BY <2>2
    <3> HIDE DEF s, r, m
    <3> QED
      BY <2>1, <2>5, <3>1
  <2>7. Append(OwnItems(k - 1), OwnItem) = OwnItems(k)
    <3> DEFINE a == OwnItems(k - 1)
               b == OwnItems(k)
    <3>1. k - 1 \in Nat /\ k \in Nat
      OBVIOUS
    <3>2. /\ DOMAIN a = 1 .. k - 1 /\ a = [i \in DOMAIN a |-> a[i]] /\ \A i \in 1 .. k - 1 : a[i] = OwnItem
          /\ DOMAIN b = 1 .. k /\ b = [i \in DOMAIN b |-> b[i]] /\ \A i \in 1 .. k : b[i] = OwnItem
      BY DEF OwnItems
    <3> HIDE DEF a, b
    <3>3. IsList(a) /\ Len(a) = k - 1 /\ IsList(b) /\ Len(b) = k
      BY <3>1, <3>2, FunctionIsList
    <3>4. /\ IsList(Append(a, OwnItem)) /\ Len(Append(a, OwnItem)) = k
          /\ \A i \in 1 .. k - 1 : Append(a, OwnItem)[i] = a[i]
          /\ Append(a, OwnItem)[k] = OwnItem
      <4>1. Len(a) + 1 = k
        BY <3>3
      <4> QED
        BY <3>3, <4>1, Appended
    <3>5. \A i \in 1 .. k : Append(a, OwnItem)[i] = b[i]
      <4>1. \A i \in 1 .. k : i \in 1 .. k - 1 \/ i = k
        OBVIOUS
      <4> QED
        BY <3>2, <3>4, <4>1
    <3> QED
      BY <3>3, <3>4, <3>5, SameList DEF a, b
  <2>8. m - 2 = 2 * (n - k)
    BY <2>1
  <2>9. g[k].items = OwnItems(k) /\ g[k].rest = s
    BY <1>6, <2>4, <2>7
  <2> HIDE DEF s, m
  <2> QED
    BY <2>5, <2>6, <2>8, <2>9
<1> HIDE DEF P
<1>7. \A k \in 0 .. n : P(k)
  <2> DEFINE T == {k \in 0 .. n : ~P(k)}
  <2> SUFFICES ASSUME T # {} PROVE FALSE
    OBVIOUS
  <2>1. T \in SUBSET Nat
    OBVIOUS
  <2>2. PICK k \in T : \A j \in T : k <= j
    BY <2>1, LeastNat
  <2>3. k # 0
    BY <1>5, <2>2
  <2>4. k \in 1 .. n /\ k - 1 \in 0 .. n /\ ~(k <= k - 1)
    BY <2>2, <2>3
  <2> QED
    BY <1>6, <2>2, <2>4
<1>8. P(n)
  BY <1>7
<1> QED
  BY <1>3, <1>8 DEF P, w

(* What a packet adds to those decoded before it. *)
Compound(sr, rr, sdes, bye, fb, xr) == [sr |-> sr, rr |-> rr, sdes |-> sdes, bye |-> bye, fb |-> fb, xr |-> xr]
CutReport(r) == [r EXCEPT !.blocks = Cut(r.blocks)]
IsRr(r) == r = [count |-> r.count, ssrc |-> r.ssrc, blocks |-> r.blocks] /\ Blocks(r.blocks)
IsSr(r) == /\ r = [count |-> r.count, ssrc |-> r.ssrc, info |-> r.info, blocks |-> r.blocks] /\ Blocks(r.blocks)
           /\ IsList(r.info) /\ Len(r.info) = 5

LEMMA HeaderFields ==
  ASSUME NEW count, NEW pt, NEW ssrc, NEW rest
  PROVE  /\ HeaderOf(count, pt, ssrc, rest).count = count /\ HeaderOf(count, pt, ssrc, rest).pt = pt
         /\ HeaderOf(count, pt, ssrc, rest).ssrc = ssrc
  BY DEF HeaderOf

LEMMA AppendedOne == \A p : Append(<<>>, p) = <<p>>
  OBVIOUS

LEMMA SrAdded ==
  ASSUME NEW r, IsSr(r), NEW w, w = r.info \o WordsOf(r.blocks), NEW items
  PROVE  /\ IsList(w)
         /\ DecodeOne(EmptyCompound, HeaderOf(r.count, "SR", r.ssrc, w), w, items)
                = [ok |-> TRUE, c |-> Compound(<<CutReport(r)>>, <<>>, <<>>, <<>>, <<>>, <<>>)]
<1> DEFINE h == HeaderOf(r.count, "SR", r.ssrc, w)
           p == DecodeSrPacket(h, w)
<1>1. h.pt = "SR" /\ h.count = r.count /\ h.ssrc = r.ssrc
  BY HeaderFields
<1> HIDE DEF h
<1>2. IsList(w) /\ Len(w) >= 5 /\ p = [count |-> r.count, ssrc |-> r.ssrc, info |-> r.info, blocks |-> Cut(r.blocks)]
  BY <1>1, SenderRead DEF IsSr
<1>3. p = CutReport(r)
  <2> DEFINE cut == Cut(r.blocks)
  <2>1. r = [count |-> r.count, ssrc |-> r.ssrc, info |-> r.info, blocks |-> r.blocks]
    BY DEF IsSr
  <2> HIDE DEF cut, p
  <2>2. [r EXCEPT !.blocks = cut] = [count |-> r.count, ssrc |-> r.ssrc, info |-> r.info, blocks |-> cut]
    BY <2>1
  <2> QED
    BY <1>2, <2>2 DEF CutReport, cut
<1> HIDE DEF p
<1>4. ~(Len(w) < 5)
  <2> DEFINE n == Len(w)
  <2>1. n \in Nat /\ n >= 5
    BY <1>2, ListIs
  <2> HIDE DEF n
  <2>2. ~(n < 5)
    BY <2>1
  <2> QED
    BY <2>2 DEF n
<1>5. DecodeOne(EmptyCompound, h, w, items) = [ok |-> TRUE, c |-> AddPacketData(EmptyCompound, "sr", p)]
  BY <1>1, <1>4 DEF DecodeOne, p
<1>6. AddPacketData(EmptyCompound, "sr", p) = Compound(<<p>>, <<>>, <<>>, <<>>, <<>>, <<>>)
  BY AppendedOne DEF AddPacketData, EmptyCompound, Compound
<1> QED
  BY <1>2, <1>3, <1>5, <1>6 DEF h

LEMMA RrAdded ==
  ASSUME NEW r, IsRr(r), NEW w, w = WordsOf(r.blocks), NEW items, NEW sr
  PROVE  /\ IsList(w)
         /\ DecodeOne(Compound(sr, <<>>, <<>>, <<>>, <<>>, <<>>), HeaderOf(r.count, "RR", r.ssrc, w), w, items)
                = [ok |-> TRUE, c |-> Compound(sr, <<CutReport(r)>>, <<>>, <<>>, <<>>, <<>>)]
<1> DEFINE h == HeaderOf(r.count, "RR", r.ssrc, w)
           p == [count |-> h.count, ssrc |-> h.ssrc, blocks |-> DecodeRrPacket(w)]
           c == Compound(sr, <<>>, <<>>, <<>>, <<>>, <<>>)
<1>1. h.pt = "RR" /\ h.count = r.count /\ h.ssrc = r.ssrc
  BY HeaderFields
<1> HIDE DEF h
<1>2. IsList(w) /\ p = [count |-> r.count, ssrc |-> r.ssrc, blocks |-> Cut(r.blocks)]
  BY <1>1, BlocksRead DEF IsRr
<1>3. p = CutReport(r)
  <2> DEFINE cut == Cut(r.blocks)
  <2>1. r = [count |-> r.count, ssrc |-> r.ssrc, blocks |-> r.blocks]
    BY DEF IsRr
  <2> HIDE DEF cut, p
  <2>2. [r EXCEPT !.blocks = cut] = [count |-> r.count, ssrc |-> r.ssrc, blocks |-> cut]
    BY <2>1
  <2> QED
    BY <1>2, <2>2 DEF CutReport, cut
<1>5. DecodeOne(c, h, w, items) = [ok |-> TRUE, c |-> AddPacketData(c, "rr", p)]
  <2> HIDE DEF c
  <2> QED
    BY <1>1 DEF DecodeOne
<1> HIDE DEF p
<1>6. AddPacketData(c, "rr", p) = Compound(sr, <<p>>, <<>>, <<>>, <<>>, <<>>)
  BY AppendedOne DEF AddPacketData, Compound
<1> QED
  BY <1>2, <1>3, <1>5, <1>6 DEF h

LEMMA SdesAdded ==
  ASSUME NEW n \in Nat, n > 0, NEW ssrc, NEW w, w = FormRtcpChunk(OwnItems(n)), NEW sr, NEW rr
  PROVE  /\ IsList(w)
         /\ DecodeOne(Compound(sr, rr, <<>>, <<>>, <<>>, <<>>), HeaderOf(1, "SDES", ssrc, w), w, n)
                = [ok |-> TRUE, c |-> Compound(sr, rr, <<[ssrc |-> ssrc, items |-> OwnItems(n)]>>, <<>>, <<>>, <<>>)]
<1> DEFINE h == HeaderOf(1, "SDES", ssrc, w)
           p == [ssrc |-> ssrc, items |-> OwnItems(n)]
           c == Compound(sr, rr, <<>>, <<>>, <<>>, <<>>)
<1>1. h.pt = "SDES" /\ h.ssrc = ssrc
  BY HeaderFields
<1> HIDE DEF h
<1>2. DecodeSdesPacket(w, n) = [ok |-> TRUE, items |-> OwnItems(n)]
  <2>1. DecodeRtcpChunk(w, n) = OwnItems(n)
    BY ChunkRead
  <2>2. \E i \in DOMAIN OwnItems(n) : OwnItems(n)[i].type = CNAME
    <3>1. 1 \in 1 .. n
      OBVIOUS
    <3> QED
      BY <3>1 DEF OwnItems, OwnItem
  <2> DEFINE got == OwnItems(n)
  <2> HIDE DEF got
  <2> QED
    BY <2>1, <2>2 DEF DecodeSdesPacket, got
<1>3. IsList(w)
  BY ChunkIs
<1>4. DecodeOne(c, h, w, n) = [ok |-> TRUE, c |-> [c EXCEPT !.sdes = <<p>>]]
  <2> DEFINE got == OwnItems(n)
  <2> HIDE DEF c, got
  <2> QED
    BY <1>1, <1>2 DEF DecodeOne, got
<1> HIDE DEF p
<1>5. [c EXCEPT !.sdes = <<p>>] = Compound(sr, rr, <<p>>, <<>>, <<>>, <<>>)
  BY DEF Compound
<1> QED
  BY <1>3, <1>4, <1>5 DEF h, p

LEMMA ByeAdded ==
  ASSUME NEW ssrc, NEW items, NEW sr, NEW rr, NEW sdes
  PROVE  DecodeOne(Compound(sr, rr, sdes, <<>>, <<>>, <<>>), HeaderOf(1, "BYE", ssrc, <<>>), <<>>, items)
             = [ok |-> TRUE, c |-> Compound(sr, rr, sdes, <<[count |-> 1, ssrc |-> ssrc, list |-> <<>>]>>, <<>>, <<>>)]
<1> DEFINE h == HeaderOf(1, "BYE", ssrc, <<>>)
           p == [count |-> 1, ssrc |-> ssrc, list |-> <<>>]
           c == Compound(sr, rr, sdes, <<>>, <<>>, <<>>)
<1>1. h.pt = "BYE" /\ h.count = 1 /\ h.ssrc = ssrc
  BY HeaderFields
<1> HIDE DEF h
<1>2. DecodeByePacket(1, <<>>) = <<>>
  <2>1. Len(<<>>) = 0
    BY Nil
  <2>2. SubSeq(<<>>, 1, 0) = <<>>
    BY SubSeqEmpty
  <2> QED
    BY <2>1, <2>2 DEF DecodeByePacket
<1>3. DecodeOne(c, h, <<>>, items) = [ok |-> TRUE, c |-> [c EXCEPT !.bye = <<p>>]]
  <2> HIDE DEF c
  <2> QED
    BY <1>1, <1>2 DEF DecodeOne
<1> HIDE DEF p
<1>4. [c EXCEPT !.bye = <<p>>] = Compound(sr, rr, sdes, <<p>>, <<>>, <<>>)
  BY DEF Compound
<1> QED
  BY <1>3, <1>4 DEF h, p

(* A feedback message of the RTP or of the payload kind. *)
IsFeedback(f) == /\ f = [fmt |-> f.fmt, pt |-> f.pt, ssrc |-> f.ssrc, media |-> f.media, fci |-> f.fci]
                 /\ f.pt \in {"RTPFB", "PSFB"} /\ IsList(f.fci)

(* The words after the header of a feedback message. *)
FbBody(p) == <<p.media>> \o p.fci

LEMMA FbAdded ==
  ASSUME NEW p, IsFeedback(p)
  PROVE  /\ IsList(FbBody(p))
         /\ \A items, sr, rr, sdes, bye :
                DecodeOne(Compound(sr, rr, sdes, bye, <<>>, <<>>), HeaderOf(p.fmt, p.pt, p.ssrc, FbBody(p)),
                          FbBody(p), items)
                    = [ok |-> TRUE, c |-> Compound(sr, rr, sdes, bye, <<p>>, <<>>)]
<1> DEFINE w == FbBody(p)
           fmt == p.fmt
           pt == p.pt
           ssrc == p.ssrc
           media == p.media
           fci == p.fci
           h == HeaderOf(fmt, pt, ssrc, w)
           one == <<media>>
<1>0. /\ p = [fmt |-> fmt, pt |-> pt, ssrc |-> ssrc, media |-> media, fci |-> fci]
      /\ pt \in {"RTPFB", "PSFB"} /\ IsList(fci) /\ w = <<media>> \o fci
  BY DEF IsFeedback, FbBody
<1>1. h.pt = pt /\ h.count = fmt /\ h.ssrc = ssrc
  BY HeaderFields
<1> HIDE DEF h, w, fmt, pt, ssrc, media, fci
<1>2. IsList(one) /\ Len(one) = 1 /\ one[1] = media
  BY Short
<1>3. w = one \o fci
  BY <1>0
<1> HIDE DEF one
<1>4. IsList(w) /\ Len(w) = 1 + Len(fci) /\ w[1] = media
  <2>1. /\ IsList(one \o fci) /\ Len(one \o fci) = Len(one) + Len(fci)
        /\ \A k \in 1 .. Len(one) : (one \o fci)[k] = one[k]
    BY <1>0, <1>2, Joined
  <2>2. 1 \in 1 .. Len(one)
    BY <1>2
  <2>3. IsList(w)
    BY <1>3, <2>1, Zenon
  <2>4. Len(w) = 1 + Len(fci)
    BY <1>2, <1>3, <2>1, Zenon
  <2>5. w[1] = media
    <3>1. (one \o fci)[1] = one[1]
      BY <2>1, <2>2, Zenon
    <3> QED
      BY <1>2, <1>3, <3>1, Zenon
  <2> QED
    BY <2>3, <2>4, <2>5, Zenon
<1>5. Tail(w) = fci
  <2>1. Len(fci) \in Nat
    BY <1>0, ListIs
  <2>2. w # <<>> /\ w \in Seq(Range(w))
    BY <1>4, <2>1, Nil DEF IsList
  <2>3. Tail(w) = SubSeq(w, 2, Len(w))
    BY <2>2, TailIsSubSeq
  <2>4. SubSeq(one \o fci, Len(one) + 1, Len(one) + Len(fci)) = fci
    BY <1>0, <1>2, Halves
  <2>5. Len(one) + 1 = 2 /\ Len(one) + Len(fci) = Len(w)
    BY <1>2, <1>4
  <2>6. SubSeq(w, 2, Len(w)) = fci
    BY <1>3, <2>4, <2>5, Zenon
  <2> QED
    BY <2>3, <2>6, Zenon
<1>6. DecodeRtcpFbPacket(h, w) = p
  BY <1>0, <1>1, <1>4, <1>5 DEF DecodeRtcpFbPacket
<1>7. ASSUME NEW items, NEW sr, NEW rr, NEW sdes, NEW bye, NEW c, c = Compound(sr, rr, sdes, bye, <<>>, <<>>)
      PROVE  DecodeOne(c, h, w, items) = [ok |-> TRUE, c |-> Compound(sr, rr, sdes, bye, <<p>>, <<>>)]
  <2>1. DecodeOne(c, h, w, items) = [ok |-> TRUE, c |-> AddPacketData(c, "fb", p)]
    BY <1>0, <1>1, <1>6 DEF DecodeOne
  <2>2. AddPacketData(c, "fb", p) = Compound(sr, rr, sdes, bye, <<p>>, <<>>)
    BY <1>7, AppendedOne DEF AddPacketData, Compound
  <2> QED
    BY <2>1, <2>2
<1> QED
  BY <1>4, <1>7 DEF h, w, fmt, pt, ssrc

LEMMA XrAdded ==
  ASSUME NEW ssrc, NEW w, NEW items, NEW p, p = [ssrc |-> ssrc, blocks |-> <<>>],
         NEW sr, NEW rr, NEW sdes, NEW bye, NEW fb
  PROVE  DecodeOne(Compound(sr, rr, sdes, bye, fb, <<>>), HeaderOf(0, "XR", ssrc, w), w, items)
             = [ok |-> TRUE, c |-> Compound(sr, rr, sdes, bye, fb, <<p>>)]
<1> DEFINE h == HeaderOf(0, "XR", ssrc, w)
           c == Compound(sr, rr, sdes, bye, fb, <<>>)
<1>1. h.pt = "XR" /\ h.ssrc = ssrc
  BY HeaderFields
<1> HIDE DEF h
<1>2. DecodeOne(c, h, w, items) = [ok |-> TRUE, c |-> [c EXCEPT !.xr = <<p>>]]
  <2> HIDE DEF c
  <2> QED
    BY <1>1 DEF DecodeOne
<1>3. [c EXCEPT !.xr = <<p>>] = Compound(sr, rr, sdes, bye, fb, <<p>>)
  BY DEF Compound
<1> QED
  BY <1>2, <1>3 DEF h

(* Packets are read one behind the other. *)
Begins(words) == [ok |-> TRUE, c |-> EmptyCompound, rest |-> words]
GoesOn(d, items) == IF d.ok /\ Len(d.rest) >= 2 THEN DecodeNext(d, items) ELSE d
AreRead(g, words, items, n) == g = [k \in 0 .. n |-> IF k = 0 THEN Begins(words) ELSE GoesOn(g[k - 1], items)]

LEMMA ReadExists ==
  ASSUME NEW words, NEW items, NEW n \in Nat
  PROVE  \E g : AreRead(g, words, items, n)
<1> DEFINE T == {m \in Nat : ~\E g : AreRead(g, words, items, m)}
<1> SUFFICES ASSUME T # {} PROVE FALSE
  OBVIOUS
<1>1. PICK m \in T : \A k \in T : m <= k
  BY LeastNat
<1>2. m # 0
  <2>1. AreRead([k \in 0 .. 0 |-> Begins(words)], words, items, 0)
    BY DEF AreRead
  <2> QED
    BY <2>1, <1>1
<1>3. m \in Nat /\ m - 1 \in Nat /\ m - 1 \notin T
  BY <1>1, <1>2
<1>4. PICK g : AreRead(g, words, items, m - 1)
  BY <1>3
<1> DEFINE h == [k \in 0 .. m |-> IF k = m THEN GoesOn(g[m - 1], items) ELSE g[k]]
<1>5. \A k \in 0 .. m - 1 : g[k] = IF k = 0 THEN Begins(words) ELSE GoesOn(g[k - 1], items)
  BY <1>4, <1>3 DEF AreRead
<1>6. \A k \in 0 .. m : h[k] = IF k = 0 THEN Begins(words) ELSE GoesOn(h[k - 1], items)
  BY <1>3, <1>5, <1>2
<1>7. AreRead(h, words, items, m)
  BY <1>6 DEF AreRead
<1> QED
  BY <1>7, <1>1

(* After some packets c has been decoded and rest is left. *)
Left(c, rest) == [ok |-> TRUE, c |-> c, rest |-> rest]
Reached(g, words, c, rest) ==
    \E j \in 0 .. Len(words) : g[j] = Left(c, rest) /\ 2 * j + Len(rest) <= Len(words)

LEMMA ReadOn ==
  ASSUME NEW g, NEW words, NEW items, Len(words) \in Nat, AreRead(g, words, items, Len(words)),
         NEW count, NEW pt, NEW ssrc, NEW body, IsList(body), NEW rest, IsList(rest), NEW c, NEW e,
         Reached(g, words, c, FormPacket(count, pt, ssrc, body) \o rest),
         DecodeOne(c, HeaderOf(count, pt, ssrc, body), body, items) = [ok |-> TRUE, c |-> e]
  PROVE  Reached(g, words, e, rest)
<1> DEFINE all == FormPacket(count, pt, ssrc, body) \o rest
           d == Left(c, all)
           n == Len(words)
<1>1. PICK j \in 0 .. n : g[j] = d /\ 2 * j + Len(all) <= n
  BY DEF Reached
<1>2. d.rest = all /\ d.c = c /\ d.ok = TRUE
  BY DEF Left
<1> HIDE DEF d
<1>3. LET one == DecodeOne(d.c, HeaderOf(count, pt, ssrc, body), body, items)
      IN DecodeNext(d, items) = [ok |-> one.ok, c |-> one.c, rest |-> rest]
  BY <1>2, PacketRead
<1>4. DecodeNext(d, items) = Left(e, rest)
  BY <1>2, <1>3 DEF Left
<1>5. Len(all) = 2 + Len(body) + Len(rest) /\ Len(body) \in Nat /\ Len(rest) \in Nat
  <2> DEFINE w == FormPacket(count, pt, ssrc, body)
  <2>1. IsList(w) /\ Len(w) = 2 + Len(body)
    BY PacketIs
  <2> HIDE DEF w
  <2>2. Len(w \o rest) = Len(w) + Len(rest)
    BY <2>1, Joined
  <2> QED
    BY <2>1, <2>2, ListIs DEF w
<1> HIDE DEF all
<1>6. GoesOn(d, items) = Left(e, rest)
  BY <1>2, <1>4, <1>5 DEF GoesOn
<1> HIDE DEF n
<1>7. n \in Nat /\ j + 1 \in 0 .. n /\ j + 1 # 0 /\ j + 1 - 1 = j /\ 2 * (j + 1) + Len(rest) <= n
  <2>1. n \in Nat
    BY DEF n
  <2> QED
    BY <1>1, <1>5, <2>1
<1>8. g[j + 1] = GoesOn(g[j], items)
  <2>1. \A k \in 0 .. n : g[k] = IF k = 0 THEN Begins(words) ELSE GoesOn(g[k - 1], items)
    BY DEF AreRead, n
  <2>2. g[j + 1] = GoesOn(g[j + 1 - 1], items)
    BY <1>7, <2>1
  <2> QED
    BY <1>7, <2>2, Zenon
<1>9. g[j + 1] = Left(e, rest)
  BY <1>1, <1>6, <1>8
<1> QED
  BY <1>7, <1>9 DEF Reached, n

LEMMA ReadAll ==
  ASSUME NEW words, IsList(words), NEW items, NEW g, AreRead(g, words, items, Len(words)),
         NEW c, Reached(g, words, c, <<>>)
  PROVE  g[Len(words)] = Left(c, <<>>)
<1> DEFINE n == Len(words)
           d == Left(c, <<>>)
<1>1. n \in Nat
  BY ListIs
<1>2. PICK j \in 0 .. n : g[j] = d
  BY DEF Reached
<1>3. GoesOn(d, items) = d
  <2>1. d.rest = <<>> /\ ~(Len(<<>>) >= 2)
    BY Nil DEF Left
  <2> HIDE DEF d
  <2> QED
    BY <2>1 DEF GoesOn
<1>4. \A k \in 0 .. n : g[k] = IF k = 0 THEN Begins(words) ELSE GoesOn(g[k - 1], items)
  BY DEF AreRead
<1> HIDE DEF n, d
<1>5. \A k \in j .. n : g[k] = d
  <2> DEFINE T == {k \in j .. n : g[k] # d}
  <2> SUFFICES ASSUME T # {} PROVE FALSE
    OBVIOUS
  <2>1. T \in SUBSET Nat
    BY <1>1
  <2>2. PICK k \in T : \A i \in T : k <= i
    BY <2>1, LeastNat
  <2>3. k # j
    BY <1>2, <2>2
  <2>4. k \in 0 .. n /\ k # 0 /\ k - 1 \in j .. n /\ ~(k <= k - 1)
    BY <1>1, <2>2, <2>3
  <2>5. g[k - 1] = d
    BY <2>2, <2>4
  <2>6. g[k] = d
    BY <1>3, <1>4, <2>4, <2>5
  <2> QED
    BY <2>2, <2>6
<1> QED
  BY <1>1, <1>5 DEF n, d

(* One packet of a list of none or one. *)
LEMMA FlatNone == \A f : DOMAIN f = 1 .. 0 /\ f = [i \in DOMAIN f |-> f[i]] => FlattenSeq(f) = <<>>
<1> TAKE f
<1> HAVE DOMAIN f = 1 .. 0 /\ f = [i \in DOMAIN f |-> f[i]]
<1>1. IsList(f) /\ Len(f) = 0
  BY FunctionIsList
<1>2. f = <<>>
  BY <1>1, Nil, SameList
<1> QED
  BY <1>1, <1>2 DEF FlattenSeq

LEMMA FlatOne == \A f : DOMAIN f = 1 .. 1 /\ f = [i \in DOMAIN f |-> f[i]] => FlattenSeq(f) = f[1]
<1> TAKE f
<1> HAVE DOMAIN f = 1 .. 1 /\ f = [i \in DOMAIN f |-> f[i]]
<1>1. Len(f) = 1
  BY FunctionIsList
<1> DEFINE g == CHOOSE x : IsFlat(x, f, 1)
<1>2. IsFlat(g, f, 1)
  BY FlatExists
<1>3. FlattenSeq(f) = g[1]
  BY <1>1 DEF FlattenSeq, IsFlat
<1> HIDE DEF g
<1>4. g[1] = f[1]
  BY <1>2 DEF IsFlat
<1> QED
  BY <1>3, <1>4

(* The parts of a compound packet on the wire. *)
SrWords(sr) == FlattenSeq([i \in DOMAIN sr |-> FormSrPacket(sr[i])])
RrWords(rr) == FlattenSeq([i \in DOMAIN rr |-> FormRrPacket(rr[i])])
SdesWords(sdes) == IF sdes = <<>> THEN <<>> ELSE FormSdesPacket(sdes[1])
ByeWords(bye) == IF bye = <<>> THEN <<>> ELSE FormByePacket(bye[1])
FbWords(fb) == IF fb = <<>> THEN <<>> ELSE FormRtcpFbPacket(fb[1])
XrWords(xr) == IF xr = <<>> THEN <<>> ELSE FormRtcpXrPacket(xr[1])

(* Reports with their losses cut, and XR packets without their blocks. *)
CutAll(rs) == [i \in DOMAIN rs |-> CutReport(rs[i])]
Unread(xr) == [i \in DOMAIN xr |-> [xr[i] EXCEPT !.blocks = <<>>]]

(* What the session makes of each. *)
MadeSr(sr) == sr = <<>> \/ \E r : sr = <<r>> /\ IsSr(r)
MadeRr(rr) == rr = <<>> \/ \E r : rr = <<r>> /\ IsRr(r)
MadeSdes(sdes) == sdes = <<>> \/ (SdesItems > 0 /\ \E ssrc : sdes = <<[ssrc |-> ssrc, items |-> OwnItems(SdesItems)]>>)
MadeBye(bye) == bye = <<>> \/ \E ssrc : bye = <<[count |-> 1, ssrc |-> ssrc, list |-> <<>>]>>
MadeFb(fb) == fb = <<>> \/ \E f : fb = <<f>> /\ IsFeedback(f)
MadeXr(xr) == xr = <<>> \/ \E ssrc, b : xr = <<[ssrc |-> ssrc, blocks |-> <<b>>]>>

(* None or one of a list, each changed. *)
LEMMA EachNone ==
  ASSUME NEW f, DOMAIN f = DOMAIN <<>>, f = [i \in DOMAIN f |-> f[i]]
  PROVE  f = <<>>
<1>1. DOMAIN f = 1 .. 0
  BY EmptySeq
<1>2. IsList(f) /\ Len(f) = 0
  BY <1>1, FunctionIsList
<1> QED
  BY <1>2, Nil, SameList

LEMMA EachOne ==
  ASSUME NEW r, NEW f, DOMAIN f = DOMAIN <<r>>, f = [i \in DOMAIN f |-> f[i]]
  PROVE  f = <<f[1]>> /\ FlattenSeq(f) = f[1]
<1>1. DOMAIN f = 1 .. 1
  BY Short, ListIs
<1>2. IsList(f) /\ Len(f) = 1
  BY <1>1, FunctionIsList
<1> DEFINE e == f[1]
<1>3. IsList(<<e>>) /\ Len(<<e>>) = 1 /\ <<e>>[1] = e
  BY Short
<1>4. \A k \in 1 .. 1 : f[k] = <<e>>[k]
  <2>1. \A k \in 1 .. 1 : k = 1
    OBVIOUS
  <2> QED
    BY <1>3, <2>1
<1>5. f = <<e>>
  <2> HIDE DEF e
  <2> QED
    BY <1>2, <1>3, <1>4, SameList
<1> QED
  BY <1>1, <1>5, FlatOne

LEMMA CutAllIs ==
  /\ CutAll(<<>>) = <<>> /\ SrWords(<<>>) = <<>> /\ RrWords(<<>>) = <<>> /\ Unread(<<>>) = <<>>
  /\ \A r : CutAll(<<r>>) = <<CutReport(r)>> /\ SrWords(<<r>>) = FormSrPacket(r) /\ RrWords(<<r>>) = FormRrPacket(r)
  /\ \A r : Unread(<<r>>) = <<[r EXCEPT !.blocks = <<>>]>>
<1>1. CutAll(<<>>) = <<>> /\ Unread(<<>>) = <<>>
  BY EachNone DEF CutAll, Unread
<1>2. SrWords(<<>>) = <<>> /\ RrWords(<<>>) = <<>>
  <2> DEFINE f == [i \in DOMAIN <<>> |-> FormSrPacket(<<>>[i])]
             g == [i \in DOMAIN <<>> |-> FormRrPacket(<<>>[i])]
  <2>1. f = <<>> /\ g = <<>>
    BY EachNone
  <2>2. FlattenSeq(<<>>) = <<>>
    BY Nil DEF FlattenSeq
  <2> QED
    BY <2>1, <2>2 DEF SrWords, RrWords
<1>3. ASSUME NEW r
      PROVE  /\ CutAll(<<r>>) = <<CutReport(r)>> /\ Unread(<<r>>) = <<[r EXCEPT !.blocks = <<>>]>>
             /\ SrWords(<<r>>) = FormSrPacket(r) /\ RrWords(<<r>>) = FormRrPacket(r)
  <2> DEFINE q == <<r>>
             e == [r EXCEPT !.blocks = <<>>]
  <2>1. q[1] = r /\ 1 \in DOMAIN q
    BY Short, ListIs
  <2> DEFINE a == [i \in DOMAIN q |-> CutReport(q[i])]
             b == [i \in DOMAIN q |-> [q[i] EXCEPT !.blocks = <<>>]]
             f == [i \in DOMAIN q |-> FormSrPacket(q[i])]
             g == [i \in DOMAIN q |-> FormRrPacket(q[i])]
  <2>2. a[1] = CutReport(r) /\ b[1] = e /\ f[1] = FormSrPacket(r) /\ g[1] = FormRrPacket(r)
    <3> HIDE DEF q
    <3> QED
      BY <2>1
  <2>3. /\ DOMAIN a = DOMAIN q /\ a = [i \in DOMAIN a |-> a[i]]
        /\ DOMAIN b = DOMAIN q /\ b = [i \in DOMAIN b |-> b[i]]
        /\ DOMAIN f = DOMAIN q /\ f = [i \in DOMAIN f |-> f[i]]
        /\ DOMAIN g = DOMAIN q /\ g = [i \in DOMAIN g |-> g[i]]
    <3> HIDE DEF q
    <3> QED
      OBVIOUS
  <2>4. CutAll(<<r>>) = a /\ Unread(<<r>>) = b /\ SrWords(<<r>>) = FlattenSeq(f) /\ RrWords(<<r>>) = FlattenSeq(g)
    BY DEF CutAll, Unread, SrWords, RrWords
  <2> HIDE DEF a, b, f, g
  <2>5. a = <<a[1]>> /\ b = <<b[1]>> /\ FlattenSeq(f) = f[1] /\ FlattenSeq(g) = g[1]
    BY <2>3, EachOne
  <2> QED
    BY <2>2, <2>4, <2>5
<1> QED
  BY <1>1, <1>2, <1>3

(* Each part is read with what is behind it left. *)
Reading(g, words, items) == AreRead(g, words, items, Len(words)) /\ Len(words) \in Nat
Reads(g, words, c, part, e) ==
    /\ IsList(part)
    /\ \A rest : IsList(rest) /\ Reached(g, words, c, part \o rest) => Reached(g, words, e, rest)

LEMMA NoneReads == \A g, words, c : Reads(g, words, c, <<>>, c)
  BY Nil DEF Reads

LEMMA PacketReads ==
  ASSUME NEW g, NEW words, NEW items, Reading(g, words, items),
         NEW count, NEW pt, NEW ssrc, NEW body, IsList(body), NEW c, NEW e,
         DecodeOne(c, HeaderOf(count, pt, ssrc, body), body, items) = [ok |-> TRUE, c |-> e]
  PROVE  Reads(g, words, c, FormPacket(count, pt, ssrc, body), e)
<1>1. IsList(FormPacket(count, pt, ssrc, body))
  BY PacketIs
<1>2. ASSUME NEW rest, IsList(rest), Reached(g, words, c, FormPacket(count, pt, ssrc, body) \o rest)
      PROVE  Reached(g, words, e, rest)
  BY <1>2, ReadOn DEF Reading
<1> QED
  BY <1>1, <1>2 DEF Reads

LEMMA SrReads ==
  ASSUME NEW g, NEW words, Reading(g, words, SdesItems), NEW sr, MadeSr(sr)
  PROVE  Reads(g, words, EmptyCompound, SrWords(sr), Compound(CutAll(sr), <<>>, <<>>, <<>>, <<>>, <<>>))
<1>1. CASE sr = <<>>
  BY <1>1, NoneReads, CutAllIs DEF EmptyCompound, Compound
<1>2. ASSUME NEW r, sr = <<r>>, IsSr(r)
      PROVE  Reads(g, words, EmptyCompound, SrWords(sr), Compound(CutAll(sr), <<>>, <<>>, <<>>, <<>>, <<>>))
  <2> DEFINE w == r.info \o WordsOf(r.blocks)
  <2>1. SrWords(sr) = FormPacket(r.count, "SR", r.ssrc, w) /\ CutAll(sr) = <<CutReport(r)>>
    BY <1>2, CutAllIs DEF FormSrPacket, WordsOf
  <2>2. /\ IsList(w)
        /\ DecodeOne(EmptyCompound, HeaderOf(r.count, "SR", r.ssrc, w), w, SdesItems)
               = [ok |-> TRUE, c |-> Compound(<<CutReport(r)>>, <<>>, <<>>, <<>>, <<>>, <<>>)]
    BY <1>2, SrAdded
  <2> HIDE DEF w
  <2> QED
    BY <2>1, <2>2, PacketReads
<1> QED
  BY <1>1, <1>2 DEF MadeSr

LEMMA RrReads ==
  ASSUME NEW g, NEW words, Reading(g, words, SdesItems), NEW rr, MadeRr(rr), NEW sr
  PROVE  Reads(g, words, Compound(sr, <<>>, <<>>, <<>>, <<>>, <<>>), RrWords(rr),
               Compound(sr, CutAll(rr), <<>>, <<>>, <<>>, <<>>))
<1> DEFINE c == Compound(sr, <<>>, <<>>, <<>>, <<>>, <<>>)
<1>1. CASE rr = <<>>
  BY <1>1, NoneReads, CutAllIs
<1>2. ASSUME NEW r, rr = <<r>>, IsRr(r)
      PROVE  Reads(g, words, c, RrWords(rr), Compound(sr, CutAll(rr), <<>>, <<>>, <<>>, <<>>))
  <2> DEFINE w == WordsOf(r.blocks)
  <2>1. RrWords(rr) = FormPacket(r.count, "RR", r.ssrc, w) /\ CutAll(rr) = <<CutReport(r)>>
    BY <1>2, CutAllIs DEF FormRrPacket, WordsOf
  <2>2. /\ IsList(w)
        /\ DecodeOne(c, HeaderOf(r.count, "RR", r.ssrc, w), w, SdesItems)
               = [ok |-> TRUE, c |-> Compound(sr, <<CutReport(r)>>, <<>>, <<>>, <<>>, <<>>)]
    BY <1>2, RrAdded
  <2> HIDE DEF w, c
  <2> QED
    BY <2>1, <2>2, PacketReads
<1> QED
  BY <1>1, <1>2 DEF MadeRr

LEMMA SdesReads ==
  ASSUME NEW g, NEW words, Reading(g, words, SdesItems), NEW sdes, MadeSdes(sdes), NEW sr, NEW rr
  PROVE  Reads(g, words, Compound(sr, rr, <<>>, <<>>, <<>>, <<>>), SdesWords(sdes),
               Compound(sr, rr, sdes, <<>>, <<>>, <<>>))
<1> DEFINE c == Compound(sr, rr, <<>>, <<>>, <<>>, <<>>)
<1>1. CASE sdes = <<>>
  BY <1>1, NoneReads DEF SdesWords
<1>2. ASSUME SdesItems > 0, NEW ssrc, sdes = <<[ssrc |-> ssrc, items |-> OwnItems(SdesItems)]>>
      PROVE  Reads(g, words, c, SdesWords(sdes), Compound(sr, rr, sdes, <<>>, <<>>, <<>>))
  <2> DEFINE p == [ssrc |-> ssrc, items |-> OwnItems(SdesItems)]
             w == FormRtcpChunk(OwnItems(SdesItems))
  <2>1. SdesWords(sdes) = FormPacket(1, "SDES", ssrc, w)
    <3>1. p.ssrc = ssrc /\ p.items = OwnItems(SdesItems)
      OBVIOUS
    <3>2. sdes = <<p>>
      BY <1>2
    <3> HIDE DEF p
    <3>3. sdes # <<>> /\ sdes[1] = p
      BY <3>2, Short, Nil
    <3> QED
      BY <3>1, <3>3 DEF SdesWords, FormSdesPacket
  <2>2. /\ IsList(w)
        /\ DecodeOne(c, HeaderOf(1, "SDES", ssrc, w), w, SdesItems)
               = [ok |-> TRUE, c |-> Compound(sr, rr, sdes, <<>>, <<>>, <<>>)]
    BY <1>2, SessionAssumption, SdesAdded
  <2> HIDE DEF w, c
  <2> QED
    BY <2>1, <2>2, PacketReads
<1> QED
  BY <1>1, <1>2 DEF MadeSdes

LEMMA ByeReads ==
  ASSUME NEW g, NEW words, Reading(g, words, SdesItems), NEW bye, MadeBye(bye), NEW sr, NEW rr, NEW sdes
  PROVE  Reads(g, words, Compound(sr, rr, sdes, <<>>, <<>>, <<>>), ByeWords(bye),
               Compound(sr, rr, sdes, bye, <<>>, <<>>))
<1> DEFINE c == Compound(sr, rr, sdes, <<>>, <<>>, <<>>)
<1>1. CASE bye = <<>>
  BY <1>1, NoneReads DEF ByeWords
<1>2. ASSUME NEW ssrc, bye = <<[count |-> 1, ssrc |-> ssrc, list |-> <<>>]>>
      PROVE  Reads(g, words, c, ByeWords(bye), Compound(sr, rr, sdes, bye, <<>>, <<>>))
  <2> DEFINE p == [count |-> 1, ssrc |-> ssrc, list |-> <<>>]
  <2>1. ByeWords(bye) = FormPacket(1, "BYE", ssrc, <<>>)
    <3>1. p.count = 1 /\ p.ssrc = ssrc /\ p.list = <<>>
      OBVIOUS
    <3>2. bye = <<p>>
      BY <1>2
    <3> HIDE DEF p
    <3>3. bye # <<>> /\ bye[1] = p
      BY <3>2, Short, Nil
    <3> QED
      BY <3>1, <3>3 DEF ByeWords, FormByePacket
  <2>2. DecodeOne(c, HeaderOf(1, "BYE", ssrc, <<>>), <<>>, SdesItems)
            = [ok |-> TRUE, c |-> Compound(sr, rr, sdes, bye, <<>>, <<>>)]
    BY <1>2, ByeAdded
  <2> HIDE DEF c
  <2> QED
    BY <2>1, <2>2, Nil, PacketReads
<1> QED
  BY <1>1, <1>2 DEF MadeBye

LEMMA FbReads ==
  ASSUME NEW g, NEW words, Reading(g, words, SdesItems), NEW fb, MadeFb(fb), NEW sr, NEW rr, NEW sdes, NEW bye
  PROVE  Reads(g, words, Compound(sr, rr, sdes, bye, <<>>, <<>>), FbWords(fb),
               Compound(sr, rr, sdes, bye, fb, <<>>))
<1> DEFINE c == Compound(sr, rr, sdes, bye, <<>>, <<>>)
<1>1. CASE fb = <<>>
  BY <1>1, NoneReads DEF FbWords
<1>2. ASSUME NEW f, fb = <<f>>, IsFeedback(f)
      PROVE  Reads(g, words, c, FbWords(fb), Compound(sr, rr, sdes, bye, fb, <<>>))
  <2> DEFINE w == FbBody(f)
  <2>1. FbWords(fb) = FormPacket(f.fmt, f.pt, f.ssrc, w)
    <3>1. fb # <<>> /\ fb[1] = f
      BY <1>2, Short, Nil
    <3> QED
      BY <3>1 DEF FbWords, FormRtcpFbPacket, FbBody
  <2>2. /\ IsList(w)
        /\ DecodeOne(c, HeaderOf(f.fmt, f.pt, f.ssrc, w), w, SdesItems)
               = [ok |-> TRUE, c |-> Compound(sr, rr, sdes, bye, <<f>>, <<>>)]
    <3>1. IsFeedback(f)
      BY <1>2
    <3> QED
      BY <3>1, FbAdded
  <2> HIDE DEF w, c
  <2> QED
    BY <1>2, <2>1, <2>2, PacketReads
<1> QED
  BY <1>1, <1>2 DEF MadeFb

LEMMA XrReads ==
  ASSUME NEW g, NEW words, Reading(g, words, SdesItems), NEW xr, MadeXr(xr),
         NEW sr, NEW rr, NEW sdes, NEW bye, NEW fb
  PROVE  Reads(g, words, Compound(sr, rr, sdes, bye, fb, <<>>), XrWords(xr),
               Compound(sr, rr, sdes, bye, fb, Unread(xr)))
<1> DEFINE c == Compound(sr, rr, sdes, bye, fb, <<>>)
<1>1. CASE xr = <<>>
  BY <1>1, NoneReads, CutAllIs DEF XrWords
<1>2. ASSUME NEW ssrc, NEW b, xr = <<[ssrc |-> ssrc, blocks |-> <<b>>]>>
      PROVE  Reads(g, words, c, XrWords(xr), Compound(sr, rr, sdes, bye, fb, Unread(xr)))
  <2> DEFINE p == [ssrc |-> ssrc, blocks |-> <<b>>]
             u == [ssrc |-> ssrc, blocks |-> <<>>]
  <2>1. p.ssrc = ssrc /\ p.blocks = <<b>> /\ [p EXCEPT !.blocks = <<>>] = u
    OBVIOUS
  <2>2. xr = <<p>>
    BY <1>2
  <2> HIDE DEF p, u
  <2>3. Unread(xr) = <<u>>
    BY <2>1, <2>2, CutAllIs
  <2>4. XrWords(xr) = FormPacket(0, "XR", ssrc, <<b>>)
    <3>1. xr # <<>> /\ xr[1] = p
      BY <2>2, Short, Nil
    <3> QED
      BY <2>1, <3>1 DEF XrWords, FormRtcpXrPacket
  <2> DEFINE w == <<b>>
  <2>5. IsList(w)
    BY Short
  <2> HIDE DEF w
  <2>6. DecodeOne(c, HeaderOf(0, "XR", ssrc, w), w, SdesItems)
            = [ok |-> TRUE, c |-> Compound(sr, rr, sdes, bye, fb, <<u>>)]
    BY XrAdded DEF u
  <2>7. XrWords(xr) = FormPacket(0, "XR", ssrc, w)
    BY <2>4 DEF w
  <2> HIDE DEF c
  <2> QED
    BY <2>3, <2>5, <2>6, <2>7, PacketReads
<1> QED
  BY <1>1, <1>2 DEF MadeXr

(* A compound packet such as a session makes, and what is meant by it. *)
IsCompound(c) ==
    /\ c = Compound(c.sr, c.rr, c.sdes, c.bye, c.fb, c.xr)
    /\ MadeSr(c.sr) /\ MadeRr(c.rr) /\ MadeSdes(c.sdes) /\ MadeBye(c.bye) /\ MadeFb(c.fb) /\ MadeXr(c.xr)

LEMMA SentIs ==
  ASSUME NEW c, IsCompound(c)
  PROVE  Sent(c) = Compound(CutAll(c.sr), CutAll(c.rr), c.sdes, c.bye, c.fb, Unread(c.xr))
<1> DEFINE a == CutAll(c.sr)
           b == CutAll(c.rr)
           x == Unread(c.xr)
<1>1. Sent(c) = [c EXCEPT !.sr = a, !.rr = b, !.xr = x]
  BY DEF Sent, CutAll, CutReport, Cut, Unread
<1>2. PICK sr, rr, sdes, bye, fb, xr : c = Compound(sr, rr, sdes, bye, fb, xr)
  BY DEF IsCompound
<1>3. c.sdes = sdes /\ c.bye = bye /\ c.fb = fb
  BY <1>2 DEF Compound
<1> HIDE DEF a, b, x
<1>4. [c EXCEPT !.sr = a, !.rr = b, !.xr = x] = Compound(a, b, sdes, bye, fb, x)
  <2>1. [c EXCEPT !.sr = a, !.rr = b, !.xr = x] = [[[c EXCEPT !.sr = a] EXCEPT !.rr = b] EXCEPT !.xr = x]
    OBVIOUS
  <2>2. [c EXCEPT !.sr = a] = Compound(a, rr, sdes, bye, fb, xr)
    BY <1>2 DEF Compound
  <2>3. [Compound(a, rr, sdes, bye, fb, xr) EXCEPT !.rr = b] = Compound(a, b, sdes, bye, fb, xr)
    BY DEF Compound
  <2>4. [Compound(a, b, sdes, bye, fb, xr) EXCEPT !.xr = x] = Compound(a, b, sdes, bye, fb, x)
    BY DEF Compound
  <2> QED
    BY <2>1, <2>2, <2>3, <2>4, Zenon
<1> QED
  BY <1>1, <1>3, <1>4 DEF a, b, x

(* What is formed of a compound packet is read back, one part after the other. *)
LEMMA CompoundRead ==
  ASSUME NEW c, IsCompound(c), CanForm(c)
  PROVE  DecodeRtcpPacket(FormRtcpPacket(c), SdesItems) = [ok |-> TRUE, c |-> Sent(c)]
<1> DEFINE words == FormRtcpPacket(c)
           n == Len(words)
           g == CHOOSE x : AreRead(x, words, SdesItems, n)
           p1 == SrWords(c.sr)
           p2 == RrWords(c.rr)
           p3 == SdesWords(c.sdes)
           p4 == ByeWords(c.bye)
           p5 == FbWords(c.fb)
           p6 == XrWords(c.xr)
           s == CutAll(c.sr)
           r == CutAll(c.rr)
           e == Compound(s, r, c.sdes, c.bye, c.fb, Unread(c.xr))
<1>1. words = ((((p1 \o p2) \o p3) \o p4) \o p5) \o p6
  BY DEF FormRtcpPacket, SrWords, RrWords, SdesWords, ByeWords, FbWords, XrWords
<1> HIDE DEF words
<1> DEFINE c0 == EmptyCompound
           c1 == Compound(s, <<>>, <<>>, <<>>, <<>>, <<>>)
           c2 == Compound(s, r, <<>>, <<>>, <<>>, <<>>)
           c3 == Compound(s, r, c.sdes, <<>>, <<>>, <<>>)
           c4 == Compound(s, r, c.sdes, c.bye, <<>>, <<>>)
           c5 == Compound(s, r, c.sdes, c.bye, c.fb, <<>>)
<1>2. \A h, ws : Reading(h, ws, SdesItems) =>
          /\ Reads(h, ws, c0, p1, c1) /\ Reads(h, ws, c1, p2, c2) /\ Reads(h, ws, c2, p3, c3)
          /\ Reads(h, ws, c3, p4, c4) /\ Reads(h, ws, c4, p5, c5) /\ Reads(h, ws, c5, p6, e)
  <2> TAKE h, ws
  <2> HAVE Reading(h, ws, SdesItems)
  <2>1. MadeSr(c.sr) /\ MadeRr(c.rr) /\ MadeSdes(c.sdes) /\ MadeBye(c.bye) /\ MadeFb(c.fb) /\ MadeXr(c.xr)
    BY DEF IsCompound
  <2>2. Reads(h, ws, c0, p1, c1)
    BY <2>1, SrReads
  <2> HIDE DEF s
  <2>3. Reads(h, ws, c1, p2, c2)
    BY <2>1, RrReads
  <2> HIDE DEF r
  <2>4. Reads(h, ws, c2, p3, c3)
    BY <2>1, SdesReads
  <2>5. Reads(h, ws, c3, p4, c4)
    BY <2>1, ByeReads
  <2>6. Reads(h, ws, c4, p5, c5)
    BY <2>1, FbReads
  <2>7. Reads(h, ws, c5, p6, e)
    BY <2>1, XrReads
  <2> QED
    BY <2>2, <2>3, <2>4, <2>5, <2>6, <2>7
<1> HIDE DEF p1, p2, p3, p4, p5, p6, c0, c1, c2, c3, c4, c5, e
<1>3. IsList(p1) /\ IsList(p2) /\ IsList(p3) /\ IsList(p4) /\ IsList(p5) /\ IsList(p6)
  <2>1. \E h : Reading(h, <<>>, SdesItems)
    <3>1. Len(<<>>) \in Nat
      BY Nil
    <3> QED
      BY <3>1, ReadExists DEF Reading
  <2> QED
    BY <1>2, <2>1 DEF Reads
<1> DEFINE t5 == p6
           t4 == p5 \o t5
           t3 == p4 \o t4
           t2 == p3 \o t3
           t1 == p2 \o t2
<1>4. /\ IsList(t5) /\ IsList(t4) /\ IsList(t3) /\ IsList(t2) /\ IsList(t1)
      /\ IsList(words) /\ words = p1 \o t1
  <2>1. IsList(t5)
    BY <1>3
  <2> HIDE DEF t5
  <2>2. IsList(t4)
    BY <1>3, <2>1, Joined
  <2> HIDE DEF t4
  <2>3. IsList(t3)
    BY <1>3, <2>2, Joined
  <2> HIDE DEF t3
  <2>4. IsList(t2)
    BY <1>3, <2>3, Joined
  <2> HIDE DEF t2
  <2>5. IsList(t1)
    BY <1>3, <2>4, Joined
  <2> HIDE DEF t1
  <2> DEFINE q2 == p1 \o p2
             q3 == q2 \o p3
             q4 == q3 \o p4
             q5 == q4 \o p5
  <2>6. IsList(q2)
    BY <1>3, Joined
  <2>7. q2 \o t2 = p1 \o t1
    <3>1. IsList(p1) /\ IsList(p2) /\ IsList(t2)
      BY <1>3, <2>4
    <3>2. (p1 \o p2) \o t2 = p1 \o (p2 \o t2)
      BY <3>1, Associated
    <3> QED
      BY <3>2 DEF t1
  <2> HIDE DEF q2
  <2>8. IsList(q3)
    BY <1>3, <2>6, Joined
  <2>9. q3 \o t3 = q2 \o t2
    <3>1. IsList(p3) /\ IsList(q2) /\ IsList(t3)
      BY <1>3, <2>3, <2>6
    <3>2. (q2 \o p3) \o t3 = q2 \o (p3 \o t3)
      BY <3>1, Associated
    <3> QED
      BY <3>2 DEF t2
  <2> HIDE DEF q3
  <2>10. IsList(q4)
    BY <1>3, <2>8, Joined
  <2>11. q4 \o t4 = q3 \o t3
    <3>1. IsList(p4) /\ IsList(q3) /\ IsList(t4)
      BY <1>3, <2>2, <2>8
    <3>2. (q3 \o p4) \o t4 = q3 \o (p4 \o t4)
      BY <3>1, Associated
    <3> QED
      BY <3>2 DEF t3
  <2> HIDE DEF q4
  <2>12. IsList(q5)
    BY <1>3, <2>10, Joined
  <2>13. q5 \o t5 = q4 \o t4
    <3>1. IsList(p5) /\ IsList(q4) /\ IsList(t5)
      BY <1>3, <2>1, <2>10
    <3>2. (q4 \o p5) \o t5 = q4 \o (p5 \o t5)
      BY <3>1, Associated
    <3> QED
      BY <3>2 DEF t4
  <2> HIDE DEF q5
  <2>14. words = q5 \o t5
    BY <1>1 DEF q2, q3, q4, q5, t5
  <2>15. IsList(q5 \o t5)
    BY <2>1, <2>12, Joined
  <2> QED
    BY <2>1, <2>2, <2>3, <2>4, <2>5, <2>7, <2>9, <2>11, <2>13, <2>14, <2>15, Zenon
<1>5. n \in Nat
  BY <1>4, ListIs
<1>6. Reading(g, words, SdesItems)
  <2>1. AreRead(g, words, SdesItems, n)
    BY <1>5, ReadExists
  <2> HIDE DEF g
  <2> QED
    BY <1>5, <2>1 DEF Reading
<1>7. DecodeFrom(words, SdesItems) = g[n]
  BY DEF DecodeFrom, AreRead, Begins, GoesOn
<1> HIDE DEF g, n
<1>8. Reached(g, words, c0, words)
  <2>1. g[0] = Begins(words)
    BY <1>5, <1>6 DEF Reading, AreRead, n
  <2>2. g[0] = Left(c0, words)
    BY <2>1 DEF Begins, Left, c0
  <2>3. 0 \in 0 .. Len(words) /\ 2 * 0 + Len(words) <= Len(words)
    BY <1>5 DEF n
  <2> QED
    BY <2>2, <2>3 DEF Reached
<1>9. Reached(g, words, e, <<>>)
  <2> HIDE DEF t1, t2, t3, t4, t5
  <2>1. Reached(g, words, c1, t1)
    BY <1>2, <1>4, <1>6, <1>8 DEF Reads
  <2>2. Reached(g, words, c2, t2)
    BY <1>2, <1>4, <1>6, <2>1 DEF Reads, t1
  <2>3. Reached(g, words, c3, t3)
    BY <1>2, <1>4, <1>6, <2>2 DEF Reads, t2
  <2>4. Reached(g, words, c4, t4)
    BY <1>2, <1>4, <1>6, <2>3 DEF Reads, t3
  <2>5. Reached(g, words, c5, t5)
    BY <1>2, <1>4, <1>6, <2>4 DEF Reads, t4
  <2>6. t5 = p6 \o <<>> /\ IsList(<<>>)
    BY <1>3, Nil DEF t5
  <2>7. Reads(g, words, c5, p6, e)
    BY <1>2, <1>6
  <2> QED
    BY <2>5, <2>6, <2>7 DEF Reads
<1>10. DecodeFrom(words, SdesItems) = Left(e, <<>>)
  <2>1. AreRead(g, words, SdesItems, Len(words))
    BY <1>6 DEF Reading
  <2> QED
    BY <1>4, <1>7, <1>9, <2>1, ReadAll DEF n
<1>11. e # EmptyCompound
  <2>1. c.sr # <<>> \/ c.rr # <<>> \/ c.bye # <<>>
    BY DEF CanForm
  <2>2. ASSUME NEW q, q # <<>>, MadeSr(q) \/ MadeRr(q) PROVE CutAll(q) # <<>>
    <3>1. PICK x : q = <<x>>
      BY <2>2 DEF MadeSr, MadeRr
    <3>2. CutAll(q) = <<CutReport(x)>>
      BY <3>1, CutAllIs
    <3> QED
      BY <3>2, Short, Nil
  <2>3. s # <<>> \/ r # <<>> \/ c.bye # <<>>
    BY <2>1, <2>2 DEF IsCompound
  <2>4. e.sr = s /\ e.rr = r /\ e.bye = c.bye
    BY DEF e, Compound
  <2> QED
    BY <2>3, <2>4 DEF EmptyCompound
<1>12. Sent(c) = e
  BY SentIs DEF e
<1> DEFINE d == DecodeFrom(words, SdesItems)
<1>13. d.ok = TRUE /\ d.c = e
  BY <1>10 DEF Left
<1> HIDE DEF d
<1>14. DecodeRtcpPacket(words, SdesItems) = [ok |-> TRUE, c |-> e]
  BY <1>11, <1>13 DEF DecodeRtcpPacket, d
<1> QED
  BY <1>12, <1>14 DEF words

(* What a session makes is such a compound packet. *)
LEMMA BlocksMade ==
  ASSUME Roster(members), NEW n, n = getSenderCount
  PROVE  Blocks(populateReportPacket(members, n).blocks)
<1> DEFINE S == SendersIn(members)
           reported == Chosen(members, S)
           q == [i \in DOMAIN reported |-> PopulateReportBlock(reported[i])]
<1>1. populateReportPacket(members, n).blocks = q
  <2>1. Reporting(members, n) = S
    BY AllReporting
  <2> QED
    BY <2>1 DEF populateReportPacket
<1>2. IsList(reported)
  <2>1. Lineup(members) /\ IsList(members) /\ Apart(members, DOMAIN members)
    BY DEF Roster, Lineup
  <2>2. S \in SUBSET DOMAIN members
    BY DEF SendersIn
  <2> HIDE DEF S
  <2>3. Picks(reported, members, S)
    BY <2>1, <2>2, ChosenPicks
  <2> QED
    BY <2>3 DEF Picks
<1> HIDE DEF reported
<1>3. Len(reported) \in Nat /\ DOMAIN reported = 1 .. Len(reported)
  BY <1>2, ListIs
<1>4. IsList(q)
  BY <1>3, FunctionIsList
<1>5. ASSUME NEW i \in DOMAIN q PROVE IsBlock(q[i])
  BY DEF PopulateReportBlock, IsBlock
<1> QED
  BY <1>1, <1>4, <1>5 DEF Blocks

LEMMA CompoundMade ==
  ASSUME RtpTypeOK, Observed(members, told, session.m_bFirstRtpRecvd),
         NEW kind, NEW leaving, NEW feedback, rtpMakeCompoundRtcpPacket(kind, leaving, feedback), MadeFb(feedback)
  PROVE  IsCompound(held'.c) /\ out' = Nothing
<1> DEFINE isSR == session.m_bRtpSendPkt \/ session.m_bSelfCollisionByeSent \/ leaving
           says == session.m_bSelfCollisionByeSent \/ leaving
           n == getSenderCount
           f == formReportList(n)
           r == populateReportPacket(members, n)
           report == [count |-> n, ssrc |-> session.m_uiSsrc, blocks |-> r.blocks]
           sent == [count |-> n, ssrc |-> session.m_uiSsrc, info |-> SenderInfo, blocks |-> r.blocks]
           srs == [i \in DOMAIN f.list |-> [count |-> f.list[i].count, ssrc |-> f.list[i].ssrc, info |-> SenderInfo,
                                            blocks |-> f.list[i].blocks]]
           list == IF isSR THEN srs ELSE f.list
           a == IF isSR THEN formSrList(ReportCount(TRUE)) ELSE formRrList(ReportCount(FALSE))
           sr == IF isSR THEN list ELSE <<>>
           rr == IF isSR THEN <<>> ELSE list
           bye == IF says THEN <<populateByePacket>> ELSE <<>>
           sdes == IF ~says /\ SdesItems > 0 THEN <<constructSdesPkt>> ELSE <<>>
           xr == IF session.m_bisXr THEN <<populateRtcpXrPacket>> ELSE <<>>
<1>1. Roster(members)
  BY DEF Observed
<1>2. n \in Nat /\ n <= RTP_MAX_RECEP_REP_CNT
  <2>1. n \in Nat /\ n <= Cardinality(PeerSsrcs) /\ Cardinality(PeerSsrcs) \in Nat
    BY <1>1, SendersFit
  <2>2. Cardinality(PeerSsrcs) <= RTP_MAX_RECEP_REP_CNT
    BY SessionAssumption
  <2> QED
    BY <2>1, <2>2 DEF RTP_MAX_RECEP_REP_CNT
<1>3. f.list = <<report>>
  BY <1>2, FormedIs
<1>4. ReportCount(TRUE) = n /\ ReportCount(FALSE) = n
  BY <1>1, CountIs
<1>5. Blocks(r.blocks)
  BY <1>1, BlocksMade
<1>6. a.list = list
  <2>1. formRrList(n) = f /\ formSrList(n).list = srs
    BY DEF formSrList, formRrList
  <2> QED
    BY <1>4, <2>1
<1>7. /\ out' = Nothing
      /\ held'.c = [sr |-> IF isSR THEN a.list ELSE <<>>, rr |-> IF isSR THEN <<>> ELSE a.list,
                    bye |-> bye, sdes |-> sdes, fb |-> feedback, xr |-> xr]
  <2> HIDE DEF n, f, r, report, srs, list, sent
  <2> QED
    BY DEF rtpMakeCompoundRtcpPacket
<1> HIDE DEF a
<1>8. held'.c = Compound(sr, rr, sdes, bye, feedback, xr)
  <2> HIDE DEF list, isSR, bye, sdes, xr
  <2> QED
    BY <1>6, <1>7 DEF Compound
<1>9. srs = <<sent>>
  <2> HIDE DEF f, r
  <2>1. DOMAIN f.list = 1 .. 1 /\ f.list[1] = report
    BY <1>3
  <2>2. report.count = n /\ report.ssrc = session.m_uiSsrc /\ report.blocks = r.blocks
    BY DEF report
  <2> HIDE DEF report, n
  <2>3. srs = [i \in 1 .. 1 |-> sent]
    BY <2>1, <2>2
  <2> QED
    BY <2>3
<1> HIDE DEF f, srs
<1>10. MadeSr(sr) /\ MadeRr(rr)
  <2>1. IsRr(report)
    BY <1>5 DEF IsRr
  <2>2. IsSr(sent)
    <3>1. IsList(SenderInfo) /\ Len(SenderInfo) = 5
      <4> DEFINE d == IF session.sent THEN 1 ELSE 0
      <4>1. SenderInfo = <<0, 0, 0, d, 0>>
        BY DEF SenderInfo
      <4> HIDE DEF d
      <4>2. <<0, 0, 0, d, 0>> \in Seq({0, d}) /\ Len(<<0, 0, 0, d, 0>>) = 5
        OBVIOUS
      <4>3. SenderInfo \in Seq({0, d})
        BY <4>1, <4>2, Zenon
      <4> QED
        BY <4>1, <4>2, <4>3, InList
    <3> HIDE DEF r, n
    <3> QED
      BY <1>5, <3>1 DEF IsSr
  <2> HIDE DEF report, sent, isSR
  <2>3. CASE isSR
    BY <1>9, <2>2, <2>3 DEF MadeSr, MadeRr
  <2>4. CASE ~isSR
    BY <1>3, <2>1, <2>4 DEF MadeSr, MadeRr
  <2> QED
    BY <2>3, <2>4
<1>11. MadeBye(bye)
  BY DEF MadeBye, populateByePacket
<1>12. MadeSdes(sdes)
  <2>1. constructSdesPkt = [ssrc |-> session.m_uiSsrc, items |-> OwnItems(SdesItems)]
    BY DEF constructSdesPkt, OwnItems, OwnItem
  <2> QED
    BY <2>1 DEF MadeSdes
<1>13. MadeXr(xr)
  <2>1. CASE ~session.m_bisXr
    BY <2>1 DEF MadeXr
  <2>2. CASE session.m_bisXr
    <3> DEFINE b == IF session.xr THEN 1 ELSE 0
    <3>1. populateRtcpXrPacket = [ssrc |-> session.m_uiSsrc, blocks |-> <<b>>]
      BY DEF populateRtcpXrPacket
    <3> HIDE DEF b
    <3> QED
      BY <2>2, <3>1 DEF MadeXr
  <2> QED
    BY <2>1, <2>2
<1> HIDE DEF sr, rr, bye, sdes, xr
<1>14. /\ held'.c.sr = sr /\ held'.c.rr = rr /\ held'.c.sdes = sdes /\ held'.c.bye = bye
       /\ held'.c.fb = feedback /\ held'.c.xr = xr
  BY <1>8 DEF Compound
<1> QED
  BY <1>7, <1>8, <1>10, <1>11, <1>12, <1>13, <1>14 DEF IsCompound

(***************************************************************************)
(* The session.                                                            *)
(***************************************************************************)
LEMMA NewSsrc == RtpTypeOK => generateNewSsrc \in LocalSsrcs
<1> SUFFICES ASSUME RtpTypeOK PROVE generateNewSsrc \in LocalSsrcs
  OBVIOUS
<1>1. session.m_uiSsrc \in LocalSsrcs
  BY DEF RtpTypeOK
<1>2. \E x \in LocalSsrcs : x # session.m_uiSsrc
  BY <1>1, SessionAssumption
<1> QED
  BY <1>2 DEF generateNewSsrc

LEMMA Increments == \A n \in Nat : (n + 1) % RTP_SEQ_MOD \in 0 .. RTP_SEQ_MOD - 1
<1> TAKE n \in Nat
<1>1. n + 1 \in Int
  OBVIOUS
<1> QED
  BY <1>1, Divided

(* Whatever a step does to the session besides, it counts up to the bound. *)
LEMMA StepIs == RtpTypeOK /\ Step => steps' \in 0 .. MaxSteps
  BY SessionAssumption DEF RtpTypeOK, Step

LEMMA ReportTyped ==
  ASSUME RtpTypeOK, NEW kind, NEW leaving \in BOOLEAN, NEW feedback, rtpMakeCompoundRtcpPacket(kind, leaving, feedback),
         colliding' = colliding, steps' \in 0 .. MaxSteps
  PROVE  RtpTypeOK'
<1>1. session' = [session EXCEPT !.m_bisXr = FALSE, !.m_bSndRtcpByePkt = leaving] /\ app' = app
  BY DEF rtpMakeCompoundRtcpPacket
<1> QED
  BY <1>1 DEF RtpTypeOK

(* The application's part of the session after RTCP is started or stopped. *)
LEMMA RtcpTurned ==
  ASSUME NEW A, NEW B, NEW C, NEW D,
         NEW r \in [rtpStarted : A, rtcpStarted : B, mEnableRtcpTx : C, mPeerRtpSsrc : D], NEW b \in B, NEW c \in C
  PROVE  [r EXCEPT !.rtcpStarted = b, !.mEnableRtcpTx = c]
             \in [rtpStarted : A, rtcpStarted : B, mEnableRtcpTx : C, mPeerRtpSsrc : D]
  OBVIOUS

LEMMA RtpTypeStep == RtpTypeOK /\ [RtpNext]_rtpVars => RtpTypeOK'
<1> SUFFICES ASSUME RtpTypeOK, [RtpNext]_rtpVars PROVE RtpTypeOK'
  OBVIOUS
<1>1. ASSUME NEW context \in {Nothing, RTP_SEQ_MOD - 2}, StartRtp(context) PROVE RtpTypeOK'
  <2> DEFINE next == IF context = Nothing THEN session.m_usSeqNum ELSE (context + 1) % RTP_SEQ_MOD
  <2>1. next \in 0 .. RTP_SEQ_MOD - 1
    <3>1. CASE context = Nothing
      BY <3>1 DEF RtpTypeOK
    <3>2. CASE context # Nothing
      <4>1. context \in Nat
        BY <1>1, <3>2, Bounds
      <4> QED
        BY <3>2, <4>1, Increments
    <3> QED
      BY <3>1, <3>2
  <2>2. session' = [session EXCEPT !.m_bEnableRTP = TRUE, !.m_usSeqNum = next]
    BY <1>1 DEF StartRtp, RtpTypeOK
  <2> HIDE DEF next
  <2>3. steps' \in 0 .. MaxSteps
    BY <1>1, StepIs DEF StartRtp
  <2>4. app.rtpStarted + 1 \in 0 .. 2
    BY <1>1 DEF StartRtp, RtpTypeOK
  <2>5. app' = [app EXCEPT !.rtpStarted = app.rtpStarted + 1] /\ colliding' = colliding
    BY <1>1 DEF StartRtp, RtpTypeOK
  <2> QED
    BY <2>1, <2>2, <2>3, <2>4, <2>5 DEF RtpTypeOK
<1>2. CASE StopRtp
  <2> DEFINE on == app.rtpStarted > 1
  <2> on \in BOOLEAN
    OBVIOUS
  <2>1. steps' \in 0 .. MaxSteps
    BY <1>2, StepIs DEF StopRtp
  <2>2. app.rtpStarted - 1 \in 0 .. 2
    BY <1>2 DEF StopRtp, RtpTypeOK
  <2>3. /\ app' = [app EXCEPT !.rtpStarted = app.rtpStarted - 1] /\ colliding' = colliding
        /\ session' = [session EXCEPT !.m_bEnableRTP = on]
    BY <1>2 DEF StopRtp, RtpTypeOK
  <2> HIDE DEF on
  <2> QED
    BY <2>1, <2>2, <2>3 DEF RtpTypeOK
<1>3. ASSUME NEW bye \in BOOLEAN, StartRtcp(bye) PROVE RtpTypeOK'
  <2>1. steps' \in 0 .. MaxSteps
    BY <1>3, StepIs DEF StartRtcp
  <2>2. /\ app' = [app EXCEPT !.rtcpStarted = 1, !.mEnableRtcpTx = TRUE] /\ colliding' = colliding
        /\ session' = [session EXCEPT !.m_bEnableRTCP = TRUE, !.m_bEnableRTCPBye = bye]
    BY <1>3 DEF StartRtcp
  <2>3. app' \in [rtpStarted : 0 .. 2, rtcpStarted : 0 .. 1, mEnableRtcpTx : BOOLEAN, mPeerRtpSsrc : PeerSsrcs \cup {0}]
    <3>1. app \in [rtpStarted : 0 .. 2, rtcpStarted : 0 .. 1, mEnableRtcpTx : BOOLEAN, mPeerRtpSsrc : PeerSsrcs \cup {0}]
      BY DEF RtpTypeOK
    <3>2. 1 \in 0 .. 1 /\ TRUE \in BOOLEAN
      OBVIOUS
    <3> QED
      BY <2>2, <3>1, <3>2, RtcpTurned, Zenon
  <2> QED
    BY <2>1, <2>2, <2>3 DEF RtpTypeOK
<1>4. CASE StopRtcp
  <2>1. steps' \in 0 .. MaxSteps
    BY <1>4, StepIs DEF StopRtcp
  <2>2. /\ app' = [app EXCEPT !.rtcpStarted = 0, !.mEnableRtcpTx = FALSE] /\ colliding' = colliding
        /\ session' = [session EXCEPT !.m_bEnableRTCP = FALSE, !.m_bEnableRTCPBye = FALSE]
    BY <1>4 DEF StopRtcp
  <2>3. app' \in [rtpStarted : 0 .. 2, rtcpStarted : 0 .. 1, mEnableRtcpTx : BOOLEAN, mPeerRtpSsrc : PeerSsrcs \cup {0}]
    <3>1. app \in [rtpStarted : 0 .. 2, rtcpStarted : 0 .. 1, mEnableRtcpTx : BOOLEAN, mPeerRtpSsrc : PeerSsrcs \cup {0}]
      BY DEF RtpTypeOK
    <3>2. 0 \in 0 .. 1 /\ FALSE \in BOOLEAN
      OBVIOUS
    <3> QED
      BY <2>2, <3>1, <3>2, RtcpTurned, Zenon
  <2> QED
    BY <2>1, <2>2, <2>3 DEF RtpTypeOK
<1>5. CASE SendRtp
  <2> DEFINE next == IF session.sent THEN (session.m_usSeqNum + 1) % RTP_SEQ_MOD ELSE session.m_usSeqNum
  <2>1. next \in 0 .. RTP_SEQ_MOD - 1
    <3>1. session.m_usSeqNum \in 0 .. RTP_SEQ_MOD - 1
      BY DEF RtpTypeOK
    <3>2. session.m_usSeqNum \in Nat
      BY <3>1, Bounds
    <3> QED
      BY <3>1, <3>2, Increments
  <2>2. session' = [session EXCEPT !.m_usSeqNum = next, !.sent = TRUE, !.m_bRtpSendPkt = TRUE]
    BY <1>5 DEF SendRtp, createRtpPacket, RtpTypeOK
  <2> HIDE DEF next
  <2>3. steps' \in 0 .. MaxSteps
    BY <1>5, StepIs DEF SendRtp
  <2> QED
    BY <1>5, <2>1, <2>2, <2>3 DEF SendRtp, RtpTypeOK
<1>6. ASSUME NEW ssrc \in PeerSsrcs, NEW csrcs \in CsrcLists, RecvOwn(ssrc, csrcs) PROVE RtpTypeOK'
  <2>1. steps' \in 0 .. MaxSteps /\ generateNewSsrc \in LocalSsrcs
    BY <1>6, StepIs, NewSsrc DEF RecvOwn
  <2>2. /\ colliding' = TRUE /\ app' = app
        /\ \/ session' = [session EXCEPT !.m_bSelfCollisionByeSent = TRUE]
           \/ session' = [session EXCEPT !.m_uiSsrc = generateNewSsrc]
    BY <1>6 DEF RecvOwn
  <2> QED
    BY <2>1, <2>2 DEF RtpTypeOK
<1>7. ASSUME NEW ssrc \in PeerSsrcs, NEW idx \in Idx, NEW csrcs \in CsrcLists, RecvRtp(ssrc, idx, csrcs)
      PROVE  RtpTypeOK'
  <2>1. steps' \in 0 .. MaxSteps /\ colliding' = colliding
    BY <1>7, StepIs DEF RecvRtp
  <2>2. CASE checkSsrcCollisionOnRcv(ssrc, Port) = "collision"
    <3>1. session' = session /\ app' = app
      BY <1>7, <2>2 DEF RecvRtp
    <3> QED
      BY <2>1, <3>1 DEF RtpTypeOK
  <2>3. CASE checkSsrcCollisionOnRcv(ssrc, Port) # "collision"
    <3>1. session' = [session EXCEPT !.m_bFirstRtpRecvd = TRUE]
      BY <1>7, <2>3 DEF RecvRtp
    <3>2. app' = app \/ app' = [app EXCEPT !.mPeerRtpSsrc = ssrc]
      <4>1. PICK ok : OnPeerInd(ssrc, ok)
        BY <1>7, <2>3 DEF RecvRtp
      <4> QED
        BY <4>1 DEF OnPeerInd, RtpTypeOK
    <3> QED
      BY <2>1, <3>1, <3>2 DEF RtpTypeOK
  <2> QED
    BY <2>2, <2>3
<1>8. CASE RecvUnknownPayload
  BY <1>8, StepIs DEF RecvUnknownPayload, RtpTypeOK
<1>9. ASSUME NEW words, RecvRtcp(words) PROVE RtpTypeOK'
  BY <1>9, StepIs DEF RecvRtcp, RtpTypeOK
<1>10. CASE MakeReport
  <2>1. session.m_bSndRtcpByePkt \in BOOLEAN
    BY DEF RtpTypeOK
  <2> QED
    BY <1>10, <2>1, StepIs, ReportTyped DEF MakeReport
<1>11. ASSUME NEW f \in Feedbacks, MakeFeedback(f) PROVE RtpTypeOK'
  <2>1. session.m_bSndRtcpByePkt \in BOOLEAN
    BY DEF RtpTypeOK
  <2> QED
    BY <1>11, <2>1, StepIs, ReportTyped DEF MakeFeedback
<1>12. CASE SendRtcpByePacket
  <2>1. steps' \in 0 .. MaxSteps /\ colliding' = colliding /\ rtpMakeCompoundRtcpPacket("bye", TRUE, <<>>)
    BY <1>12 DEF SendRtcpByePacket, RtpTypeOK
  <2>2. TRUE \in BOOLEAN
    OBVIOUS
  <2> QED
    BY <2>1, <2>2, ReportTyped, Zenon
<1>13. CASE NoByeToSend
  <2> DEFINE S == [m_uiSsrc : LocalSsrcs, m_usSeqNum : 0 .. RTP_SEQ_MOD - 1, sent : BOOLEAN,
               m_bEnableRTP : BOOLEAN, m_bEnableRTCP : BOOLEAN, m_bEnableRTCPBye : BOOLEAN,
               m_bFirstRtpRecvd : BOOLEAN, m_bRtpSendPkt : BOOLEAN, m_bSelfCollisionByeSent : BOOLEAN,
               m_bSndRtcpByePkt : BOOLEAN, m_bisXr : BOOLEAN, xr : BOOLEAN]
             A == [rtpStarted : 0 .. 2, rtcpStarted : 0 .. 1, mEnableRtcpTx : BOOLEAN,
                   mPeerRtpSsrc : PeerSsrcs \cup {0}]
  <2>1. session' = session /\ app' = app /\ steps' = steps /\ colliding' = FALSE
    BY <1>13, Zenon DEF NoByeToSend
  <2>2. session \in S /\ app \in A /\ steps \in 0 .. MaxSteps
    BY Zenon DEF RtpTypeOK
  <2> HIDE DEF S, A
  <2>3. session' \in S /\ app' \in A /\ steps' \in 0 .. MaxSteps /\ colliding' \in BOOLEAN
    BY <2>1, <2>2
  <2> QED
    BY <2>3, Zenon DEF RtpTypeOK, S, A
<1>14. CASE RtpSendRtcpPacket
  <2> DEFINE pkt == session.m_bRtpSendPkt /\ held.kind # "report"
             ssrc == IF held.kind = "bye" /\ session.m_bSelfCollisionByeSent THEN generateNewSsrc ELSE session.m_uiSsrc
  <2>1. pkt \in BOOLEAN /\ ssrc \in LocalSsrcs
    BY NewSsrc DEF RtpTypeOK
  <2>2. /\ session' = [session EXCEPT !.xr = FALSE, !.m_bRtpSendPkt = pkt, !.m_uiSsrc = ssrc]
        /\ colliding' \in BOOLEAN /\ app' = app /\ steps' = steps
    BY <1>14 DEF RtpSendRtcpPacket, RtpTypeOK
  <2> HIDE DEF pkt, ssrc
  <2> QED
    BY <2>1, <2>2 DEF RtpTypeOK
<1>15. CASE SendRtcpXr
  BY <1>15, StepIs DEF SendRtcpXr, RtpTypeOK
<1>16. CASE UNCHANGED rtpVars
  BY <1>16 DEF rtpVars, RtpTypeOK
<1> QED
  BY <1>1, <1>2, <1>3, <1>4, <1>5, <1>6, <1>7, <1>8, <1>9, <1>10, <1>11, <1>12, <1>13, <1>14, <1>15, <1>16 DEF RtpNext

(* Handing on: what is punctual is handed on. *)
HandsOn == (out' # Nothing /\ "rtp" \in DOMAIN out' /\ Punctual(out'.rtp, out'.idx)) => out'.handed

(* A step that touches neither the members nor what is told of them. *)
Quiet ==
    /\ members' = members /\ told' = told /\ session'.m_bFirstRtpRecvd = session.m_bFirstRtpRecvd
    /\ held' = held \/ held' = Nothing
    /\ out' = Nothing \/ "rtp" \notin DOMAIN out'

LEMMA QuietKeeps ==
  ASSUME ReportsInv, Quiet
  PROVE  Observed(members', told', session'.m_bFirstRtpRecvd) /\ LossReportsTrue' /\ HandsOn
<1>1. Observed(members', told', session'.m_bFirstRtpRecvd)
  BY DEF Quiet, ReportsInv
<1>2. LossReportsTrue'
  BY DEF Quiet, ReportsInv, LossReportsTrue
<1>3. HandsOn
  BY DEF Quiet, HandsOn
<1> QED
  BY <1>1, <1>2, <1>3

LEMMA RtpKeeps ==
  ASSUME ReportsInv, NEW ssrc \in PeerSsrcs, NEW idx \in Idx, NEW csrcs \in CsrcLists,
         Arriving(ssrc, idx), RecvRtp(ssrc, idx, csrcs)
  PROVE  Observed(members', told', session'.m_bFirstRtpRecvd) /\ LossReportsTrue' /\ HandsOn
<1> DEFINE u == UpdateSeq(MemberFor(ssrc, NumberOf(idx)), NumberOf(idx))
           e == Received(u.m)
           known == processCsrcList(IF IndexIn(members, ssrc) = 0
                                    THEN Append(members, MemberFor(ssrc, NumberOf(idx))) ELSE members, csrcs)
           ms == [known EXCEPT ![IndexIn(known, ssrc)] = e]
           v == checkSsrcCollisionOnRcv(ssrc, Port)
<1>1. Observed(members, told, session.m_bFirstRtpRecvd) /\ idx \in Nat
  BY SessionAssumption DEF ReportsInv, Idx
<1>2. IsList(csrcs)
  BY SessionAssumption, InList
<1>3. Punctual(ssrc, idx) => u.ok /\ v # "collision"
  BY <1>1, PacketCounts
<1>4. LossReportsTrue'
  BY DEF RecvRtp, ReportsInv, LossReportsTrue
<1>5. /\ Arrived(ssrc, idx, u.ok) = [rtp |-> ssrc, idx |-> idx, handed |-> u.ok]
      /\ Arrived(ssrc, idx, FALSE) = [rtp |-> ssrc, idx |-> idx, handed |-> FALSE]
  BY DEF Arrived
<1>6. CASE v = "collision"
  <2>1. /\ out' = Arrived(ssrc, idx, FALSE) /\ members' = members /\ told' = told /\ session' = session
    BY <1>6 DEF RecvRtp
  <2>2. HandsOn
    <3>1. out' = [rtp |-> ssrc, idx |-> idx, handed |-> FALSE]
      BY <1>5, <2>1
    <3>2. out'.rtp = ssrc /\ out'.idx = idx
      BY <3>1
    <3> QED
      BY <1>3, <1>6, <3>2 DEF HandsOn
  <2> QED
    BY <1>1, <1>4, <2>1, <2>2
<1>7. CASE v # "collision"
  <2>1. /\ out' = Arrived(ssrc, idx, u.ok) /\ members' = ms /\ told' = Told(ssrc, idx, csrcs)
        /\ session' = [session EXCEPT !.m_bFirstRtpRecvd = TRUE]
    BY <1>7 DEF RecvRtp, Received
  <2>2. session'.m_bFirstRtpRecvd = TRUE
    BY <2>1 DEF ReportsInv, RtpTypeOK
  <2>3. Observed(ms, Told(ssrc, idx, csrcs), TRUE)
    BY <1>1, <1>2, RecvRtpObserved
  <2> HIDE DEF u, ms
  <2>4. HandsOn
    <3>1. out'.rtp = ssrc /\ out'.idx = idx /\ out'.handed = u.ok
      BY <1>5, <2>1
    <3> QED
      BY <1>3, <3>1 DEF HandsOn
  <2> QED
    BY <1>4, <2>1, <2>2, <2>3, <2>4
<1> QED
  BY <1>6, <1>7

LEMMA RtcpKeeps ==
  ASSUME ReportsInv, NEW words, RecvRtcp(words)
  PROVE  Observed(members', told', session'.m_bFirstRtpRecvd) /\ LossReportsTrue' /\ HandsOn
<1> DEFINE c == DecodeRtcpPacket(words, SdesItems).c
           ms == processRcvdRtcpPkt(c)
           td == [p \in PeerSsrcs |->
                    CASE ~findEntryInRcvrList(ms, p) -> Unheard
                      [] findEntryInRcvrList(ms, p) /\ told[p].by = "none" -> [told[p] EXCEPT !.by = "other"]
                      [] OTHER -> told[p]]
<1>1. members' = ms /\ told' = td /\ session' = session /\ held' = held /\ out' = Nothing
  BY DEF RecvRtcp
<1>2. Observed(ms, td, session.m_bFirstRtpRecvd)
  BY RecvRtcpObserved DEF ReportsInv
<1>3. LossReportsTrue' /\ HandsOn
  BY <1>1 DEF ReportsInv, LossReportsTrue, HandsOn
<1> QED
  BY <1>1, <1>2, <1>3

LEMMA ReportsStep == ReportsInv /\ [RtpNext]_rtpVars => ReportsInv' /\ [HandsOn]_rtpVars
<1> SUFFICES ASSUME ReportsInv, [RtpNext]_rtpVars PROVE ReportsInv' /\ [HandsOn]_rtpVars
  OBVIOUS
<1>1. RtpTypeOK /\ Observed(members, told, session.m_bFirstRtpRecvd) /\ LossReportsTrue
  BY DEF ReportsInv
<1>2. RtpTypeOK'
  BY <1>1, RtpTypeStep
<1> DEFINE Kept == Observed(members', told', session'.m_bFirstRtpRecvd) /\ LossReportsTrue' /\ (HandsOn \/ UNCHANGED rtpVars)
<1>3. ASSUME Quiet PROVE Kept
  BY <1>3, QuietKeeps
<1>4. ASSUME Observed(members', told', session'.m_bFirstRtpRecvd), LossReportsTrue', HandsOn PROVE Kept
  BY <1>4
<1>5. ASSUME NEW kind, NEW leaving, NEW feedback, rtpMakeCompoundRtcpPacket(kind, leaving, feedback) PROVE Kept
  <2>1. /\ Observed(members', told', session'.m_bFirstRtpRecvd) /\ LossReportsTrue'
        /\ out' = Nothing
    BY <1>1, <1>5, ReportMade
  <2>2. HandsOn
    BY <2>1 DEF HandsOn
  <2> QED
    BY <2>1, <2>2
<1>7. ASSUME NEW context \in {Nothing, RTP_SEQ_MOD - 2}, StartRtp(context) PROVE Kept
  <2>1. Quiet
    BY <1>1, <1>7 DEF StartRtp, Quiet, RtpTypeOK
  <2> HIDE DEF Kept
  <2> QED
    BY <1>3, <2>1, Zenon
<1>8. ASSUME StopRtp \/ StopRtcp \/ SendRtp \/ RecvUnknownPayload \/ NoByeToSend \/ SendRtcpXr PROVE Kept
  <2>1. Quiet
    <3>1. CASE StopRtp
      BY <1>1, <3>1 DEF StopRtp, Quiet, RtpTypeOK
    <3>2. CASE StopRtcp
      BY <1>1, <3>2 DEF StopRtcp, Quiet, RtpTypeOK
    <3>3. CASE SendRtp
      BY <1>1, <3>3 DEF SendRtp, createRtpPacket, Quiet, RtpTypeOK
    <3>4. CASE RecvUnknownPayload
      BY <3>4 DEF RecvUnknownPayload, Quiet
    <3>5. CASE NoByeToSend
      BY <3>5 DEF NoByeToSend, Quiet
    <3>6. CASE SendRtcpXr
      BY <1>1, <3>6 DEF SendRtcpXr, Quiet, RtpTypeOK
    <3> QED
      BY <1>8, <3>1, <3>2, <3>3, <3>4, <3>5, <3>6
  <2> HIDE DEF Kept
  <2> QED
    BY <1>3, <2>1, Zenon
<1>9. ASSUME NEW bye \in BOOLEAN, StartRtcp(bye) PROVE Kept
  <2>1. Quiet
    BY <1>1, <1>9 DEF StartRtcp, Quiet, RtpTypeOK
  <2> HIDE DEF Kept
  <2> QED
    BY <1>3, <2>1, Zenon
<1>10. ASSUME NEW ssrc \in PeerSsrcs, NEW csrcs \in CsrcLists, RecvOwn(ssrc, csrcs) PROVE Kept
  <2>1. /\ members' = members /\ told' = told /\ held' = held /\ out' = Nothing
        /\ \/ session' = [session EXCEPT !.m_bSelfCollisionByeSent = TRUE]
           \/ session' = [session EXCEPT !.m_uiSsrc = generateNewSsrc]
    BY <1>10 DEF RecvOwn
  <2>2. Quiet
    BY <1>1, <2>1 DEF Quiet, RtpTypeOK
  <2> QED
    BY <1>3, <2>2, Zenon
<1>11. ASSUME NEW ssrc \in PeerSsrcs, NEW idx \in Idx, NEW csrcs \in CsrcLists,
              Arriving(ssrc, idx), RecvRtp(ssrc, idx, csrcs)
       PROVE  Kept
  BY <1>4, <1>11, RtpKeeps
<1>12. ASSUME NEW words, RecvRtcp(words) PROVE Kept
  BY <1>4, <1>12, RtcpKeeps
<1>13. ASSUME MakeReport PROVE Kept
  <2>1. rtpMakeCompoundRtcpPacket("report", session.m_bSndRtcpByePkt, <<>>)
    BY <1>13 DEF MakeReport
  <2> HIDE DEF Kept
  <2> QED
    BY <1>5, <2>1, Zenon
<1>14. ASSUME NEW f \in Feedbacks, MakeFeedback(f) PROVE Kept
  <2>1. rtpMakeCompoundRtcpPacket("feedback", session.m_bSndRtcpByePkt, <<populateRtcpFbPacket(f)>>)
    BY <1>14 DEF MakeFeedback
  <2> HIDE DEF Kept
  <2> QED
    BY <1>5, <2>1, Zenon
<1>15. ASSUME SendRtcpByePacket PROVE Kept
  <2>1. rtpMakeCompoundRtcpPacket("bye", TRUE, <<>>)
    BY <1>15 DEF SendRtcpByePacket
  <2> HIDE DEF Kept
  <2> QED
    BY <1>5, <2>1, Zenon
<1>16. ASSUME RtpSendRtcpPacket PROVE Kept
  <2>1. members' = members /\ told' = told /\ held' = Nothing /\ out' = OnRtcpPacket(held.c)
    BY <1>16 DEF RtpSendRtcpPacket
  <2>2. session'.m_bFirstRtpRecvd = session.m_bFirstRtpRecvd
    BY <1>1, <1>16 DEF RtpSendRtcpPacket, RtpTypeOK
  <2>3. out' = Nothing \/ "rtp" \notin DOMAIN out'
    BY <2>1 DEF OnRtcpPacket
  <2>4. Quiet
    BY <2>1, <2>2, <2>3 DEF Quiet
  <2> QED
    BY <1>3, <2>4, Zenon
<1>17. ASSUME UNCHANGED rtpVars PROVE Kept
  <2>1. members' = members /\ told' = told /\ session' = session /\ held' = held
    BY <1>17 DEF rtpVars
  <2>2. Observed(members', told', session'.m_bFirstRtpRecvd)
    BY <1>1, <2>1
  <2>3. LossReportsTrue'
    BY <1>1, <2>1 DEF LossReportsTrue
  <2> QED
    BY <1>17, <2>2, <2>3, Zenon
<1>18. Kept
  <2> HIDE DEF Kept
  <2>1. ASSUME \E context \in {Nothing, RTP_SEQ_MOD - 2} : StartRtp(context) PROVE Kept
    BY <1>7, <2>1, Zenon
  <2>2. ASSUME \E bye \in BOOLEAN : StartRtcp(bye) PROVE Kept
    BY <1>9, <2>2, Zenon
  <2>3. ASSUME \E ssrc \in PeerSsrcs, csrcs \in CsrcLists : RecvOwn(ssrc, csrcs) PROVE Kept
    BY <1>10, <2>3, Zenon
  <2>4. ASSUME \E ssrc \in PeerSsrcs, idx \in Idx, csrcs \in CsrcLists : Arriving(ssrc, idx) /\ RecvRtp(ssrc, idx, csrcs)
        PROVE  Kept
    BY <1>11, <2>4, Zenon
  <2>5. ASSUME \E c \in PeerCompounds : RecvRtcp(FormRtcpPacket(c)) PROVE Kept
    BY <1>12, <2>5, Zenon
  <2>6. ASSUME \E f \in Feedbacks : MakeFeedback(f) PROVE Kept
    BY <1>14, <2>6, Zenon
  <2> QED
    BY <1>8, <1>13, <1>15, <1>16, <1>17, <2>1, <2>2, <2>3, <2>4, <2>5, <2>6, Zenon DEF RtpNext
<1> QED
  BY <1>2, <1>18 DEF ReportsInv

LEMMA RtpInitInv == RtpInit => ReportsInv
<1> SUFFICES ASSUME RtpInit PROVE ReportsInv
  OBVIOUS
<1>1. /\ members = <<>> /\ held = Nothing /\ told = [p \in PeerSsrcs |-> Unheard]
      /\ app = [rtpStarted |-> 0, rtcpStarted |-> 0, mEnableRtcpTx |-> FALSE, mPeerRtpSsrc |-> 0]
      /\ colliding = FALSE /\ steps = 0
  BY DEF RtpInit
<1>2. PICK ssrc \in LocalSsrcs : session = [m_uiSsrc |-> ssrc, m_usSeqNum |-> RTP_SEQ_MOD - 1, sent |-> FALSE,
           m_bEnableRTP |-> FALSE, m_bEnableRTCP |-> FALSE, m_bEnableRTCPBye |-> FALSE,
           m_bFirstRtpRecvd |-> FALSE, m_bRtpSendPkt |-> FALSE, m_bSelfCollisionByeSent |-> FALSE,
           m_bSndRtcpByePkt |-> FALSE, m_bisXr |-> FALSE, xr |-> FALSE]
  BY DEF RtpInit
<1>3. RTP_SEQ_MOD - 1 \in 0 .. RTP_SEQ_MOD - 1 /\ MaxSteps \in Nat
  BY Bounds, SessionAssumption
<1>4. RtpTypeOK
  <2>1. session \in [m_uiSsrc : LocalSsrcs, m_usSeqNum : 0 .. RTP_SEQ_MOD - 1, sent : BOOLEAN,
           m_bEnableRTP : BOOLEAN, m_bEnableRTCP : BOOLEAN, m_bEnableRTCPBye : BOOLEAN,
           m_bFirstRtpRecvd : BOOLEAN, m_bRtpSendPkt : BOOLEAN, m_bSelfCollisionByeSent : BOOLEAN,
           m_bSndRtcpByePkt : BOOLEAN, m_bisXr : BOOLEAN, xr : BOOLEAN]
    BY <1>2, <1>3
  <2>2. app \in [rtpStarted : 0 .. 2, rtcpStarted : 0 .. 1, mEnableRtcpTx : BOOLEAN, mPeerRtpSsrc : PeerSsrcs \cup {0}]
    BY <1>1
  <2>3. colliding \in BOOLEAN
    BY <1>1
  <2>4. steps \in 0 .. MaxSteps
    BY <1>1, <1>3
  <2> QED
    BY <2>1, <2>2, <2>3, <2>4 DEF RtpTypeOK
<1>5. Roster(members)
  <2>1. <<>> \in Seq({}) /\ DOMAIN <<>> = {}
    BY EmptySeq
  <2>2. IsList(<<>>)
    BY <2>1, InList
  <2> QED
    BY <1>1, <2>1, <2>2 DEF Roster, Lineup, Apart
<1>6. \A p \in PeerSsrcs : told[p] \in Counts /\ told[p].by = "none"
  BY <1>1, UnheardCounts
<1>7. Observed(members, told, session.m_bFirstRtpRecvd)
  <2>1. told \in [PeerSsrcs -> Counts]
    BY <1>1, UnheardCounts
  <2>2. DOMAIN members = {}
    BY <1>1
  <2>3. \A p \in PeerSsrcs : ~(told[p].by # "none")
    BY <1>6
  <2> QED
    BY <1>5, <2>1, <2>2, <2>3 DEF Observed
<1>8. LossReportsTrue
  BY <1>1 DEF LossReportsTrue
<1> QED
  BY <1>4, <1>7, <1>8 DEF ReportsInv

LEMMA ReportsHold == RtpSpec => []ReportsInv
  BY RtpInitInv, ReportsStep, PTL DEF RtpSpec

(* The state of a session is always of its type. *)
THEOREM RtpTypeCorrect == RtpSpec => []RtpTypeOK
<1>1. ReportsInv => RtpTypeOK
  BY DEF ReportsInv
<1> QED
  BY <1>1, ReportsHold, PTL

(* In every report that is made, each SSRC heard since the last one is there, with
   the losses and the extended number an observer counts without wrapping. *)
THEOREM LossesAreTold == RtpSpec => []LossReportsTrue
<1>1. ReportsInv => LossReportsTrue
  BY DEF ReportsInv
<1> QED
  BY <1>1, ReportsHold, PTL

(* A first packet, or one within the window of what came, reaches the decoder. *)
THEOREM PunctualIsDelivered == RtpSpec => PunctualDelivered
<1>1. ReportsInv /\ [RtpNext]_rtpVars => [HandsOn]_rtpVars
  BY ReportsStep
<1>2. RtpSpec => [][HandsOn]_rtpVars
  BY <1>1, ReportsHold, PTL DEF RtpSpec
<1> QED
  BY <1>2, PTL DEF PunctualDelivered, HandsOn

(* What is held is as a session makes it, and so reads back once it is sent. *)
WireInv == (held # Nothing => IsCompound(held.c)) /\ WireRoundTrip

LEMMA WireStep == ReportsInv /\ WireInv /\ [RtpNext]_rtpVars => WireInv'
<1> SUFFICES ASSUME ReportsInv, WireInv, [RtpNext]_rtpVars PROVE WireInv'
  OBVIOUS
<1>1. RtpTypeOK /\ Observed(members, told, session.m_bFirstRtpRecvd)
  BY DEF ReportsInv
<1>2. ASSUME held' = held, out' = Nothing \/ "rtcp" \notin DOMAIN out' PROVE WireInv'
  BY <1>2 DEF WireInv, WireRoundTrip
<1>3. ASSUME NEW kind, NEW leaving, NEW feedback, rtpMakeCompoundRtcpPacket(kind, leaving, feedback), MadeFb(feedback)
      PROVE  WireInv'
  <2>1. IsCompound(held'.c) /\ out' = Nothing
    BY <1>1, <1>3, CompoundMade
  <2> QED
    BY <2>1 DEF WireInv, WireRoundTrip
<1>4. ASSUME NEW context \in {Nothing, RTP_SEQ_MOD - 2}, StartRtp(context) PROVE WireInv'
  <2>1. held' = held /\ out' = Nothing
    BY <1>4 DEF StartRtp
  <2> QED
    BY <1>2, <2>1
<1>5. ASSUME StopRtp \/ StopRtcp \/ SendRtp \/ RecvUnknownPayload \/ NoByeToSend \/ SendRtcpXr PROVE WireInv'
  <2>1. held' = held /\ out' = Nothing
    BY <1>5 DEF StopRtp, StopRtcp, SendRtp, RecvUnknownPayload, NoByeToSend, SendRtcpXr
  <2> QED
    BY <1>2, <2>1
<1>6. ASSUME NEW bye \in BOOLEAN, StartRtcp(bye) PROVE WireInv'
  <2>1. held' = held /\ out' = Nothing
    BY <1>6 DEF StartRtcp
  <2> QED
    BY <1>2, <2>1
<1>7. ASSUME NEW ssrc \in PeerSsrcs, NEW csrcs \in CsrcLists, RecvOwn(ssrc, csrcs) PROVE WireInv'
  <2>1. held' = held /\ out' = Nothing
    BY <1>7 DEF RecvOwn
  <2> QED
    BY <1>2, <2>1
<1>8. ASSUME NEW ssrc \in PeerSsrcs, NEW idx \in Idx, NEW csrcs \in CsrcLists, RecvRtp(ssrc, idx, csrcs) PROVE WireInv'
  <2>1. held' = held /\ \E ok : out' = Arrived(ssrc, idx, ok)
    BY <1>8 DEF RecvRtp
  <2>2. "rtcp" \notin DOMAIN out'
    BY <2>1 DEF Arrived
  <2> QED
    BY <1>2, <2>1, <2>2
<1>9. ASSUME NEW words, RecvRtcp(words) PROVE WireInv'
  <2>1. held' = held /\ out' = Nothing
    BY <1>9 DEF RecvRtcp
  <2> QED
    BY <1>2, <2>1
<1>10. MadeFb(<<>>)
  BY DEF MadeFb
<1>11. ASSUME MakeReport PROVE WireInv'
  <2>1. rtpMakeCompoundRtcpPacket("report", session.m_bSndRtcpByePkt, <<>>)
    BY <1>11 DEF MakeReport
  <2> QED
    BY <1>3, <1>10, <2>1, Zenon
<1>12. ASSUME NEW f \in Feedbacks, MakeFeedback(f) PROVE WireInv'
  <2> DEFINE p == populateRtcpFbPacket(f)
  <2>1. rtpMakeCompoundRtcpPacket("feedback", session.m_bSndRtcpByePkt, <<p>>)
    BY <1>12 DEF MakeFeedback
  <2>2. IsFeedback(p)
    <3>1. f.pt \in {"RTPFB", "PSFB"} /\ (f.fci = <<1>> \/ f.fci = <<>> \/ f.fci = <<1, 2>>)
      BY DEF Feedbacks
    <3>2. IsList(<<1>>) /\ IsList(<<>>) /\ IsList(<<1, 2>>)
      <4>1. IsList(<<1>>) /\ IsList(<<1, 2>>)
        BY Short
      <4> QED
        BY <4>1, Nil
    <3>3. IsList(f.fci)
      BY <3>1, <3>2, Zenon
    <3> QED
      BY <3>1, <3>3 DEF populateRtcpFbPacket, IsFeedback
  <2> HIDE DEF p
  <2>3. MadeFb(<<p>>)
    BY <2>2 DEF MadeFb
  <2> QED
    BY <1>3, <2>1, <2>3, Zenon
<1>13. ASSUME SendRtcpByePacket PROVE WireInv'
  <2>1. rtpMakeCompoundRtcpPacket("bye", TRUE, <<>>)
    BY <1>13 DEF SendRtcpByePacket
  <2> QED
    BY <1>3, <1>10, <2>1, Zenon
<1>14. ASSUME RtpSendRtcpPacket PROVE WireInv'
  <2> DEFINE c == held.c
  <2>1. held' = Nothing /\ out' = OnRtcpPacket(c) /\ IsCompound(c)
    BY <1>14 DEF RtpSendRtcpPacket, WireInv
  <2> HIDE DEF c
  <2>2. CASE out' = Nothing
    BY <2>1, <2>2 DEF WireInv, WireRoundTrip
  <2>3. CASE out' # Nothing
    <3>1. CanForm(c) /\ out' = [rtcp |-> FormRtcpPacket(c), of |-> c]
      BY <2>1, <2>3 DEF OnRtcpPacket
    <3>2. out'.rtcp = FormRtcpPacket(c) /\ out'.of = c
      BY <3>1
    <3>3. DecodeRtcpPacket(FormRtcpPacket(c), SdesItems) = [ok |-> TRUE, c |-> Sent(c)]
      BY <2>1, <3>1, CompoundRead
    <3>4. DecodeRtcpPacket(out'.rtcp, SdesItems) = [ok |-> TRUE, c |-> Sent(out'.of)]
      BY <3>2, <3>3, Zenon
    <3> QED
      BY <2>1, <3>4 DEF WireInv, WireRoundTrip
  <2> QED
    BY <2>2, <2>3
<1>15. ASSUME UNCHANGED rtpVars PROVE WireInv'
  BY <1>15 DEF rtpVars, WireInv, WireRoundTrip
<1>16. ASSUME \E context \in {Nothing, RTP_SEQ_MOD - 2} : StartRtp(context) PROVE WireInv'
  BY <1>4, <1>16, Zenon
<1>17. ASSUME \E bye \in BOOLEAN : StartRtcp(bye) PROVE WireInv'
  BY <1>6, <1>17, Zenon
<1>18. ASSUME \E ssrc \in PeerSsrcs, csrcs \in CsrcLists : RecvOwn(ssrc, csrcs) PROVE WireInv'
  BY <1>7, <1>18, Zenon
<1>19. ASSUME \E ssrc \in PeerSsrcs, idx \in Idx, csrcs \in CsrcLists : Arriving(ssrc, idx) /\ RecvRtp(ssrc, idx, csrcs)
       PROVE  WireInv'
  BY <1>8, <1>19, Zenon
<1>20. ASSUME \E c \in PeerCompounds : RecvRtcp(FormRtcpPacket(c)) PROVE WireInv'
  BY <1>9, <1>20, Zenon
<1>21. ASSUME \E f \in Feedbacks : MakeFeedback(f) PROVE WireInv'
  BY <1>12, <1>21, Zenon
<1> QED
  BY <1>5, <1>11, <1>13, <1>14, <1>15, <1>16, <1>17, <1>18, <1>19, <1>20, <1>21, Zenon DEF RtpNext

(* Whatever a session sends, the reader makes of its words the compound packet that
   was meant: the losses of a block cut to their 24 bits, the XR blocks unread. *)
THEOREM WhatIsSentReadsBack == RtpSpec => []WireRoundTrip
<1>1. RtpInit => WireInv
  BY DEF RtpInit, WireInv, WireRoundTrip
<1>2. ReportsInv /\ ReportsInv' /\ WireInv /\ [RtpNext]_rtpVars => WireInv'
  BY WireStep
<1>3. RtpSpec => []WireInv
  BY <1>1, <1>2, ReportsHold, PTL DEF RtpSpec
<1>4. WireInv => WireRoundTrip
  BY DEF WireInv
<1> QED
  BY <1>3, <1>4, PTL

------------------------------------------------------------------------------
(***************************************************************************)
(* The timer of the reports.                                               *)
(***************************************************************************)
InsidePcs == {"body", "report", "look", "check", "lock", "clear", "ask", "start", "store", "leave"}
TimerPcs == InsidePcs \cup {"gone", "sleep", "valid", "enter", "return", "unlist", "delete"}
StopPcs == {"look", "check", "lock", "clear"}

Places == DOMAIN pc = Threads /\ \A t \in Timers : pc[t] \in TimerPcs

(* The lock of the session is with the callback inside it, or with the owner while it
   deletes the session. *)
LockInv ==
    /\ \A t \in Timers : pc[t] \in InsidePcs => sessionLock = t
    /\ sessionLock = "owner" =>
           ~m_bEnableRTCP /\ ~registered /\ pc["owner"] \in StopPcs \cup {"free"}
    /\ pc["owner"] = "free" => sessionLock = "owner"

(* A session that is deleted stays off the list, and who still comes leaves. *)
FreedInv == freed => pc["owner"] = "end" /\ ~registered

IInv == Places /\ LockInv /\ FreedInv /\ LateCallbacksLeave

USE TimerAssumption
    DEF Goto, InsidePcs, TimerPcs, StopPcs, Threads, InSession, AfterStop, AfterStart

LEMMA InitIInv == Init => IInv
BY DEF Init, IInv, Places, LockInv, FreedInv, LateCallbacksLeave

(* No step of a callback takes the lock from another or goes on in a deleted session. *)
LEMMA TimerStepIInv == \A t \in Timers : IInv /\ TimerStep(t) => IInv'
<1> SUFFICES ASSUME IInv, NEW t \in Timers, TimerStep(t) PROVE IInv'
  OBVIOUS
<1> USE DEF IInv, Places, LockInv, FreedInv, LateCallbacksLeave
<1>1. CASE Wake(t)
  BY <1>1 DEF Wake
<1>2. CASE RtcpTimerCb(t)
  BY <1>2 DEF RtcpTimerCb
<1>3. CASE EnterExpiry(t)
  BY <1>3 DEF EnterExpiry
<1>4. CASE ExpireEarly(t) \/ SendReport(t) \/ ReportSent(t) \/ AskEnabled(t)
  BY <1>4 DEF ExpireEarly, SendReport, ReportSent, AskEnabled
<1>5. CASE LeaveExpiry(t)
  BY <1>5 DEF LeaveExpiry
<1>6. CASE CallbackReturns(t) \/ DeleteTimerFromList(t) \/ DeleteTimer(t)
  BY <1>6 DEF CallbackReturns, DeleteTimerFromList, DeleteTimer
<1> QED
  BY <1>1, <1>2, <1>3, <1>4, <1>5, <1>6 DEF TimerStep

(* Who stops and starts the timer stays where it is: a callback inside the session, the owner
   in the deletion or in the restart it began. *)
LEMMA StopStartIInv == \A p \in Threads : IInv /\ StopStart(p) => IInv'
<1> SUFFICES ASSUME IInv, NEW p \in Threads, StopStart(p) PROVE IInv'
  OBVIOUS
<1> USE DEF IInv, Places, LockInv, FreedInv, LateCallbacksLeave
<1>1. CASE LookForTimer(p)
  BY <1>1 DEF LookForTimer
<1>2. CASE CheckTimer(p)
  BY <1>2 DEF CheckTimer
<1>3. CASE TerminateTimer(p)
  BY <1>3 DEF TerminateTimer
<1>4. CASE ClearTimer(p)
  BY <1>4 DEF ClearTimer
<1>5. CASE StartTimer(p)
  <2>1. PICK u \in Timers : pc[u] = "gone" /\ pc' = [pc EXCEPT ![p] = "store", ![u] = "sleep"]
    BY <1>5 DEF StartTimer, Unused
  <2> QED
    BY <1>5, <2>1 DEF StartTimer
<1>6. CASE StoreTimer(p)
  BY <1>6 DEF StoreTimer
<1> QED
  BY <1>1, <1>2, <1>3, <1>4, <1>5, <1>6 DEF StopStart

(* The owner deletes the session with the lock in its hands and never lists it again. *)
LEMMA OwnerStepIInv == IInv /\ OwnerStep => IInv'
<1> SUFFICES ASSUME IInv, OwnerStep PROVE IInv'
  OBVIOUS
<1> USE DEF IInv, Places, LockInv, FreedInv, LateCallbacksLeave
<1>1. CASE EnableRtcp
  BY <1>1 DEF EnableRtcp
<1>2. CASE RemoveRtpSession
  BY <1>2 DEF RemoveRtpSession
<1>3. CASE DisableRtcp
  BY <1>3 DEF DisableRtcp
<1>4. CASE CloseSocket
  BY <1>4 DEF CloseSocket
<1>5. CASE DeleteRtpSession
  BY <1>5 DEF DeleteRtpSession
<1>6. CASE FreeSession
  BY <1>6 DEF FreeSession
<1> QED
  BY <1>1, <1>2, <1>3, <1>4, <1>5, <1>6 DEF OwnerStep

LEMMA StepIInv == IInv /\ [Next]_vars => IInv'
<1> SUFFICES ASSUME IInv, [Next]_vars PROVE IInv'
  OBVIOUS
<1>1. CASE ProcessByePacket
  BY <1>1 DEF ProcessByePacket, IInv, Places, LockInv, FreedInv, LateCallbacksLeave
<1>2. CASE LockTimesOut
  BY <1>2 DEF LockTimesOut, IInv, Places, LockInv, FreedInv, LateCallbacksLeave
<1>3. CASE UNCHANGED vars
  BY <1>3 DEF vars, IInv, Places, LockInv, FreedInv, LateCallbacksLeave
<1> QED
  BY <1>1, <1>2, <1>3, TimerStepIInv, StopStartIInv, OwnerStepIInv DEF Next, Released

(* For any number of timers and however often a BYE, a start or a stop runs beside a callback
   or beside another: a callback that is still under way when deleteRtpSession has freed the
   session finds it off the list, sends no report and starts no timer. *)
THEOREM NoReportOfFreedSession == Spec => []LateCallbacksLeave
<1>1. IInv => LateCallbacksLeave
  BY DEF IInv
<1> QED
  BY InitIInv, StepIInv, <1>1, PTL DEF Spec
==============================================================================
