--------------------------- MODULE RtpReceiverInfo ---------------------------
(***************************************************************************)
(* What a session keeps of a member (one SSRC it hears of): how many       *)
(* packets came, how many should have, counted with sequence numbers that  *)
(* wrap.  A member is a record; the operators give the member afterwards.  *)
(* RTP_MIN_SEQUENTIAL is 0, so a source is never on probation.  Jitter,    *)
(* octets and clocks are left out.                                         *)
(***************************************************************************)
EXTENDS Integers

CONSTANTS
    RTP_SEQ_MOD,      \* RTP_SEQ_MOD
    MaxDropout,  \* RTP_MAX_DROPOUT
    MaxMisorder  \* RTP_MAX_MISORDER

\* A new member is zeroed: also its bad sequence number, which is a valid one.
NewReceiverInfo(ssrc, port) ==
    [ssrc |-> ssrc, port |-> port, sender |-> FALSE, csrc |-> FALSE, total |-> FALSE,
     base |-> 0, max |-> 0, bad |-> 0, cycles |-> 0, received |-> 0, expectedPrior |-> 0,
     receivedPrior |-> 0, lsr |-> 0]

InitSeq(m, seq) ==
    [m EXCEPT !.base = seq, !.max = seq, !.bad = RTP_SEQ_MOD + 1, !.cycles = 0, !.received = 0,
              !.receivedPrior = 0, !.expectedPrior = 0]

Counted(m) == [ok |-> TRUE, m |-> [m EXCEPT !.received = @ + 1]]

\* Mutant: a packet that comes late is taken for a jump.
UpdateSeqNoMisorder(m, seq) ==
    LET delta == (seq - m.max) % RTP_SEQ_MOD IN
    CASE delta < MaxDropout -> Counted([m EXCEPT !.max = seq, !.cycles = IF seq < m.max THEN @ + 1 ELSE @])
      [] seq = m.bad -> Counted(InitSeq(m, seq))
      [] OTHER -> [ok |-> FALSE, m |-> [m EXCEPT !.bad = (seq + 1) % RTP_SEQ_MOD]]

\* Mutant: the wrap of the sequence number is not counted.
UpdateSeqNoCycle(m, seq) ==
    LET delta == (seq - m.max) % RTP_SEQ_MOD IN
    CASE delta < MaxDropout -> Counted([m EXCEPT !.max = seq])
      [] delta >= MaxDropout /\ delta <= RTP_SEQ_MOD - MaxMisorder /\ seq = m.bad -> Counted(InitSeq(m, seq))
      [] delta >= MaxDropout /\ delta <= RTP_SEQ_MOD - MaxMisorder /\ seq # m.bad ->
             [ok |-> FALSE, m |-> [m EXCEPT !.bad = (seq + 1) % RTP_SEQ_MOD]]
      [] OTHER -> Counted(m)

\* In order with a gap that may be; a jump, believed when the next packet
\* confirms it; or late, or twice.
UpdateSeq(m, seq) ==
    LET delta == (seq - m.max) % RTP_SEQ_MOD IN
    CASE delta < MaxDropout -> Counted([m EXCEPT !.max = seq, !.cycles = IF seq < m.max THEN @ + 1 ELSE @])
      [] delta >= MaxDropout /\ delta <= RTP_SEQ_MOD - MaxMisorder /\ seq = m.bad -> Counted(InitSeq(m, seq))
      [] delta >= MaxDropout /\ delta <= RTP_SEQ_MOD - MaxMisorder /\ seq # m.bad ->
             [ok |-> FALSE, m |-> [m EXCEPT !.bad = (seq + 1) % RTP_SEQ_MOD]]
      [] OTHER -> Counted(m)

GetExtSeqNum(m) == m.cycles * RTP_SEQ_MOD + m.max
Expected(m) == GetExtSeqNum(m) - m.base + 1
FindLostRtpPkts(m) == Expected(m) - m.received

\* Of the packets expected since the last report, how many 256ths were lost.
Fraction(expected, received) ==
    IF expected = 0 \/ expected <= received THEN 0 ELSE (((expected - received) * 256) \div expected) % 256

FractionLost(m) == Fraction(Expected(m) - m.expectedPrior, m.received - m.receivedPrior)
\* fractionLost() remembers what it has counted.
Reported(m) == [m EXCEPT !.expectedPrior = Expected(m), !.receivedPrior = m.received]

PopulateReportBlock(m) ==
    [ssrc |-> m.ssrc, frac |-> FractionLost(m), lost |-> FindLostRtpPkts(m), ext |-> GetExtSeqNum(m),
     jitter |-> 0, lsr |-> m.lsr, dlsr |-> 0]
=============================================================================
