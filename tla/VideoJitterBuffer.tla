-------------------------- MODULE VideoJitterBuffer --------------------------
(***************************************************************************)
(* The buffer between the video payload decoder, which adds, and the       *)
(* renderer, which gets and deletes: three operations, each under the lock *)
(* of the buffer, as functions of its state.  Time is what it decides: how *)
(* old a gap is (0 new, 1 a frame interval, 2 the time to wait for an      *)
(* answer), and whether the pacing lets the next frame go.                 *)
(***************************************************************************)
EXTENDS Integers, Sequences, SequencesExt

CONSTANTS
    mMaxSaveFrameNum,  \* frames kept before the oldest must go
    mIDRCheckCnt       \* the IDR picture the buffer asks a FIR for

U16 == 65536
\* USHORT_SEQ_ROUND_COMPARE: a is b or later, the sequence numbers going round.
RoundCompare(a, b) ==
    \/ a >= b /\ (b >= 655 \/ a <= 65535 - 655)
    \/ a <= 655 /\ b >= 65535 - 655

Empty == [q |-> <<>>, mNewInputData |-> FALSE, mSavedFrameNum |-> 0,
          mLastPlayedSeqNum |-> 0, mLastPlayedTimestamp |-> 0, mFirTimeStamp |-> 0, lost |-> <<>>,
          mResponseWaitTime |-> FALSE]

(***************************************************************************)
(* Add.  What is older than the last entry got is dropped, and so is what  *)
(* is there already; a marker that proves not to be the last of its frame  *)
(* is cleared.                                                             *)
(***************************************************************************)
Size(e) == e.to - e.from + (IF e.header THEN 4 ELSE 0)
SameBuffer(e, f) == e.seq = f.seq /\ Size(e) = Size(f)
IsConfig(e) == e.type = "CONFIGSTRING"

TooLate(jb, e) == jb.mLastPlayedTimestamp # 0 /\ ~RoundCompare(e.seq, jb.mLastPlayedSeqNum)
FirstLater(q, e) == SelectInSeq(q, LAMBDA f : ~RoundCompare(e.seq, f.seq))
Place(q, e) == IF RoundCompare(e.seq, Last(q).seq) THEN Append(q, e) ELSE InsertAt(q, FirstLater(q, e), e)
\* A buffer in its place is searched up to there, and at the end only the last is.
IsThere(q, e) ==
    IF RoundCompare(e.seq, Last(q).seq) THEN SameBuffer(e, Last(q))
    ELSE \E i \in 1 .. FirstLater(q, e) : SameBuffer(e, q[i])
ClearMarkers(q, e) ==
    [i \in DOMAIN q |-> [q[i] EXCEPT !.mark =
        @ /\ ~(/\ q[i].seq # e.seq /\ q[i].ts = e.ts /\ ~IsConfig(q[i])
               /\ \A j \in 1 .. i : RoundCompare(e.seq, q[j].seq))]]

Add(jb, entry) ==
    LET e == [entry EXCEPT !.mark = @ \/ (entry.header /\ IsConfig(entry))] IN
    IF e.header /\ e.type = "SEI_FRAME" THEN jb
    ELSE IF TooLate(jb, e) THEN [jb EXCEPT !.mNewInputData = TRUE]
    ELSE IF jb.q = <<>> THEN [jb EXCEPT !.q = <<e>>, !.mNewInputData = TRUE]
    ELSE IF IsThere(jb.q, e) THEN jb
    ELSE [jb EXCEPT !.q = ClearMarkers(Place(@, e), e), !.mNewInputData = TRUE]

(***************************************************************************)
(* Lost packets: each is asked for twice, and then a new picture is.       *)
(***************************************************************************)
SEQ_INCREASE(seq) == (seq + 1) % U16
MaxLossGap == 15

RemovePacketFromLostList(lost, seq, old) ==
    SelectSeq(lost, LAMBDA l : ~((old /\ l.seq < seq) \/ l.seq = seq))

\* One pass over the numbers of a gap; n counts those to ask for.
UpdateNackStatus(acc, i) ==
    LET l == acc.lost[i]
        Set(option) == [acc.lost EXCEPT ![i] = [@ EXCEPT !.option = option, !.age = 0]] IN
    CASE l.option = "none" /\ l.age >= 1 -> [acc EXCEPT !.lost = Set("initial"), !.n = @ + 1]
      [] l.option = "initial" /\ l.age >= 2 -> [acc EXCEPT !.lost = Set("second"), !.n = @ + 1]
      [] l.option = "second" /\ l.age >= 2 -> [acc EXCEPT !.lost = Set("pli"), !.nPLIPkt = l.seq, !.pli = TRUE]
      [] l.option = "pli" /\ l.age >= 2 -> [acc EXCEPT !.lost = Set("pli"), !.nPLIPkt = l.seq]
      [] OTHER -> acc
UpdateLostPacketList(acc, seq) ==
    LET i == SelectInSeq(acc.lost, LAMBDA l : l.seq = seq) IN
    IF i = 0 THEN [acc EXCEPT !.lost = Append(@, [seq |-> seq, option |-> "none", age |-> 0])]
    ELSE UpdateNackStatus(acc, i)

LossGap(last, seq) ==
    LET pid == SEQ_INCREASE(last)
        gap == IF last > seq /\ last > 65520 /\ seq < 15 THEN 65535 - last + seq ELSE (seq - pid) % U16 IN
    IF gap > MaxLossGap THEN MaxLossGap ELSE gap

\* What the entry seq after the entry last asks for: [lost, nacks, pli].  A NACK is
\* its first number and how many from there on the bit mask names.
Gap(pid, seq, last) == [k \in 1 .. LossGap(last, seq) |-> (pid + k - 1) % U16]
Asked(acc, pid, seq) ==
    LET PID == IF acc.nPLIPkt > pid THEN (acc.nPLIPkt + 1) % U16 ELSE pid IN
    [lost |-> acc.lost, pli |-> acc.pli,
     nacks |-> IF PID = seq \/ acc.n = 0 THEN {} ELSE {[PID |-> PID, n |-> acc.n]}]
CheckPacketLoss(lost, seq, last) ==
    LET pid == SEQ_INCREASE(last)
        acc == [lost |-> RemovePacketFromLostList(lost, seq, FALSE), n |-> 0, nPLIPkt |-> 0, pli |-> FALSE] IN
    Asked(IF pid = seq \/ last = seq THEN acc ELSE FoldLeft(UpdateLostPacketList, acc, Gap(pid, seq, last)), pid, seq)

\* Mutant: one bit too many.
NamedAndNext(nack) == {(nack.PID + k) % U16 : k \in 0 .. nack.n}
Named(nack) == {(nack.PID + k) % U16 : k \in 0 .. nack.n - 1}

(***************************************************************************)
(* Get.  The queue is gone through once for each change of it: the frames  *)
(* are counted, the gaps asked for, and a frame becomes valid when as many *)
(* entries as sequence numbers lie between its header and its marker.      *)
(***************************************************************************)
\* Mutant: a marker is enough.
IsWholeAtMarker(n, seq, hSeq) == TRUE
IsWhole(n, seq, hSeq) == n = seq - hSeq

ScanOne(acc, i, e, loss) ==
    LET frame == ~IsConfig(e) /\ (e.ts # acc.ts \/ acc.ts = 0)
        idrs == acc.idrs + (IF frame /\ e.type = "IDR_FRAME" THEN 1 ELSE 0)
        fir == idrs = mIDRCheckCnt /\ e.type = "IDR_FRAME" /\ ~e.valid /\ e.ts # acc.firTs
        begins == e.header /\ ~e.mark /\ (~acc.found \/ e.ts < acc.hTs \/ acc.hTs = 0)
        found == IF e.header /\ e.mark /\ e.ts > acc.hTs THEN FALSE ELSE acc.found \/ begins
        hIndex == IF begins THEN i ELSE acc.hIndex
        hSeq == IF begins THEN e.seq ELSE acc.hSeq
        whole == found /\ e.mark /\ IsWhole(i - hIndex, e.seq, hSeq) IN
    [acc EXCEPT
        !.q = [k \in DOMAIN @ |-> IF (k = i /\ e.header /\ e.mark) \/ (whole /\ k \in hIndex .. i)
                                  THEN [@[k] EXCEPT !.valid = TRUE] ELSE @[k]],
        !.lost = loss.lost, !.nacks = @ \cup loss.nacks, !.pli = @ \/ loss.pli,
        !.seq = e.seq, !.ts = IF frame THEN e.ts ELSE @,
        !.saved = @ + (IF frame THEN 1 ELSE 0), !.idrs = idrs,
        !.fir = @ \/ fir, !.firTs = IF fir THEN e.ts ELSE @,
        !.found = found /\ ~e.mark, !.hIndex = hIndex, !.hSeq = hSeq, !.hTs = IF begins THEN e.ts ELSE @]
Loss(jb, acc, e) ==
    IF jb.mResponseWaitTime /\ acc.ts # 0 THEN CheckPacketLoss(acc.lost, e.seq, acc.seq)
    ELSE [lost |-> acc.lost, nacks |-> {}, pli |-> FALSE]
ScanEntry(jb, acc, i) == ScanOne(acc, i, acc.q[i], Loss(jb, acc, acc.q[i]))
Scan(jb) ==
    LET pass[i \in 0 .. Len(jb.q)] ==
            IF i = 0 THEN [q |-> jb.q, lost |-> jb.lost, nacks |-> {}, pli |-> FALSE, seq |-> 0, ts |-> 0,
                           saved |-> 0, idrs |-> 0, fir |-> FALSE, firTs |-> jb.mFirTimeStamp,
                           found |-> FALSE, hIndex |-> 1, hSeq |-> 0, hTs |-> 0]
            ELSE ScanEntry(jb, pass[i - 1], i) IN
    pass[Len(jb.q)]

\* One frame too many and the oldest is not whole: it goes.
FrameLength(q) == IF \E i \in DOMAIN q : q[i].ts # q[1].ts
                  THEN SelectInSeq(q, LAMBDA e : e.ts # q[1].ts) - 1 ELSE Len(q)
Trim(jb) ==
    LET n == FrameLength(jb.q) IN
    IF jb.mSavedFrameNum > mMaxSaveFrameNum /\ ~jb.q[1].valid
    THEN [jb EXCEPT !.q = SubSeq(@, n + 1, Len(@)), !.mSavedFrameNum = @ - 1,
                    !.lost = RemovePacketFromLostList(@, jb.q[n].seq, TRUE)]
    ELSE jb
\* When the buffer is full, what is missing before its head is no longer waited for.
\* Mutant: it is.
GoOnWaiting(jb) == jb
GoOn(jb) == IF jb.mSavedFrameNum >= mMaxSaveFrameNum
            THEN [jb EXCEPT !.mLastPlayedSeqNum = (jb.q[1].seq - 1) % U16] ELSE jb

Refreshed(jb, s) ==
    [buffer |-> IF ~jb.mNewInputData THEN jb
                ELSE [GoOn(Trim([jb EXCEPT !.q = s.q, !.lost = s.lost, !.mSavedFrameNum = s.saved,
                                           !.mFirTimeStamp = s.firTs]))
                      EXCEPT !.mNewInputData = FALSE],
     nacks |-> IF jb.mNewInputData THEN s.nacks ELSE {},
     pli |-> jb.mNewInputData /\ s.pli, fir |-> jb.mNewInputData /\ s.fir]
Refresh(jb) == Refreshed(jb, Scan(jb))

CanPlay(jb) ==
    /\ jb.mSavedFrameNum >= mMaxSaveFrameNum \div 2 /\ jb.q # <<>> /\ jb.q[1].valid
    /\ jb.mLastPlayedSeqNum = 0 \/ jb.q[1].seq <= jb.mLastPlayedSeqNum + 1
\* The pacing holds back only the first entry of a frame with a later timestamp.
PacingDecides(jb) == jb.mLastPlayedTimestamp # 0 /\ jb.q[1].ts > jb.mLastPlayedTimestamp

\* The buffer after Get, given whether the time has come, and what it asks for.
Got(r, goes) ==
    [goes |-> goes, nacks |-> r.nacks,
     buffer |-> IF goes THEN [r.buffer EXCEPT !.mNewInputData = TRUE, !.mLastPlayedTimestamp = r.buffer.q[1].ts,
                                              !.mLastPlayedSeqNum = r.buffer.q[1].seq]
                ELSE [r.buffer EXCEPT !.mNewInputData = @ \/ CanPlay(r.buffer)]]
GetFrom(r, due) == Got(r, CanPlay(r.buffer) /\ (due \/ ~PacingDecides(r.buffer)))
Get(jb, due) == GetFrom(Refresh(jb), due)

Delete(jb) ==
    IF jb.q = <<>> THEN jb
    ELSE [jb EXCEPT !.q = Tail(@), !.mLastPlayedSeqNum = jb.q[1].seq, !.mNewInputData = TRUE,
                    !.lost = RemovePacketFromLostList(@, jb.q[1].seq, TRUE)]

PassTime(jb) == [jb EXCEPT !.lost = [i \in DOMAIN @ |-> [@[i] EXCEPT !.age = IF @ < 2 THEN @ + 1 ELSE @]]]
=============================================================================
