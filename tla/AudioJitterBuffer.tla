------------------------- MODULE AudioJitterBuffer -------------------------
(***************************************************************************)
(* core/audio/AudioJitterBuffer.cpp: the queue between the receiver, which *)
(* adds packets in the order of the network, and the player, which takes   *)
(* one frame every FRAME_INTERVAL.  Add, Get, Delete and                   *)
(* SetAdditionalDelay each hold mMutex; here they are functions of the     *)
(* buffer, and AudioReceivePath lets the threads call them.                *)
(*                                                                         *)
(* The estimate of JitterNetworkAnalyser.cpp and the share of dropped      *)
(* voice are arguments: any value the code can compute is allowed.         *)
(***************************************************************************)
EXTENDS Integers, Sequences, SequencesExt

CONSTANTS Frame,        \* FRAME_INTERVAL
          Allowable,    \* ALLOWABLE_ERROR
          SeqSpace,     \* sequence numbers of RTP, 2^16 in the code
          SeqGuard,     \* SEQ_ROUND_QUARD
          Outlier,      \* SEQ_OUTLIER_THRESHOLD
          TsWidth,      \* values of an unsigned integer, 2^32 in the code
          TsLimit,      \* 0xffff
          TsGuard,      \* TS_ROUND_QUARD
          StartPhase,   \* the 3000 ms in which the queue is kept short
          InitSize, MinSize, MaxSize,   \* JITTER_BUFFER_SIZE_*
          QueueLimit,   \* MAX_QUEUE_SIZE
          StepSize,     \* BUFFER_IN_DECREASE_SIZE
          NoFrame

ASSUME SizesAssumption ==
    /\ MinSize \in Nat \ {0} /\ InitSize \in MinSize .. MaxSize
    /\ MaxSize \in MinSize .. QueueLimit /\ QueueLimit \in Nat
ASSUME UnitsAssumption ==
    /\ Frame \in Nat \ {0} /\ Allowable \in 0 .. Frame
    /\ SeqSpace \in Nat /\ SeqGuard \in 0 .. SeqSpace - 1
    /\ TsWidth \in Nat /\ TsLimit \in 0 .. TsWidth - 1 /\ TsGuard \in 0 .. TsLimit

\* The same bits as an unsigned and as a signed integer.
Unsigned(n) == n % TsWidth
Signed(n) == Unsigned(n + TsWidth \div 2) - TsWidth \div 2

\* USHORT_SEQ_ROUND_COMPARE: a comes after b or is b.
SeqAtLeast(a, b) ==
    \/ a >= b /\ (b >= SeqGuard \/ a <= SeqSpace - 1 - SeqGuard)
    \/ a <= SeqGuard /\ b >= SeqSpace - 1 - SeqGuard

\* USHORT_TS_ROUND_COMPARE
TsAtLeast(a, b) ==
    \/ a >= b /\ (b >= TsGuard \/ a <= TsLimit - TsGuard)
    \/ a <= TsGuard /\ b >= TsLimit - TsGuard

\* The entry RtpDecoderNode queues before the first packet of a new SSRC.
Marker(ssrc) == [ssrc |-> ssrc, seq |-> 0, ts |-> 0, kind |-> "refreshed"]

EmptyBuffer ==
    [queue |-> <<>>, mCurrPlayingTS |-> 0, mCurrJitterBufferSize |-> InitSize,
     mUpdatedDelay |-> 0, mWaiting |-> TRUE, mDtxPlayed |-> FALSE, mPreservedDtx |-> NoFrame,
     mLastPlayedSeqNum |-> 0, mLastPlayedTimestamp |-> 0, mFirstFrameReceived |-> FALSE,
     mTimeStarted |-> 0, mAdditionalDelay |-> 0, dropped |-> FALSE]

Queued(b) == b.queue # <<>>
First(b) == Head(b.queue)
WithoutFirst(b) == [b EXCEPT !.queue = Tail(@)]

-----------------------------------------------------------------------------
(* Add *)

AddMarker(b, ssrc, arrivalTime) ==
    [b EXCEPT !.queue = Append(@, Marker(ssrc)),
              !.mTimeStarted = arrivalTime,
              !.mCurrJitterBufferSize = InitSize]

\* Mutant: a packet that comes after a later one is not queued.
InsertLastOnly(queue, e) ==
    IF queue = <<>> \/ SeqAtLeast(e.seq, Last(queue).seq) THEN Append(queue, e) ELSE queue

\* At the end, or else before the first entry that comes later.
Insert(queue, e) ==
    LET Later(f) == ~SeqAtLeast(e.seq, f.seq)
        i == SelectInSeq(queue, Later)
    IN  IF queue = <<>> \/ SeqAtLeast(e.seq, Last(queue).seq) THEN Append(queue, e)
        ELSE IF i = 0 THEN queue ELSE InsertAt(queue, i, e)

\* JitterNetworkAnalyser::GetNextJitterBufferSize over every list of transit times: on a bad
\* network as large as needed, on one that stayed good at most StepSize less.
NextSizes(size) ==
    {size} \cup (IF size >= MaxSize THEN {MaxSize} ELSE {})
           \cup {IF n < MinSize THEN MinSize ELSE n :
                    n \in (size - StepSize) .. (size - 1) \cup (size + 1) .. MaxSize}

AddPacket(b, e, nextSize) ==
    [b EXCEPT !.queue = Insert(@, e),
              !.mUpdatedDelay =
                  IF ~b.mWaiting /\ @ = 0 THEN Signed(nextSize - b.mCurrJitterBufferSize)
                  ELSE @]

-----------------------------------------------------------------------------
(* Get. A result is the buffer, the frame handed out or NoFrame, and the set *)
(* of the reports on the way: <<status, seq>>, or <<"lost", first, count>>.  *)

Result(b, out, reports) == [buffer |-> b, out |-> out, reports |-> reports]

\* Reset() at the marker of a new SSRC.
Refreshed(b) ==
    IF Queued(b) /\ First(b).kind = "refreshed"
    THEN [EmptyBuffer EXCEPT !.queue = Tail(b.queue),
                             !.mCurrPlayingTS = b.mCurrPlayingTS,
                             !.mTimeStarted = b.mTimeStarted,
                             !.mCurrJitterBufferSize = b.mCurrJitterBufferSize]
    ELSE b

MustGrow(b) == ~b.mWaiting /\ b.mDtxPlayed /\ b.mUpdatedDelay > 0

Grown(b) == [b EXCEPT !.mUpdatedDelay = @ - 1, !.mCurrJitterBufferSize = Unsigned(@ + 1)]

Shrunk(b) ==
    IF ~b.mWaiting /\ Queued(b) /\ First(b).kind = "sid" /\ b.mUpdatedDelay < 0
    THEN [b EXCEPT !.mUpdatedDelay = @ + 1, !.mCurrJitterBufferSize = Unsigned(@ - 1),
                   !.mCurrPlayingTS = Unsigned(@ + Frame)]
    ELSE b

\* Too much voice was dropped lately: wait again at the largest size, play later below it.
AfterDrops(b, tooMany, now) ==
    IF ~tooMany THEN b
    ELSE IF b.mCurrJitterBufferSize = MaxSize
    THEN [b EXCEPT !.mWaiting = TRUE, !.mTimeStarted = now, !.dropped = FALSE]
    ELSE [b EXCEPT !.mCurrPlayingTS = Unsigned(@ - Frame),
                   !.mCurrJitterBufferSize = Unsigned(@ + 1), !.dropped = FALSE]

StillWaiting(b, now) ==
    b.mWaiting /\ now - b.mTimeStarted + Allowable < Unsigned(b.mCurrJitterBufferSize * Frame)

\* Resync(): keep the last spare entries and play from the first of them.
Resync(b, spare) ==
    LET excess == IF Len(b.queue) > spare THEN Len(b.queue) - spare ELSE 0
        last == b.queue[excess]
        rest == SubSeq(b.queue, excess + 1, Len(b.queue))
    IN  [b EXCEPT !.queue = rest,
                  !.mLastPlayedSeqNum = IF excess > 0 /\ ~b.mWaiting THEN last.seq ELSE @,
                  !.mLastPlayedTimestamp = IF excess > 0 /\ ~b.mWaiting THEN last.ts ELSE @,
                  !.mCurrPlayingTS =
                      IF (b.mWaiting \/ excess > 0) /\ rest # <<>> THEN Head(rest).ts ELSE @]

\* CountLostFrames()
Lost(seq, lastSeq) ==
    LET gap == (seq - lastSeq) % SeqSpace
    IN  IF gap > 1 /\ gap < Outlier THEN {<<"lost", (lastSeq + 1) % SeqSpace, gap - 1>>} ELSE {}

Statuses(status, entries) == {<<status, e.seq>> : e \in entries}

Discarded(b, spare) ==
    Statuses("discarded", {b.queue[i] : i \in {j \in DOMAIN b.queue :
                                j <= Len(b.queue) - spare /\ b.queue[j].kind # "sid"}})

\* How many entries at the front satisfy a condition.
Leading(queue, Holds(_)) ==
    LET Fails(e) == ~Holds(e)
        i == SelectInSeq(queue, Fails)
    IN  IF i = 0 THEN Len(queue) ELSE i - 1

\* Entries that repeat the last frame played.
Repeats(b) ==
    LET Repeat(e) == e.seq = b.mLastPlayedSeqNum /\ e.ts = b.mLastPlayedTimestamp
    IN  IF b.mFirstFrameReceived THEN Leading(b.queue, Repeat) ELSE 0

Dropping(b, n) == [b EXCEPT !.queue = SubSeq(@, n + 1, Len(@))]

\* Follow a source whose timestamps shift by less than a frame.
Adjusted(b) ==
    IF /\ Queued(b)
       /\ Unsigned(b.mCurrPlayingTS - Allowable) <= First(b).ts
       /\ First(b).ts <= Unsigned(b.mCurrPlayingTS + Allowable)
    THEN [b EXCEPT !.mCurrPlayingTS = First(b).ts]
    ELSE b

\* Drop one late entry; a SID is kept to be played in place of a missing frame.
DropLate(r, e) ==
    LET b == r.buffer
        newer == e.seq >= b.mLastPlayedSeqNum
        sid == e.kind = "sid"
    IN  Result([b EXCEPT !.queue = Tail(@),
                         !.mDtxPlayed = sid,
                         !.mPreservedDtx = IF sid THEN e ELSE NoFrame,
                         !.mLastPlayedSeqNum = IF newer THEN e.seq ELSE @,
                         !.mLastPlayedTimestamp = IF newer THEN e.ts ELSE @,
                         !.dropped = @ \/ ~sid],
               NoFrame,
               r.reports \cup (IF newer THEN Lost(e.seq, b.mLastPlayedSeqNum) ELSE {})
                         \cup (IF sid THEN {} ELSE Statuses("late", {e})))

\* Mutant: late entries are kept.
DropNoneLate(r) == r

DropAllLate(r) ==
    LET queue == r.buffer.queue
        Late(e) == ~TsAtLeast(e.ts, r.buffer.mCurrPlayingTS)
        dropped[n \in 0 .. Len(queue)] ==
            IF n = 0 THEN r ELSE DropLate(dropped[n - 1], queue[n])
    IN  dropped[Leading(queue, Late)]

\* The first entry is due, or so far ahead that the timestamps must have changed.
Due(b) ==
    /\ Queued(b)
    /\ \/ First(b).ts = b.mCurrPlayingTS
       \/ Unsigned(First(b).ts - b.mCurrPlayingTS) > TsGuard
       \/ First(b).ts < TsGuard /\ b.mCurrPlayingTS > TsLimit

PlayFirst(r) ==
    LET b == r.buffer
        e == First(b)
    IN  Result([b EXCEPT !.mDtxPlayed = (e.kind = "sid"),
                         !.mCurrPlayingTS = Unsigned(e.ts + Frame),
                         !.mFirstFrameReceived = TRUE,
                         !.mLastPlayedSeqNum = e.seq,
                         !.mLastPlayedTimestamp = e.ts,
                         !.mPreservedDtx = NoFrame],
               e,
               r.reports \cup (IF b.mFirstFrameReceived THEN Lost(e.seq, b.mLastPlayedSeqNum)
                                                        ELSE {})
                         \cup Statuses("normal", {e}))

\* The late SID takes the place of the frame that is missing.
PlayPreserved(r) ==
    LET b == r.buffer
        e == b.mPreservedDtx
    IN  Result([b EXCEPT !.queue = <<e>> \o @,
                         !.mPreservedDtx = NoFrame,
                         !.mLastPlayedSeqNum = e.seq,
                         !.mLastPlayedTimestamp = e.ts,
                         !.mCurrPlayingTS = Unsigned(@ + Frame)],
               e, r.reports)

PlayNothing(r) ==
    Result([r.buffer EXCEPT !.mCurrPlayingTS = Unsigned(@ + Frame)], NoFrame, r.reports)

Play(r) ==
    IF Due(r.buffer) THEN PlayFirst(r)
    ELSE IF r.buffer.mPreservedDtx # NoFrame THEN PlayPreserved(r) ELSE PlayNothing(r)

\* From the report of duplicates on: the queue was not empty and playing has begun.
Playing(b, reports, now) ==
    LET repeats == Repeats(b)
        fresh == Dropping(b, repeats)
        spare == IF now - b.mTimeStarted < StartPhase THEN MaxSize ELSE QueueLimit
    IN  Play(DropAllLate(Result(
            Adjusted(Resync(fresh, spare)), NoFrame,
            reports \cup Statuses("duplicated", {b.queue[i] : i \in 1 .. repeats})
                    \cup Discarded(fresh, spare))))

Started(b, now) ==
    LET spare == Unsigned(b.mCurrJitterBufferSize + 1)
    IN  IF b.mWaiting
        THEN Playing([Resync(b, spare) EXCEPT !.mWaiting = FALSE], Discarded(b, spare), now)
        ELSE Playing(b, {}, now)

Get(buffer, tooManyDrops, now) ==
    LET b == Refreshed(buffer)
        c == AfterDrops(Shrunk(b), tooManyDrops /\ b.dropped, now)
    IN  IF MustGrow(b) THEN Result(Grown(b), NoFrame, {})
        ELSE IF ~Queued(c)
        THEN Result([c EXCEPT !.mCurrPlayingTS =
                                  IF c.mWaiting THEN @ ELSE Unsigned(@ + Frame)], NoFrame, {})
        ELSE IF StillWaiting(c, now) THEN Result(c, NoFrame, {})
        ELSE Started(c, now)

-----------------------------------------------------------------------------

\* BaseJitterBuffer::Delete(): whatever is first by now.
Delete(b) == IF Queued(b) THEN WithoutFirst(b) ELSE b

SetAdditionalDelay(b, frames) ==
    LET more == frames - b.mAdditionalDelay
    IN  IF b.mWaiting \/ ~b.mFirstFrameReceived THEN b
        ELSE [b EXCEPT !.mAdditionalDelay = frames,
                       !.mCurrPlayingTS = Unsigned(@ - more * Frame),
                       !.mCurrJitterBufferSize = Unsigned(@ + more)]
=============================================================================
