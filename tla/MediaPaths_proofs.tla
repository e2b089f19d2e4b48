--------------------------- MODULE MediaPaths_proofs ---------------------------
(***************************************************************************)
(* Voice through the jitter buffer: for every call, every order, loss and  *)
(* repetition of its packets, every size of the buffer and every schedule  *)
(* of the threads, a voice packet that was delivered is on its way to the  *)
(* player or in the quality report.                                        *)
(*                                                                         *)
(* A step of the player is a chain of functions of the buffer: each either *)
(* keeps the voice that is queued or reports it.  DropAllLate repeats a    *)
(* step as long as late entries are in front; what the repetition keeps is *)
(* shown with the least number of steps at which it would not.             *)
(*                                                                         *)
(* DTMF digits through the sender, the network and the peer: for every     *)
(* number of digits and every duration, however packets are lost, doubled  *)
(* and queued while others are sent.  A packet has a rank in the order of  *)
(* sending; ranks ascend from the network over the queue to what is still  *)
(* to be queued, and what the peer knows is compared with the ranks ahead. *)
(***************************************************************************)
EXTENDS AudioReceivePath, DtmfPath, SequenceTheorems, WellFoundedInduction, TLAPS

USE SizesAssumption, UnitsAssumption

(* The least element of a set of numbers. *)
LessThan == {p \in Nat \X Nat : p[1] < p[2]}

\* No set of natural numbers descends for ever.
LEMMA LessThanIsWellFounded == IsWellFoundedOn(LessThan, Nat)
<1>1. LessThan = OpToRel(<, Nat)
  BY Zenon DEF LessThan, OpToRel
<1> QED
  BY <1>1, NatLessThanWellFounded

\* A set of natural numbers that is not empty has a least element.
LEMMA LeastNat == ASSUME NEW T \in SUBSET Nat, T # {} PROVE \E x \in T : \A y \in T : x <= y
<1>4. PICK x \in T : \A y \in T : ~ (<<y, x>> \in LessThan)
  BY LessThanIsWellFounded, WFMin
<1>5. ASSUME NEW y \in T PROVE x <= y
  <2>1. x \in Nat /\ y \in Nat
    OBVIOUS
  <2>2. y < x => <<y, x>> \in LessThan
    BY <2>1 DEF LessThan
  <2> QED
    BY <1>4, <2>1, <2>2
<1> QED
  BY <1>5

\* Min of FiniteSetsExt is that element.
LEMMA MinIsIn == ASSUME NEW I \in SUBSET Nat, I # {} PROVE Min(I) \in I /\ \A i \in I : Min(I) <= i
  BY LeastNat DEF Min

\* The entries from the sources S, and the buffers of them.
Entry(S) == [ssrc : S, seq : 0 .. SeqSpace - 1, ts : 0 .. TsWidth - 1,
             kind : {"voice", "sid", "refreshed"}]

Buffer(S) ==
    [queue : Seq(Entry(S)), mCurrPlayingTS : 0 .. TsWidth - 1, mCurrJitterBufferSize : Nat,
     mUpdatedDelay : Int, mWaiting : BOOLEAN, mDtxPlayed : BOOLEAN,
     mPreservedDtx : {e \in Entry(S) : e.kind = "sid"} \cup {NoFrame},
     mLastPlayedSeqNum : 0 .. SeqSpace - 1, mLastPlayedTimestamp : 0 .. TsWidth - 1,
     mFirstFrameReceived : BOOLEAN, mTimeStarted : Nat, mAdditionalDelay : Int, dropped : BOOLEAN]

\* The voice packets that are queued.
Voice(b) == {e \in ToSet(b.queue) : e.kind = "voice"}

\* The set of reports R accounts for entry e.
Told(e, R) == \E status \in {"normal", "late", "discarded", "duplicated"} : <<status, e.seq>> \in R

\* What b has of voice is still in c or reported in R.
Accounts(b, c, R) == \A e \in Voice(b) : e \in ToSet(c.queue) \/ Told(e, R)

\* Unsigned yields an unsigned integer.
LEMMA UnsignedType ==
  ASSUME NEW n \in Int
  PROVE  Unsigned(n) \in 0 .. TsWidth - 1 /\ Unsigned(n) \in Nat
  BY DEF Unsigned

\* The buffer as it is constructed and reset.
LEMMA EmptyType == ASSUME NEW S PROVE EmptyBuffer \in Buffer(S)
<1>1. /\ 0 \in 0 .. TsWidth - 1 /\ 0 \in 0 .. SeqSpace - 1 /\ InitSize \in Nat
      /\ 0 \in Nat /\ 0 \in Int
  OBVIOUS
<1>2. <<>> \in Seq(Entry(S))
  OBVIOUS
<1> QED
  BY <1>1, <1>2 DEF EmptyBuffer, Buffer

\* Reset() at the marker of a new SSRC takes nothing but the marker.
LEMMA RefreshedKeeps ==
  ASSUME NEW S, NEW b \in Buffer(S)
  PROVE  Refreshed(b) \in Buffer(S) /\ Accounts(b, Refreshed(b), {})
<1>1. CASE Queued(b) /\ First(b).kind = "refreshed"
  <2>1. b.queue \in Seq(Entry(S)) /\ b.queue # <<>>
    BY <1>1 DEF Buffer, Queued
  <2>2. /\ Tail(b.queue) \in Seq(Entry(S)) /\ Len(Tail(b.queue)) = Len(b.queue) - 1
        /\ \A i \in 1 .. Len(Tail(b.queue)) : Tail(b.queue)[i] = b.queue[i + 1]
    BY <2>1, HeadTailProperties
  <2>3. Refreshed(b) \in Buffer(S)
    BY <1>1, <2>2, EmptyType DEF Refreshed, Buffer
  <2>5. Refreshed(b).queue = Tail(b.queue)
    BY <1>1, <2>2 DEF Refreshed, Buffer, EmptyBuffer
  <2>4. ASSUME NEW e \in Voice(b) PROVE e \in ToSet(Tail(b.queue))
    <3>1. PICK i \in 1 .. Len(b.queue) : e = b.queue[i]
      BY <2>1, LenProperties DEF Voice, ToSet
    <3>2. i # 1
      BY <1>1, <3>1, <2>1 DEF First, Voice
    <3>3. i - 1 \in 1 .. Len(Tail(b.queue)) /\ Tail(b.queue)[i - 1] = e
      BY <3>1, <3>2, <2>2, <2>1, LenProperties
    <3> QED
      BY <3>3, <2>2, LenProperties DEF ToSet
  <2> QED
    BY <2>3, <2>4, <2>5 DEF Accounts
<1>2. CASE ~(Queued(b) /\ First(b).kind = "refreshed")
  BY <1>2 DEF Refreshed, Accounts, Voice
<1> QED
  BY <1>1, <1>2

\* The types of the members the steps read.
LEMMA Fields ==
  ASSUME NEW S, NEW b \in Buffer(S)
  PROVE  /\ b.queue \in Seq(Entry(S))
         /\ b.mCurrPlayingTS \in 0 .. TsWidth - 1 /\ b.mCurrPlayingTS \in Nat
         /\ b.mCurrJitterBufferSize \in Nat /\ b.mUpdatedDelay \in Int
         /\ b.mAdditionalDelay \in Int /\ Frame \in Nat /\ Allowable \in Nat
         /\ b.mLastPlayedSeqNum \in 0 .. SeqSpace - 1
         /\ b.mPreservedDtx # NoFrame =>
                b.mPreservedDtx \in Entry(S) /\ b.mPreservedDtx.kind = "sid"
<1>1. /\ b.queue \in Seq(Entry(S)) /\ b.mCurrPlayingTS \in 0 .. TsWidth - 1
      /\ b.mCurrJitterBufferSize \in Nat /\ b.mUpdatedDelay \in Int
      /\ b.mAdditionalDelay \in Int /\ b.mLastPlayedSeqNum \in 0 .. SeqSpace - 1
  BY DEF Buffer
<1>2. b.mPreservedDtx # NoFrame => b.mPreservedDtx \in Entry(S) /\ b.mPreservedDtx.kind = "sid"
  BY DEF Buffer
<1> QED
  BY <1>1, <1>2

\* Unsigned of a sum and of a difference.
LEMMA Wraps ==
  \A x, y \in Int : /\ Unsigned(x + y) \in 0 .. TsWidth - 1 /\ Unsigned(x + y) \in Nat
                    /\ Unsigned(x - y) \in 0 .. TsWidth - 1 /\ Unsigned(x - y) \in Nat
<1>1. \A x, y \in Int : x + y \in Int /\ x - y \in Int
  OBVIOUS
<1> QED
  BY <1>1, UnsignedType

\* Growing leaves the queue alone.
LEMMA GrownType ==
  ASSUME NEW S, NEW b \in Buffer(S)
  PROVE  Grown(b) \in Buffer(S) /\ Grown(b).queue = b.queue
<1>0. /\ b.mCurrJitterBufferSize \in Int /\ b.mUpdatedDelay \in Int /\ b.mCurrPlayingTS \in Int
      /\ Frame \in Int /\ b.mAdditionalDelay \in Int /\ 1 \in Int
  BY Fields
<1>1. Unsigned(b.mCurrJitterBufferSize + 1) \in Nat /\ b.mUpdatedDelay - 1 \in Int
  BY <1>0, Wraps
<1>2. Grown(b) \in Buffer(S)
  BY <1>1 DEF Grown, Buffer
<1>3. Grown(b).queue = b.queue
  BY DEF Grown, Buffer
<1> QED
  BY <1>2, <1>3

\* So does shrinking.
LEMMA ShrunkType ==
  ASSUME NEW S, NEW b \in Buffer(S)
  PROVE  Shrunk(b) \in Buffer(S) /\ Shrunk(b).queue = b.queue
<1>0. /\ b.mCurrJitterBufferSize \in Int /\ b.mUpdatedDelay \in Int /\ b.mCurrPlayingTS \in Int
      /\ Frame \in Int /\ b.mAdditionalDelay \in Int /\ 1 \in Int
  BY Fields
<1>1. Unsigned(b.mCurrJitterBufferSize - 1) \in Nat /\ b.mUpdatedDelay + 1 \in Int
      /\ Unsigned(b.mCurrPlayingTS + Frame) \in 0 .. TsWidth - 1
  BY <1>0, Wraps
<1>2. Shrunk(b) \in Buffer(S)
  BY <1>1 DEF Shrunk, Buffer
<1>3. Shrunk(b).queue = b.queue
  BY DEF Shrunk, Buffer
<1> QED
  BY <1>2, <1>3

\* So does what follows too many drops.
LEMMA AfterDropsType ==
  ASSUME NEW S, NEW b \in Buffer(S), NEW tooMany \in BOOLEAN, NEW now \in Nat
  PROVE  AfterDrops(b, tooMany, now) \in Buffer(S) /\ AfterDrops(b, tooMany, now).queue = b.queue
<1>0. /\ b.mCurrJitterBufferSize \in Int /\ b.mUpdatedDelay \in Int /\ b.mCurrPlayingTS \in Int
      /\ Frame \in Int /\ b.mAdditionalDelay \in Int /\ 1 \in Int
  BY Fields
<1>1. Unsigned(b.mCurrJitterBufferSize + 1) \in Nat
      /\ Unsigned(b.mCurrPlayingTS - Frame) \in 0 .. TsWidth - 1
  BY <1>0, Wraps
<1>2. AfterDrops(b, tooMany, now) \in Buffer(S)
  BY <1>1 DEF AfterDrops, Buffer
<1>3. AfterDrops(b, tooMany, now).queue = b.queue
  BY DEF AfterDrops, Buffer
<1> QED
  BY <1>2, <1>3

\* The first entry of a queue that is not empty.
LEMMA HeadOf ==
  ASSUME NEW S, NEW b \in Buffer(S), Queued(b)
  PROVE  /\ First(b) \in Entry(S) /\ First(b) = b.queue[1] /\ First(b) \in ToSet(b.queue)
         /\ First(b).ts \in 0 .. TsWidth - 1 /\ First(b).ts \in Nat
         /\ First(b).seq \in 0 .. SeqSpace - 1
<1>1. b.queue \in Seq(Entry(S)) /\ b.queue # <<>>
  BY Fields DEF Queued
<1>2. First(b) \in Entry(S) /\ First(b) = b.queue[1]
  BY <1>1, HeadTailProperties DEF First
<1>3. 1 \in DOMAIN b.queue
  BY <1>1, EmptySeq, LenProperties
<1>4. First(b).ts \in 0 .. TsWidth - 1 /\ First(b).seq \in 0 .. SeqSpace - 1
  BY <1>2 DEF Entry
<1> QED
  BY <1>2, <1>3, <1>4 DEF ToSet

\* Following the timestamps of the source leaves the queue alone.
LEMMA AdjustedType ==
  ASSUME NEW S, NEW b \in Buffer(S)
  PROVE  Adjusted(b) \in Buffer(S) /\ Adjusted(b).queue = b.queue
<1>1. Queued(b) => First(b).ts \in 0 .. TsWidth - 1
  BY HeadOf
<1>2. Adjusted(b) \in Buffer(S)
  BY <1>1 DEF Adjusted, Buffer
<1>3. Adjusted(b).queue = b.queue
  BY DEF Adjusted, Buffer
<1> QED
  BY <1>2, <1>3

\* SetAdditionalDelay leaves the queue alone.
LEMMA DelayType ==
  ASSUME NEW S, NEW b \in Buffer(S), NEW frames \in Int
  PROVE  /\ SetAdditionalDelay(b, frames) \in Buffer(S)
         /\ SetAdditionalDelay(b, frames).queue = b.queue
<1> DEFINE more == frames - b.mAdditionalDelay
<1>a. /\ b.mCurrJitterBufferSize \in Int /\ b.mUpdatedDelay \in Int /\ b.mCurrPlayingTS \in Int
      /\ Frame \in Int /\ b.mAdditionalDelay \in Int /\ 1 \in Int
  BY Fields
<1>0. more \in Int /\ more * Frame \in Int
  BY <1>a
<1>1. Unsigned(b.mCurrJitterBufferSize + more) \in Nat
      /\ Unsigned(b.mCurrPlayingTS - more * Frame) \in 0 .. TsWidth - 1
  BY <1>a, <1>0, Wraps
<1>2. SetAdditionalDelay(b, frames) \in Buffer(S)
  BY <1>1 DEF SetAdditionalDelay, Buffer
<1>3. SetAdditionalDelay(b, frames).queue = b.queue
  BY DEF SetAdditionalDelay, Buffer
<1> QED
  BY <1>2, <1>3

\* The n entries at the front are gone.
LEMMA Behind ==
  ASSUME NEW S, NEW q \in Seq(Entry(S)), NEW n \in 0 .. Len(q)
  PROVE  /\ SubSeq(q, n + 1, Len(q)) \in Seq(Entry(S))
         /\ Len(SubSeq(q, n + 1, Len(q))) = Len(q) - n
         /\ \A i \in 1 .. Len(q) - n : SubSeq(q, n + 1, Len(q))[i] = q[n + i]
         /\ \A e \in ToSet(q) : \/ e \in ToSet(SubSeq(q, n + 1, Len(q)))
                                \/ \E i \in 1 .. n : e = q[i]
         /\ ToSet(SubSeq(q, n + 1, Len(q))) \subseteq ToSet(q)
<1> DEFINE r == SubSeq(q, n + 1, Len(q))
<1>1. Len(q) \in Nat /\ DOMAIN q = 1 .. Len(q) /\ \A i \in 1 .. Len(q) : q[i] \in Entry(S)
  BY LenProperties
<1>0. n \in Int /\ 0 <= n /\ n <= Len(q) /\ Len(q) \in Int
  BY <1>1
<1>2. n + 1 \in Int /\ Len(q) \in Int /\ \A i \in n + 1 .. Len(q) : q[i] \in Entry(S)
  BY <1>1
<1>3. /\ r \in Seq(Entry(S))
      /\ Len(r) = IF n + 1 <= Len(q) THEN Len(q) - (n + 1) + 1 ELSE 0
      /\ \A i \in 1 .. Len(q) - (n + 1) + 1 : r[i] = q[n + 1 + i - 1]
  BY <1>2, SubSeqProperties
<1> HIDE DEF r
<1>4. Len(r) = Len(q) - n
  <2> DEFINE l == Len(q)
             m == Len(r)
  <2>1. n \in Int /\ l \in Int /\ n <= l /\ m = IF n + 1 <= l THEN l - (n + 1) + 1 ELSE 0
    BY <1>0, <1>3
  <2> HIDE DEF l, m
  <2>2. m = l - n
    BY <2>1
  <2> QED
    BY <2>2 DEF l, m
<1>5. ASSUME NEW i \in 1 .. Len(q) - n PROVE r[i] = q[n + i]
  <2>1. i \in 1 .. Len(q) - (n + 1) + 1 /\ n + 1 + i - 1 = n + i
    BY <1>0
  <2> QED
    BY <1>3, <2>1
<1>6. DOMAIN r = 1 .. Len(q) - n
  BY <1>3, <1>4, LenProperties
<1>7. ASSUME NEW e \in ToSet(q) PROVE e \in ToSet(r) \/ \E i \in 1 .. n : e = q[i]
  <2>1. PICK i \in 1 .. Len(q) : e = q[i]
    BY <1>1 DEF ToSet
  <2>2. CASE i <= n
    BY <2>1, <2>2
  <2>3. CASE i > n
    <3>1. i - n \in DOMAIN r /\ r[i - n] = e
      BY <2>1, <2>3, <1>1, <1>5, <1>6
    <3> QED
      BY <3>1 DEF ToSet
  <2> QED
    BY <2>2, <2>3, <1>1
<1>8. ASSUME NEW e \in ToSet(r) PROVE e \in ToSet(q)
  <2>1. PICK i \in 1 .. Len(q) - n : e = r[i]
    BY <1>6 DEF ToSet
  <2>2. n + i \in DOMAIN q /\ q[n + i] = e
    BY <2>1, <1>1, <1>5
  <2> QED
    BY <2>2 DEF ToSet
<1> QED
  BY <1>3, <1>4, <1>5, <1>7, <1>8 DEF r

\* What Resync() takes from the front and is not a SID is reported as discarded.
LEMMA ResyncKeeps ==
  ASSUME NEW S, NEW b \in Buffer(S), NEW spare \in Nat
  PROVE  Resync(b, spare) \in Buffer(S) /\ Accounts(b, Resync(b, spare), Discarded(b, spare))
<1> DEFINE q == b.queue
           excess == IF Len(q) > spare THEN Len(q) - spare ELSE 0
           rest == SubSeq(q, excess + 1, Len(q))
<1>1. q \in Seq(Entry(S)) /\ Len(q) \in Nat /\ DOMAIN q = 1 .. Len(q)
      /\ \A i \in 1 .. Len(q) : q[i] \in Entry(S)
  BY Fields, LenProperties
<1>2. excess \in 0 .. Len(q)
  BY <1>1
<1>3. /\ rest \in Seq(Entry(S))
      /\ \A e \in ToSet(q) : e \in ToSet(rest) \/ \E i \in 1 .. excess : e = q[i]
  <2> HIDE DEF q, excess
  <2>1. q \in Seq(Entry(S)) /\ excess \in 0 .. Len(q)
    BY <1>1, <1>2
  <2>2. \A n \in 0 .. Len(q) :
            /\ SubSeq(q, n + 1, Len(q)) \in Seq(Entry(S))
            /\ \A e \in ToSet(q) : \/ e \in ToSet(SubSeq(q, n + 1, Len(q)))
                                   \/ \E i \in 1 .. n : e = q[i]
    <3> SUFFICES ASSUME NEW n \in 0 .. Len(q)
                 PROVE  /\ SubSeq(q, n + 1, Len(q)) \in Seq(Entry(S))
                        /\ \A e \in ToSet(q) : \/ e \in ToSet(SubSeq(q, n + 1, Len(q)))
                                               \/ \E i \in 1 .. n : e = q[i]
      OBVIOUS
    <3> HIDE DEF rest
    <3> QED
      BY <2>1, Behind
  <2> QED
    BY <2>1, <2>2
<1>4. excess > 0 => /\ q[excess].seq \in 0 .. SeqSpace - 1 /\ q[excess].ts \in 0 .. TsWidth - 1
  <2>1. \A x \in Entry(S) : x.seq \in 0 .. SeqSpace - 1 /\ x.ts \in 0 .. TsWidth - 1
    BY DEF Entry
  <2> HIDE DEF q, excess, rest
  <2>2. excess > 0 => excess \in 1 .. Len(q)
    BY <1>1, <1>2
  <2>3. excess > 0 => q[excess] \in Entry(S)
    BY <1>1, <2>2, Zenon
  <2> QED
    BY <2>1, <2>3, Zenon
<1>5. rest # <<>> => Head(rest).ts \in 0 .. TsWidth - 1
  <2> HIDE DEF rest
  <2>1. rest # <<>> => Head(rest) \in Entry(S)
    BY <1>3, HeadTailProperties
  <2> QED
    BY <2>1 DEF Entry
<1>6. Resync(b, spare) \in Buffer(S)
  <2> HIDE DEF excess
  <2> QED
    BY <1>3, <1>4, <1>5 DEF Resync, Buffer, excess
<1>7. Resync(b, spare).queue = rest
  BY DEF Resync, Buffer
<1>8. ASSUME NEW e \in Voice(b), e \notin ToSet(rest) PROVE Told(e, Discarded(b, spare))
  <2>1. PICK i \in 1 .. excess : e = q[i]
    BY <1>3, <1>8 DEF Voice
  <2>2. i \in DOMAIN q /\ i <= Len(q) - spare
    BY <2>1, <1>1, <1>2
  <2>3. q[i].kind # "sid"
    BY <2>1 DEF Voice
  <2>4. <<"discarded", e.seq>> \in Discarded(b, spare)
    BY <2>1, <2>2, <2>3 DEF Discarded, Statuses
  <2> QED
    BY <2>4 DEF Told
<1> QED
  BY <1>6, <1>7, <1>8 DEF Accounts

\* The repetitions of the last frame are entries of the queue.
LEMMA LeadingType ==
  ASSUME NEW S, NEW b \in Buffer(S)
  PROVE  Repeats(b) \in 0 .. Len(b.queue)
<1>1. b.queue \in Seq(Entry(S)) /\ Len(b.queue) \in Nat
  BY Fields, LenProperties
<1> DEFINE I == {i \in 1 .. Len(b.queue) : ~(/\ b.queue[i].seq = b.mLastPlayedSeqNum
                                             /\ b.queue[i].ts = b.mLastPlayedTimestamp)}
<1>2. I # {} => Min(I) \in I
  <2>1. I \in SUBSET Nat
    BY <1>1
  <2> QED
    BY <2>1, MinIsIn
<1>3. Repeats(b) = IF b.mFirstFrameReceived
                   THEN IF (IF I # {} THEN Min(I) ELSE 0) = 0 THEN Len(b.queue)
                        ELSE (IF I # {} THEN Min(I) ELSE 0) - 1
                   ELSE 0
  BY DEF Repeats, Leading, SelectInSeq
<1> QED
  BY <1>1, <1>2, <1>3

\* What is taken as a repetition is reported as a duplicate.
LEMMA DroppingKeeps ==
  ASSUME NEW S, NEW b \in Buffer(S), NEW n \in 0 .. Len(b.queue)
  PROVE  /\ Dropping(b, n) \in Buffer(S)
         /\ Accounts(b, Dropping(b, n), Statuses("duplicated", {b.queue[i] : i \in 1 .. n}))
<1>1. b.queue \in Seq(Entry(S))
  BY Fields
<1>2. /\ SubSeq(b.queue, n + 1, Len(b.queue)) \in Seq(Entry(S))
      /\ \A e \in ToSet(b.queue) : \/ e \in ToSet(SubSeq(b.queue, n + 1, Len(b.queue)))
                                   \/ \E i \in 1 .. n : e = b.queue[i]
  BY <1>1, Behind
<1>3. Dropping(b, n) \in Buffer(S) 
  BY <1>2 DEF Dropping, Buffer
<1>4. Dropping(b, n).queue = SubSeq(b.queue, n + 1, Len(b.queue))
  BY DEF Dropping, Buffer
<1> QED
  BY <1>2, <1>3, <1>4 DEF Accounts, Voice, Told, Statuses

\* What a call that takes the buffer b with the reports R must leave.
Good(S, b, R, r) ==
    /\ r.buffer \in Buffer(S)
    /\ R \subseteq r.reports
    /\ Accounts(b, r.buffer, r.reports)

\* One late entry is taken: voice is reported as late.
LEMMA DropLateKeeps ==
  ASSUME NEW S, NEW r, r.buffer \in Buffer(S), Queued(r.buffer)
  PROVE  LET d == DropLate(r, First(r.buffer))
         IN  /\ Good(S, r.buffer, r.reports, d)
             /\ d.buffer.queue = Tail(r.buffer.queue)
             /\ d.out = NoFrame
<1> DEFINE b == r.buffer
           e == First(b)
           d == DropLate(r, e)
<1>1. b \in Buffer(S)
  OBVIOUS
<1>2. /\ e \in Entry(S) /\ e = b.queue[1]
      /\ e.ts \in 0 .. TsWidth - 1 /\ e.seq \in 0 .. SeqSpace - 1
  BY HeadOf
<1>3. /\ b.queue \in Seq(Entry(S)) /\ b.queue # <<>>
      /\ Len(b.queue) \in Nat /\ DOMAIN b.queue = 1 .. Len(b.queue)
  BY Fields, LenProperties DEF Queued
<1>4. /\ Tail(b.queue) \in Seq(Entry(S)) /\ Len(Tail(b.queue)) = Len(b.queue) - 1
      /\ \A i \in 1 .. Len(Tail(b.queue)) : Tail(b.queue)[i] = b.queue[i + 1]
      /\ DOMAIN Tail(b.queue) = 1 .. Len(Tail(b.queue))
  BY <1>3, HeadTailProperties, LenProperties
<1>5. d.buffer \in Buffer(S)
  <2> DEFINE sid == e.kind = "sid"
             kept == IF sid THEN e ELSE NoFrame
             seq == IF e.seq >= b.mLastPlayedSeqNum THEN e.seq ELSE b.mLastPlayedSeqNum
             ts == IF e.seq >= b.mLastPlayedSeqNum THEN e.ts ELSE b.mLastPlayedTimestamp
             gone == b.dropped \/ ~sid
  <2>1. sid \in BOOLEAN /\ gone \in BOOLEAN
    OBVIOUS
  <2>2. kept \in {x \in Entry(S) : x.kind = "sid"} \cup {NoFrame}
    BY <1>2
  <2>3. b.mLastPlayedTimestamp \in 0 .. TsWidth - 1 /\ b.mLastPlayedSeqNum \in 0 .. SeqSpace - 1
    BY DEF Buffer
  <2>4. seq \in 0 .. SeqSpace - 1 /\ ts \in 0 .. TsWidth - 1
    BY <1>2, <2>3
  <2>5. d.buffer = [b EXCEPT !.queue = Tail(@), !.mDtxPlayed = sid, !.mPreservedDtx = kept,
                             !.mLastPlayedSeqNum = seq, !.mLastPlayedTimestamp = ts,
                             !.dropped = gone]
    BY DEF DropLate, Result, Buffer
  <2> HIDE DEF sid, kept, seq, ts, gone, d
  <2> QED
    BY <1>1, <1>4, <2>1, <2>2, <2>4, <2>5 DEF Buffer
<1>6. d.buffer.queue = Tail(b.queue)
  BY DEF DropLate, Result, Buffer
<1>7. d.out = NoFrame /\ b \in Buffer(S) /\ r.reports \subseteq d.reports
      /\ (e.kind = "voice" => <<"late", e.seq>> \in d.reports)
  BY DEF DropLate, Result, Statuses
<1>8. ASSUME NEW x \in Voice(b), x \notin ToSet(Tail(b.queue)) PROVE Told(x, d.reports)
  <2>1. PICK i \in 1 .. Len(b.queue) : x = b.queue[i]
    BY <1>3 DEF Voice, ToSet
  <2>2. i = 1
    <3>1. CASE i # 1
      <4>1. i - 1 \in DOMAIN Tail(b.queue) /\ Tail(b.queue)[i - 1] = x
        BY <3>1, <2>1, <1>3, <1>4
      <4> QED
        BY <4>1, <1>8 DEF ToSet
    <3> QED
      BY <3>1
  <2>3. x = e /\ e.kind = "voice"
    BY <2>1, <2>2, <1>2 DEF Voice
  <2> QED
    BY <2>3, <1>7 DEF Told
<1> QED
  BY <1>5, <1>6, <1>7, <1>8 DEF Good, Accounts

\* The entries dropped one after the other, as DropAllLate defines them.
IsDropping(f, r, n) ==
    f = [i \in 0 .. n |-> IF i = 0 THEN r ELSE DropLate(f[i - 1], r.buffer.queue[i])]

\* The recursion of DropAllLate has a solution.
LEMMA DroppingExists ==
  ASSUME NEW r, NEW n \in Nat
  PROVE  \E f : IsDropping(f, r, n)
<1> DEFINE T == {m \in Nat : ~\E f : IsDropping(f, r, m)}
<1> SUFFICES ASSUME T # {} PROVE FALSE
  OBVIOUS
<1>1. PICK m \in T : \A k \in T : m <= k
  BY LeastNat
<1>2. m # 0
  <2>1. IsDropping([i \in 0 .. 0 |-> r], r, 0)
    BY DEF IsDropping
  <2> QED
    BY <2>1, <1>1
<1>3. m \in Nat /\ m - 1 \in Nat /\ m - 1 \notin T
  BY <1>1, <1>2
<1>4. PICK f : IsDropping(f, r, m - 1)
  BY <1>3
<1> DEFINE g == [i \in 0 .. m |-> IF i = m THEN DropLate(f[m - 1], r.buffer.queue[m]) ELSE f[i]]
<1>5. \A i \in 0 .. m - 1 : f[i] = IF i = 0 THEN r ELSE DropLate(f[i - 1], r.buffer.queue[i])
  BY <1>4, <1>3 DEF IsDropping
<1>6. \A i \in 0 .. m : g[i] = IF i = 0 THEN r ELSE DropLate(g[i - 1], r.buffer.queue[i])
  BY <1>3, <1>5, <1>2
<1>7. IsDropping(g, r, m)
  BY <1>6 DEF IsDropping
<1> QED
  BY <1>7, <1>1

\* One call after the other.
LEMMA GoodThenGood ==
  ASSUME NEW S, NEW b, NEW R, NEW r1, NEW r2,
         Good(S, b, R, r1), Good(S, r1.buffer, r1.reports, r2)
  PROVE  Good(S, b, R, r2)
<1>1. ASSUME NEW e \in Voice(b) PROVE e \in ToSet(r2.buffer.queue) \/ Told(e, r2.reports)
  <2>1. CASE e \in ToSet(r1.buffer.queue)
    BY <2>1 DEF Good, Accounts, Voice
  <2>2. CASE Told(e, r1.reports)
    BY <2>2 DEF Good, Told
  <2> QED
    BY <2>1, <2>2 DEF Good, Accounts
<1> QED
  BY <1>1 DEF Good, Accounts

\* After n steps of it, the first n entries are gone and reported.
LEMMA DroppedSoFar ==
  ASSUME NEW S, NEW r, r.buffer \in Buffer(S), NEW f, IsDropping(f, r, Len(r.buffer.queue)),
         NEW n \in 0 .. Len(r.buffer.queue)
  PROVE  Good(S, r.buffer, r.reports, f[n])
<1> DEFINE q == r.buffer.queue
           P(i) == /\ Good(S, r.buffer, r.reports, f[i])
                   /\ f[i].buffer.queue = SubSeq(q, i + 1, Len(q))
           T == {i \in 0 .. Len(q) : ~P(i)}
<1>1. q \in Seq(Entry(S)) /\ Len(q) \in Nat
  BY Fields, LenProperties
<1>2. \A i \in 0 .. Len(q) : f[i] = IF i = 0 THEN r ELSE DropLate(f[i - 1], q[i])
  BY <1>1 DEF IsDropping
<1> SUFFICES ASSUME T # {} PROVE FALSE
  OBVIOUS
<1>3. PICK m \in T : \A k \in T : m <= k
  <2>1. T \in SUBSET Nat
    BY <1>1
  <2> QED
    BY <2>1, LeastNat
<1>4. m # 0
  <2>1. f[0] = r
    BY <1>1, <1>2
  <2>2. SubSeq(q, 0 + 1, Len(q)) = q
    BY <1>1, SubSeqFull
  <2>3. Good(S, r.buffer, r.reports, r)
    BY DEF Good, Accounts, Voice
  <2> QED
    BY <2>1, <2>2, <2>3
<1>5. /\ m \in 1 .. Len(q) /\ m - 1 \in 0 .. Len(q) /\ m - 1 \notin T
  BY <1>1, <1>3, <1>4
<1>6. /\ Good(S, r.buffer, r.reports, f[m - 1])
      /\ f[m - 1].buffer.queue = SubSeq(q, m, Len(q))
  BY <1>5
<1>7. /\ Head(SubSeq(q, m, Len(q))) = q[m] /\ Tail(SubSeq(q, m, Len(q))) = SubSeq(q, m + 1, Len(q))
  BY <1>1, <1>5, HeadTailOfSubSeq
<1>8. SubSeq(q, m, Len(q)) # <<>>
  <2>1. Len(SubSeq(q, (m - 1) + 1, Len(q))) = Len(q) - (m - 1)
    BY <1>1, <1>5, Behind
  <2>2. m - 1 + 1 = m /\ Len(q) - (m - 1) # 0
    BY <1>1, <1>5
  <2>3. Len(SubSeq(q, m, Len(q))) # 0
    BY <2>1, <2>2
  <2>4. Len(<<>>) = 0
    OBVIOUS
  <2> QED
    BY <2>3, <2>4
<1>9. f[m - 1].buffer \in Buffer(S) /\ Queued(f[m - 1].buffer) /\ First(f[m - 1].buffer) = q[m]
  BY <1>6, <1>7, <1>8 DEF Good, Queued, First
<1>10. f[m] = DropLate(f[m - 1], First(f[m - 1].buffer))
  BY <1>2, <1>5, <1>9
<1>11. /\ Good(S, f[m - 1].buffer, f[m - 1].reports, f[m])
       /\ f[m].buffer.queue = Tail(f[m - 1].buffer.queue)
  BY <1>9, <1>10, DropLateKeeps
<1>12. P(m)
  BY <1>6, <1>7, <1>11, GoodThenGood
<1> QED
  BY <1>3, <1>12

\* All late entries are taken, and reported.
LEMMA DropAllLateKeeps ==
  ASSUME NEW S, NEW r, r.buffer \in Buffer(S)
  PROVE  Good(S, r.buffer, r.reports, DropAllLate(r))
<1> DEFINE q == r.buffer.queue
           I == {i \in 1 .. Len(q) : ~ ~TsAtLeast(q[i].ts, r.buffer.mCurrPlayingTS)}
           n == IF (IF I # {} THEN Min(I) ELSE 0) = 0 THEN Len(q)
                ELSE (IF I # {} THEN Min(I) ELSE 0) - 1
           f == CHOOSE f : f = [i \in 0 .. Len(q) |->
                                    IF i = 0 THEN r ELSE DropLate(f[i - 1], r.buffer.queue[i])]
<1>1. q \in Seq(Entry(S)) /\ Len(q) \in Nat
  BY Fields, LenProperties
<1>2. n \in 0 .. Len(q)
  <2>1. I \in SUBSET Nat
    BY <1>1
  <2>2. I # {} => Min(I) \in I
    BY <2>1, MinIsIn
  <2> QED
    BY <1>1, <2>2
<1>3. DropAllLate(r) = f[n]
  BY DEF DropAllLate, Leading, SelectInSeq
<1>4. IsDropping(f, r, Len(q))
  BY <1>1, DroppingExists DEF IsDropping
<1> HIDE DEF f, n
<1> QED
  BY <1>2, <1>3, <1>4, DroppedSoFar

\* Play leaves the queue to DeleteData, and reports voice it hands out.
LEMMA PlayKeeps ==
  ASSUME NEW S, NEW r, r.buffer \in Buffer(S)
  PROVE  /\ Good(S, r.buffer, r.reports, Play(r))
         /\ Play(r).out # NoFrame /\ Play(r).out.kind = "voice" =>
                Told(Play(r).out, Play(r).reports)
<1> DEFINE b == r.buffer
<1>0. /\ b \in Buffer(S) /\ b.queue \in Seq(Entry(S)) /\ b.mCurrPlayingTS \in Int /\ Frame \in Int
  BY Fields
<1>1. CASE Due(b)
  <2> DEFINE e == First(b)
             dtx == e.kind = "sid"
             ts == Unsigned(e.ts + Frame)
             p == PlayFirst(r)
  <2>1. /\ e.ts \in 0 .. TsWidth - 1 /\ e.seq \in 0 .. SeqSpace - 1 /\ e.ts \in Int
    BY <1>1, HeadOf DEF Due
  <2>2. ts \in 0 .. TsWidth - 1 /\ dtx \in BOOLEAN
    BY <1>0, <2>1, Wraps
  <2>3. p.buffer = [b EXCEPT !.mDtxPlayed = dtx, !.mCurrPlayingTS = ts,
                             !.mFirstFrameReceived = TRUE,
                             !.mLastPlayedSeqNum = e.seq, !.mLastPlayedTimestamp = e.ts,
                             !.mPreservedDtx = NoFrame]
    BY DEF PlayFirst, Result
  <2>4. p.out = e /\ <<"normal", e.seq>> \in p.reports /\ r.reports \subseteq p.reports
    BY DEF PlayFirst, Result, Statuses
  <2>5. Play(r) = p
    BY <1>1 DEF Play
  <2> HIDE DEF e, dtx, ts, p
  <2>6. p.buffer \in Buffer(S)
    BY <1>0, <2>1, <2>2, <2>3 DEF Buffer
  <2>7. p.buffer.queue = b.queue
    BY <1>0, <2>3 DEF Buffer
  <2> QED
    BY <2>4, <2>5, <2>6, <2>7 DEF Good, Accounts, Voice, Told
<1>2. CASE ~Due(b) /\ b.mPreservedDtx # NoFrame
  <2> DEFINE e == b.mPreservedDtx
             ts == Unsigned(b.mCurrPlayingTS + Frame)
             q == <<e>> \o b.queue
             p == PlayPreserved(r)
  <2>1. e \in Entry(S) /\ e.kind = "sid"
    BY <1>2, Fields
  <2>2. ts \in 0 .. TsWidth - 1 /\ e.ts \in 0 .. TsWidth - 1 /\ e.seq \in 0 .. SeqSpace - 1
    BY <1>0, <2>1, Wraps DEF Entry
  <2>3. p.buffer = [b EXCEPT !.queue = q, !.mPreservedDtx = NoFrame, !.mLastPlayedSeqNum = e.seq,
                             !.mLastPlayedTimestamp = e.ts, !.mCurrPlayingTS = ts]
    BY <1>0 DEF PlayPreserved, Result, Buffer
  <2>4. p.out = e /\ p.reports = r.reports
    BY DEF PlayPreserved, Result
  <2>5. Play(r) = p
    BY <1>2 DEF Play
  <2>6. q \in Seq(Entry(S)) /\ ToSet(b.queue) \subseteq ToSet(q)
    <3>1. <<e>> \in Seq(Entry(S)) /\ Len(<<e>>) = 1
      BY <2>1
    <3>2. /\ q \in Seq(Entry(S)) /\ Len(q) = 1 + Len(b.queue)
          /\ \A i \in 1 .. 1 + Len(b.queue) : q[i] = IF i <= 1 THEN <<e>>[i] ELSE b.queue[i - 1]
      BY <1>0, <3>1, ConcatProperties
    <3>3. /\ DOMAIN q = 1 .. Len(b.queue) + 1
          /\ DOMAIN b.queue = 1 .. Len(b.queue) /\ Len(b.queue) \in Nat
      BY <1>0, <3>2, LenProperties
    <3>4. ASSUME NEW i \in DOMAIN b.queue PROVE i + 1 \in DOMAIN q /\ q[i + 1] = b.queue[i]
      BY <3>2, <3>3
    <3>5. ASSUME NEW x \in ToSet(b.queue) PROVE x \in ToSet(q)
      <4>1. PICK i \in DOMAIN b.queue : x = b.queue[i]
        BY DEF ToSet
      <4>2. i + 1 \in DOMAIN q /\ q[i + 1] = x
        BY <3>4, <4>1
      <4> QED
        BY <4>2 DEF ToSet
    <3> QED
      BY <3>2, <3>5
  <2> HIDE DEF e, ts, q, p
  <2>7. p.buffer \in Buffer(S)
    BY <1>0, <2>2, <2>3, <2>6 DEF Buffer
  <2>8. p.buffer.queue = q
    BY <1>0, <2>3 DEF Buffer
  <2>9. Good(S, b, r.reports, p)
    BY <2>4, <2>6, <2>7, <2>8 DEF Good, Accounts, Voice
  <2>10. p.out.kind = "sid"
    BY <2>1, <2>4
  <2> QED
    BY <2>5, <2>9, <2>10
<1>3. CASE ~Due(b) /\ ~(b.mPreservedDtx # NoFrame)
  <2> DEFINE ts == Unsigned(b.mCurrPlayingTS + Frame)
             p == PlayNothing(r)
  <2>1. ts \in 0 .. TsWidth - 1
    BY <1>0, Wraps
  <2>2. p.buffer = [b EXCEPT !.mCurrPlayingTS = ts] /\ p.out = NoFrame /\ p.reports = r.reports
    BY <1>0 DEF PlayNothing, Result, Buffer
  <2>3. Play(r) = p
    BY <1>3 DEF Play
  <2> HIDE DEF ts, p
  <2>4. p.buffer \in Buffer(S) /\ p.buffer.queue = b.queue
    BY <1>0, <2>1, <2>2 DEF Buffer
  <2> QED
    BY <2>2, <2>3, <2>4 DEF Good, Accounts, Voice
<1> QED
  BY <1>1, <1>2, <1>3

\* From the report of duplicates to the frame that is handed out.
LEMMA PlayingKeeps ==
  ASSUME NEW S, NEW b \in Buffer(S), NEW R, NEW now \in Nat
  PROVE  LET r == Playing(b, R, now)
         IN  /\ Good(S, b, R, r)
             /\ r.out # NoFrame /\ r.out.kind = "voice" => Told(r.out, r.reports)
<1> DEFINE repeats == Repeats(b)
           fresh == Dropping(b, repeats)
           spare == IF now - b.mTimeStarted < StartPhase THEN MaxSize ELSE QueueLimit
           resynced == Resync(fresh, spare)
           doubles == Statuses("duplicated", {b.queue[i] : i \in 1 .. repeats})
           before == Result(Adjusted(resynced), NoFrame,
                            R \cup doubles \cup Discarded(fresh, spare))
           late == DropAllLate(before)
           r == Play(late)
<1>1. repeats \in 0 .. Len(b.queue)
  BY LeadingType
<1>2. fresh \in Buffer(S) /\ Accounts(b, fresh, doubles)
  BY <1>1, DroppingKeeps
<1>3. spare \in Nat
  OBVIOUS
<1>4. resynced \in Buffer(S) /\ Accounts(fresh, resynced, Discarded(fresh, spare))
  BY <1>2, <1>3, ResyncKeeps
<1>5. Adjusted(resynced) \in Buffer(S) /\ Adjusted(resynced).queue = resynced.queue
  BY <1>4, AdjustedType
<1>6. r = Playing(b, R, now)
  BY DEF Playing
<1>7. /\ before.buffer = Adjusted(resynced)
      /\ before.reports = R \cup doubles \cup Discarded(fresh, spare)
  BY DEF Result
<1> HIDE DEF repeats, fresh, spare, resynced, doubles, before
<1>8. Good(S, b, R, before)
  BY <1>2, <1>4, <1>5, <1>7 DEF Good, Accounts, Told, Voice
<1>9. Good(S, before.buffer, before.reports, late)
  BY <1>5, <1>7, DropAllLateKeeps
<1>10. Good(S, b, R, late)
  BY <1>8, <1>9, GoodThenGood
<1>11. late.buffer \in Buffer(S)
  BY <1>10 DEF Good
<1> HIDE DEF late
<1>12. /\ Good(S, late.buffer, late.reports, r)
       /\ r.out # NoFrame /\ r.out.kind = "voice" => Told(r.out, r.reports)
  BY <1>11, PlayKeeps
<1>13. Good(S, b, R, r)
  BY <1>10, <1>12, GoodThenGood
<1> QED
  BY <1>6, <1>12, <1>13

\* The same with the resynchronisation before the first frame.
LEMMA StartedKeeps ==
  ASSUME NEW S, NEW b \in Buffer(S), NEW now \in Nat
  PROVE  LET r == Started(b, now)
         IN  /\ Good(S, b, {}, r)
             /\ r.out # NoFrame /\ r.out.kind = "voice" => Told(r.out, r.reports)
<1>1. CASE ~b.mWaiting
  BY <1>1, PlayingKeeps DEF Started
<1>2. CASE b.mWaiting
  <2> DEFINE spare == Unsigned(b.mCurrJitterBufferSize + 1)
             c == [Resync(b, spare) EXCEPT !.mWaiting = FALSE]
             R == Discarded(b, spare)
             r == Playing(c, R, now)
  <2>0. b.mCurrJitterBufferSize \in Int /\ 1 \in Int
    BY Fields
  <2>1. spare \in Nat
    BY <2>0, Wraps
  <2>2. Resync(b, spare) \in Buffer(S) /\ Accounts(b, Resync(b, spare), R)
    BY <2>1, ResyncKeeps
  <2>3. c \in Buffer(S) /\ c.queue = Resync(b, spare).queue
    <3> DEFINE d == Resync(b, spare)
    <3>1. d \in Buffer(S) /\ c = [d EXCEPT !.mWaiting = FALSE]
      BY <2>2
    <3> HIDE DEF d, c
    <3>2. c \in Buffer(S) /\ c.queue = d.queue
      BY <3>1 DEF Buffer
    <3> QED
      BY <3>2 DEF d
  <2>4. Started(b, now) = r
    BY <1>2 DEF Started
  <2> HIDE DEF c, R
  <2>5. Good(S, c, R, r) /\ (r.out # NoFrame /\ r.out.kind = "voice" => Told(r.out, r.reports))
    BY <2>3, PlayingKeeps
  <2> HIDE DEF r
  <2>6. Good(S, b, {}, r)
    BY <2>2, <2>3, <2>5 DEF Good, Accounts, Told, Voice
  <2> QED
    BY <2>4, <2>5, <2>6
<1> QED
  BY <1>1, <1>2 DEF Buffer

\* Get() keeps or reports the voice that is queued, and reports what it hands out.
LEMMA GetKeeps ==
  ASSUME NEW S, NEW b \in Buffer(S), NEW tooMany \in BOOLEAN, NEW now \in Nat
  PROVE  LET r == Get(b, tooMany, now)
         IN  /\ Good(S, b, {}, r)
             /\ r.out # NoFrame /\ r.out.kind = "voice" => Told(r.out, r.reports)
<1> DEFINE f == Refreshed(b)
           s == Shrunk(f)
           tm == tooMany /\ f.dropped
           c == AfterDrops(s, tm, now)
           empty == [c EXCEPT !.mCurrPlayingTS = IF c.mWaiting THEN @ ELSE Unsigned(@ + Frame)]
           r == Get(b, tooMany, now)
<1>1. f \in Buffer(S) /\ Accounts(b, f, {})
  BY RefreshedKeeps
<1>2. s \in Buffer(S) /\ s.queue = f.queue
  BY <1>1, ShrunkType
<1>3. tm \in BOOLEAN
  BY <1>1 DEF Buffer
<1>4. c \in Buffer(S) /\ c.queue = s.queue
  BY <1>2, <1>3, AfterDropsType
<1>5. Grown(f) \in Buffer(S) /\ Grown(f).queue = f.queue
  BY <1>1, GrownType
<1>6. empty \in Buffer(S) /\ empty.queue = c.queue
  <2> HIDE DEF c
  <2>1. c.mCurrPlayingTS \in Int /\ Frame \in Int
    BY <1>4, Fields
  <2>2. Unsigned(c.mCurrPlayingTS + Frame) \in 0 .. TsWidth - 1
    BY <2>1, Wraps
  <2> QED
    BY <1>4, <2>2 DEF Buffer
<1>7. r = IF MustGrow(f) THEN Result(Grown(f), NoFrame, {})
          ELSE IF ~Queued(c) THEN Result(empty, NoFrame, {})
          ELSE IF StillWaiting(c, now) THEN Result(c, NoFrame, {})
          ELSE Started(c, now)
  BY DEF Get
<1> HIDE DEF f, s, tm, c, empty, r
<1>12. ASSUME NEW x, x \in Buffer(S), x.queue = f.queue, r = Result(x, NoFrame, {})
       PROVE  /\ Good(S, b, {}, r)
              /\ r.out # NoFrame /\ r.out.kind = "voice" => Told(r.out, r.reports)
  <2>1. r.buffer = x /\ r.out = NoFrame /\ r.reports = {}
    BY <1>12 DEF Result
  <2>2. \A e \in Voice(b) : e \in ToSet(x.queue) \/ Told(e, {})
    BY <1>1, <1>12 DEF Accounts
  <2> QED
    BY <1>12, <2>1, <2>2 DEF Good, Accounts
<1>8. CASE MustGrow(f)
  <2>1. r = Result(Grown(f), NoFrame, {})
    BY <1>7, <1>8
  <2> QED
    BY <1>5, <1>12, <2>1 DEF r
<1>9. CASE ~MustGrow(f) /\ ~Queued(c)
  <2>1. r = Result(empty, NoFrame, {})
    BY <1>7, <1>9
  <2>2. empty.queue = f.queue
    BY <1>2, <1>4, <1>6
  <2> QED
    BY <1>6, <1>12, <2>1, <2>2 DEF r
<1>10. CASE ~MustGrow(f) /\ Queued(c) /\ StillWaiting(c, now)
  <2>1. r = Result(c, NoFrame, {})
    BY <1>7, <1>10
  <2>2. c.queue = f.queue
    BY <1>2, <1>4
  <2> QED
    BY <1>4, <1>12, <2>1, <2>2 DEF r
<1>11. CASE ~MustGrow(f) /\ Queued(c) /\ ~StillWaiting(c, now)
  <2>1. r = Started(c, now)
    BY <1>7, <1>11
  <2>2. Good(S, c, {}, r) /\ (r.out # NoFrame /\ r.out.kind = "voice" => Told(r.out, r.reports))
    BY <1>4, <2>1, StartedKeeps
  <2>3. Good(S, b, {}, r)
    BY <1>1, <1>2, <1>4, <2>2 DEF Good, Accounts, Told, Voice
  <2> QED
    BY <2>2, <2>3 DEF r
<1> QED
  BY <1>8, <1>9, <1>10, <1>11 DEF r

\* Add() loses neither the packet nor an entry, wherever it comes in the order.
LEMMA InsertKeeps ==
  ASSUME NEW S, NEW q \in Seq(Entry(S)), NEW e \in Entry(S)
  PROVE  Insert(q, e) \in Seq(Entry(S)) /\ ToSet(q) \cup {e} \subseteq ToSet(Insert(q, e))
<1>1. Len(q) \in Nat /\ DOMAIN q = 1 .. Len(q) /\ \A j \in 1 .. Len(q) : q[j] \in Entry(S)
  BY LenProperties
<1>2. CASE Insert(q, e) = Append(q, e)
  <2>1. /\ Append(q, e) \in Seq(Entry(S)) /\ Len(Append(q, e)) = Len(q) + 1
        /\ \A j \in 1 .. Len(q) : Append(q, e)[j] = q[j]
        /\ Append(q, e)[Len(q) + 1] = e
    BY AppendProperties
  <2>2. DOMAIN Append(q, e) = 1 .. Len(q) + 1
    BY <2>1, LenProperties
  <2>3. \A j \in 1 .. Len(q) + 1 : Append(q, e)[j] \in ToSet(Append(q, e))
    BY <2>2 DEF ToSet
  <2>4. Len(q) + 1 \in 1 .. Len(q) + 1 /\ \A j \in 1 .. Len(q) : j \in 1 .. Len(q) + 1
    BY <1>1
  <2>5. e \in ToSet(Append(q, e))
    BY <2>1, <2>3, <2>4
  <2>6. ASSUME NEW x \in ToSet(q) PROVE x \in ToSet(Append(q, e))
    <3>1. PICK j \in 1 .. Len(q) : x = q[j]
      BY <1>1 DEF ToSet
    <3> QED
      BY <3>1, <2>1, <2>3, <2>4
  <2> QED
    BY <1>2, <2>1, <2>5, <2>6
<1>3. CASE ~(q = <<>> \/ SeqAtLeast(e.seq, Last(q).seq))
  <2> DEFINE I == {j \in 1 .. Len(q) : ~SeqAtLeast(e.seq, q[j].seq)}
             i == Min(I)
             front == SubSeq(q, 1, i - 1)
             middle == front \o <<e>>
             back == SubSeq(q, i, Len(q))
             all == middle \o back
  <2>1. Len(q) \in 1 .. Len(q)
    BY <1>1, <1>3, EmptySeq
  <2>2. Len(q) \in I
    BY <2>1, <1>3 DEF Last
  <2>3. i \in I /\ i \in 1 .. Len(q)
    <3>1. I \in SUBSET Nat /\ I # {}
      BY <1>1, <2>2
    <3> QED
      BY <3>1, MinIsIn
  <2>4. Insert(q, e) = all
    <3>1. SelectInSeq(q, LAMBDA f : ~SeqAtLeast(e.seq, f.seq)) = i
      BY <2>2 DEF SelectInSeq
    <3>2. i # 0
      BY <2>3
    <3> HIDE DEF i
    <3>3. Insert(q, e) = InsertAt(q, i, e)
      BY <1>3, <3>1, <3>2 DEF Insert
    <3> QED
      BY <3>3 DEF InsertAt
  <2>5. i \in Nat /\ i - 1 \in Nat /\ i - 1 <= Len(q) /\ 1 <= i /\ i <= Len(q)
    BY <2>3, <1>1
  <2> HIDE DEF I, i
  <2>6. /\ front \in Seq(Entry(S)) /\ Len(front) = i - 1
        /\ \A j \in 1 .. i - 1 : front[j] = q[j]
    <3>1. \A j \in 1 .. i - 1 : q[j] \in Entry(S)
      BY <1>1, <2>5
    <3>2. 1 \in Int /\ i - 1 \in Int
      BY <2>5
    <3>3. /\ front \in Seq(Entry(S))
          /\ Len(front) = IF 1 <= i - 1 THEN i - 1 - 1 + 1 ELSE 0
          /\ \A j \in 1 .. i - 1 - 1 + 1 : front[j] = q[1 + j - 1]
      BY <3>1, <3>2, SubSeqProperties
    <3> QED
      BY <3>3, <2>5
  <2>7. /\ back \in Seq(Entry(S)) /\ Len(back) = Len(q) - i + 1
        /\ \A j \in 1 .. Len(q) - i + 1 : back[j] = q[i + j - 1]
    <3>1. \A j \in i .. Len(q) : q[j] \in Entry(S)
      BY <1>1, <2>5
    <3>2. i \in Int /\ Len(q) \in Int
      BY <1>1, <2>5
    <3>3. /\ back \in Seq(Entry(S))
          /\ Len(back) = IF i <= Len(q) THEN Len(q) - i + 1 ELSE 0
          /\ \A j \in 1 .. Len(q) - i + 1 : back[j] = q[i + j - 1]
      BY <3>1, <3>2, SubSeqProperties
    <3> QED
      BY <3>3, <2>5
  <2> HIDE DEF front, back
  <2>8. /\ middle \in Seq(Entry(S)) /\ Len(middle) = i
        /\ \A j \in 1 .. i : middle[j] = IF j <= i - 1 THEN front[j] ELSE <<e>>[j - (i - 1)]
    <3>1. <<e>> \in Seq(Entry(S)) /\ Len(<<e>>) = 1
      OBVIOUS
    <3>2. /\ middle \in Seq(Entry(S)) /\ Len(middle) = i - 1 + 1
          /\ \A j \in 1 .. i - 1 + 1 :
                 middle[j] = IF j <= i - 1 THEN front[j] ELSE <<e>>[j - (i - 1)]
      BY <2>6, <3>1, ConcatProperties
    <3>3. i - 1 + 1 = i
      BY <2>5
    <3> QED
      BY <3>2, <3>3
  <2>9. middle[i] = e
    <3>1. i \in 1 .. i /\ ~(i <= i - 1) /\ i - (i - 1) = 1
      BY <2>5
    <3>2. middle[i] = <<e>>[1]
      BY <2>8, <3>1
    <3> QED
      BY <3>2
  <2> HIDE DEF middle
  <2>10. /\ all \in Seq(Entry(S)) /\ Len(all) = i + (Len(q) - i + 1)
         /\ \A j \in 1 .. i + (Len(q) - i + 1) :
                all[j] = IF j <= i THEN middle[j] ELSE back[j - i]
    BY <2>7, <2>8, ConcatProperties
  <2>11. Len(all) = Len(q) + 1 /\ DOMAIN all = 1 .. Len(q) + 1 /\ i + (Len(q) - i + 1) = Len(q) + 1
    <3>1. i + (Len(q) - i + 1) = Len(q) + 1
      BY <1>1, <2>5
    <3> QED
      BY <2>10, <3>1, LenProperties
  <2>12. \A j \in 1 .. Len(q) + 1 : all[j] = IF j <= i THEN middle[j] ELSE back[j - i]
    BY <2>10, <2>11
  <2> HIDE DEF all
  <2>13. \A j \in 1 .. Len(q) + 1 : all[j] \in ToSet(all)
    BY <2>11 DEF ToSet
  <2>14. e \in ToSet(all)
    <3>1. i \in 1 .. Len(q) + 1 /\ i <= i
      BY <1>1, <2>5
    <3>2. all[i] = e
      BY <2>9, <2>12, <3>1
    <3> QED
      BY <2>13, <3>1, <3>2
  <2>15. ASSUME NEW x \in ToSet(q) PROVE x \in ToSet(all)
    <3>1. PICK j \in 1 .. Len(q) : x = q[j]
      BY <1>1 DEF ToSet
    <3>2. CASE j <= i - 1
      <4>1. j \in 1 .. i - 1 /\ j \in 1 .. i /\ j \in 1 .. Len(q) + 1 /\ j <= i
        BY <1>1, <2>5, <3>2
      <4>2. all[j] = x
        BY <2>6, <2>8, <2>12, <3>1, <3>2, <4>1
      <4> QED
        BY <2>13, <4>1, <4>2
    <3>3. CASE j > i - 1
      <4>1. PICK k \in 1 .. Len(q) + 1 : k = j + 1
        BY <1>1
      <4>2. PICK l \in 1 .. Len(q) - i + 1 : l = k - i
        BY <1>1, <2>5, <3>3, <4>1
      <4>3. ~(k <= i) /\ i + l - 1 = j
        BY <1>1, <2>5, <3>3, <4>1, <4>2
      <4>4. all[k] = back[l]
        BY <2>12, <4>2, <4>3
      <4>5. back[l] = q[i + l - 1]
        BY <2>7
      <4>6. all[k] = x
        BY <3>1, <4>3, <4>4, <4>5
      <4> QED
        BY <2>13, <4>6
    <3>4. j \in Int /\ i - 1 \in Int
      BY <1>1, <2>5
    <3> QED
      BY <3>2, <3>3, <3>4
  <2> QED
    BY <2>4, <2>10, <2>14, <2>15
<1> QED
  BY <1>2, <1>3 DEF Insert

\* Adding a packet.
LEMMA AddPacketKeeps ==
  ASSUME NEW S, NEW b \in Buffer(S), NEW e \in Entry(S), NEW size \in Int
  PROVE  /\ AddPacket(b, e, size) \in Buffer(S)
         /\ ToSet(b.queue) \cup {e} \subseteq ToSet(AddPacket(b, e, size).queue)
<1> DEFINE longer == Insert(b.queue, e)
           delay == IF ~b.mWaiting /\ b.mUpdatedDelay = 0
                    THEN Signed(size - b.mCurrJitterBufferSize) ELSE b.mUpdatedDelay
           a == AddPacket(b, e, size)
<1>1. b.queue \in Seq(Entry(S)) /\ b.mCurrJitterBufferSize \in Int /\ b.mUpdatedDelay \in Int
  BY Fields
<1>2. longer \in Seq(Entry(S)) /\ ToSet(b.queue) \cup {e} \subseteq ToSet(longer)
  BY <1>1, InsertKeeps
<1>3. delay \in Int
  <2>1. size - b.mCurrJitterBufferSize + TsWidth \div 2 \in Int
    BY <1>1
  <2>2. Signed(size - b.mCurrJitterBufferSize) \in Int
    BY <2>1, UnsignedType DEF Signed
  <2> QED
    BY <1>1, <2>2
<1>4. a = [b EXCEPT !.queue = longer, !.mUpdatedDelay = delay]
  BY DEF AddPacket, Buffer
<1> HIDE DEF longer, delay, a
<1>5. a \in Buffer(S)
  BY <1>2, <1>3, <1>4 DEF Buffer
<1>6. a.queue = longer
  BY <1>4 DEF Buffer
<1> QED
  BY <1>2, <1>5, <1>6 DEF a

\* Adding the marker of a new SSRC.
LEMMA AddMarkerKeeps ==
  ASSUME NEW S, NEW b \in Buffer(S), NEW ssrc \in S, NEW time \in Nat
  PROVE  /\ AddMarker(b, ssrc, time) \in Buffer(S)
         /\ ToSet(b.queue) \subseteq ToSet(AddMarker(b, ssrc, time).queue)
<1> DEFINE m == Marker(ssrc)
           q == b.queue
           longer == Append(q, m)
           a == AddMarker(b, ssrc, time)
<1>1. q \in Seq(Entry(S)) /\ Len(q) \in Nat /\ DOMAIN q = 1 .. Len(q)
  BY Fields, LenProperties
<1>2. m \in Entry(S)
  BY DEF Marker, Entry
<1>3. /\ longer \in Seq(Entry(S)) /\ Len(longer) = Len(q) + 1
      /\ \A j \in 1 .. Len(q) : longer[j] = q[j]
  BY <1>1, <1>2, AppendProperties
<1>4. DOMAIN longer = 1 .. Len(q) + 1
  BY <1>3, LenProperties
<1>5. ASSUME NEW x \in ToSet(q) PROVE x \in ToSet(longer)
  <2>1. PICK j \in 1 .. Len(q) : x = q[j]
    BY <1>1 DEF ToSet
  <2>2. j \in DOMAIN longer /\ longer[j] = x
    BY <1>1, <1>3, <1>4, <2>1
  <2> QED
    BY <2>2 DEF ToSet
<1>6. InitSize \in Nat
  OBVIOUS
<1>7. a = [b EXCEPT !.queue = longer, !.mTimeStarted = time, !.mCurrJitterBufferSize = InitSize]
  BY DEF AddMarker
<1> HIDE DEF a, longer
<1>8. a \in Buffer(S)
  BY <1>3, <1>6, <1>7 DEF Buffer
<1>9. a.queue = longer
  BY <1>7 DEF Buffer
<1> QED
  BY <1>5, <1>8, <1>9 DEF a

\* Delete() takes the first entry and no other.
LEMMA DeleteKeeps ==
  ASSUME NEW S, NEW b \in Buffer(S)
  PROVE  /\ Delete(b) \in Buffer(S)
         /\ \A e \in ToSet(b.queue) : \/ e \in ToSet(Delete(b).queue)
                                      \/ Queued(b) /\ e = First(b)
<1>1. CASE ~Queued(b)
  BY <1>1 DEF Delete
<1>2. CASE Queued(b)
  <2> DEFINE q == b.queue
             d == Delete(b)
  <2>1. q \in Seq(Entry(S)) /\ q # <<>> /\ Len(q) \in Nat /\ DOMAIN q = 1 .. Len(q)
    BY <1>2, Fields, LenProperties DEF Queued
  <2>2. /\ Tail(q) \in Seq(Entry(S)) /\ Len(Tail(q)) = Len(q) - 1
        /\ \A i \in 1 .. Len(Tail(q)) : Tail(q)[i] = q[i + 1]
    BY <2>1, HeadTailProperties
  <2>3. DOMAIN Tail(q) = 1 .. Len(q) - 1
    BY <2>2, LenProperties
  <2>4. d = [b EXCEPT !.queue = Tail(q)]
    BY <1>2 DEF Delete, WithoutFirst
  <2> HIDE DEF d
  <2>5. d \in Buffer(S)
    BY <2>2, <2>4 DEF Buffer
  <2>6. d.queue = Tail(q)
    BY <2>4 DEF Buffer
  <2>7. First(b) = q[1]
    BY <1>2, HeadOf
  <2>8. ASSUME NEW e \in ToSet(q), e # First(b) PROVE e \in ToSet(Tail(q))
    <3>1. PICK i \in 1 .. Len(q) : e = q[i]
      BY <2>1 DEF ToSet
    <3>2. i - 1 \in 1 .. Len(q) - 1 /\ i - 1 + 1 = i
      BY <2>1, <2>7, <2>8, <3>1
    <3>3. i - 1 \in DOMAIN Tail(q) /\ Tail(q)[i - 1] = e
      BY <2>2, <2>3, <3>1, <3>2
    <3> QED
      BY <3>3 DEF ToSet
  <2> QED
    BY <1>2, <2>5, <2>6, <2>8 DEF d
<1> QED
  BY <1>1, <1>2

\* The sources of a call.
Sources == {call.packets[i].ssrc : i \in Packets}

\* Every call, and the buffer for its sources.
TypeInv ==
    /\ call \in Calls
    /\ copies \in [Packets -> Nat]
    /\ incoming \in {Packet(i) : i \in Packets} \cup {NoFrame}
    /\ mArrivalTime \in Nat /\ clock \in Nat
    /\ buffer \in Buffer(Sources)

\* A voice frame in the hands of the player has its report.
PlayingIsReported == playing # NoFrame /\ playing.kind = "voice" => Reported(playing)

\* NoPacketVanishes is inductive with the report of the frame that DeleteData will remove.
Inv == TypeInv /\ NoPacketVanishes /\ PlayingIsReported

\* A packet of a call is an entry of its queue.
LEMMA PacketIsEntry ==
  ASSUME call \in Calls, NEW i \in Packets
  PROVE  Packet(i) \in Entry(Sources) /\ Packet(i) # NoFrame /\ Packet(i).ssrc \in Sources
<1> DEFINE p == call.packets[i]
<1>1. /\ p.seq \in 0 .. SeqSpace - 1 /\ p.ts \in 0 .. TsWidth - 1 /\ p.kind \in {"voice", "sid"}
      /\ NoFrame # [ssrc |-> p.ssrc, seq |-> p.seq, ts |-> p.ts, kind |-> p.kind]
  BY CallsAssumption DEF Packets
<1>2. p.ssrc \in Sources
  BY DEF Sources
<1>3. Packet(i) = [ssrc |-> p.ssrc, seq |-> p.seq, ts |-> p.ts, kind |-> p.kind]
  BY DEF Packet
<1> QED
  BY <1>1, <1>2, <1>3 DEF Entry

LEMMA InitInv == Init => Inv
<1> SUFFICES ASSUME Init PROVE Inv
  OBVIOUS
<1> USE DEF Init
<1>1. buffer \in Buffer(Sources)
  BY EmptyType
<1>2. TypeInv
  BY <1>1 DEF TypeInv
<1>3. NoPacketVanishes
  BY DEF NoPacketVanishes
<1>4. PlayingIsReported
  BY DEF PlayingIsReported
<1> QED
  BY <1>2, <1>3, <1>4 DEF Inv

\* A step of the other threads that keeps what is queued or on its way.
LEMMA QueueKeeps ==
  ASSUME Inv, UNCHANGED call,
         reported \subseteq reported', overtaken \subseteq overtaken',
         \A i \in Packets :
             copies'[i] > 0 /\ IsVoice(i) /\ Packet(i) \in ToSet(buffer.queue) \cup {incoming} =>
                \/ Packet(i) \in ToSet(buffer'.queue) \cup {incoming'} \cup overtaken'
                \/ Reported(Packet(i))',
         \A i \in Packets : copies'[i] > 0 => copies[i] > 0 \/ Packet(i) = incoming'
  PROVE  NoPacketVanishes'
<1>1. Packets' = Packets /\ (\A i : Packet(i)' = Packet(i)) /\ (\A i : IsVoice(i)' = IsVoice(i))
  BY DEF Packets, Packet, IsVoice
<1>2. ASSUME NEW i \in Packets, copies'[i] > 0, IsVoice(i)
      PROVE  \/ Packet(i) \in ToSet(buffer'.queue) \cup {incoming'} \cup overtaken'
             \/ Reported(Packet(i))'
  <2>1. CASE Packet(i) = incoming'
    BY <2>1
  <2>2. CASE copies[i] > 0
    <3>1. Packet(i) \in ToSet(buffer.queue) \cup {incoming} \cup overtaken \/ Reported(Packet(i))
      BY <1>2, <2>2 DEF Inv, NoPacketVanishes
    <3>2. Reported(Packet(i)) => Reported(Packet(i))'
      BY <1>1 DEF Reported
    <3> QED
      BY <1>2, <3>1, <3>2
  <2> QED
    BY <1>2, <2>1, <2>2
<1> QED
  BY <1>1, <1>2 DEF NoPacketVanishes

LEMMA NextInv == Inv /\ [Next]_vars => Inv'
<1> SUFFICES ASSUME Inv, [Next]_vars PROVE Inv'
  OBVIOUS
<1>1. /\ TypeInv /\ NoPacketVanishes /\ PlayingIsReported
      /\ buffer \in Buffer(Sources) /\ clock \in Nat /\ mArrivalTime \in Nat /\ call \in Calls
  BY DEF Inv, TypeInv
<1>2. UNCHANGED call
  BY DEF vars, networkVars, Next, Receive, Refresh, Add, Tick, GetData, DeleteData, AdjustDelay
<1>3. Packets' = Packets /\ Sources' = Sources /\ (\A i : Packet(i)' = Packet(i)) /\ call' \in Calls
  BY <1>1, <1>2 DEF Packets, Sources, Packet
<1>4. incoming # NoFrame => incoming \in Entry(Sources) /\ incoming.ssrc \in Sources
  BY <1>1, PacketIsEntry DEF TypeInv
<1>5. ASSUME NEW i \in Packets, Receive(i) PROVE Inv'
  <2>1. /\ incoming = NoFrame /\ incoming' = Packet(i) /\ mArrivalTime' = clock
        /\ copies' = [copies EXCEPT ![i] = @ + 1]
        /\ UNCHANGED <<call, buffer, clock, playing, reported, overtaken>>
    BY <1>5 DEF Receive, playerVars, historyVars
  <2>2. copies' \in [Packets -> Nat] /\ \A j \in Packets \ {i} : copies'[j] = copies[j]
    BY <1>1, <2>1 DEF TypeInv
  <2>3. TypeInv'
    BY <1>1, <1>3, <2>1, <2>2 DEF TypeInv
  <2>4. \A j \in Packets : Packet(j) # NoFrame
    BY <1>1, PacketIsEntry
  <2>5. \A j \in Packets : copies'[j] > 0 => copies[j] > 0 \/ Packet(j) = incoming'
    BY <2>1, <2>2
  <2>6. NoPacketVanishes'
    BY <2>1, <2>4, <2>5, QueueKeeps
  <2>7. PlayingIsReported'
    BY <1>1, <2>1 DEF PlayingIsReported, Reported
  <2> QED
    BY <2>3, <2>6, <2>7 DEF Inv
<1>6. ASSUME Refresh PROVE Inv'
  <2>1. /\ incoming # NoFrame /\ buffer' = AddMarker(buffer, incoming.ssrc, mArrivalTime)
        /\ UNCHANGED <<call, copies, incoming, mArrivalTime, clock, playing, reported, overtaken>>
    BY <1>6 DEF Refresh, networkVars, playerVars, historyVars
  <2>2. buffer' \in Buffer(Sources) /\ ToSet(buffer.queue) \subseteq ToSet(buffer'.queue)
    BY <1>1, <1>4, <2>1, AddMarkerKeeps
  <2>3. TypeInv'
    BY <1>1, <1>3, <2>1, <2>2 DEF TypeInv
  <2>4. NoPacketVanishes'
    BY <2>1, <2>2, QueueKeeps
  <2>5. PlayingIsReported'
    BY <1>1, <2>1 DEF PlayingIsReported, Reported
  <2> QED
    BY <2>3, <2>4, <2>5 DEF Inv
<1>7. ASSUME Add PROVE Inv'
  <2>1. PICK size \in NextSizes(buffer.mCurrJitterBufferSize) :
            buffer' = AddPacket(buffer, incoming, size)
    BY <1>7 DEF Add
  <2>2. /\ incoming # NoFrame /\ incoming' = NoFrame
        /\ UNCHANGED <<call, copies, mArrivalTime, clock, playing, reported, overtaken>>
    BY <1>7 DEF Add, networkVars, playerVars
  <2>3. size \in Int
    <3>1. buffer.mCurrJitterBufferSize \in Int
      BY <1>1, Fields
    <3> QED
      BY <2>1, <3>1 DEF NextSizes
  <2>4. /\ buffer' \in Buffer(Sources)
        /\ ToSet(buffer.queue) \cup {incoming} \subseteq ToSet(buffer'.queue)
    BY <1>1, <1>4, <2>1, <2>2, <2>3, AddPacketKeeps
  <2>5. TypeInv'
    BY <1>1, <1>3, <2>2, <2>4 DEF TypeInv
  <2>6. NoPacketVanishes'
    BY <2>2, <2>4, QueueKeeps
  <2>7. PlayingIsReported'
    BY <1>1, <2>2 DEF PlayingIsReported, Reported
  <2> QED
    BY <2>5, <2>6, <2>7 DEF Inv
<1>8. ASSUME Tick PROVE Inv'
  <2>1. /\ clock' = clock + Frame
        /\ UNCHANGED <<call, copies, incoming, mArrivalTime, buffer, playing, reported, overtaken>>
    BY <1>8 DEF Tick, networkVars
  <2>2. clock' \in Nat
    BY <1>1, <2>1
  <2>3. TypeInv'
    BY <1>1, <1>3, <2>1, <2>2 DEF TypeInv
  <2>4. NoPacketVanishes'
    BY <2>1, QueueKeeps
  <2>5. PlayingIsReported'
    BY <1>1, <2>1 DEF PlayingIsReported, Reported
  <2> QED
    BY <2>3, <2>4, <2>5 DEF Inv
<1>9. ASSUME GetData PROVE Inv'
  <2>1. PICK tooMany \in {buffer.dropped, FALSE} :
            LET r == Get(buffer, tooMany, clock)
            IN  buffer' = r.buffer /\ playing' = r.out /\ reported' = reported \cup r.reports
    BY <1>9 DEF GetData
  <2> DEFINE r == Get(buffer, tooMany, clock)
  <2>2. UNCHANGED <<call, copies, incoming, mArrivalTime, clock, overtaken>>
    BY <1>9 DEF GetData, networkVars
  <2>3. tooMany \in BOOLEAN
    BY <1>1 DEF Buffer
  <2>4. /\ Good(Sources, buffer, {}, r)
        /\ r.out # NoFrame /\ r.out.kind = "voice" => Told(r.out, r.reports)
    BY <1>1, <2>3, GetKeeps
  <2>5. buffer' = r.buffer /\ playing' = r.out /\ reported' = reported \cup r.reports
    BY <2>1
  <2> HIDE DEF r
  <2>6. buffer' \in Buffer(Sources) /\ Accounts(buffer, buffer', r.reports)
    BY <2>4, <2>5 DEF Good
  <2>7. TypeInv'
    BY <1>1, <1>3, <2>2, <2>6 DEF TypeInv
  <2>8. \A e : Told(e, r.reports) => Reported(e)'
    BY <2>5 DEF Told, Reported
  <2>9. ASSUME NEW i \in Packets, IsVoice(i), Packet(i) \in ToSet(buffer.queue)
        PROVE  Packet(i) \in ToSet(buffer'.queue) \/ Reported(Packet(i))'
    <3>1. Packet(i) \in Voice(buffer)
      BY <2>9 DEF Voice, Packet, IsVoice
    <3>2. Packet(i) \in ToSet(buffer'.queue) \/ Told(Packet(i), r.reports)
      BY <2>6, <3>1 DEF Accounts
    <3>3. Told(Packet(i), r.reports) => Reported(Packet(i))'
      BY <1>3, <2>5 DEF Told, Reported
    <3> QED
      BY <3>2, <3>3
  <2>10. NoPacketVanishes'
    BY <2>2, <2>5, <2>9, QueueKeeps
  <2>11. PlayingIsReported'
    BY <2>4, <2>5 DEF PlayingIsReported, Told, Reported
  <2> QED
    BY <2>7, <2>10, <2>11 DEF Inv
<1>10. ASSUME DeleteData PROVE Inv'
  <2>1. /\ playing # NoFrame /\ playing' = NoFrame /\ buffer' = Delete(buffer)
        /\ overtaken' = IF Queued(buffer) /\ First(buffer) # playing
                        THEN overtaken \cup {First(buffer)} ELSE overtaken
        /\ UNCHANGED <<call, copies, incoming, mArrivalTime, clock, reported>>
    BY <1>10 DEF DeleteData, networkVars
  <2>2. /\ buffer' \in Buffer(Sources)
        /\ \A e \in ToSet(buffer.queue) : \/ e \in ToSet(buffer'.queue)
                                          \/ Queued(buffer) /\ e = First(buffer)
    BY <1>1, <2>1, DeleteKeeps
  <2>3. TypeInv'
    BY <1>1, <1>3, <2>1, <2>2 DEF TypeInv
  <2>4. ASSUME NEW i \in Packets, IsVoice(i), Packet(i) \in ToSet(buffer.queue)
        PROVE  Packet(i) \in ToSet(buffer'.queue) \cup overtaken' \/ Reported(Packet(i))'
    <3>1. CASE Packet(i) = playing
      <4>1. playing.kind = "voice"
        BY <2>4, <3>1 DEF Packet, IsVoice
      <4>2. Reported(playing)
        BY <1>1, <2>1, <4>1 DEF PlayingIsReported
      <4> QED
        BY <1>3, <2>1, <3>1, <4>2 DEF Reported
    <3>2. CASE Packet(i) # playing
      BY <2>1, <2>2, <2>4, <3>2
    <3> QED
      BY <3>1, <3>2
  <2>5. overtaken \subseteq overtaken'
    BY <2>1
  <2>6. NoPacketVanishes'
    BY <2>1, <2>4, <2>5, QueueKeeps
  <2>7. PlayingIsReported'
    BY <2>1 DEF PlayingIsReported
  <2> QED
    BY <2>3, <2>6, <2>7 DEF Inv
<1>11. ASSUME AdjustDelay PROVE Inv'
  <2>1. PICK frames \in call.delays : buffer' = SetAdditionalDelay(buffer, frames)
    BY <1>11 DEF AdjustDelay
  <2>2. UNCHANGED <<call, copies, incoming, mArrivalTime, clock, playing, reported, overtaken>>
    BY <1>11 DEF AdjustDelay, networkVars, playerVars, historyVars
  <2>3. frames \in Int
    BY <1>1, <2>1, CallsAssumption
  <2>4. buffer' \in Buffer(Sources) /\ buffer'.queue = buffer.queue
    BY <1>1, <2>1, <2>3, DelayType
  <2>5. TypeInv'
    BY <1>1, <1>3, <2>2, <2>4 DEF TypeInv
  <2>6. NoPacketVanishes'
    BY <2>2, <2>4, QueueKeeps
  <2>7. PlayingIsReported'
    BY <1>1, <2>2 DEF PlayingIsReported, Reported
  <2> QED
    BY <2>5, <2>6, <2>7 DEF Inv
<1>12. CASE UNCHANGED vars
  BY <1>1, <1>3, <1>12 DEF Inv, TypeInv, NoPacketVanishes, PlayingIsReported, Reported, Packets,
                           Packet, IsVoice, vars
<1> QED
  BY <1>5, <1>6, <1>7, <1>8, <1>9, <1>10, <1>11, <1>12 DEF Next

LEMMA Invariance == Spec => []Inv
  BY InitInv, NextInv, PTL DEF Spec

(* The members of the buffer keep their types: sizes and timestamps wrap as unsigned integers
   do, and everything queued comes from a source of the call. *)
THEOREM TypeCorrect == Spec => []TypeInv
  BY Invariance, PTL DEF Inv

(* NoPacketVanishes for every call: whatever AudioJitterBuffer does with a voice packet it was
   given, the session learns of it, unless DeleteData removed the packet in place of another. *)
THEOREM VoiceIsAccountedFor == Spec => []NoPacketVanishes
  BY Invariance, PTL DEF Inv

(***************************************************************************)
(* The DTMF digits.                                                        *)
(***************************************************************************)
\* What the queues, the network and the encoder hold; digits are counted from 1.
DtmfEntry == {e \in [type : {"DTMFSTART", "DTMFEND", "DTMF_PAYLOAD"}, digit : Nat, end : BOOLEAN] :
                 e.type = "DTMF_PAYLOAD" => e.digit # 0}
DtmfPacket == [digit : Nat \ {0}, end : BOOLEAN, mark : BOOLEAN]
DtmfEncoder == [at : {"wait", "tone", "ending"}, signals : Nat, mListDtmfDigit : Seq(Nat \ {0}),
                mStopDtmf : BOOLEAN, left : Int]

\* The types of the path of the digits.
DtmfTypeInv ==
    /\ asked \in Seq(Nat)
    /\ caller \in Seq(DtmfEntry)
    /\ encoder \in DtmfEncoder
    /\ encoder.at # "wait" => encoder.mListDtmfDigit # <<>>
    /\ queue \in Seq(DtmfEntry)
    /\ rtp \in [mDtmfMode : BOOLEAN, mMark : BOOLEAN]
    /\ net \in Seq(DtmfPacket)
    /\ faults \in Nat
    /\ peer \in [mDtmfEndBit : BOOLEAN, reported : Seq(Nat)]
    /\ heard \in Seq({"nothing", "tone", "end"}) /\ Len(heard) = Len(asked)

\* Whoever queues the start of a digit still has its end to queue, and behind it nothing is queued.
VoiceComesBack ==
    /\ caller # <<>> => caller[Len(caller)] = End
    /\ caller = <<>> /\ encoder.at = "wait" =>
         /\ queue = <<>> => ~rtp.mDtmfMode
         /\ queue # <<>> => queue[Len(queue)] = End

\* The place of a packet in the order of sending: by digits, the end of a digit after its tone.
Rank(x) == 2 * x.digit + (IF x.end THEN 1 ELSE 0)
\* Of an entry of a queue; 0 for those that are not packets.
EntryRank(e) == IF e.type = "DTMF_PAYLOAD" THEN Rank(e) ELSE 0
PacketRanks(s) == [i \in DOMAIN s |-> Rank(s[i])]
EntryRanks(s) == [i \in DOMAIN s |-> EntryRank(s[i])]

\* Ranks ascend along a sequence, or from one to the next; 0 has no place in the order.
Ascending(s) == \A i, j \in DOMAIN s : i < j /\ s[i] # 0 /\ s[j] # 0 => s[i] <= s[j]
Precedes(s, t) == \A i \in DOMAIN s, j \in DOMAIN t : s[i] # 0 /\ t[j] # 0 => s[i] <= t[j]
\* From the network, over the queue of the sender, to what the caller still has to queue.
InOrder(a, b, c) ==
    /\ Ascending(a) /\ Ascending(b) /\ Ascending(c)
    /\ Precedes(a, b) /\ Precedes(b, c) /\ Precedes(a, c)
\* The ranks of the packets that are ahead of the peer.
Occurs(k, s) == \E i \in DOMAIN s : s[i] = k
Ahead(a, b, c) == {k \in Nat \ {0} : Occurs(k, a) \/ Occurs(k, b) \/ Occurs(k, c)}

\* What the peer knows against the packets that are ahead of it, H.
PeerInv(p, h, n, H) ==
    /\ \A i, j \in DOMAIN p.reported : i < j => p.reported[i] < p.reported[j]
    /\ \A i \in DOMAIN p.reported :
         /\ p.reported[i] <= n
         /\ \A k \in H : /\ 2 * p.reported[i] + 1 <= k
                         /\ p.mDtmfEndBit => 2 * p.reported[i] + 2 <= k
    /\ \A k \in H : 2 <= k /\ k <= 2 * n + 1
    /\ \A d \in 1 .. n :
         /\ h[d] # "nothing" => \A k \in H : 2 * d <= k
         /\ h[d] = "tone" => p.mDtmfEndBit \/ \A k \in H : 2 * d + 2 <= k
         /\ h[d] = "end" => \E i \in DOMAIN p.reported : p.reported[i] = d

\* The ranks in the network, in the queue of the sender and of what the caller has to queue.
Air == PacketRanks(net)
Waiting == EntryRanks(queue)
Calling == EntryRanks(caller)

\* While every digit has a duration, the thread of the encoder waits, ranks ascend, and the
\* peer has reported, in their order, what is behind all that is ahead of it.
TimedInv ==
    0 \notin Range(asked) =>
      /\ encoder.at = "wait" /\ encoder.signals = 0
      /\ InOrder(Air, Waiting, Calling)
      /\ PeerInv(peer, heard, Len(asked), Ahead(Air, Waiting, Calling))

\* The inductive invariant.
DtmfInv == DtmfTypeInv /\ VoiceComesBack /\ TimedInv

\* The order of the ranks where one is taken from the front or handed on.
LEMMA HandOn ==
    ASSUME NEW a \in Seq(Nat), NEW b \in Seq(Nat), NEW c \in Seq(Nat), InOrder(a, b, c)
    PROVE  /\ c # <<>> => /\ InOrder(a, Append(b, Head(c)), Tail(c))
                          /\ Ahead(a, Append(b, Head(c)), Tail(c)) \subseteq Ahead(a, b, c)
           /\ b # <<>> => /\ InOrder(a, Tail(b), c) /\ Ahead(a, Tail(b), c) \subseteq Ahead(a, b, c)
                          /\ InOrder(Append(a, Head(b)), Tail(b), c)
                          /\ Ahead(Append(a, Head(b)), Tail(b), c) \subseteq Ahead(a, b, c)
           /\ a # <<>> => /\ InOrder(Tail(a), b, c) /\ Ahead(Tail(a), b, c) \subseteq Ahead(a, b, c)
                          /\ Head(a) # 0 => /\ Head(a) \in Ahead(a, b, c)
                                            /\ \A k \in Ahead(a, b, c) : Head(a) <= k
<1>t. ASSUME NEW s \in Seq(Nat), s # <<>>
      PROVE  /\ Tail(s) \in Seq(Nat) /\ Head(s) \in Nat
             /\ 1 \in DOMAIN s /\ s[1] = Head(s)
             /\ \A i \in DOMAIN Tail(s) : i + 1 \in DOMAIN s /\ Tail(s)[i] = s[i + 1]
  <2>1. Len(s) > 0 /\ Len(s) \in Nat /\ DOMAIN s = 1 .. Len(s)
    BY <1>t, EmptySeq
  <2>2. Tail(s) \in Seq(Nat) /\ Head(s) \in Nat /\ Head(s) = s[1] /\ 1 \in DOMAIN s
    BY <1>t, <2>1
  <2>3. Len(Tail(s)) = Len(s) - 1 /\ DOMAIN Tail(s) = 1 .. Len(s) - 1
    BY <1>t, <2>1, <2>2
  <2>4. ASSUME NEW i \in DOMAIN Tail(s) PROVE i + 1 \in DOMAIN s /\ Tail(s)[i] = s[i + 1]
    BY <2>1, <2>3
  <2> QED
    BY <2>2, <2>4
<1>a. ASSUME NEW s \in Seq(Nat), NEW x \in Nat
      PROVE  /\ Append(s, x) \in Seq(Nat)
             /\ \A i \in DOMAIN Append(s, x) : \/ i \in DOMAIN s /\ Append(s, x)[i] = s[i]
                                               \/ i = Len(s) + 1 /\ Append(s, x)[i] = x
  OBVIOUS
<1>d. \A s \in Seq(Nat) : \A i \in DOMAIN s : s[i] \in Nat /\ i \in Nat /\ 1 <= i /\ i <= Len(s)
  OBVIOUS
<1>1. ASSUME NEW s \in Seq(Nat), s # <<>>, Ascending(s)
      PROVE  Ascending(Tail(s)) /\ (\A j \in DOMAIN s : s[1] # 0 /\ s[j] # 0 => s[1] <= s[j])
  BY <1>t, <1>d, <1>1 DEF Ascending
<1>2. ASSUME NEW s \in Seq(Nat), s # <<>>, NEW u \in Seq(Nat)
      PROVE  /\ Precedes(s, u) => Precedes(Tail(s), u)
             /\ Precedes(u, s) => Precedes(u, Tail(s))
  BY <1>t, <1>d, <1>2 DEF Precedes
<1>3. ASSUME NEW s \in Seq(Nat), NEW u \in Seq(Nat), u # <<>>, Ascending(s), Ascending(u), Precedes(s, u)
      PROVE  Ascending(Append(s, Head(u))) /\ Precedes(Append(s, Head(u)), Tail(u))
  <2>1. Ascending(Append(s, Head(u)))
    <3>1. Append(s, Head(u)) \in Seq(Nat) /\ Head(u) = u[1] /\ 1 \in DOMAIN u
      BY <1>t, <1>a, <1>3
    <3>2. \A i \in DOMAIN Append(s, Head(u)) : \/ i \in DOMAIN s /\ Append(s, Head(u))[i] = s[i]
                                               \/ i = Len(s) + 1 /\ Append(s, Head(u))[i] = u[1]
      BY <1>t, <1>a, <1>3
    <3> SUFFICES ASSUME NEW i \in DOMAIN Append(s, Head(u)), NEW j \in DOMAIN Append(s, Head(u)), i < j,
                        Append(s, Head(u))[i] # 0, Append(s, Head(u))[j] # 0
                 PROVE  Append(s, Head(u))[i] <= Append(s, Head(u))[j]
      BY DEF Ascending
    <3>3. j \in 1 .. Len(s) + 1 /\ i \in 1 .. Len(s)
      BY <1>d, <3>1, <3>2
    <3>4. i \in DOMAIN s /\ Append(s, Head(u))[i] = s[i]
      BY <3>2, <3>3
    <3>5. CASE j \in DOMAIN s /\ Append(s, Head(u))[j] = s[j]
      BY <1>3, <3>4, <3>5 DEF Ascending
    <3>6. CASE Append(s, Head(u))[j] = u[1]
      BY <1>3, <3>1, <3>4, <3>6 DEF Precedes
    <3> QED
      BY <3>2, <3>5, <3>6
  <2>2. \A j \in DOMAIN Tail(u) : Head(u) # 0 /\ Tail(u)[j] # 0 => Head(u) <= Tail(u)[j]
    BY <1>t, <1>d, <1>3, <1>1
  <2>3. Precedes(s, Tail(u))
    BY <1>2, <1>3
  <2> QED
    <3>1. \A i \in DOMAIN Append(s, Head(u)) : \/ i \in DOMAIN s /\ Append(s, Head(u))[i] = s[i]
                                               \/ Append(s, Head(u))[i] = Head(u)
      BY <1>t, <1>a, <1>3
    <3>2. ASSUME NEW i \in DOMAIN Append(s, Head(u)), NEW j \in DOMAIN Tail(u),
                 Append(s, Head(u))[i] # 0, Tail(u)[j] # 0
          PROVE  Append(s, Head(u))[i] <= Tail(u)[j]
      <4>1. CASE i \in DOMAIN s /\ Append(s, Head(u))[i] = s[i]
        BY <2>3, <3>2, <4>1 DEF Precedes
      <4>2. CASE Append(s, Head(u))[i] = Head(u)
        BY <2>2, <3>2, <4>2
      <4> QED
        BY <3>1, <4>1, <4>2
    <3> QED
      BY <2>1, <3>2 DEF Precedes
<1>4. ASSUME NEW s \in Seq(Nat), NEW u \in Seq(Nat), NEW v \in Seq(Nat), u # <<>>, Precedes(s, v), Precedes(u, v)
      PROVE  Precedes(Append(s, Head(u)), v)
  <2>1. \A i \in DOMAIN Append(s, Head(u)) : \/ i \in DOMAIN s /\ Append(s, Head(u))[i] = s[i]
                                             \/ 1 \in DOMAIN u /\ Append(s, Head(u))[i] = u[1]
    BY <1>t, <1>a, <1>4
  <2> QED
    BY <2>1, <1>4 DEF Precedes
<1>5. ASSUME NEW s \in Seq(Nat), NEW u \in Seq(Nat), NEW v \in Seq(Nat), v # <<>>, Precedes(s, u), Precedes(s, v)
      PROVE  Precedes(s, Append(u, Head(v)))
  <2>1. \A i \in DOMAIN Append(u, Head(v)) : \/ i \in DOMAIN u /\ Append(u, Head(v))[i] = u[i]
                                             \/ 1 \in DOMAIN v /\ Append(u, Head(v))[i] = v[1]
    BY <1>t, <1>a, <1>5
  <2> QED
    BY <2>1, <1>5 DEF Precedes
<1>6. ASSUME NEW s \in Seq(Nat), s # <<>>, NEW k, Occurs(k, Tail(s))
      PROVE  Occurs(k, s)
  BY <1>t, <1>6 DEF Occurs
<1>7. ASSUME NEW s \in Seq(Nat), NEW u \in Seq(Nat), u # <<>>, NEW k, Occurs(k, Append(s, Head(u)))
      PROVE  Occurs(k, s) \/ Occurs(k, u)
  BY <1>t, <1>a, <1>7 DEF Occurs
<1>8. ASSUME c # <<>>
      PROVE  /\ InOrder(a, Append(b, Head(c)), Tail(c))
             /\ Ahead(a, Append(b, Head(c)), Tail(c)) \subseteq Ahead(a, b, c)
  <2>1. InOrder(a, Append(b, Head(c)), Tail(c))
    BY <1>1, <1>2, <1>3, <1>5, <1>8 DEF InOrder
  <2>2. Ahead(a, Append(b, Head(c)), Tail(c)) \subseteq Ahead(a, b, c)
    BY <1>6, <1>7, <1>8 DEF Ahead
  <2> QED
    BY <2>1, <2>2
<1>9. ASSUME b # <<>>
      PROVE  /\ InOrder(a, Tail(b), c) /\ Ahead(a, Tail(b), c) \subseteq Ahead(a, b, c)
             /\ InOrder(Append(a, Head(b)), Tail(b), c)
             /\ Ahead(Append(a, Head(b)), Tail(b), c) \subseteq Ahead(a, b, c)
  <2>1. InOrder(a, Tail(b), c) 
    BY <1>1, <1>2, <1>9 DEF InOrder
  <2>2. InOrder(Append(a, Head(b)), Tail(b), c)
    BY <1>1, <1>2, <1>3, <1>4, <1>9 DEF InOrder
  <2>3. Ahead(a, Tail(b), c) \subseteq Ahead(a, b, c) /\ Ahead(Append(a, Head(b)), Tail(b), c) \subseteq Ahead(a, b, c)
    BY <1>6, <1>7, <1>9 DEF Ahead
  <2> QED
    BY <2>1, <2>2, <2>3
<1>10. ASSUME a # <<>>
       PROVE  /\ InOrder(Tail(a), b, c) /\ Ahead(Tail(a), b, c) \subseteq Ahead(a, b, c)
              /\ Head(a) # 0 => /\ Head(a) \in Ahead(a, b, c)
                                /\ \A k \in Ahead(a, b, c) : Head(a) <= k
  <2>1. InOrder(Tail(a), b, c) /\ Ahead(Tail(a), b, c) \subseteq Ahead(a, b, c)
    BY <1>1, <1>2, <1>6, <1>10 DEF InOrder, Ahead
  <2>2. Head(a) # 0 => Head(a) \in Ahead(a, b, c)
    BY <1>t, <1>10 DEF Ahead, Occurs
  <2>3. ASSUME Head(a) # 0, NEW k \in Ahead(a, b, c) PROVE Head(a) <= k
    <3>1. CASE Occurs(k, a)
      BY <1>1, <1>t, <1>10, <2>3, <3>1 DEF Occurs, InOrder, Ahead
    <3>2. CASE Occurs(k, b)
      BY <1>t, <1>10, <2>3, <3>2 DEF Occurs, InOrder, Ahead, Precedes
    <3>3. CASE Occurs(k, c)
      BY <1>t, <1>10, <2>3, <3>3 DEF Occurs, InOrder, Ahead, Precedes
    <3> QED
      BY <2>3, <3>1, <3>2, <3>3 DEF Ahead
  <2> QED
    BY <2>1, <2>2, <2>3
<1> QED
  BY <1>8, <1>9, <1>10
USE DigitsAssumption

\* Ranks of what is added and taken.
LEMMA Ranks ==
    ASSUME NEW s \in Seq(DtmfEntry), NEW e \in DtmfEntry, NEW t \in Seq(DtmfPacket), NEW m \in DtmfPacket
    PROVE  /\ EntryRanks(s) \in Seq(Nat) /\ PacketRanks(t) \in Seq(Nat)
           /\ EntryRanks(Append(s, e)) = Append(EntryRanks(s), EntryRank(e))
           /\ PacketRanks(Append(t, m)) = Append(PacketRanks(t), Rank(m))
           /\ s # <<>> => /\ EntryRanks(s) # <<>> /\ Head(EntryRanks(s)) = EntryRank(Head(s))
                          /\ EntryRanks(Tail(s)) = Tail(EntryRanks(s))
           /\ t # <<>> => /\ PacketRanks(t) # <<>> /\ Head(PacketRanks(t)) = Rank(Head(t))
                          /\ PacketRanks(Tail(t)) = Tail(PacketRanks(t))
<1>e. \A x \in DtmfEntry : EntryRank(x) \in Nat
  BY DEF DtmfEntry, EntryRank, Rank
<1>p. \A x \in DtmfPacket : Rank(x) \in Nat
  BY DEF DtmfPacket, Rank
<1>1. EntryRanks(s) \in Seq(Nat) /\ Len(EntryRanks(s)) = Len(s)
  <2>1. DOMAIN s = 1 .. Len(s) /\ Len(s) \in Nat /\ \A i \in 1 .. Len(s) : s[i] \in DtmfEntry
    OBVIOUS
  <2>2. EntryRanks(s) = [i \in 1 .. Len(s) |-> EntryRank(s[i])]
    BY <2>1 DEF EntryRanks
  <2> QED
    BY <1>e, <2>1, <2>2, IsASeq
<1>2. PacketRanks(t) \in Seq(Nat) /\ Len(PacketRanks(t)) = Len(t)
  <2>1. DOMAIN t = 1 .. Len(t) /\ Len(t) \in Nat /\ \A i \in 1 .. Len(t) : t[i] \in DtmfPacket
    OBVIOUS
  <2>2. PacketRanks(t) = [i \in 1 .. Len(t) |-> Rank(t[i])]
    BY <2>1 DEF PacketRanks
  <2> QED
    BY <1>p, <2>1, <2>2, IsASeq
<1>3. EntryRanks(Append(s, e)) = Append(EntryRanks(s), EntryRank(e))
  BY <1>1, <1>e, AppendProperties DEF EntryRanks
<1>4. PacketRanks(Append(t, m)) = Append(PacketRanks(t), Rank(m))
  BY <1>2, <1>p, AppendProperties DEF PacketRanks
<1>5. ASSUME s # <<>>
      PROVE  /\ EntryRanks(s) # <<>> /\ Head(EntryRanks(s)) = EntryRank(Head(s))
             /\ EntryRanks(Tail(s)) = Tail(EntryRanks(s))
  BY <1>1, <1>5, HeadTailProperties DEF EntryRanks
<1>6. ASSUME t # <<>>
      PROVE  /\ PacketRanks(t) # <<>> /\ Head(PacketRanks(t)) = Rank(Head(t))
             /\ PacketRanks(Tail(t)) = Tail(PacketRanks(t))
  BY <1>2, <1>6, HeadTailProperties DEF PacketRanks
<1> QED
  BY <1>1, <1>2, <1>3, <1>4, <1>5, <1>6

\* What the peer knows holds of fewer packets ahead.
LEMMA FewerAhead ==
    ASSUME NEW p, NEW h, NEW n, NEW H, NEW G \in SUBSET H, PeerInv(p, h, n, H)
    PROVE  PeerInv(p, h, n, G)
  BY DEF PeerInv

\* The number of the packets that end a digit.
LEMMA EndsIsInt == Ends \in Int
<1>1. mAudioFrameDuration \in Nat /\ mAudioFrameDuration > 0
  BY DEF mAudioFrameDuration
<1>2. mAudioFrameDuration \div mPtime \in Int
  BY <1>1
<1>3. DTMF_DEFAULT_RETRANSMIT_DURATION * (mAudioFrameDuration \div mPtime) \in Int
  BY <1>2 DEF DTMF_DEFAULT_RETRANSMIT_DURATION
<1> QED
  BY <1>1, <1>3 DEF Ends

\* A sequence behind one element, or behind another.
LEMMA Prefixed ==
    ASSUME NEW S, NEW e \in S, NEW t \in Seq(S)
    PROVE  /\ <<e>> \o t \in Seq(S) /\ Len(<<e>> \o t) = Len(t) + 1 /\ (<<e>> \o t)[1] = e
           /\ \A i \in 1 .. Len(t) : (<<e>> \o t)[1 + i] = t[i]
  OBVIOUS

\* The elements of two sequences, one behind the other.
LEMMA Concatenated ==
    ASSUME NEW S, NEW u \in Seq(S), NEW v \in Seq(S)
    PROVE  /\ u \o v \in Seq(S) /\ Len(u \o v) = Len(u) + Len(v)
           /\ \A i \in 1 .. Len(u) : (u \o v)[i] = u[i]
           /\ \A i \in 1 .. Len(v) : (u \o v)[Len(u) + i] = v[i]
  OBVIOUS

\* What a call of SendDTMFEvent queues: the tone before the end, all of its digit.
LEMMA EventIsOrdered ==
    ASSUME NEW d \in Nat \ {0}, NEW duration \in Nat
    PROVE  /\ SendDTMFEvent(d, duration) \in Seq(DtmfEntry) /\ SendDTMFEvent(d, duration) # <<>>
           /\ SendDTMFEvent(d, duration)[Len(SendDTMFEvent(d, duration))] = End
           /\ Ascending(EntryRanks(SendDTMFEvent(d, duration)))
           /\ \A i \in DOMAIN EntryRanks(SendDTMFEvent(d, duration)) :
                 EntryRanks(SendDTMFEvent(d, duration))[i] \in {0, 2 * d, 2 * d + 1}
<1> DEFINE n == IF Tones(duration) < 0 THEN 0 ELSE Tones(duration)
           m == IF Ends < 0 THEN 0 ELSE Ends
           tone == [i \in 1 .. Tones(duration) |-> MakeDTMFPayload(d, FALSE)]
           end == [i \in 1 .. Ends |-> MakeDTMFPayload(d, TRUE)]
           s == SendDTMFEvent(d, duration)
<1>1. mAudioFrameDuration \in Nat /\ mAudioFrameDuration > 0
  BY DEF mAudioFrameDuration
<1>2. Tones(duration) \in Int
  <2>1. calculateDtmfDuration(duration) \in Int
    <3>1. mAudioFrameDuration \div mPtime \in Int
      BY <1>1
    <3>2. (IF duration < DTMF_MINIMUM_DURATION THEN DTMF_MINIMUM_DURATION ELSE duration) \in Nat
      BY DEF DTMF_MINIMUM_DURATION
    <3> QED
      BY <3>1, <3>2 DEF calculateDtmfDuration
  <2> QED
    BY <1>1, <2>1 DEF Tones
<1>3. Ends \in Int
  BY EndsIsInt
<1>4. n \in Nat /\ m \in Nat /\ 1 .. Tones(duration) = 1 .. n /\ 1 .. Ends = 1 .. m
  BY <1>2, <1>3
<1>5. {Start, End, MakeDTMFPayload(d, FALSE), MakeDTMFPayload(d, TRUE)} \subseteq DtmfEntry
  BY DEF Start, End, MakeDTMFPayload, DtmfEntry
<1>6. \A k \in Nat, e \in DtmfEntry : /\ [i \in 1 .. k |-> e] \in Seq(DtmfEntry)
                                      /\ Len([i \in 1 .. k |-> e]) = k
                                      /\ \A i \in 1 .. k : [j \in 1 .. k |-> e][i] = e
  <2> SUFFICES ASSUME NEW k \in Nat, NEW e \in DtmfEntry
               PROVE  /\ [i \in 1 .. k |-> e] \in Seq(DtmfEntry) /\ Len([i \in 1 .. k |-> e]) = k
                      /\ \A i \in 1 .. k : [j \in 1 .. k |-> e][i] = e
    OBVIOUS
  <2>1. [i \in 1 .. k |-> e] \in Seq(DtmfEntry)
    BY IsASeq
  <2> QED
    BY <2>1
<1>t. tone = [i \in 1 .. n |-> MakeDTMFPayload(d, FALSE)] /\ end = [i \in 1 .. m |-> MakeDTMFPayload(d, TRUE)]
  BY <1>4
<1>8. s = ((<<Start>> \o tone) \o end) \o <<End>>
  BY DEF SendDTMFEvent
<1> HIDE DEF n, m, tone, end, s
<1>7. /\ tone \in Seq(DtmfEntry) /\ Len(tone) = n /\ \A i \in 1 .. n : tone[i] = MakeDTMFPayload(d, FALSE)
      /\ end \in Seq(DtmfEntry) /\ Len(end) = m /\ \A i \in 1 .. m : end[i] = MakeDTMFPayload(d, TRUE)
  <2>1. MakeDTMFPayload(d, FALSE) \in DtmfEntry /\ MakeDTMFPayload(d, TRUE) \in DtmfEntry
    BY <1>5
  <2> QED
    BY <1>4, <1>6, <1>t, <2>1, Zenon
<1>b. /\ <<Start>> \in Seq(DtmfEntry) /\ Len(<<Start>>) = 1 /\ <<Start>>[1] = Start
      /\ <<End>> \in Seq(DtmfEntry) /\ Len(<<End>>) = 1 /\ <<End>>[1] = End
  BY <1>5
<1>9. /\ <<Start>> \o tone \in Seq(DtmfEntry) /\ Len(<<Start>> \o tone) = n + 1
      /\ (<<Start>> \o tone)[1] = Start
      /\ \A i \in 1 .. n : (<<Start>> \o tone)[1 + i] = MakeDTMFPayload(d, FALSE)
  <2>1. tone \in Seq(DtmfEntry) /\ Len(tone) = n /\ Start \in DtmfEntry
    BY <1>5, <1>7
  <2>2. /\ <<Start>> \o tone \in Seq(DtmfEntry) /\ Len(<<Start>> \o tone) = Len(tone) + 1
        /\ (<<Start>> \o tone)[1] = Start
        /\ \A i \in 1 .. Len(tone) : (<<Start>> \o tone)[1 + i] = tone[i]
    BY <2>1, Prefixed
  <2> QED
    BY <1>7, <2>1, <2>2
<1> DEFINE v == <<Start>> \o tone
<1> HIDE DEF v
<1>10. /\ v \o end \in Seq(DtmfEntry) /\ Len(v \o end) = n + 1 + m
       /\ (v \o end)[1] = Start
       /\ \A i \in 1 .. n : (v \o end)[1 + i] = MakeDTMFPayload(d, FALSE)
       /\ \A i \in 1 .. m : (v \o end)[n + 1 + i] = MakeDTMFPayload(d, TRUE)
  <2>1. /\ v \in Seq(DtmfEntry) /\ Len(v) = n + 1 /\ v[1] = Start
        /\ \A i \in 1 .. n : v[1 + i] = MakeDTMFPayload(d, FALSE)
    BY <1>9 DEF v
  <2>2. 1 \in 1 .. n + 1 /\ \A i \in 1 .. n : 1 + i \in 1 .. n + 1
    BY <1>4
  <2>3. /\ v \o end \in Seq(DtmfEntry) /\ Len(v \o end) = n + 1 + m
        /\ \A i \in 1 .. n + 1 : (v \o end)[i] = v[i]
        /\ \A i \in 1 .. m : (v \o end)[n + 1 + i] = end[i]
    <3>1. end \in Seq(DtmfEntry) /\ Len(end) = m
      BY <1>7
    <3>2. /\ v \o end \in Seq(DtmfEntry) /\ Len(v \o end) = Len(v) + Len(end)
          /\ \A i \in 1 .. Len(v) : (v \o end)[i] = v[i]
          /\ \A i \in 1 .. Len(end) : (v \o end)[Len(v) + i] = end[i]
      BY <2>1, <3>1
    <3> QED
      BY <2>1, <3>1, <3>2, Zenon
  <2>4. \A i \in 1 .. n : (v \o end)[1 + i] = MakeDTMFPayload(d, FALSE)
    BY <2>1, <2>2, <2>3
  <2> QED
    BY <1>7, <2>1, <2>2, <2>3, <2>4
<1> DEFINE w == v \o end
<1> HIDE DEF w
<1>11. /\ s \in Seq(DtmfEntry) /\ Len(s) = n + m + 2 /\ s[1] = Start /\ s[n + m + 2] = End
       /\ \A i \in 1 .. n : s[1 + i] = MakeDTMFPayload(d, FALSE)
       /\ \A i \in 1 .. m : s[n + 1 + i] = MakeDTMFPayload(d, TRUE)
  <2>1. /\ w \in Seq(DtmfEntry) /\ Len(w) = n + 1 + m /\ w[1] = Start
        /\ \A i \in 1 .. n : w[1 + i] = MakeDTMFPayload(d, FALSE)
        /\ \A i \in 1 .. m : w[n + 1 + i] = MakeDTMFPayload(d, TRUE)
    BY <1>10 DEF w
  <2>2. s = w \o <<End>>
    BY <1>8 DEF v, w
  <2>3. /\ \A i \in 1 .. n : 1 + i \in 1 .. Len(w)
        /\ \A i \in 1 .. m : n + 1 + i \in 1 .. Len(w)
        /\ 1 \in 1 .. Len(w) /\ Len(w) + 1 = n + m + 2
    BY <1>4, <2>1
  <2>4. /\ w \o <<End>> \in Seq(DtmfEntry) /\ Len(w \o <<End>>) = Len(w) + 1
        /\ \A i \in 1 .. Len(w) : (w \o <<End>>)[i] = w[i]
        /\ (w \o <<End>>)[Len(w) + 1] = End
    BY <1>b, <2>1, Concatenated
  <2> QED
    BY <2>1, <2>2, <2>3, <2>4
<1>12. /\ DOMAIN EntryRanks(s) = 1 .. n + m + 2
       /\ \A i \in 1 .. n + m + 2 : EntryRanks(s)[i] =
             IF i = 1 \/ i = n + m + 2 THEN 0 ELSE IF i > n + 1 THEN 2 * d + 1 ELSE 2 * d
  <2>1. EntryRank(Start) = 0 /\ EntryRank(End) = 0
    BY DEF EntryRank, Start, End
  <2>2. EntryRank(MakeDTMFPayload(d, TRUE)) = 2 * d + 1 /\ EntryRank(MakeDTMFPayload(d, FALSE)) = 2 * d
    BY DEF EntryRank, MakeDTMFPayload, Rank
  <2>3. DOMAIN s = 1 .. n + m + 2
    BY <1>4, <1>11
  <2>4. ASSUME NEW i \in 1 .. n + m + 2
        PROVE  EntryRank(s[i]) =
                 IF i = 1 \/ i = n + m + 2 THEN 0 ELSE IF i > n + 1 THEN 2 * d + 1 ELSE 2 * d
    <3>1. CASE i = 1 \/ i = n + m + 2
      BY <1>11, <2>1, <3>1
    <3>2. CASE i # 1 /\ i <= n + 1
      <4>1. PICK k \in 1 .. n : i = 1 + k
        BY <1>4, <3>2
      <4>2. s[1 + k] = MakeDTMFPayload(d, FALSE)
        BY <1>11
      <4>3. ~(i = 1 \/ i = n + m + 2) /\ ~(i > n + 1)
        BY <1>4, <3>2
      <4> QED
        BY <2>2, <4>1, <4>2, <4>3
    <3>3. CASE i > n + 1 /\ i # n + m + 2
      <4>1. PICK k \in 1 .. m : i = n + 1 + k
        BY <1>4, <3>3
      <4>2. s[n + 1 + k] = MakeDTMFPayload(d, TRUE)
        BY <1>11
      <4>3. ~(i = 1 \/ i = n + m + 2) /\ i > n + 1
        BY <1>4, <3>3
      <4> QED
        BY <2>2, <4>1, <4>2, <4>3
    <3> QED
      BY <1>4, <3>1, <3>2, <3>3
  <2> QED
    BY <2>3, <2>4 DEF EntryRanks
<1>13. s # <<>> /\ s[Len(s)] = End
  BY <1>4, <1>11
<1>14. Ascending(EntryRanks(s))
  BY <1>4, <1>12 DEF Ascending
<1>15. \A i \in DOMAIN EntryRanks(s) : EntryRanks(s)[i] \in {0, 2 * d, 2 * d + 1}
  BY <1>4, <1>12
<1> QED
  BY <1>11, <1>13, <1>14, <1>15 DEF s

\* What the peer knows after a packet that none ahead is before.
LEMMA PeerHears ==
    ASSUME NEW p \in [mDtmfEndBit : BOOLEAN, reported : Seq(Nat)], NEW n \in Nat,
           NEW h \in Seq({"nothing", "tone", "end"}), Len(h) = n,
           NEW H \in SUBSET (Nat \ {0}), NEW x \in DtmfPacket,
           Rank(x) \in H, \A k \in H : Rank(x) <= k, PeerInv(p, h, n, H)
    PROVE  PeerInv(processDtmf(p, x),
                   [h EXCEPT ![x.digit] = IF ~x.end /\ @ = "nothing" THEN "tone"
                                          ELSE IF x.end /\ @ = "tone" THEN "end" ELSE @], n, H)
<1> DEFINE q == processDtmf(p, x)
           g == [h EXCEPT ![x.digit] = IF ~x.end /\ @ = "nothing" THEN "tone"
                                       ELSE IF x.end /\ @ = "tone" THEN "end" ELSE @]
           d == x.digit
<1>1. d \in 1 .. n /\ x.end \in BOOLEAN /\ Rank(x) = 2 * d + (IF x.end THEN 1 ELSE 0)
  BY DEF PeerInv, Rank, DtmfPacket
<1>2. \A k \in H : k \in Nat /\ 2 <= k /\ k <= 2 * n + 1
  BY DEF PeerInv
<1>3. \A c \in 1 .. n \ {d} : g[c] = h[c]
  OBVIOUS
<1>4. g[d] = IF ~x.end /\ h[d] = "nothing" THEN "tone" ELSE IF x.end /\ h[d] = "tone" THEN "end" ELSE h[d]
  BY <1>1
<1>5. CASE ~x.end
  <2>1. q.mDtmfEndBit = TRUE /\ q.reported = p.reported
    BY <1>5 DEF processDtmf
  <2>2. \A i \in DOMAIN p.reported : p.reported[i] \in Nat /\ 2 * p.reported[i] + 1 <= 2 * d
    BY <1>1, <1>5 DEF PeerInv
  <2>3. \A k \in H : 2 * d <= k
    BY <1>1, <1>2, <1>5
  <2>4. ASSUME NEW i \in DOMAIN p.reported, NEW k \in H PROVE 2 * p.reported[i] + 2 <= k
    <3>1. p.reported[i] \in Nat /\ 2 * p.reported[i] + 1 <= 2 * d
      BY <2>2
    <3>2. k \in Nat /\ d \in Nat /\ 2 * d <= k
      BY <1>1, <1>2, <2>3
    <3> HIDE DEF d
    <3> QED
      BY <3>1, <3>2
  <2>5. \A c \in 1 .. n :
          /\ g[c] # "nothing" => \A k \in H : 2 * c <= k
          /\ g[c] = "end" => \E i \in DOMAIN p.reported : p.reported[i] = c
    BY <1>3, <1>4, <1>5, <2>3 DEF PeerInv
  <2> HIDE DEF q, g, d
  <2>6. PeerInv(q, g, n, H)
    BY <2>1, <2>4, <2>5 DEF PeerInv
  <2> QED
    BY <2>6 DEF q, g
<1>6. CASE x.end /\ ~p.mDtmfEndBit
  <2>1. q = p
    BY <1>6 DEF processDtmf
  <2>2. h[d] # "tone"
    BY <1>1, <1>6 DEF PeerInv
  <2>3. \A c \in 1 .. n : g[c] = h[c]
    BY <1>3, <1>4, <1>6, <2>2
  <2> HIDE DEF q, g, d
  <2>4. PeerInv(q, g, n, H)
    BY <2>1, <2>3 DEF PeerInv
  <2> QED
    BY <2>4 DEF q, g
<1>7. CASE x.end /\ p.mDtmfEndBit
  <2>1. q = [mDtmfEndBit |-> FALSE, reported |-> Append(p.reported, d)]
    BY <1>7 DEF processDtmf
  <2>0. Len(p.reported) \in Nat /\ DOMAIN p.reported = 1 .. Len(p.reported)
    OBVIOUS
  <2>2. /\ q.mDtmfEndBit = FALSE
        /\ DOMAIN q.reported = 1 .. Len(p.reported) + 1
        /\ \A i \in 1 .. Len(p.reported) : q.reported[i] = p.reported[i]
        /\ q.reported[Len(p.reported) + 1] = d
    BY <1>1, <2>1
  <2>3. \A k \in H : 2 * d + 1 <= k
    BY <1>1, <1>2, <1>7
  <2>r. Rank(x) = 2 * d + 1 /\ d \in Nat
    BY <1>1, <1>7
  <2> HIDE DEF q, g, d
  <2>4. \A i \in 1 .. Len(p.reported) : p.reported[i] \in Nat /\ p.reported[i] < d
    <3> SUFFICES ASSUME NEW i \in 1 .. Len(p.reported)
                 PROVE  p.reported[i] \in Nat /\ p.reported[i] < d
      OBVIOUS
    <3>1. p.reported[i] \in Nat
      OBVIOUS
    <3>2. 2 * p.reported[i] + 2 <= Rank(x)
      BY <1>7, <2>0 DEF PeerInv
    <3> QED
      BY <2>r, <3>1, <3>2
  <2>5. \A c \in 1 .. n :
          /\ g[c] # "nothing" => \A k \in H : 2 * c <= k
          /\ g[c] = "tone" => \A k \in H : 2 * c + 2 <= k
    <3> SUFFICES ASSUME NEW c \in 1 .. n
                 PROVE  /\ g[c] # "nothing" => \A k \in H : 2 * c <= k
                        /\ g[c] = "tone" => \A k \in H : 2 * c + 2 <= k
      OBVIOUS
    <3>1. g[c] # "nothing" => h[c] # "nothing"
      BY <1>3, <1>4, <1>7
    <3>2. g[c] # "nothing" => \A k \in H : 2 * c <= k
      BY <3>1 DEF PeerInv
    <3>3. g[c] = "tone" => c # d
      BY <1>4, <1>7
    <3>4. g[c] = "tone" => c < d
      BY <1>1, <1>7, <3>2, <3>3
    <3> QED
      BY <1>1, <1>2, <2>3, <3>2, <3>4
  <2>6. \A c \in 1 .. n : g[c] = "end" => \E i \in DOMAIN q.reported : q.reported[i] = c
    <3> SUFFICES ASSUME NEW c \in 1 .. n, g[c] = "end"
                 PROVE  \E i \in DOMAIN q.reported : q.reported[i] = c
      OBVIOUS
    <3>1. CASE c = d
      <4>1. Len(p.reported) + 1 \in DOMAIN q.reported
        BY <2>0, <2>2
      <4> QED
        BY <2>2, <3>1, <4>1
    <3>2. CASE c # d
      <4>1. PICK i \in DOMAIN p.reported : p.reported[i] = c
        BY <1>3, <3>2 DEF PeerInv
      <4>2. i \in DOMAIN q.reported /\ q.reported[i] = c
        BY <2>0, <2>2, <4>1
      <4> QED
        BY <4>2
    <3> QED
      BY <3>1, <3>2
  <2>7. \A i, j \in DOMAIN q.reported : i < j => q.reported[i] < q.reported[j]
    <3> SUFFICES ASSUME NEW i \in DOMAIN q.reported, NEW j \in DOMAIN q.reported, i < j
                 PROVE  q.reported[i] < q.reported[j]
      OBVIOUS
    <3>0. i \in 1 .. Len(p.reported) + 1 /\ j \in 1 .. Len(p.reported) + 1
      BY <2>2
    <3>1. i \in 1 .. Len(p.reported) /\ q.reported[i] = p.reported[i]
      BY <2>0, <2>2, <3>0
    <3>2. CASE j = Len(p.reported) + 1
      BY <2>2, <2>4, <3>1, <3>2
    <3>3. CASE j # Len(p.reported) + 1
      <4>0. j \in 1 .. Len(p.reported)
        BY <2>0, <3>0, <3>3
      <4>1. q.reported[j] = p.reported[j]
        BY <2>2, <4>0
      <4> QED
        BY <2>0, <3>1, <4>0, <4>1 DEF PeerInv
    <3> QED
      BY <3>2, <3>3
  <2>8. \A i \in DOMAIN q.reported : q.reported[i] <= n /\ \A k \in H : 2 * q.reported[i] + 1 <= k
    <3> SUFFICES ASSUME NEW i \in DOMAIN q.reported
                 PROVE  q.reported[i] <= n /\ \A k \in H : 2 * q.reported[i] + 1 <= k
      OBVIOUS
    <3>1. CASE i = Len(p.reported) + 1
      BY <1>1, <2>2, <2>3, <3>1
    <3>2. CASE i # Len(p.reported) + 1
      <4>1. i \in 1 .. Len(p.reported)
        BY <2>0, <2>2, <3>2
      <4>2. q.reported[i] = p.reported[i]
        BY <2>2, <4>1
      <4> QED
        BY <2>0, <4>1, <4>2 DEF PeerInv
    <3> QED
      BY <3>1, <3>2
  <2> HIDE DEF q, g, d
  <2>9. PeerInv(q, g, n, H)
    BY <1>2, <2>2, <2>5, <2>6, <2>7, <2>8 DEF PeerInv
  <2> QED
    BY <2>9 DEF q, g
<1> QED
  BY <1>1, <1>5, <1>6, <1>7

\* A packet is sent as it was queued, or not at all.
LEMMA SentInOrder ==
    ASSUME NEW t \in Seq(DtmfPacket), NEW s \in Seq(DtmfEntry), s # <<>>, NEW c \in Seq(DtmfEntry),
           NEW r \in [mDtmfMode : BOOLEAN, mMark : BOOLEAN]
    PROVE  /\ t \o Sends(r, Head(s)) \in Seq(DtmfPacket)
           /\ InOrder(PacketRanks(t), EntryRanks(s), EntryRanks(c)) =>
                /\ InOrder(PacketRanks(t \o Sends(r, Head(s))), EntryRanks(Tail(s)), EntryRanks(c))
                /\ Ahead(PacketRanks(t \o Sends(r, Head(s))), EntryRanks(Tail(s)), EntryRanks(c))
                     \subseteq Ahead(PacketRanks(t), EntryRanks(s), EntryRanks(c))
<1> DEFINE e == Head(s)
           m == [digit |-> e.digit, end |-> e.end, mark |-> r.mMark]
<1>1. e \in DtmfEntry /\ Tail(s) \in Seq(DtmfEntry)
  OBVIOUS
<1>2. [digit |-> 1, end |-> FALSE, mark |-> FALSE] \in DtmfPacket
  BY DEF DtmfPacket
<1>m. e.type = "DTMF_PAYLOAD" => m \in DtmfPacket
  BY <1>1 DEF DtmfEntry, DtmfPacket
<1>3. PacketRanks(t) \in Seq(Nat) /\ EntryRanks(s) \in Seq(Nat) /\ EntryRanks(c) \in Seq(Nat)
  BY <1>1, <1>2, Ranks
<1>4. EntryRanks(s) # <<>> /\ Head(EntryRanks(s)) = EntryRank(e) /\ EntryRanks(Tail(s)) = Tail(EntryRanks(s))
  BY <1>1, <1>2, Ranks
<1>t. InOrder(PacketRanks(t), EntryRanks(s), EntryRanks(c)) =>
        /\ InOrder(PacketRanks(t), Tail(EntryRanks(s)), EntryRanks(c))
        /\ Ahead(PacketRanks(t), Tail(EntryRanks(s)), EntryRanks(c))
             \subseteq Ahead(PacketRanks(t), EntryRanks(s), EntryRanks(c))
        /\ InOrder(Append(PacketRanks(t), Head(EntryRanks(s))), Tail(EntryRanks(s)), EntryRanks(c))
        /\ Ahead(Append(PacketRanks(t), Head(EntryRanks(s))), Tail(EntryRanks(s)), EntryRanks(c))
             \subseteq Ahead(PacketRanks(t), EntryRanks(s), EntryRanks(c))
  BY <1>3, <1>4, HandOn
<1>5. CASE Sends(r, e) = <<>>
  <2>1. t \o Sends(r, e) = t
    BY <1>5
  <2>2. InOrder(PacketRanks(t), EntryRanks(s), EntryRanks(c)) =>
          /\ InOrder(PacketRanks(t), EntryRanks(Tail(s)), EntryRanks(c))
          /\ Ahead(PacketRanks(t), EntryRanks(Tail(s)), EntryRanks(c))
               \subseteq Ahead(PacketRanks(t), EntryRanks(s), EntryRanks(c))
    BY <1>4, <1>t, Zenon
  <2> QED
    BY <2>1, <2>2
<1>6. CASE Sends(r, e) # <<>>
  <2>1. e.type = "DTMF_PAYLOAD" /\ Sends(r, e) = <<m>>
    BY <1>6 DEF Sends
  <2>2. EntryRank(e) = Rank(m)
    BY <2>1 DEF EntryRank, Rank
  <2> HIDE DEF e, m
  <2>3. t \o Sends(r, e) = Append(t, m)
    BY <1>2, <2>1
  <2>4. PacketRanks(Append(t, m)) = Append(PacketRanks(t), Head(EntryRanks(s)))
    BY <1>1, <1>m, <1>4, <2>1, <2>2, Ranks
  <2>5. Append(t, m) \in Seq(DtmfPacket)
    BY <1>m, <2>1
  <2>6. InOrder(PacketRanks(t), EntryRanks(s), EntryRanks(c)) =>
          /\ InOrder(PacketRanks(Append(t, m)), EntryRanks(Tail(s)), EntryRanks(c))
          /\ Ahead(PacketRanks(Append(t, m)), EntryRanks(Tail(s)), EntryRanks(c))
               \subseteq Ahead(PacketRanks(t), EntryRanks(s), EntryRanks(c))
    BY <1>4, <1>t, <2>4, Zenon
  <2> QED
    BY <2>3, <2>5, <2>6 DEF e
<1> QED
  BY <1>5, <1>6

\* The rest of the list after one entry, or two.
LEMMA RestOfQueue ==
    ASSUME NEW s \in Seq(DtmfEntry), s # <<>>
    PROVE  /\ SubSeq(s, 2, Len(s)) = Tail(s)
           /\ Len(s) > 1 => /\ SubSeq(s, 3, Len(s)) = Tail(Tail(s)) /\ Tail(s) # <<>>
                            /\ Head(Tail(s)) = s[2]
<1>1. Len(s) \in Nat /\ Len(s) > 0
  OBVIOUS
<1>2. Tail(s) \in Seq(DtmfEntry) /\ Len(Tail(s)) = Len(s) - 1
  BY <1>1
<1>3. SubSeq(s, 2, Len(s)) = Tail(s)
  OBVIOUS
<1>4. ASSUME Len(s) > 1
      PROVE  SubSeq(s, 3, Len(s)) = Tail(Tail(s)) /\ Tail(s) # <<>> /\ Head(Tail(s)) = s[2]
  <2>1. Tail(s) # <<>> /\ Head(Tail(s)) = s[2]
    <3>1. Tail(s) # <<>>
      <4>1. Len(Tail(s)) # 0
        BY <1>1, <1>2, <1>4
      <4>2. \A u : u = <<>> => Len(u) = 0
        OBVIOUS
      <4> QED
        BY <4>1, <4>2
    <3>2. Head(Tail(s)) = Tail(s)[1]
      BY <1>2, <3>1
    <3>3. Tail(s)[1] = s[2]
      BY <1>1, <1>2, <1>4
    <3> QED
      BY <3>1, <3>2, <3>3
  <2>2. Tail(Tail(s)) \in Seq(DtmfEntry) /\ Len(Tail(Tail(s))) = Len(s) - 2
    BY <1>1, <1>2, <1>4, <2>1
  <2>3. \A i \in 1 .. Len(s) - 2 : Tail(Tail(s))[i] = s[i + 2]
    BY <1>1, <1>2, <1>4, <2>1, <2>2
  <2>4. /\ SubSeq(s, 3, Len(s)) \in Seq(DtmfEntry) /\ Len(SubSeq(s, 3, Len(s))) = Len(s) - 2
        /\ \A i \in 1 .. Len(s) - 2 : SubSeq(s, 3, Len(s))[i] = s[i + 2]
    <3>1. SubSeq(s, 3, Len(s)) \in Seq(DtmfEntry) /\ Len(SubSeq(s, 3, Len(s))) = Len(s) - 2
      <4>1. \A i \in 3 .. Len(s) : s[i] \in DtmfEntry
        BY <1>1
      <4>2. \A n \in Nat : n > 1 => (IF 3 <= n THEN n - 3 + 1 ELSE 0) = n - 2
        OBVIOUS
      <4> QED
        <5>1. Len(s) \in Int /\ 3 \in Int
          BY <1>1
        <5>2. /\ SubSeq(s, 3, Len(s)) \in Seq(DtmfEntry)
              /\ Len(SubSeq(s, 3, Len(s))) = IF 3 <= Len(s) THEN Len(s) - 3 + 1 ELSE 0
          BY <4>1, <5>1, SubSeqProperties
        <5>3. (IF 3 <= Len(s) THEN Len(s) - 3 + 1 ELSE 0) = Len(s) - 2
          BY <1>1, <1>4, <4>2, Zenon
        <5> QED
          BY <5>2, <5>3
    <3>2. ASSUME NEW i \in 1 .. Len(s) - 2 PROVE SubSeq(s, 3, Len(s))[i] = s[i + 2]
      <4>1. SubSeq(s, 3, Len(s))[i] = s[3 + i - 1] /\ 3 + i - 1 = i + 2
        BY <1>1, <1>4, SubSeqProperties
      <4> QED
        BY <4>1
    <3> QED
      BY <3>1, <3>2
  <2> QED
    BY <1>1, <2>1, <2>2, <2>3, <2>4, SeqEqual
<1> QED
  BY <1>3, <1>4

\* The invariant holds at the start.
LEMMA DtmfInitInv == DtmfInit => DtmfInv
<1> SUFFICES ASSUME DtmfInit PROVE DtmfInv
  OBVIOUS
<1>1. DtmfTypeInv
  <2>1. <<>> \in Seq(Nat) /\ <<>> \in Seq(DtmfEntry) /\ <<>> \in Seq(DtmfPacket)
        /\ <<>> \in Seq({"nothing", "tone", "end"})
    OBVIOUS
  <2>2. encoder \in DtmfEncoder /\ encoder.at = "wait"
    BY <2>1 DEF DtmfInit, DtmfEncoder
  <2>3. rtp \in [mDtmfMode : BOOLEAN, mMark : BOOLEAN] /\ peer \in [mDtmfEndBit : BOOLEAN, reported : Seq(Nat)]
    BY <2>1 DEF DtmfInit
  <2> QED
    BY <2>1, <2>2, <2>3 DEF DtmfInit, DtmfTypeInv
<1>2. VoiceComesBack
  BY DEF DtmfInit, VoiceComesBack
<1>3. TimedInv
  <2>1. Air = <<>> /\ Waiting = <<>> /\ Calling = <<>>
    BY DEF DtmfInit, Air, Waiting, Calling, PacketRanks, EntryRanks
  <2>2. InOrder(Air, Waiting, Calling)
    BY <2>1 DEF InOrder, Ascending, Precedes
  <2>3. Ahead(Air, Waiting, Calling) = {}
    BY <2>1 DEF Ahead, Occurs
  <2>4. Len(asked) = 0 /\ peer.reported = <<>> /\ encoder.at = "wait" /\ encoder.signals = 0
    BY DEF DtmfInit
  <2>5. PeerInv(peer, heard, Len(asked), Ahead(Air, Waiting, Calling))
    BY <2>3, <2>4 DEF PeerInv
  <2> QED
    BY <2>2, <2>4, <2>5 DEF TimedInv
<1> QED
  BY <1>1, <1>2, <1>3 DEF DtmfInv

\* What ProcessData takes from the queue, and what goes out for it.
LEMMA Processed ==
    ASSUME DtmfTypeInv, ProcessData
    PROVE  \/ /\ queue # <<>> /\ queue' = Tail(queue)
              /\ rtp' = ProcessAudioData(rtp, Head(queue))
              /\ net' = net \o Sends(rtp, Head(queue))
           \/ /\ queue # <<>> /\ Tail(queue) # <<>> /\ queue' = Tail(Tail(queue))
              /\ Head(queue) = Start /\ Head(Tail(queue)).type = "DTMF_PAYLOAD"
              /\ rtp' = ProcessAudioData(ProcessAudioData(rtp, Head(queue)), Head(Tail(queue)))
              /\ net' = (net \o Sends(rtp, Head(queue)))
                          \o Sends(ProcessAudioData(rtp, Head(queue)), Head(Tail(queue)))
<1>1. queue \in Seq(DtmfEntry) /\ net \in Seq(DtmfPacket) /\ rtp \in [mDtmfMode : BOOLEAN, mMark : BOOLEAN]
  BY DEF DtmfTypeInv
<1>2. Len(queue) \in Nat /\ Len(queue) > 0 /\ queue # <<>>
  BY <1>1 DEF ProcessData, HasEntryAt
<1>3. FirstEntry(queue) = Head(queue)
  BY <1>1, <1>2 DEF FirstEntry
<1>4. net \o Sends(rtp, Head(queue)) \in Seq(DtmfPacket)
  BY <1>1, <1>2, SentInOrder
<1>5. (net \o Sends(rtp, Head(queue))) \o <<>> = net \o Sends(rtp, Head(queue))
  BY <1>4, ConcatEmptySeq
<1>6. CASE Head(queue) = Start /\ HasEntryAt(queue, 1) /\ EntryAt(queue, 1).type = "DTMF_PAYLOAD"
  <2>1. Len(queue) > 1
    BY <1>6 DEF HasEntryAt
  <2>2. SubSeq(queue, 3, Len(queue)) = Tail(Tail(queue)) /\ Tail(queue) # <<>> /\ Head(Tail(queue)) = queue[2]
    BY <1>1, <1>2, <2>1, RestOfQueue
  <2>3. EntryAt(queue, 1) = Head(Tail(queue))
    BY <2>2 DEF EntryAt
  <2>4. queue' = SubSeq(queue, 3, Len(queue))
    BY <1>3, <1>6 DEF ProcessData
  <2>5. /\ rtp' = ProcessAudioData(ProcessAudioData(rtp, Head(queue)), Head(Tail(queue)))
        /\ net' = (net \o Sends(rtp, Head(queue)))
                    \o Sends(ProcessAudioData(rtp, Head(queue)), Head(Tail(queue)))
    <3>1. rtp' = ProcessAudioData(ProcessAudioData(rtp, FirstEntry(queue)), EntryAt(queue, 1))
      BY <1>3, <1>6 DEF ProcessData
    <3>2. net' = (net \o Sends(rtp, FirstEntry(queue)))
                    \o Sends(ProcessAudioData(rtp, FirstEntry(queue)), EntryAt(queue, 1))
      BY <1>3, <1>6 DEF ProcessData
    <3> QED
      BY <1>3, <2>3, <3>1, <3>2, Zenon
  <2> QED
    BY <1>2, <1>6, <2>2, <2>3, <2>4, <2>5
<1>7. CASE ~(Head(queue) = Start /\ HasEntryAt(queue, 1) /\ EntryAt(queue, 1).type = "DTMF_PAYLOAD")
  <2>1. queue' = SubSeq(queue, 2, Len(queue)) /\ rtp' = ProcessAudioData(rtp, Head(queue))
    BY <1>3, <1>7 DEF ProcessData
  <2>2. net' = (net \o Sends(rtp, Head(queue))) \o <<>>
    BY <1>3, <1>7 DEF ProcessData
  <2>3. SubSeq(queue, 2, Len(queue)) = Tail(queue)
    BY <1>1, <1>2, RestOfQueue
  <2> QED
    BY <1>2, <1>5, <2>1, <2>2, <2>3
<1> QED
  BY <1>6, <1>7

\* Each action keeps the types.
LEMMA DtmfTypeStep == DtmfTypeInv /\ [DtmfNext]_dtmfVars => DtmfTypeInv'
<1> SUFFICES ASSUME DtmfTypeInv, [DtmfNext]_dtmfVars PROVE DtmfTypeInv'
  OBVIOUS
<1>0. {Start, End} \subseteq DtmfEntry /\ \A d \in Nat \ {0}, b \in BOOLEAN : MakeDTMFPayload(d, b) \in DtmfEntry
  BY DEF Start, End, MakeDTMFPayload, DtmfEntry
<1>r. \A r \in [mDtmfMode : BOOLEAN, mMark : BOOLEAN], e \in DtmfEntry :
        ProcessAudioData(r, e) \in [mDtmfMode : BOOLEAN, mMark : BOOLEAN]
  BY DEF ProcessAudioData
<1>h. net # <<>> => Head(net) \in DtmfPacket
  BY DEF DtmfTypeInv
<1>p. ASSUME net # <<>>, OnMediaDataInd(Head(net))
      PROVE  /\ peer' \in [mDtmfEndBit : BOOLEAN, reported : Seq(Nat)]
             /\ heard' \in Seq({"nothing", "tone", "end"}) /\ Len(heard') = Len(heard)
  <2>1. Head(net).digit \in Nat
    BY <1>h, <1>p DEF DtmfPacket
  <2>2. peer' \in [mDtmfEndBit : BOOLEAN, reported : Seq(Nat)]
    <3> DEFINE x == Head(net)
    <3>1. x.digit \in Nat /\ peer' = processDtmf(peer, x)
      BY <1>p, <2>1 DEF OnMediaDataInd
    <3> HIDE DEF x
    <3>2. peer.reported \in Seq(Nat) /\ Append(peer.reported, x.digit) \in Seq(Nat)
      BY <3>1 DEF DtmfTypeInv
    <3> QED
      BY <3>1, <3>2 DEF processDtmf, DtmfTypeInv
  <2>3. heard' \in Seq({"nothing", "tone", "end"}) /\ Len(heard') = Len(heard)
    <3> DEFINE x == Head(net)
               v == IF ~x.end /\ heard[x.digit] = "nothing" THEN "tone"
                    ELSE IF x.end /\ heard[x.digit] = "tone" THEN "end" ELSE heard[x.digit]
    <3>1. heard' = [heard EXCEPT ![x.digit] = v]
      BY <1>p DEF OnMediaDataInd
    <3>2. heard \in Seq({"nothing", "tone", "end"})
      BY DEF DtmfTypeInv
    <3>3. x.digit \in DOMAIN heard => v \in {"nothing", "tone", "end"}
      BY <3>2
    <3> HIDE DEF v, x
    <3>4. DOMAIN heard = 1 .. Len(heard) /\ Len(heard) \in Nat
      BY <3>2
    <3>5. heard' = [i \in 1 .. Len(heard) |-> IF i = x.digit THEN v ELSE heard[i]]
      BY <3>1, <3>4
    <3>6. \A i \in 1 .. Len(heard) : (IF i = x.digit THEN v ELSE heard[i]) \in {"nothing", "tone", "end"}
      BY <3>2, <3>3, <3>4
    <3>7. heard' \in Seq({"nothing", "tone", "end"})
      BY <3>4, <3>5, <3>6, IsASeq
    <3> QED
      BY <3>4, <3>5, <3>7
  <2> QED
    BY <2>2, <2>3
<1>1. ASSUME NEW duration \in Durations, sendDtmf(duration) PROVE DtmfTypeInv'
  <2>0. Len(asked) \in Nat
    BY DEF DtmfTypeInv
  <2>1. duration \in Nat /\ Digit \in Nat \ {0}
    BY <2>0 DEF Digit
  <2>2. SendDTMFEvent(Digit, duration) \in Seq(DtmfEntry)
    BY <2>1, EventIsOrdered
  <2>3. asked' \in Seq(Nat) /\ Len(asked') = Len(asked) + 1
    BY <1>1, <2>1 DEF sendDtmf, DtmfTypeInv
  <2>4. heard' \in Seq({"nothing", "tone", "end"}) /\ Len(heard') = Len(heard) + 1
    <3>1. heard' = Append(heard, "nothing") /\ heard \in Seq({"nothing", "tone", "end"})
      BY <1>1 DEF sendDtmf, DtmfTypeInv
    <3>2. "nothing" \in {"nothing", "tone", "end"}
      OBVIOUS
    <3> QED
      BY <3>1, <3>2, AppendProperties
  <2>5. caller' \in Seq(DtmfEntry)
    BY <1>1, <2>2 DEF sendDtmf, DtmfTypeInv
  <2>6. encoder' \in DtmfEncoder /\ encoder'.at = encoder.at
    <3>1. Append(encoder.mListDtmfDigit, Digit) \in Seq(Nat \ {0}) /\ encoder.signals + 1 \in Nat
      BY <2>1 DEF DtmfTypeInv, DtmfEncoder
    <3> QED
      BY <1>1, <3>1 DEF sendDtmf, DtmfTypeInv, DtmfEncoder
  <2>7. encoder.mListDtmfDigit # <<>> => encoder'.mListDtmfDigit # <<>>
    <3>1. Append(encoder.mListDtmfDigit, Digit) # <<>>
      <4>1. encoder.mListDtmfDigit \in Seq(Nat \ {0})
        BY DEF DtmfTypeInv, DtmfEncoder
      <4>2. Len(Append(encoder.mListDtmfDigit, Digit)) # 0
        BY <2>1, <4>1
      <4>3. \A u : u = <<>> => Len(u) = 0
        OBVIOUS
      <4> QED
        BY <4>2, <4>3
    <3> QED
      BY <1>1, <3>1 DEF sendDtmf, DtmfTypeInv, DtmfEncoder
  <2>8. UNCHANGED <<queue, rtp, net, faults, peer>>
    BY <1>1 DEF sendDtmf
  <2> QED
    BY <2>3, <2>4, <2>5, <2>6, <2>7, <2>8 DEF DtmfTypeInv
<1>a. \A e \in DtmfEntry : AddEntry(queue, e) \in Seq(DtmfEntry)
  BY DEF AddEntry, DtmfTypeInv
<1>2. CASE SendDataToRearNode
  BY <1>2 DEF SendDataToRearNode, DtmfTypeInv, AddEntry
<1>3. CASE Wake
  <2>1. encoder' \in DtmfEncoder /\ encoder'.mListDtmfDigit = encoder.mListDtmfDigit
    <3>0. encoder \in DtmfEncoder /\ encoder.signals \in Nat /\ encoder.signals > 0
      BY <1>3 DEF Wake, DtmfTypeInv, DtmfEncoder
    <3>1. encoder \in DtmfEncoder /\ encoder.signals - 1 \in Nat /\ MaxTone \in Int
      BY <3>0
    <3>2. [encoder EXCEPT !.signals = encoder.signals - 1] \in DtmfEncoder
      BY <3>1 DEF DtmfEncoder
    <3>3. [encoder EXCEPT !.signals = encoder.signals - 1, !.at = "tone", !.left = MaxTone] \in DtmfEncoder
      BY <3>1 DEF DtmfEncoder
    <3>4. \/ encoder' = [encoder EXCEPT !.signals = encoder.signals - 1]
          \/ encoder' = [encoder EXCEPT !.signals = encoder.signals - 1, !.at = "tone", !.left = MaxTone]
      BY <1>3 DEF Wake
    <3> QED
      BY <3>1, <3>2, <3>3, <3>4 DEF DtmfEncoder
  <2>2. encoder'.at # "wait" => encoder.mListDtmfDigit # <<>>
    BY <1>3 DEF Wake, DtmfTypeInv, DtmfEncoder
  <2>3. queue' \in Seq(DtmfEntry)
    BY <1>0, <1>3, <1>a DEF Wake, DtmfTypeInv
  <2>4. UNCHANGED <<asked, caller, rtp, net, faults, peer, heard>>
    BY <1>3 DEF Wake
  <2> QED
    BY <2>1, <2>2, <2>3, <2>4 DEF DtmfTypeInv
<1>d. encoder.at # "wait" => Sounding \in Nat \ {0}
  BY DEF Sounding, DtmfTypeInv, DtmfEncoder
<1>4. CASE Tone
  <2>1. MakeDTMFPayload(Sounding, FALSE) \in DtmfEntry
    BY <1>0, <1>4, <1>d DEF Tone
  <2>2. encoder' \in DtmfEncoder /\ encoder'.mListDtmfDigit = encoder.mListDtmfDigit /\ encoder.at = "tone"
    <3>1. encoder \in DtmfEncoder /\ encoder.left - 1 \in Int
      BY DEF DtmfTypeInv, DtmfEncoder
    <3>2. encoder' = [encoder EXCEPT !.left = encoder.left - 1] /\ encoder.at = "tone"
      BY <1>4 DEF Tone
    <3> QED
      BY <3>1, <3>2 DEF DtmfEncoder
  <2>3. queue' \in Seq(DtmfEntry)
    BY <1>4, <1>a, <2>1 DEF Tone
  <2>4. UNCHANGED <<asked, caller, rtp, net, faults, peer, heard>>
    BY <1>4 DEF Tone
  <2> QED
    BY <2>2, <2>3, <2>4 DEF DtmfTypeInv
<1>5. CASE StopTone
  <2>1. Ends \in Int
    BY EndsIsInt
  <2> QED
    BY <1>5, <2>1 DEF StopTone, DtmfTypeInv, DtmfEncoder
<1>6. CASE EndTone
  <2>1. MakeDTMFPayload(Sounding, TRUE) \in DtmfEntry
    BY <1>0, <1>6, <1>d DEF EndTone, Ending
  <2>2. encoder.mListDtmfDigit \in Seq(Nat \ {0}) /\ encoder.mListDtmfDigit # <<>>
    BY <1>6 DEF EndTone, Ending, DtmfTypeInv, DtmfEncoder
  <2>3. Tail(encoder.mListDtmfDigit) \in Seq(Nat \ {0})
    BY <2>2
  <2>4. encoder' \in DtmfEncoder /\ (encoder'.at # "wait" => encoder'.mListDtmfDigit # <<>>)
    <3>1. encoder \in DtmfEncoder /\ encoder.left - 1 \in Int
      BY DEF DtmfTypeInv, DtmfEncoder
    <3>2. \/ encoder' = [encoder EXCEPT !.left = encoder.left - 1]
          \/ encoder' = [encoder EXCEPT !.at = "wait", !.mListDtmfDigit = Tail(encoder.mListDtmfDigit)]
      BY <1>6 DEF EndTone
    <3>3. CASE encoder' = [encoder EXCEPT !.left = encoder.left - 1]
      BY <2>2, <3>1, <3>3 DEF DtmfEncoder
    <3>4. CASE encoder' = [encoder EXCEPT !.at = "wait", !.mListDtmfDigit = Tail(encoder.mListDtmfDigit)]
      BY <2>3, <3>1, <3>4 DEF DtmfEncoder
    <3> QED
      BY <3>2, <3>3, <3>4
  <2>5. queue' \in Seq(DtmfEntry)
    BY <1>0, <1>6, <1>a, <2>1 DEF EndTone
  <2>6. UNCHANGED <<asked, caller, rtp, net, faults, peer, heard>>
    BY <1>6 DEF EndTone
  <2> QED
    BY <2>4, <2>5, <2>6 DEF DtmfTypeInv
<1>7. CASE ProcessData
  <2>1. queue \in Seq(DtmfEntry) /\ net \in Seq(DtmfPacket) /\ rtp \in [mDtmfMode : BOOLEAN, mMark : BOOLEAN]
    BY DEF DtmfTypeInv
  <2>2. \A s \in Seq(DtmfEntry), t \in Seq(DtmfPacket), r \in [mDtmfMode : BOOLEAN, mMark : BOOLEAN] :
          s # <<>> => /\ Tail(s) \in Seq(DtmfEntry) /\ Head(s) \in DtmfEntry
                      /\ t \o Sends(r, Head(s)) \in Seq(DtmfPacket)
    BY SentInOrder
  <2>3. queue' \in Seq(DtmfEntry) /\ net' \in Seq(DtmfPacket) /\ rtp' \in [mDtmfMode : BOOLEAN, mMark : BOOLEAN]
    <3>1. CASE /\ queue # <<>> /\ queue' = Tail(queue)
               /\ rtp' = ProcessAudioData(rtp, Head(queue))
               /\ net' = net \o Sends(rtp, Head(queue))
      BY <1>r, <2>1, <2>2, <3>1, Zenon
    <3>2. CASE /\ queue # <<>> /\ Tail(queue) # <<>> /\ queue' = Tail(Tail(queue))
               /\ rtp' = ProcessAudioData(ProcessAudioData(rtp, Head(queue)), Head(Tail(queue)))
               /\ net' = (net \o Sends(rtp, Head(queue)))
                           \o Sends(ProcessAudioData(rtp, Head(queue)), Head(Tail(queue)))
      <4>1. /\ Tail(queue) \in Seq(DtmfEntry) /\ net \o Sends(rtp, Head(queue)) \in Seq(DtmfPacket)
            /\ ProcessAudioData(rtp, Head(queue)) \in [mDtmfMode : BOOLEAN, mMark : BOOLEAN]
        BY <1>r, <2>1, <2>2, <3>2, Zenon
      <4> QED
        BY <1>r, <2>2, <3>2, <4>1, Zenon
    <3> QED
      BY <1>7, <3>1, <3>2, Processed
  <2> QED
    BY <1>7, <2>3 DEF ProcessData, DtmfTypeInv
<1>8. CASE SendVoice
  BY <1>8 DEF SendVoice, DtmfTypeInv
<1>9. CASE Deliver
  BY <1>9, <1>p DEF Deliver, DtmfTypeInv
<1>10. CASE Double
  BY <1>10, <1>p DEF Double, Fault, DtmfTypeInv
<1>11. CASE Lose
  BY <1>11 DEF Lose, Fault, DtmfTypeInv
<1>12. CASE UNCHANGED dtmfVars
  BY <1>12 DEF dtmfVars, DtmfTypeInv
<1> QED
  BY <1>1, <1>2, <1>3, <1>4, <1>5, <1>6, <1>7, <1>8, <1>9, <1>10, <1>11, <1>12 DEF DtmfNext

\* The last of what is left, and of what is added to.
LEMMA LastOf ==
    ASSUME NEW S, NEW s \in Seq(S)
    PROVE  /\ \A e \in S : Append(s, e) # <<>> /\ Append(s, e)[Len(Append(s, e))] = e
           /\ s # <<>> => /\ Tail(s) = <<>> => Head(s) = s[Len(s)]
                          /\ Tail(s) # <<>> => Tail(s)[Len(Tail(s))] = s[Len(s)]
<1>e. \A u : u = <<>> => Len(u) = 0
  OBVIOUS
<1>1. ASSUME NEW e \in S PROVE Append(s, e) # <<>> /\ Append(s, e)[Len(Append(s, e))] = e
  <2>1. Len(Append(s, e)) = Len(s) + 1 /\ Len(s) \in Nat
    OBVIOUS
  <2>2. Append(s, e)[Len(s) + 1] = e
    OBVIOUS
  <2> QED
    BY <1>e, <2>1, <2>2
<1>2. ASSUME s # <<>>
      PROVE  /\ Tail(s) = <<>> => Head(s) = s[Len(s)]
             /\ Tail(s) # <<>> => Tail(s)[Len(Tail(s))] = s[Len(s)]
  <2>1. Len(s) \in Nat /\ Len(s) > 0 /\ Tail(s) \in Seq(S) /\ Len(Tail(s)) = Len(s) - 1 /\ Head(s) = s[1]
    BY <1>2
  <2>2. ASSUME Tail(s) = <<>> PROVE Head(s) = s[Len(s)]
    <3>0. Len(Tail(s)) = 0
      BY <1>e, <2>2, Zenon
    <3>a. \A a \in Nat : \A b : b = a - 1 /\ b = 0 => a = 1
      OBVIOUS
    <3>1. Len(s) = 1
      BY <2>1, <3>0, <3>a, Zenon
    <3> QED
      BY <2>1, <3>1
  <2>3. ASSUME Tail(s) # <<>> PROVE Tail(s)[Len(Tail(s))] = s[Len(s)]
    <3>1. Len(Tail(s)) # 0
      BY <2>1, <2>3, EmptySeq
    <3>2. Len(Tail(s)) \in 1 .. Len(Tail(s))
      BY <2>1, <3>1
    <3>3. Tail(s)[Len(Tail(s))] = s[Len(Tail(s)) + 1]
      BY <1>2, <3>2, HeadTailProperties
    <3>4. Len(Tail(s)) + 1 = Len(s)
      BY <2>1
    <3> QED
      BY <3>3, <3>4, Zenon
  <2> QED
    BY <2>2, <2>3
<1> QED
  BY <1>1, <1>2

\* Each action leaves the end of a digit behind its start.
LEMMA VoiceStep == DtmfTypeInv /\ VoiceComesBack /\ [DtmfNext]_dtmfVars => VoiceComesBack'
<1> SUFFICES ASSUME DtmfTypeInv, VoiceComesBack, [DtmfNext]_dtmfVars PROVE VoiceComesBack'
  OBVIOUS
<1>t. caller \in Seq(DtmfEntry) /\ queue \in Seq(DtmfEntry) /\ End \in DtmfEntry
  BY DEF DtmfTypeInv, End, DtmfEntry
<1>1. ASSUME NEW duration \in Durations, sendDtmf(duration) PROVE VoiceComesBack'
  <2>1. CASE duration # 0
    <3>1. duration \in Nat /\ Digit \in Nat \ {0}
      BY DEF Digit, DtmfTypeInv
    <3>2. caller' = SendDTMFEvent(Digit, duration)
      BY <1>1, <2>1 DEF sendDtmf
    <3> QED
      BY <3>1, <3>2, EventIsOrdered DEF VoiceComesBack
  <2>2. CASE duration = 0
    <3>1. encoder'.at = encoder.at
      BY <1>1, <2>2 DEF sendDtmf, DtmfTypeInv, DtmfEncoder
    <3>2. UNCHANGED <<caller, queue, rtp>>
      BY <1>1, <2>2 DEF sendDtmf
    <3> QED
      BY <3>1, <3>2 DEF VoiceComesBack
  <2> QED
    BY <2>1, <2>2
<1>2. CASE SendDataToRearNode
  <2>1. caller # <<>> /\ caller' = Tail(caller) /\ queue' = Append(queue, Head(caller)) /\ encoder' = encoder
    BY <1>2 DEF SendDataToRearNode, AddEntry
  <2>2. /\ caller' = <<>> => Head(caller) = End
        /\ caller' # <<>> => caller'[Len(caller')] = End
    BY <1>t, <2>1, LastOf DEF VoiceComesBack
  <2>3. queue' # <<>> /\ queue'[Len(queue')] = Head(caller)
    BY <1>t, <2>1, LastOf
  <2> QED
    BY <2>2, <2>3 DEF VoiceComesBack
<1>3. CASE Wake
  <2>1. caller' = caller /\ rtp' = rtp
    BY <1>3 DEF Wake
  <2>2. \/ encoder'.at = "tone" \/ (encoder'.at = encoder.at /\ queue' = queue)
    BY <1>3 DEF Wake, DtmfTypeInv, DtmfEncoder
  <2> QED
    BY <2>1, <2>2 DEF VoiceComesBack
<1>4. CASE Tone
  BY <1>4 DEF Tone, VoiceComesBack, DtmfTypeInv, DtmfEncoder
<1>5. CASE StopTone
  BY <1>5 DEF StopTone, VoiceComesBack, DtmfTypeInv, DtmfEncoder
<1>6. CASE EndTone
  <2>1. caller' = caller /\ (encoder'.at = "ending" \/ queue' = Append(queue, End))
    BY <1>6 DEF EndTone, Ending, AddEntry, DtmfTypeInv, DtmfEncoder
  <2>2. Append(queue, End) # <<>> /\ Append(queue, End)[Len(Append(queue, End))] = End
    BY <1>t, LastOf
  <2> QED
    BY <2>1, <2>2 DEF VoiceComesBack
<1>7. CASE ProcessData
  <2>0. caller' = caller /\ encoder' = encoder
    BY <1>7 DEF ProcessData
  <2> SUFFICES ASSUME caller = <<>>, encoder.at = "wait"
               PROVE  /\ queue' = <<>> => ~rtp'.mDtmfMode
                      /\ queue' # <<>> => queue'[Len(queue')] = End
    BY <2>0 DEF VoiceComesBack
  <2>1. CASE queue # <<>> /\ queue' = Tail(queue) /\ rtp' = ProcessAudioData(rtp, Head(queue))
    <3>1. queue[Len(queue)] = End
      BY <2>1 DEF VoiceComesBack
    <3>2. /\ queue' = <<>> => Head(queue) = End
          /\ queue' # <<>> => queue'[Len(queue')] = End
      BY <1>t, <2>1, <3>1, LastOf
    <3>3. ~ProcessAudioData(rtp, End).mDtmfMode
      BY DEF ProcessAudioData, End
    <3> QED
      BY <2>1, <3>2, <3>3
  <2>2. CASE /\ queue # <<>> /\ Tail(queue) # <<>> /\ queue' = Tail(Tail(queue))
             /\ Head(Tail(queue)).type = "DTMF_PAYLOAD"
    <3>1. Tail(queue) \in Seq(DtmfEntry) /\ Tail(queue)[Len(Tail(queue))] = End
      BY <1>t, <2>2, LastOf DEF VoiceComesBack
    <3>2. /\ queue' = <<>> => Head(Tail(queue)) = End
          /\ queue' # <<>> => queue'[Len(queue')] = End
      BY <2>2, <3>1, LastOf
    <3>3. Head(Tail(queue)) # End
      BY <2>2 DEF End
    <3> QED
      BY <3>2, <3>3
  <2> QED
    BY <1>7, <2>1, <2>2, Processed
<1>8. CASE SendVoice
  BY <1>8 DEF SendVoice, VoiceComesBack, DtmfTypeInv
<1>9. CASE Deliver \/ Double \/ Lose \/ UNCHANGED dtmfVars
  BY <1>9 DEF Deliver, Double, Lose, dtmfVars, VoiceComesBack
<1> QED
  BY <1>1, <1>2, <1>3, <1>4, <1>5, <1>6, <1>7, <1>8, <1>9 DEF DtmfNext

\* A step that hands packets on, or drops some, in their order.
LEMMA StillTimed ==
    ASSUME DtmfTypeInv, TimedInv, 0 \notin Range(asked),
           InOrder(Air, Waiting, Calling) =>
             /\ InOrder(Air', Waiting', Calling')
             /\ Ahead(Air', Waiting', Calling') \subseteq Ahead(Air, Waiting, Calling),
           UNCHANGED <<asked, encoder, peer, heard>>
    PROVE  TimedInv'
<1>1. InOrder(Air, Waiting, Calling) /\ PeerInv(peer, heard, Len(asked), Ahead(Air, Waiting, Calling))
  BY DEF TimedInv
<1>2. PeerInv(peer, heard, Len(asked), Ahead(Air', Waiting', Calling'))
  BY <1>1, FewerAhead
<1>3. PeerInv(peer', heard', Len(asked'), Ahead(Air', Waiting', Calling'))
  BY <1>2, Zenon
<1> QED
  BY <1>1, <1>3 DEF TimedInv

\* Each action keeps the order of the ranks and what the peer knows.
LEMMA TimedStep == DtmfTypeInv /\ TimedInv /\ [DtmfNext]_dtmfVars => TimedInv'
<1> SUFFICES ASSUME DtmfTypeInv, TimedInv, [DtmfNext]_dtmfVars, 0 \notin Range(asked')
             PROVE  TimedInv'
  BY DEF TimedInv
<1>t. /\ caller \in Seq(DtmfEntry) /\ queue \in Seq(DtmfEntry) /\ net \in Seq(DtmfPacket)
      /\ peer \in [mDtmfEndBit : BOOLEAN, reported : Seq(Nat)] /\ asked \in Seq(Nat)
      /\ heard \in Seq({"nothing", "tone", "end"}) /\ Len(heard) = Len(asked) /\ Len(asked) \in Nat
      /\ rtp \in [mDtmfMode : BOOLEAN, mMark : BOOLEAN]
  BY DEF DtmfTypeInv
<1>x. [digit |-> 1, end |-> FALSE, mark |-> FALSE] \in DtmfPacket /\ End \in DtmfEntry
  BY DEF DtmfPacket, DtmfEntry, End
<1>d. \A t \in Seq(DtmfPacket), s \in Seq(DtmfEntry) : PacketRanks(t) \in Seq(Nat) /\ EntryRanks(s) \in Seq(Nat)
  BY <1>x, Ranks
<1>s. Air \in Seq(Nat) /\ Waiting \in Seq(Nat) /\ Calling \in Seq(Nat)
  BY <1>t, <1>d DEF Air, Waiting, Calling
<1>a. \A u \in Seq({"nothing", "tone", "end"}) :
        /\ Append(u, "nothing")[Len(u) + 1] = "nothing"
        /\ \A d \in 1 .. Len(u) : Append(u, "nothing")[d] = u[d]
  OBVIOUS
<1>0. ASSUME NEW duration \in Durations, sendDtmf(duration) PROVE 0 \notin Range(asked) /\ duration # 0
  <2>1. asked' = Append(asked, duration) /\ duration \in Nat
    BY <1>0 DEF sendDtmf
  <2>2. DOMAIN asked' = 1 .. Len(asked) + 1 /\ asked'[Len(asked) + 1] = duration
    BY <1>t, <2>1
  <2>3. \A i \in DOMAIN asked : i \in DOMAIN asked' /\ asked'[i] = asked[i]
    BY <1>t, <2>1
  <2>4. Len(asked) + 1 \in DOMAIN asked'
    BY <1>t, <2>2
  <2> QED
    BY <2>2, <2>3, <2>4 DEF Range
<1>1. ASSUME NEW duration \in Durations, sendDtmf(duration) PROVE TimedInv'
  <2> DEFINE n == Len(asked)
             new == EntryRanks(SendDTMFEvent(n + 1, duration))
             H == Ahead(Air, Waiting, Calling)
  <2>1. /\ encoder.at = "wait" /\ encoder.signals = 0
        /\ InOrder(Air, Waiting, Calling) /\ PeerInv(peer, heard, n, H)
    BY <1>0, <1>1 DEF TimedInv
  <2>2. /\ caller = <<>> /\ asked' = Append(asked, duration) /\ heard' = Append(heard, "nothing")
        /\ caller' = SendDTMFEvent(n + 1, duration) /\ UNCHANGED <<queue, net, peer>>
        /\ encoder' = [encoder EXCEPT !.mStopDtmf = TRUE]
    BY <1>0, <1>1 DEF sendDtmf, Digit
  <2>3. encoder'.at = "wait" /\ encoder'.signals = 0
    BY <2>1, <2>2 DEF DtmfTypeInv, DtmfEncoder
  <2>4. Air' = Air /\ Waiting' = Waiting /\ Calling' = new /\ Calling = <<>>
    BY <2>2 DEF Air, Waiting, Calling, EntryRanks
  <2>5. Ascending(new) /\ \A i \in DOMAIN new : new[i] \in {0, 2 * (n + 1), 2 * (n + 1) + 1}
    <3>1. n + 1 \in Nat \ {0} /\ duration \in Nat
      BY <1>t
    <3> QED
      BY <3>1, EventIsOrdered
  <2>6. \A k \in H : k \in Nat /\ 2 <= k /\ k <= 2 * n + 1
    BY <2>1 DEF PeerInv, Ahead
  <2>7. /\ \A i \in DOMAIN Air : Air[i] # 0 => Air[i] \in H
        /\ \A i \in DOMAIN Waiting : Waiting[i] # 0 => Waiting[i] \in H
    BY <1>s DEF Ahead, Occurs
  <2>n. n \in Nat
    BY <1>t
  <2> HIDE DEF new, H, n
  <2>8. InOrder(Air, Waiting, new)
    <3>0. \A k \in H, x \in {0, 2 * (n + 1), 2 * (n + 1) + 1} : x # 0 => k <= x
      BY <2>n, <2>6
    <3>1. Precedes(Air, new)
      BY <2>5, <2>7, <3>0, Zenon DEF Precedes
    <3>2. Precedes(Waiting, new)
      BY <2>5, <2>7, <3>0, Zenon DEF Precedes
    <3> QED
      BY <2>1, <2>5, <3>1, <3>2 DEF InOrder
  <2>9. \A k \in Ahead(Air, Waiting, new) : k \in H \/ k \in {2 * (n + 1), 2 * (n + 1) + 1}
    BY <2>4, <2>5 DEF Ahead, Occurs, H
  <2>10. /\ Len(asked') = n + 1 /\ heard'[n + 1] = "nothing"
         /\ \A d \in 1 .. n : heard'[d] = heard[d]
    <3>1. heard' = Append(heard, "nothing") /\ "nothing" \in {"nothing", "tone", "end"}
      BY <2>2
    <3>2. Len(asked') = n + 1
      BY <1>t, <2>2 DEF n
    <3>3. heard'[Len(heard) + 1] = "nothing" /\ \A d \in 1 .. Len(heard) : heard'[d] = heard[d]
      BY <1>a, <1>t, <3>1
    <3> QED
      BY <1>t, <3>2, <3>3, Zenon DEF n
  <2>11. PeerInv(peer, heard', n + 1, Ahead(Air, Waiting, new))
    <3> DEFINE G == Ahead(Air, Waiting, new)
    <3>0. /\ \A k \in G : k \in H \/ k = 2 * n + 2 \/ k = 2 * n + 3
          /\ \A i \in DOMAIN peer.reported : peer.reported[i] \in Nat
      BY <1>t, <2>n, <2>9
    <3> HIDE DEF G
    <3>1. /\ \A i, j \in DOMAIN peer.reported : i < j => peer.reported[i] < peer.reported[j]
          /\ \A i \in DOMAIN peer.reported :
               /\ peer.reported[i] <= n
               /\ \A k \in H : /\ 2 * peer.reported[i] + 1 <= k
                               /\ peer.mDtmfEndBit => 2 * peer.reported[i] + 2 <= k
      BY <2>1 DEF PeerInv
    <3>2. ASSUME NEW i \in DOMAIN peer.reported
          PROVE  /\ peer.reported[i] <= n + 1
                 /\ \A k \in G : /\ 2 * peer.reported[i] + 1 <= k
                                 /\ peer.mDtmfEndBit => 2 * peer.reported[i] + 2 <= k
      BY <2>n, <3>0, <3>1
    <3>3. \A k \in G : 2 <= k /\ k <= 2 * (n + 1) + 1
      BY <2>n, <2>6, <3>0
    <3>4. ASSUME NEW d \in 1 .. n + 1
          PROVE  /\ heard'[d] # "nothing" => \A k \in G : 2 * d <= k
                 /\ heard'[d] = "tone" => peer.mDtmfEndBit \/ \A k \in G : 2 * d + 2 <= k
                 /\ heard'[d] = "end" => \E i \in DOMAIN peer.reported : peer.reported[i] = d
      <4>1. CASE d \in 1 .. n
        <5>1. /\ heard[d] # "nothing" => \A k \in H : 2 * d <= k
              /\ heard[d] = "tone" => peer.mDtmfEndBit \/ \A k \in H : 2 * d + 2 <= k
              /\ heard[d] = "end" => \E i \in DOMAIN peer.reported : peer.reported[i] = d
          BY <2>1, <4>1 DEF PeerInv
        <5>2. heard'[d] = heard[d]
          BY <2>10, <4>1
        <5>3. \A k : k = 2 * n + 2 \/ k = 2 * n + 3 => 2 * d <= k /\ 2 * d + 2 <= k
          BY <2>n, <4>1
        <5> QED
          BY <3>0, <5>1, <5>2, <5>3, Zenon
      <4>2. CASE d = n + 1
        BY <2>10, <4>2
      <4> QED
        BY <2>n, <4>1, <4>2
    <3> QED
      BY <3>1, <3>2, <3>3, <3>4 DEF PeerInv, G
  <2> QED
    BY <2>2, <2>3, <2>4, <2>8, <2>10, <2>11 DEF TimedInv
<1>2. CASE SendDataToRearNode
  <2>1. caller # <<>> /\ caller' = Tail(caller) /\ queue' = Append(queue, Head(caller)) /\ net' = net
        /\ UNCHANGED <<asked, encoder, peer, heard>>
    BY <1>2 DEF SendDataToRearNode, AddEntry
  <2>2. Head(caller) \in DtmfEntry
    BY <1>t, <2>1
  <2>3. /\ Air' = Air /\ Waiting' = Append(Waiting, Head(Calling)) /\ Calling' = Tail(Calling) /\ Calling # <<>>
    <3>1. EntryRanks(Append(queue, Head(caller))) = Append(EntryRanks(queue), EntryRank(Head(caller)))
      BY <1>t, <2>2, <1>x, Ranks
    <3>2. /\ EntryRanks(caller) # <<>> /\ Head(EntryRanks(caller)) = EntryRank(Head(caller))
          /\ EntryRanks(Tail(caller)) = Tail(EntryRanks(caller))
      BY <1>t, <2>1, <2>2, <1>x, Ranks
    <3> QED
      BY <2>1, <3>1, <3>2 DEF Air, Waiting, Calling
  <2>4. InOrder(Air, Waiting, Calling) =>
          /\ InOrder(Air', Waiting', Calling')
          /\ Ahead(Air', Waiting', Calling') \subseteq Ahead(Air, Waiting, Calling)
    BY <1>s, <2>3, HandOn
  <2> QED
    BY <2>1, <2>4, StillTimed
<1>3. CASE Wake \/ Tone \/ StopTone \/ EndTone
  <2>1. asked' = asked
    BY <1>3 DEF Wake, Tone, StopTone, EndTone
  <2>2. encoder.at = "wait" /\ encoder.signals = 0
    BY <2>1 DEF TimedInv
  <2> QED
    BY <1>3, <2>2 DEF Wake, Tone, StopTone, EndTone, Ending
<1>4. CASE ProcessData
  <2>1. UNCHANGED <<asked, caller, encoder, peer, heard>>
    BY <1>4 DEF ProcessData
  <2>2. InOrder(Air, Waiting, Calling) =>
          /\ InOrder(Air', Waiting', Calling')
          /\ Ahead(Air', Waiting', Calling') \subseteq Ahead(Air, Waiting, Calling)
    <3> SUFFICES ASSUME InOrder(PacketRanks(net), EntryRanks(queue), EntryRanks(caller))
                 PROVE  /\ InOrder(PacketRanks(net'), EntryRanks(queue'), EntryRanks(caller))
                        /\ Ahead(PacketRanks(net'), EntryRanks(queue'), EntryRanks(caller))
                             \subseteq Ahead(PacketRanks(net), EntryRanks(queue), EntryRanks(caller))
      BY <2>1 DEF Air, Waiting, Calling
    <3> DEFINE t == net \o Sends(rtp, Head(queue))
               r == ProcessAudioData(rtp, Head(queue))
    <3>1. queue # <<>>
      BY <1>4, Processed
    <3>2. /\ t \in Seq(DtmfPacket) /\ InOrder(PacketRanks(t), EntryRanks(Tail(queue)), EntryRanks(caller))
          /\ Ahead(PacketRanks(t), EntryRanks(Tail(queue)), EntryRanks(caller))
               \subseteq Ahead(PacketRanks(net), EntryRanks(queue), EntryRanks(caller))
      BY <1>t, <3>1, SentInOrder
    <3>3. CASE queue' = Tail(queue) /\ net' = t
      BY <3>2, <3>3
    <3>4. CASE Tail(queue) # <<>> /\ queue' = Tail(Tail(queue)) /\ net' = t \o Sends(r, Head(Tail(queue)))
      <4>0. Tail(queue) \in Seq(DtmfEntry) /\ Head(queue) \in DtmfEntry
        BY <1>t, <3>1
      <4>1. r \in [mDtmfMode : BOOLEAN, mMark : BOOLEAN]
        BY <1>t, <4>0 DEF ProcessAudioData
      <4> HIDE DEF t, r
      <4>2. /\ InOrder(PacketRanks(net'), EntryRanks(queue'), EntryRanks(caller))
            /\ Ahead(PacketRanks(net'), EntryRanks(queue'), EntryRanks(caller))
                 \subseteq Ahead(PacketRanks(t), EntryRanks(Tail(queue)), EntryRanks(caller))
        BY <1>t, <3>2, <3>4, <4>0, <4>1, SentInOrder
      <4> QED
        BY <3>2, <4>2
    <3> QED
      BY <1>4, <3>3, <3>4, Processed
  <2> QED
    BY <2>1, <2>2, StillTimed
<1>n. ASSUME net # <<>>
      PROVE  /\ Head(net) \in DtmfPacket
             /\ Air # <<>> /\ Head(Air) = Rank(Head(net)) /\ PacketRanks(Tail(net)) = Tail(Air)
  <2>1. Head(net) \in DtmfPacket
    BY <1>t, <1>n
  <2> QED
    BY <1>t, <1>n, <1>x, <2>1, Ranks DEF Air
<1>h. InOrder(Air, Waiting, Calling) /\ Air # <<>> =>
        /\ InOrder(Tail(Air), Waiting, Calling)
        /\ Ahead(Tail(Air), Waiting, Calling) \subseteq Ahead(Air, Waiting, Calling)
        /\ Head(Air) # 0 => /\ Head(Air) \in Ahead(Air, Waiting, Calling)
                            /\ \A k \in Ahead(Air, Waiting, Calling) : Head(Air) <= k
  BY <1>s, HandOn
<1>p. ASSUME net # <<>>, OnMediaDataInd(Head(net)), UNCHANGED asked
      PROVE  PeerInv(peer', heard', Len(asked), Ahead(Air, Waiting, Calling))
  <2> DEFINE x == Head(net)
             H == Ahead(Air, Waiting, Calling)
  <2>1. InOrder(Air, Waiting, Calling) /\ PeerInv(peer, heard, Len(asked), H)
    BY <1>p DEF TimedInv
  <2>2. x \in DtmfPacket /\ H \in SUBSET (Nat \ {0})
    BY <1>n, <1>p DEF Ahead
  <2>3. peer' = processDtmf(peer, x)
    BY <1>p DEF OnMediaDataInd
  <2>4. heard' = [heard EXCEPT ![x.digit] = IF ~x.end /\ @ = "nothing" THEN "tone"
                                          ELSE IF x.end /\ @ = "tone" THEN "end" ELSE @]
    BY <1>p DEF OnMediaDataInd
  <2>5. Rank(x) # 0
    BY <2>2 DEF Rank, DtmfPacket
  <2>6. Rank(x) \in H /\ \A k \in H : Rank(x) <= k
    BY <1>h, <1>n, <1>p, <2>1, <2>5
  <2> HIDE DEF x, H
  <2>7. PeerInv(peer', heard', Len(asked), H)
    BY <1>t, <2>1, <2>2, <2>3, <2>4, <2>6, PeerHears
  <2> QED
    BY <2>7 DEF H
<1>5. CASE SendVoice
  BY <1>5, StillTimed DEF SendVoice, Air, Waiting, Calling
<1>6. CASE Deliver
  <2>1. /\ net # <<>> /\ OnMediaDataInd(Head(net)) /\ net' = Tail(net)
        /\ UNCHANGED <<asked, caller, encoder, queue>>
    BY <1>6 DEF Deliver
  <2>2. PeerInv(peer', heard', Len(asked), Ahead(Air, Waiting, Calling))
    BY <1>p, <2>1
  <2>3. InOrder(Air, Waiting, Calling) /\ encoder.at = "wait" /\ encoder.signals = 0
    BY <2>1 DEF TimedInv
  <2>4. Air' = Tail(Air) /\ Waiting' = Waiting /\ Calling' = Calling
    BY <1>n, <2>1 DEF Air, Waiting, Calling
  <2>5. /\ InOrder(Air', Waiting', Calling')
        /\ Ahead(Air', Waiting', Calling') \subseteq Ahead(Air, Waiting, Calling)
    BY <1>h, <1>n, <2>1, <2>3, <2>4
  <2>6. PeerInv(peer', heard', Len(asked'), Ahead(Air', Waiting', Calling'))
    BY <2>1, <2>2, <2>5, FewerAhead
  <2> QED
    BY <2>1, <2>3, <2>5, <2>6 DEF TimedInv
<1>7. CASE Double
  <2>1. /\ net # <<>> /\ OnMediaDataInd(Head(net)) /\ net' = net
        /\ UNCHANGED <<asked, caller, encoder, queue>>
    BY <1>7 DEF Double
  <2>2. PeerInv(peer', heard', Len(asked), Ahead(Air, Waiting, Calling))
    BY <1>p, <2>1
  <2>3. Air' = Air /\ Waiting' = Waiting /\ Calling' = Calling
    BY <2>1 DEF Air, Waiting, Calling
  <2> QED
    BY <2>1, <2>2, <2>3 DEF TimedInv
<1>8. CASE Lose
  <2>1. /\ net # <<>> /\ net' = Tail(net)
        /\ UNCHANGED <<asked, caller, encoder, queue, peer, heard>>
    BY <1>8 DEF Lose
  <2>2. Air' = Tail(Air) /\ Waiting' = Waiting /\ Calling' = Calling /\ Air # <<>>
    BY <1>n, <2>1 DEF Air, Waiting, Calling
  <2>3. InOrder(Air, Waiting, Calling) =>
          /\ InOrder(Air', Waiting', Calling')
          /\ Ahead(Air', Waiting', Calling') \subseteq Ahead(Air, Waiting, Calling)
    BY <1>h, <2>2
  <2> QED
    BY <2>1, <2>3, StillTimed
<1>9. CASE UNCHANGED dtmfVars
  BY <1>9, StillTimed DEF dtmfVars, Air, Waiting, Calling
<1> QED
  BY <1>1, <1>2, <1>3, <1>4, <1>5, <1>6, <1>7, <1>8, <1>9 DEF DtmfNext

\* The invariant holds in every state of the specification.
LEMMA DtmfInvariance == DtmfSpec => []DtmfInv
<1>1. DtmfInv /\ [DtmfNext]_dtmfVars => DtmfInv'
  BY DtmfTypeStep, VoiceStep, TimedStep DEF DtmfInv
<1> QED
  BY <1>1, DtmfInitInv, PTL DEF DtmfSpec

\* The path of the digits keeps its types: the queues hold packets of digits that were asked
\* for, and the thread plays a digit only while its list has one.
THEOREM DtmfTypeCorrect == DtmfSpec => []DtmfTypeInv
<1>1. DtmfInv => DtmfTypeInv
  BY DEF DtmfInv
<1> QED
  BY <1>1, DtmfInvariance, PTL

\* Digits with a duration are reported in their order, each at most once, and each of which
\* a packet of the tone and then one of the end arrived, however many there are, however they
\* are lost and doubled and whoever runs when; and after the last of a digit the voice goes on.
THEOREM DigitsAreHeard == DtmfSpec => []DigitsHeardAsSent
<1>1. ASSUME DtmfInv PROVE DigitsHeardAsSent
  <2>1. ASSUME 0 \notin Range(asked)
        PROVE  /\ \A i, j \in DOMAIN peer.reported : i < j => peer.reported[i] < peer.reported[j]
               /\ \A d \in DOMAIN heard : heard[d] = "end" => d \in Range(peer.reported)
    <3>1. PeerInv(peer, heard, Len(asked), Ahead(Air, Waiting, Calling))
      BY <1>1, <2>1 DEF DtmfInv, TimedInv
    <3>2. DOMAIN heard = 1 .. Len(asked)
      BY <1>1 DEF DtmfInv, DtmfTypeInv
    <3> QED
      BY <3>1, <3>2 DEF PeerInv, Range
  <2>2. ASSUME caller = <<>>, encoder.at = "wait", queue = <<>> PROVE ~rtp.mDtmfMode
    BY <1>1, <2>2 DEF DtmfInv, VoiceComesBack
  <2> QED
    BY <2>1, <2>2 DEF DigitsHeardAsSent
<1> QED
  BY <1>1, DtmfInvariance, PTL
=============================================================================
