------------------------ MODULE ConditionRing_proofs ------------------------
(***************************************************************************)
(* What the bitmaps and cursors of a condition amount to, for any number   *)
(* of bits, as long as no wait is left at its time limit and no more       *)
(* signals are outstanding than there are bits: a count of signals.        *)
(***************************************************************************)
EXTENDS ConditionRing, TLAPS

\* How many steps bit k is ahead of bit w, round the bitmap.
Ahead(w, k) == IF k >= w THEN k - w ELSE k - w + Slots

\* The bit n steps ahead of w, for n up to one full round.
Forward(w, n) == IF w + n < Slots THEN w + n ELSE w + n - Slots

(* The ring c has n signals outstanding and its one waiter is at spot.  Everything
   is determined by the cursor of the waits and n: the cursor of the signals is n
   bits ahead, and the marked signals are the bits in between, except the one a
   woken wait is about to answer. *)
Counts(c, n, spot) ==
    /\ n \in 0 .. Slots
    /\ c.signalCount = Forward(c.waitCount, n)
    /\ c.waitFlag = IF spot = "asleep" THEN {c.waitCount} ELSE {}
    /\ \A k \in Slot : k \in c.signalFlag <=>
           /\ Ahead(c.waitCount, k) < n
           /\ spot = "woken" => Ahead(c.waitCount, k) > 0
    /\ spot = "asleep" => n = 0
    /\ spot = "woken" => n > 0

USE SlotsAssumption

(* Moving the cursor of the waits one bit on brings every other bit one step
   nearer and leaves the bit ahead of it where it was. *)
LEMMA AheadOfNext ==
    ASSUME NEW w \in Slot, NEW k \in Slot
    PROVE  /\ IncCount(w) \in Slot
           /\ k # w => Ahead(IncCount(w), k) = Ahead(w, k) - 1
           /\ Ahead(IncCount(w), w) = Slots - 1
           /\ Ahead(w, k) \in 0 .. (Slots - 1)
           /\ Ahead(w, k) = 0 <=> k = w
  BY DEF Slot, IncCount, Ahead

LEMMA ForwardOfNext ==
    ASSUME NEW w \in Slot, NEW n \in 0 .. Slots
    PROVE  /\ Forward(w, n) \in Slot
           /\ n < Slots => Forward(w, n + 1) = IncCount(Forward(w, n))
           /\ n < Slots => Ahead(w, Forward(w, n)) = n
           /\ n > 0 => Forward(IncCount(w), n - 1) = Forward(w, n)
           /\ Forward(w, 0) = w
           /\ \A k \in Slot : n < Slots /\ Ahead(w, k) = n => k = Forward(w, n)
  BY DEF Slot, IncCount, Forward, Ahead

(* Every operation on the bitmaps and cursors yields bitmaps and cursors. *)
LEMMA RingIsClosed ==
    ASSUME NEW c \in Ring
    PROVE  {Consume(c), FallAsleep(c), Leave(c), Signal(c)} \subseteq Ring
<1>1. /\ c.waitCount \in Slot /\ c.signalCount \in Slot
      /\ IncCount(c.waitCount) \in Slot /\ IncCount(c.signalCount) \in Slot
  BY AheadOfNext DEF Ring
<1>2. /\ c.signalFlag \ {c.waitCount} \in SUBSET Slot
      /\ c.waitFlag \cup {c.waitCount} \in SUBSET Slot
      /\ c.waitFlag \ {c.signalCount} \in SUBSET Slot
      /\ c.signalFlag \cup {c.signalCount} \in SUBSET Slot
  BY <1>1 DEF Ring
<1>3. Consume(c) \in Ring /\ FallAsleep(c) \in Ring /\ Leave(c) \in Ring
  BY <1>1, <1>2 DEF Ring, Consume, FallAsleep, Leave
<1>4. Signal(c) \in Ring
  BY <1>1, <1>2 DEF Ring, Signal
<1> QED
  BY <1>3, <1>4

(* An empty ring counts nothing. *)
LEMMA ResetCounts ==
    ASSUME NEW spot, spot \notin {"asleep", "woken"}
    PROVE  Reset \in Ring /\ Counts(Reset, 0, spot)
  BY DEF Reset, Ring, Counts, Slot, Ahead, Forward

(* A wait finds its bit exactly if a signal is outstanding. *)
LEMMA PendingCounts ==
    ASSUME NEW c \in Ring, NEW n, NEW spot, Counts(c, n, spot), spot # "woken"
    PROVE  SignalPending(c) <=> n > 0
<1>1. c.waitCount \in Slot /\ Ahead(c.waitCount, c.waitCount) = 0
  BY AheadOfNext DEF Ring
<1> QED
  BY <1>1 DEF SignalPending, Counts

(* A wait that goes on at once, or returns woken, answers one signal. *)
LEMMA ConsumeCounts ==
    ASSUME NEW c \in Ring, NEW n, NEW spot, NEW next, Counts(c, n, spot), n > 0,
           spot \notin {"asleep", "woken"}, next \notin {"asleep", "woken"}
    PROVE  Counts(Consume(c), n - 1, next)
<1> DEFINE w == c.waitCount
           d == Consume(c)
<1>1. w \in Slot /\ n \in 0 .. Slots /\ c.signalCount \in Slot
  BY DEF Ring, Counts
<1>2. /\ d.waitCount = IncCount(w) /\ d.signalCount = c.signalCount
      /\ d.waitFlag = c.waitFlag /\ d.signalFlag = c.signalFlag \ {w}
  BY DEF Ring, Consume
<1>3. d.signalCount = Forward(IncCount(w), n - 1)
  BY <1>1, <1>2, ForwardOfNext DEF Counts
<1>4. \A k \in Slot : k \in d.signalFlag <=> Ahead(IncCount(w), k) < n - 1
  BY <1>1, <1>2, AheadOfNext DEF Counts
<1> QED
  BY <1>1, <1>2, <1>3, <1>4 DEF Counts

LEMMA LeaveCounts ==
    ASSUME NEW c \in Ring, NEW n, NEW next, Counts(c, n, "woken"), next \notin {"asleep", "woken"}
    PROVE  Counts(Leave(c), n - 1, next)
<1> DEFINE w == c.waitCount
           d == Leave(c)
<1>1. w \in Slot /\ n \in 0 .. Slots /\ n > 0 /\ c.signalCount \in Slot
  BY DEF Ring, Counts
<1>2. /\ d.waitCount = IncCount(w) /\ d.signalCount = c.signalCount
      /\ d.waitFlag = c.waitFlag /\ d.signalFlag = c.signalFlag
  BY DEF Ring, Leave
<1>3. d.signalCount = Forward(IncCount(w), n - 1)
  BY <1>1, <1>2, ForwardOfNext DEF Counts
<1>4. \A k \in Slot : k \in d.signalFlag <=> Ahead(IncCount(w), k) < n - 1
  BY <1>1, <1>2, AheadOfNext DEF Counts
<1> QED
  BY <1>1, <1>2, <1>3, <1>4 DEF Counts

(* A wait falls asleep with nothing outstanding. *)
LEMMA SleepCounts ==
    ASSUME NEW c \in Ring, NEW spot, Counts(c, 0, spot), spot \notin {"asleep", "woken"}
    PROVE  Counts(FallAsleep(c), 0, "asleep")
<1>1. c.waitCount \in Slot
  BY DEF Ring
<1>2. /\ FallAsleep(c).waitCount = c.waitCount /\ FallAsleep(c).signalCount = c.signalCount
      /\ FallAsleep(c).waitFlag = {c.waitCount} /\ FallAsleep(c).signalFlag = c.signalFlag
  BY <1>1 DEF Ring, FallAsleep, Counts
<1> QED
  BY <1>1, <1>2 DEF Counts

(* A signal is one more, and wakes who sleeps. *)
LEMMA SignalCounts ==
    ASSUME NEW c \in Ring, NEW n, NEW spot, Counts(c, n, spot), n < Slots
    PROVE  Counts(Signal(c), n + 1, IF spot = "asleep" THEN "woken" ELSE spot)
<1> DEFINE w == c.waitCount
           d == Signal(c)
<1>1. w \in Slot /\ n \in 0 .. Slots /\ c.signalCount \in Slot
  BY DEF Ring, Counts
<1>2. c.signalCount = Forward(w, n) /\ IncCount(c.signalCount) = Forward(w, n + 1)
  BY <1>1, ForwardOfNext DEF Counts
<1>3. CASE spot = "asleep"
  <2>1. n = 0 /\ c.signalCount = w /\ c.waitFlag = {w}
    BY <1>1, <1>2, <1>3, ForwardOfNext DEF Counts
  <2>2. /\ d.waitCount = w /\ d.signalCount = IncCount(w)
        /\ d.waitFlag = {} /\ d.signalFlag = c.signalFlag
    BY <2>1, <1>1, AheadOfNext DEF Ring, Signal
  <2> QED
    BY <1>1, <1>2, <1>3, <2>1, <2>2, AheadOfNext DEF Counts
<1>4. CASE spot # "asleep"
  <2>1. c.waitFlag = {}
    BY <1>4 DEF Counts
  <2>2. /\ d.waitCount = w /\ d.signalCount = IncCount(c.signalCount)
        /\ d.waitFlag = {} /\ d.signalFlag = c.signalFlag \cup {c.signalCount}
    BY <2>1, <1>1 DEF Ring, Signal
  <2>3. \A k \in Slot : k = c.signalCount <=> Ahead(w, k) = n
    BY <1>1, <1>2, ForwardOfNext
  <2>4. \A k \in Slot : k \in d.signalFlag <=>
            /\ Ahead(w, k) < n + 1
            /\ spot = "woken" => Ahead(w, k) > 0
    BY <1>1, <2>2, <2>3, AheadOfNext DEF Counts
  <2> QED
    BY <1>1, <1>2, <1>4, <2>2, <2>4 DEF Counts
<1> QED
  BY <1>3, <1>4

(* With nothing outstanding and nobody asleep no bit is set. *)
LEMMA NothingCounts ==
    ASSUME NEW c \in Ring, NEW spot, Counts(c, 0, spot), spot # "asleep"
    PROVE  c.waitFlag = {} /\ c.signalFlag = {} /\ c.waitCount = c.signalCount
<1>1. c.waitCount \in Slot /\ c.signalFlag \subseteq Slot
  BY DEF Ring
<1>2. \A k \in Slot : ~(Ahead(c.waitCount, k) < 0)
  BY <1>1, SlotsAssumption DEF Slot, Ahead
<1>3. \A k \in Slot : k \notin c.signalFlag
  BY <1>2 DEF Counts
<1>4. c.signalCount = c.waitCount
  BY <1>1, ForwardOfNext DEF Counts
<1> QED
  BY <1>1, <1>3, <1>4 DEF Counts
=============================================================================
