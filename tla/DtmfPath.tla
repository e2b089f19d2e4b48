------------------------------ MODULE DtmfPath -------------------------------
(***************************************************************************)
(* DTMF digits from sendDtmf to the session of the other side: the encoder *)
(* node, which queues the packets of a digit with a duration on the thread *)
(* that asks for it and those of one without on a thread of its own; the   *)
(* sender node, from which the scheduler takes them at the pace of the     *)
(* voice; the RTP encoder, which holds the voice back meanwhile; and the   *)
(* RTP decoder of a peer that loses or doubles packets.                    *)
(***************************************************************************)
EXTENDS ImsMediaDataQueue, SequencesExt, FiniteSets

CONSTANTS
    Durations,            \* in milliseconds, 0 for a digit that goes on until the next
    MaxDigits,            \* bound: the digits asked for
    MaxFaults,            \* bound: of the network
    MaxTone,              \* bound on the packets of a digit without end
    mPtime,               \* of the configuration
    mSamplingRate         \* of the digits, in kHz

ASSUME DigitsAssumption ==
    /\ Durations \subseteq Nat
    /\ {MaxDigits, MaxFaults, MaxTone} \subseteq Nat
    /\ {mPtime, mSamplingRate} \subseteq Nat \ {0}

VARIABLES
    asked,     \* the duration of each digit so far
    caller,    \* what SendDTMFEvent still has to queue
    encoder,   \* DtmfEncoderNode and its thread
    queue,     \* of DtmfSenderNode
    rtp,       \* RtpEncoderNode: mDtmfMode, mMark
    net,       \* DTMF packets on their way
    faults,    \* faults so far
    peer,      \* RtpDecoderNode of the other side: mDtmfEndBit, and the digits reported
    heard      \* of each digit what arrived: "tone", and then "end" (auxiliary)

dtmfVars == <<asked, caller, encoder, queue, rtp, net, faults, peer, heard>>

DTMF_MINIMUM_DURATION == 40
DTMF_DEFAULT_RETRANSMIT_DURATION == 40
mAudioFrameDuration == mSamplingRate * mPtime

Start == [type |-> "DTMFSTART", digit |-> 0, end |-> FALSE]
End == [type |-> "DTMFEND", digit |-> 0, end |-> FALSE]
MakeDTMFPayload(digit, end) == [type |-> "DTMF_PAYLOAD", digit |-> digit, end |-> end]

DtmfInit ==
    /\ asked = <<>> /\ caller = <<>>
    /\ encoder = [at |-> "wait", signals |-> 0, mListDtmfDigit |-> <<>>, mStopDtmf |-> TRUE, left |-> 0]
    /\ queue = <<>>
    /\ rtp = [mDtmfMode |-> FALSE, mMark |-> TRUE]
    /\ net = <<>> /\ faults = 0
    /\ peer = [mDtmfEndBit |-> FALSE, reported |-> <<>>]
    /\ heard = <<>>

(***************************************************************************)
(* The encoder.                                                            *)
(***************************************************************************)
calculateDtmfDuration(duration) ==
    LET atLeast == IF duration < DTMF_MINIMUM_DURATION THEN DTMF_MINIMUM_DURATION ELSE duration IN
    (((atLeast + 10) \div mPtime) * mPtime) * (mAudioFrameDuration \div mPtime)

\* One packet for each frame before the last, and the last several times.
Tones(duration) == (calculateDtmfDuration(duration) - 1) \div mAudioFrameDuration
Ends == (DTMF_DEFAULT_RETRANSMIT_DURATION * (mAudioFrameDuration \div mPtime)) \div mAudioFrameDuration + 1

SendDTMFEvent(digit, duration) ==
    <<Start>> \o [i \in 1 .. Tones(duration) |-> MakeDTMFPayload(digit, FALSE)]
              \o [i \in 1 .. Ends |-> MakeDTMFPayload(digit, TRUE)] \o <<End>>

\* The thread holds mMutex while it ends a digit.
Ending == encoder.at = "ending"
Digit == Len(asked) + 1

sendDtmf(duration) ==
    /\ caller = <<>> /\ Len(asked) < MaxDigits
    /\ asked' = Append(asked, duration) /\ heard' = Append(heard, "nothing")
    /\ IF duration # 0
       THEN /\ encoder' = [encoder EXCEPT !.mStopDtmf = TRUE]
            /\ caller' = SendDTMFEvent(Digit, duration)
       ELSE /\ ~Ending
            /\ encoder' = [encoder EXCEPT !.mStopDtmf = FALSE, !.mListDtmfDigit = Append(@, Digit), !.signals = @ + 1]
            /\ caller' = caller
    /\ UNCHANGED <<queue, rtp, net, faults, peer>>

SendDataToRearNode ==
    /\ caller # <<>>
    /\ queue' = AddEntry(queue, Head(caller))
    /\ caller' = Tail(caller)
    /\ UNCHANGED <<asked, encoder, rtp, net, faults, peer, heard>>

\* The thread takes up a digit, plays it until it is stopped, and ends it.
Wake ==
    /\ encoder.at = "wait" /\ encoder.signals > 0
    /\ IF encoder.mListDtmfDigit = <<>>
       THEN encoder' = [encoder EXCEPT !.signals = @ - 1] /\ queue' = queue
       ELSE /\ encoder' = [encoder EXCEPT !.signals = @ - 1, !.at = "tone", !.left = MaxTone]
            /\ queue' = AddEntry(queue, Start)
    /\ UNCHANGED <<asked, caller, rtp, net, faults, peer, heard>>

Sounding == Head(encoder.mListDtmfDigit)
Tone ==
    /\ encoder.at = "tone" /\ ~encoder.mStopDtmf /\ encoder.left > 0
    /\ queue' = AddEntry(queue, MakeDTMFPayload(Sounding, FALSE))
    /\ encoder' = [encoder EXCEPT !.left = @ - 1]
    /\ UNCHANGED <<asked, caller, rtp, net, faults, peer, heard>>

StopTone ==
    /\ encoder.at = "tone" /\ encoder.mStopDtmf
    /\ encoder' = [encoder EXCEPT !.at = "ending", !.left = Ends]
    /\ UNCHANGED <<asked, caller, queue, rtp, net, faults, peer, heard>>

EndTone ==
    /\ Ending
    /\ IF encoder.left > 0
       THEN /\ queue' = AddEntry(queue, MakeDTMFPayload(Sounding, TRUE))
            /\ encoder' = [encoder EXCEPT !.left = @ - 1]
       ELSE /\ queue' = AddEntry(queue, End)
            /\ encoder' = [encoder EXCEPT !.at = "wait", !.mListDtmfDigit = Tail(@)]
    /\ UNCHANGED <<asked, caller, rtp, net, faults, peer, heard>>

(***************************************************************************)
(* The sender and the RTP encoder.                                         *)
(***************************************************************************)
ProcessAudioData(r, entry) ==
    CASE entry.type = "DTMFSTART" -> [mDtmfMode |-> TRUE, mMark |-> TRUE]
      [] entry.type = "DTMFEND" -> [mDtmfMode |-> FALSE, mMark |-> TRUE]
      [] entry.type = "DTMF_PAYLOAD" /\ r.mDtmfMode -> [r EXCEPT !.mMark = FALSE]
      [] OTHER -> r
\* A digit is only sent while the voice is held back.
Sends(r, entry) ==
    IF entry.type = "DTMF_PAYLOAD" /\ r.mDtmfMode
    THEN <<[digit |-> entry.digit, end |-> entry.end, mark |-> r.mMark]>> ELSE <<>>

\* The first packet of a digit goes with its start, if it is there.
ProcessData ==
    LET n == IF FirstEntry(queue) = Start /\ HasEntryAt(queue, 1) /\ EntryAt(queue, 1).type = "DTMF_PAYLOAD"
             THEN 2 ELSE 1
        started == ProcessAudioData(rtp, FirstEntry(queue)) IN
    /\ HasEntryAt(queue, 0)
    /\ queue' = SubSeq(queue, n + 1, Len(queue))
    /\ rtp' = IF n = 1 THEN started ELSE ProcessAudioData(started, EntryAt(queue, 1))
    /\ net' = net \o Sends(rtp, FirstEntry(queue)) \o (IF n = 1 THEN <<>> ELSE Sends(started, EntryAt(queue, 1)))
    /\ UNCHANGED <<asked, caller, encoder, faults, peer, heard>>

SendVoice ==
    /\ ~rtp.mDtmfMode /\ rtp' = [rtp EXCEPT !.mMark = FALSE]
    /\ UNCHANGED <<asked, caller, encoder, queue, net, faults, peer, heard>>

(***************************************************************************)
(* The network and the peer.                                               *)
(***************************************************************************)
\* Mutant: the end of a digit is not remembered.
processDtmfForgetful(p, packet) ==
    IF ~packet.end THEN [p EXCEPT !.mDtmfEndBit = TRUE]
    ELSE IF p.mDtmfEndBit THEN [p EXCEPT !.reported = Append(@, packet.digit)] ELSE p
processDtmf(p, packet) ==
    IF ~packet.end THEN [p EXCEPT !.mDtmfEndBit = TRUE]
    ELSE IF p.mDtmfEndBit THEN [mDtmfEndBit |-> FALSE, reported |-> Append(p.reported, packet.digit)] ELSE p

OnMediaDataInd(packet) ==
    /\ peer' = processDtmf(peer, packet)
    /\ heard' = [heard EXCEPT ![packet.digit] =
                    IF ~packet.end /\ @ = "nothing" THEN "tone" ELSE IF packet.end /\ @ = "tone" THEN "end" ELSE @]

Deliver ==
    /\ net # <<>> /\ OnMediaDataInd(Head(net)) /\ net' = Tail(net)
    /\ UNCHANGED <<asked, caller, encoder, queue, rtp, faults>>
Fault == faults < MaxFaults /\ faults' = faults + 1
Double ==
    /\ net # <<>> /\ Fault /\ OnMediaDataInd(Head(net)) /\ net' = net
    /\ UNCHANGED <<asked, caller, encoder, queue, rtp>>
Lose ==
    /\ net # <<>> /\ Fault /\ net' = Tail(net)
    /\ UNCHANGED <<asked, caller, encoder, queue, rtp, peer, heard>>

DtmfNext ==
    \/ \E duration \in Durations : sendDtmf(duration)
    \/ SendDataToRearNode
    \/ Wake
    \/ Tone
    \/ StopTone
    \/ EndTone
    \/ ProcessData
    \/ SendVoice
    \/ Deliver
    \/ Double
    \/ Lose

DtmfSpec == DtmfInit /\ [][DtmfNext]_dtmfVars

(***************************************************************************)
(* Properties.                                                             *)
(***************************************************************************)
\* Digits with a duration are reported in the order they were sent, each at most once,
\* and each of which the peer got a packet of the tone and then one of the end; and
\* when a digit, of either kind, has been sent the voice goes on.  Packets are lost and
\* doubled, and queued while the scheduler takes them.  (Digits without a duration may be
\* mixed with the one that ends them: see the README.)
DigitsHeardAsSent ==
    /\ 0 \notin Range(asked) =>
         /\ \A i, j \in DOMAIN peer.reported : i < j => peer.reported[i] < peer.reported[j]
         /\ \A d \in DOMAIN heard : heard[d] = "end" => d \in Range(peer.reported)
    /\ caller = <<>> /\ encoder.at = "wait" /\ queue = <<>> => ~rtp.mDtmfMode
=============================================================================
