------------------------- MODULE AudioReceivePath -------------------------
(***************************************************************************)
(* The three threads around an AudioJitterBuffer: the receiver, which runs *)
(* RtpDecoderNode::OnMediaDataInd for each packet the network delivers;    *)
(* the player (IAudioPlayerNode::run), which gets a frame every            *)
(* FRAME_INTERVAL, plays it without the lock and then deletes the first    *)
(* entry; and the session, which adjusts the delay.                        *)
(*                                                                         *)
(* A call says what the peer sends and what the network may do to it: a    *)
(* packet sent at at and not delivered by by is lost.                      *)
(***************************************************************************)
EXTENDS AudioJitterBuffer, FiniteSets

CONSTANTS Calls,     \* [packets, copies: how often each may arrive, delays: in frames]
          NoSsrc,
          MaxTime,   \* bound on the clock
          MaxLag     \* bound on the frames the player is behind its schedule

ASSUME CallsAssumption ==
    \A c \in Calls :
        /\ c.delays \subseteq Int
        /\ \A i \in DOMAIN c.packets :
               LET p == c.packets[i]
               IN  /\ p.seq \in 0 .. SeqSpace - 1 /\ p.ts \in 0 .. TsWidth - 1
                   /\ p.kind \in {"voice", "sid"}
                   /\ NoFrame # [ssrc |-> p.ssrc, seq |-> p.seq, ts |-> p.ts, kind |-> p.kind]

VARIABLES call,
          copies,         \* per packet, how often it was delivered
          mReceivingSSRC,
          incoming,       \* the packet in OnMediaDataInd, or NoFrame
          mArrivalTime,   \* when it came
          buffer,
          clock, due,     \* now, and the frames the player still has to get
          playing,        \* the frame the player is playing, or NoFrame
          reported,       \* the reports sent to the session (auxiliary)
          overtaken,      \* entries deleted in place of the one played (auxiliary)
          lastVoice,      \* the last voice packet played, by its place in the call (auxiliary)
          overtook,       \* a packet was queued before the marker of its SSRC (auxiliary)
          punctual        \* every packet so far was queued in time (auxiliary)

networkVars == <<call, copies>>
playerVars == <<clock, due, playing>>
historyVars == <<reported, overtaken, lastVoice, overtook, punctual>>
vars == <<call, copies, mReceivingSSRC, incoming, mArrivalTime, buffer, clock, due, playing,
          reported, overtaken, lastVoice, overtook, punctual>>

Packets == DOMAIN call.packets
Packet(i) == LET p == call.packets[i]
             IN  [ssrc |-> p.ssrc, seq |-> p.seq, ts |-> p.ts, kind |-> p.kind]
IsVoice(i) == call.packets[i].kind = "voice"

Init ==
    /\ call \in Calls
    /\ copies = [i \in Packets |-> 0]
    /\ mReceivingSSRC = NoSsrc
    /\ incoming = NoFrame /\ mArrivalTime = 0
    /\ buffer = EmptyBuffer
    /\ clock = 0 /\ due = 0
    /\ playing = NoFrame
    /\ reported = {} /\ overtaken = {} /\ lastVoice = 0
    /\ overtook = FALSE /\ punctual = TRUE

\* The network delivers a packet that was sent: late, again, or after a later one.
Receive(i) ==
    /\ incoming = NoFrame
    /\ clock \in call.packets[i].at .. call.packets[i].by
    /\ copies[i] < call.copies
    /\ incoming' = Packet(i) /\ mArrivalTime' = clock
    /\ copies' = [copies EXCEPT ![i] = @ + 1]
    /\ UNCHANGED <<call, mReceivingSSRC, buffer, playerVars, historyVars>>

\* The first packet of another SSRC is announced to the jitter buffer.
Refresh ==
    /\ incoming # NoFrame /\ incoming.ssrc # mReceivingSSRC
    /\ mReceivingSSRC' = incoming.ssrc
    /\ buffer' = AddMarker(buffer, incoming.ssrc, mArrivalTime)
    /\ UNCHANGED <<networkVars, incoming, mArrivalTime, playerVars, historyVars>>

Add ==
    /\ incoming # NoFrame /\ incoming.ssrc = mReceivingSSRC
    /\ \E size \in NextSizes(buffer.mCurrJitterBufferSize) :
           buffer' = AddPacket(buffer, incoming, size)
    /\ incoming' = NoFrame
    /\ overtook' = (overtook \/ /\ Marker(incoming.ssrc) \in ToSet(buffer.queue)
                                /\ ~SeqAtLeast(incoming.seq, Marker(incoming.ssrc).seq))
    /\ UNCHANGED <<networkVars, mReceivingSSRC, mArrivalTime, playerVars,
                   reported, overtaken, lastVoice, punctual>>

\* In time: the first packet of an SSRC at once, another one within a frame.
InTime(i) ==
    \/ copies[i] > 0 /\ incoming # Packet(i)
    \/ /\ \E j \in 1 .. i - 1 : call.packets[j].ssrc = call.packets[i].ssrc
       /\ clock < call.packets[i].at + Frame
    \/ clock < call.packets[i].at

\* Time passes; the player owes one more frame.
Tick ==
    /\ clock < MaxTime /\ due < MaxLag
    /\ clock' = clock + Frame
    /\ due' = due + 1
    /\ punctual' = (punctual /\ \A i \in Packets : InTime(i))
    /\ UNCHANGED <<networkVars, mReceivingSSRC, incoming, mArrivalTime, buffer, playing,
                   reported, overtaken, lastVoice, overtook>>

GetData ==
    /\ playing = NoFrame /\ due > 0
    /\ due' = due - 1
    /\ \E tooManyDrops \in {buffer.dropped, FALSE} :
           LET r == Get(buffer, tooManyDrops, clock)
               voice == {i \in Packets : IsVoice(i) /\ Packet(i) = r.out}
           IN  /\ buffer' = r.buffer
               /\ playing' = r.out
               /\ reported' = reported \cup r.reports
               /\ lastVoice' = IF voice = {} THEN lastVoice ELSE CHOOSE i \in voice : TRUE
    /\ UNCHANGED <<networkVars, mReceivingSSRC, incoming, mArrivalTime, clock,
                   overtaken, overtook, punctual>>

DeleteData ==
    /\ playing # NoFrame
    /\ buffer' = Delete(buffer)
    /\ overtaken' = IF Queued(buffer) /\ First(buffer) # playing
                    THEN overtaken \cup {First(buffer)} ELSE overtaken
    /\ playing' = NoFrame
    /\ UNCHANGED <<networkVars, mReceivingSSRC, incoming, mArrivalTime, clock, due,
                   reported, lastVoice, overtook, punctual>>

AdjustDelay ==
    /\ \E frames \in call.delays : buffer' = SetAdditionalDelay(buffer, frames)
    /\ UNCHANGED <<networkVars, mReceivingSSRC, incoming, mArrivalTime, playerVars, historyVars>>

Next ==
    \/ \E i \in Packets : Receive(i)
    \/ Refresh \/ Add \/ Tick \/ GetData \/ DeleteData \/ AdjustDelay

Spec == Init /\ [][Next]_vars

-----------------------------------------------------------------------------
(* Properties *)

Reported(e) ==
    \E status \in {"normal", "late", "discarded", "duplicated"} : <<status, e.seq>> \in reported

\* The quality report accounts for every voice packet: one that was delivered is still on its
\* way to the player or was reported, except where an earlier packet slipped in front of the
\* frame being played, so that DeleteData removed that packet instead.
NoPacketVanishes ==
    \A i \in Packets : copies[i] > 0 /\ IsVoice(i) =>
        \/ Packet(i) \in ToSet(buffer.queue) \cup {incoming} \cup overtaken
        \/ Reported(Packet(i))

\* However the network reorders the packets of an SSRC, over the wrap of the sequence numbers
\* and of the timestamps too, voice is played in the order it was sent and none of it twice.
\* (A packet queued before the marker of its SSRC spoils this: see the README.)
PlayedInOrder ==
    [][playing = NoFrame /\ playing' # NoFrame /\ playing'.kind = "voice" /\ ~overtook
       => lastVoice' > lastVoice]_vars

\* A call whose packets are queued in time, and once, is played without a loss as long as the
\* session leaves the delay alone: nothing is late, discarded or counted as lost, whatever the
\* estimate of the jitter makes of the size of the buffer.
PunctualIsPlayed ==
    punctual /\ ~overtook /\ call.copies = 1 /\ call.delays \subseteq {0}
    => \A r \in reported : r[1] = "normal"

\* Voice is played in the order it was sent, and a punctual call is played whole.
PlayedAsSent == PlayedInOrder /\ []PunctualIsPlayed
=============================================================================
