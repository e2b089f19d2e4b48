# TLA+ models of ImsMedia

ImsMedia runs the media of an IMS call: it opens audio, video and text sessions on request of the
telephony framework, builds a graph of nodes for each direction of a stream (capture, encode,
packetise, send; receive, decode, buffer, render; RTCP), runs the graphs on threads of its own and
reports quality and events back. The native library under
`src/service/src/com/android/telephony/imsmedia/lib/libimsmedia` (called `lib` below) does the work;
the Java service forwards requests and callbacks.

These modules model the parts of it whose correctness depends on an order of steps, or on two ends
agreeing: the synchronisation primitives, threads, schedulers, event handlers and the shared socket
monitor; the sessions of the three media with their graphs and nodes; the RTP session, its RTCP
packets and its timer; the way of voice, speech payloads, digits, text and video from the sender to
what the receiver plays or shows; and the configurations that cross the interface. TLC checks each
on a small instance; TLAPS proves the most important properties of the primitives, the threads, what
runs on them, the sessions, the reports of RTP, voice and digits for every value of the constants.

## Inventory

How the parts work together: a **Java session** sends a parcel through **JNI** to a **manager**
(`AudioManager`, ...), which posts it to its **event handler** (`ImsMediaEventHandler`, one worker
thread per handler name). The handler's callback calls the manager, the manager the **session**, the
session its **stream graphs**, a graph its **scheduler** and its nodes. A running scheduler has a
worker thread (`IImsMediaThread`) that moves packets from node to node; some nodes have threads of
their own (player, source, DTMF), and packets arrive on the one **socket monitor** thread that all
receiving sockets share, where the RTP session, the RTP node and the payload decoder handle them up
to the jitter buffer. Each RTP session has an RTCP **timer**, whose threads are detached. Nearly all
threads sleep on an `ImsMediaCondition`. Results travel back as events to the response handler.

| part | state | operations | hard behaviour | what makes it correct |
|---|---|---|---|---|
| `ImsMediaCondition` | two bitmaps of 32 bits with a cursor each, a mutex, a condition variable | `wait`, `wait_timeout`, `signal`, `reset` | signals before, during and after waits; cursors that wrap; limits that expire as the signal comes | it counts signals: none is lost, none answers two waits |
| `IImsMediaThread` | stop flag, `mThread`, lifecycle mutex | `StartThread`, `StopThread`, `JoinThread`, destructor | restart of a stopped worker, failure to create one, calls from the worker itself | a worker is joined before reuse or release |
| `StreamScheduler` | node list, `mIsRunning`, three conditions | `RegisterNode`, `DeRegisterNode`, `Start`, `Stop`, `Awake`, worker | start and stop racing the worker's rounds, waits with limits, failing starts, spurious wake-ups | nodes are released only when no worker can touch them; Start means what it answers; Stop returns |
| `ImsMediaEventHandler` | list of handlers, queue of events, stop flag | `Init`, `Deinit`, `SendEvent`, `AddEvent`, worker | senders during start and end, bursts | events are dispatched in order, once, and none after `Deinit` |
| `ImsMediaSocket`, its nodes | shared lists of sockets and receivers, count, monitor flags; a listener per socket | `Listen`, monitor thread, open, start, stop, close of the nodes | callback while its node closes; two sessions at once; last one out stops the monitor | no callback reaches a node that is gone; the monitor lives while somebody listens |
| `ImsMediaTimer` | list of timers, one detached thread each | start, stop | stop during the callback, stop from it, restart by it | what outlives the release sends nothing; one chain of timers but for restarts that overlap; nobody waits for ever |
| audio sessions | per session three lists of graphs, each graph with a configuration and a state | open, close, modify, add, delete, confirm | any order of requests for several remotes and sessions, starts that fail half-way | direction is obeyed; success means served; lists agree |
| video, text sessions | one graph of each kind down to its nodes and their configurations; surfaces | open, close, modify, surfaces, text | pause image, preview, graphs that wait for a surface, a start that fails at any node | nodes run with the graph's configuration; nothing is left running; no surface is forgotten |
| RTP session | members with their counters, SSRC, flags | send, receive, report, feedback, BYE | losses, repeats and reordering over the wrap; its own SSRC coming back; a lock that not all take | reports tell the losses; punctual packets pass; a collision is resolved |
| audio jitter buffer | queue, playing timestamp, size, adjustments | `Add`, `Get`, `Delete`, `SetAdditionalDelay` | reordered, duplicated, late packets; wraps; SSRC changes; two threads | order, accounting, no loss of punctual packets |
| speech payloads | fields at their bits; the mode asked for last | encode, decode, mode requests | the format of EVS is told by the size of the packet | what was spoken is heard; the source follows the requests |
| DTMF | queue of digit packets, mode of the RTP encoder | digits with and without a duration | a queue filled by one thread and emptied by another, lost and doubled packets | digits are reported in order and once; the voice comes back |
| text | redundant blocks, jitter buffer, renderer | type, send, receive, show | lost, repeated and reordered packets; two threads on the buffer | each block is shown once and in order |
| video | parameter sets, fragments, jitter buffer, orientation, lost list | encode, decode, add, get, delete, feedback | frames with holes, a full buffer, two threads on the buffer | frames are whole, turned as sent; NACKs name what is missing |
| configurations | members of 16 classes in two languages | write, read, compare, assign | a member left out or out of order | the session runs with what was asked for |
| media quality, audio device, camera and codecs, wake lock, JNI | statistics; platform streams; locks | | reopened streams | see Not modelled |

`PROJECT.json` lists every part with its sources and what is left out of it, and under `hazards` the
places in the code that are hard to test, with the property that watches each of them.

## Modules

| module | models | correspondence |
|---|---|---|
| `ConditionRing` | `ImsMediaCondition.cpp`, the data | the bitmaps and cursors as functions and numbers modulo `Slots` (32 in the code) |
| `ImsMediaCondition` | the same, with the threads that wait, signal and time out | one action per critical section of `mMutex` |
| `CountingSignal` | what it promises | a count of signals sent and waits returned |
| `IImsMediaThread` | `IImsMediaThread.cpp` | clients run the calls, workers `runThread`; a step per lock, join or flag |
| `StreamScheduler` | `StreamScheduler.cpp`, with the graph calls of `BaseStreamGraph.cpp` and the producers of `BaseNode.cpp` | a client, the worker and asynchronous sources; three `ConditionRing`s; a node is its state and its number of queued packets |
| `EventChannel` | what an event handler promises | events sent, dispatched in order, dropped at the end |
| `ImsMediaEventHandler` | `ImsMediaEventHandler.cpp` | owner, senders and worker, a step per critical section |
| `ImsMediaSocket` | `ImsMediaSocket.cpp` with the reader and writer nodes | owners are sessions that open, start, stop and close; monitors are threads; `select` is a choice |
| `RtcpTimer` | `ImsMediaTimer.cpp` and all that starts, stops and is called by the RTCP timer | the owner of the graph, the socket thread and one thread per timer, a step per lock or flag |
| `AudioSession`, `AudioManager` | the audio sessions | graphs and sessions as records with one function per call, one action per request, the whole handler |
| `BaseStreamGraph` | `BaseStreamGraph.cpp`, start, stop and `UpdateConfig` of the nodes | a graph is the nodes it is made of, those that started, and the configuration each holds |
| `VideoSession`, `VideoManager` | the video sessions | as above, with the surfaces and the graphs that wait for one |
| `TextManager` | the text sessions and their manager | as above |
| `Sessions` | the sessions of the three media together | audio beside an instance of the managers of video and text, and the properties that need more than one of them |
| `RtpReceiverInfo` | `RtpReceiverInfo.cpp` | a member as a record, `updateSeq` and the losses as functions |
| `RtcpPackets` | the RTCP packet classes | forming and decoding as functions between records and sequences of words |
| `RtpSession` | `RtpSession.cpp`, `RtpService.cpp`, `IRtpSession.cpp` | an action per call of a thread; making and sending a compound packet are two, under the lock |
| `AudioJitterBuffer` | `AudioJitterBuffer.cpp`, `JitterNetworkAnalyser.cpp` | `Add`, `Get`, `Delete` and `SetAdditionalDelay` as functions of a buffer record, named after the stages of `Get` |
| `AudioReceivePath` | the threads around it | receiver, player and session call those functions in any order |
| `AudioPayload` | the two audio payload nodes, `ImsMediaAudioUtil.cpp`, the bit reader and writer | a payload is a set of fields, each at its bit |
| `VoicePath` | speech and mode requests between two sides | speak, lose, receive, handle the request |
| `ImsMediaDataQueue` | `ImsMediaDataQueue.cpp` | its operations as functions of a sequence |
| `DtmfPath` | `DtmfEncoderNode`, `DtmfSenderNode`, the DTMF part of the RTP nodes | the caller, the encoder's thread, the scheduler and the network |
| `TextPayload`, `TextPath` | the text nodes and `TextJitterBuffer` | source, network, socket thread and renderer |
| `VideoPayload` | the two video payload nodes | NAL units cut into payloads and put together |
| `VideoJitterBuffer` | `VideoJitterBuffer.cpp` | `Add`, `Get`, `Delete` and the lost list as functions of a buffer record |
| `VideoPath` | source, RTP nodes, renderer | an action per node call; the renderer takes and deletes in two |
| `ParcelLayouts` | reading and writing of parcels | a parcel is a sequence of tokens, a layout the fields in their order |
| `ConfigParcels` | the 16 classes of `config/` and their Java twins | members, defaults, comparisons and layouts as data |
| `ConfigExchange` | their way through `AudioLocalSession`, the session and `AudioListener` | Java writes, native reads, the session keeps, native answers, Java reads |

Composition: `StreamScheduler`, `ImsMediaEventHandler` and `ImsMediaSocket` are built on
`ConditionRing`: they wait on the bitmaps, not on an ideal condition. `StreamScheduler` implements
`IImsMediaThread` for its worker, `ImsMediaEventHandler` implements `EventChannel`,
`ImsMediaCondition` implements `CountingSignal`. `Sessions` puts the three managers side by side,
`MCMediaPaths` the five media paths; in both a behaviour is of one medium, since the media share no
modelled state.

`MCx.tla` gives a module its small sets and initial inputs where a `.cfg` cannot; `x_proofs.tla`
holds its theorems, `ThreadPrimitives_proofs` those of `ImsMediaCondition` and `IImsMediaThread`,
`RtpSession_proofs` those of `RtpSession` and `RtcpTimer`, `MediaPaths_proofs` those of the media
paths. Definitions that are commented as a mutant, or whose name says that something is
missing (`DropNoneLate`, `AfterIdleForgetful`, ...), are the definition after them with one plausible
mistake. Each property is violated by one.

## Runs

| run | bounds | shows |
|---|---|---|
| `condition` | 3 bits, 10 signals, at most 3 unanswered, 9 expiries | several wraps of both cursors in every relative position. `ImplementsCountingSignal` for untimed waits; `LossBoundedByTimeouts` and `NoPhantomReturn` with limits: an expiry can cost at most one signal |
| `thread` | 2 clients, 4 workers, 2 of which call their own object | `JoinedBeforeReuse`, `NoWorkerAfterDestroy`; `StoppedJoinReturns` (liveness). Two clients race on the lifecycle mutex; four workers allow reuse, failure and reuse again |
| `scheduler` | a queue-fed and an asynchronously started node, 1 packet, 2 starts, 2 bits per condition, 1 spurious wake-up | `NodesAreFreeToRelease`, `SuccessMeansNodesRun`, that the scheduler uses its thread as `IImsMediaThread` allows (`IsImsMediaThread`), and that `Stop` of a worker that is awake returns (`StopOfAwakeWorkerReturns`, liveness). The second start is the one that meets signals left by the first |
| `scheduler_stop` | one node, one start | **finding**: `StopReturns` fails, see below |
| `event_handler` | 2 senders, 5 events, at most 3 signals outstanding for 4 bits | `NothingRunsAfterDeinit`, the implementation of `EventChannel` (`IsEventChannel`), and that `Deinit` returns and events are dispatched (`NobodyIsLeftWaiting`, liveness) |
| `socket` | 2 sessions, 2 sockets, one sending too, 2 monitors, 2 overlapping `Listen`s | `CallbackFindsItsNode`, `MonitorFollowsList`, `CloseIsAnswered`. The two about the monitor are stated for as long as no two sessions were in `Listen` at once, and the run explores the overlaps as well. A listener may be gone only while `Listen` is taking the socket off, which happens: see below |
| `sessions` | audio: 2 sessions, 2 remotes, 2 formats, 5 directions; video: 1 session, 12 configurations and two surfaces; text: 2 sessions, 6 configurations; 1 failing start, at any node of video and text | any history of requests: the reachable states are finite, there is no bound on the length. Direction, served requests, one talker, confirmation; node configurations, what failed starts leave behind, and surfaces |
| `config_exchange` | two objects of each class one after the other, each with every single member changed or null | `ExchangeFaithful`: what the native side reads, keeps and answers is what Java sent |
| `rtcp_timer` | 3 timers alive at a time, 1 restart beside a callback or another restart | `FreedSessionUntouched`, `OneReportChain`, `EverybodyGoesOn` (liveness): start, expiry, stop, BYE and release in every order and beside each other. The number of callbacks that outlive the session and of timers that report is bounded by how often a restart overlapped, and no circle of waiting comes without an overlap |
| `rtp_session` | 2 senders, 5 packets each from 8 sequence numbers, 6 calls and packets, one own SSRC to collide | `LossReportsTrue`, `PunctualDelivered`, `WireRoundTrip`, `CollisionIsResolved` (liveness) |
| `media_paths` | voice: 5 calls of 4 or 5 packets; text: 6 configurations, two of them with different numbers for the two kinds of packet, 2 characters, 2 faults; video: 8 calls of 2 or 3 pictures, 1 or 2 faults; digits: 2, with 2 faults; speech: 17 formats, 2 to 4 frames, every mode after every mode | the nine properties of the paths, see the next table |
| `text_payload_type` | one level of redundancy | **finding**: `NewTextIsSentAsT140` fails, see below |

| property of `media_paths` | says |
|---|---|
| `NoPacketVanishes` | every voice packet is queued, played or reported |
| `PlayedAsSent` | voice is played in order and once, and a punctual call is played whole |
| `SpeechUnderstood` | frames are heard as spoken in every format, and the source follows the requests of the peer |
| `DigitsHeardAsSent` | digits are reported in order and once, and the voice comes back |
| `TextShownOnce` | until a packet comes whose payload number the receiver does not know, each block of text is shown once, in order, or is replaced when nothing that carried it came |
| `FramesWhole` | what the decoder gets are adjoining pieces of one picture, and the whole of it if it fits into the buffer of the renderer |
| `IdrShownAsSent` | a whole IDR picture is turned as it was sent, and its shape is told |
| `NackNamesMissing` | a NACK names only what is missing |
| `FullBufferGoesOn` | no hole stops the video for good |

Why small bounds are enough: the ring's behaviour depends on the cursors modulo the number of bits and
on how far apart they are, both of which 2 to 4 bits show completely (and the proofs cover every
number). Threads and sessions interfere pairwise: the code has no step that looks at three of them.
The buffers and the RTP session compare numbers with thresholds; the constants keep the order of the
thresholds (`Allowable < Frame`, guard zones smaller than the space, `MaxDropout + MaxMisorder <
RTP_SEQ_MOD`, start and queue limits above the size). A path begins where the numbers are about to
wrap. The speech codec has no memory but the frames of one packet and the request before, so pairs of
modes and short sequences of requests are all there is.

The calls of `media_paths` vary one difficulty at a time: with all of them together the properties
would have to except what each of them is known to break (see below), and would say less.

Deadlock is checked where the system can always go on (`sessions`, `rtcp_timer`). It is not where the
modelled objects end (a destroyed thread, a handler after `Deinit`, a bound on signals, starts,
events, packets or time reached, a process ended by a call through a null listener (`rtcp_timer`, whose process can end by SIGTERM, has a step for it), a `Stop` that is
never woken); each such cfg says why.

### Fairness

- Threads: an operating system thread that can go on does (weak fairness of the worker's epilogue, of
  a client inside a call, of `run` returning once it was told to stop), and a mutex that is free again
  and again is obtained (strong fairness of the join in the destructor).
- Scheduler: weak fairness of the client inside a call, of the worker, and of a producer that has
  queued and is about to wake the worker; limits of timed waits pass. Clients are never forced to
  make a call, nodes never to get data.
- Event handler: the worker is scheduled, a callback returns, `Deinit` goes on once called, a sender
  that found the handler adds its event.
- RTCP timer: each timer thread, a stop or start in progress and the release of the session go on; a lock
  waited for in a circle times out (`ImsMediaMutex.h:72-93`, which then raises SIGTERM: the behaviour
  ends there); what is asked of the session and what the peer sends are not forced.
- RTP session: the thread that met its own SSRC goes on, and whoever holds the lock sends.
- Socket, sessions, paths and configurations: safety only, no fairness.

### Findings

- `scheduler_stop` (`StreamScheduler.cpp:138`): `Stop` between the worker's check of the stop flag
  and `mIsRunning = false` finds the worker still running and sends no signal; the worker then waits
  without limit and `Stop` waits for it in `JoinThread`.
- `text_payload_type` (`RtpEncoderNode.cpp:544`): with one level of redundancy a text without
  redundant blocks goes out under the payload type of redundant text, and the receiver takes its first
  byte for the header of a redundant block.

### What the models showed without a run of its own

Threads and sessions
- More than 32 outstanding signals collapse onto set bits of `ImsMediaCondition` (line 145); then an
  event can stay in the queue of a sleeping worker. `event_handler` stays within the ring.
- Audio: `deleteConfig` deletes the last configuration too, though `ImsAudioSession.java:94-96` says it
  shall not; `openSession` answers success when the graphs did not start; a retry of a failed update, or
  a confirmation after another session took the media away, succeeds without starting anything because
  the configuration is equal (`AudioStreamGraphRtpTx.cpp:97`); `modifySession` deactivates one other
  session, add, confirm and open none.
- Video and text: a failed start leaves the nodes before the failure running with their old
  configuration, and closing logs a node that cannot be deleted and leaves it behind
  (`BaseStreamGraph.cpp:198`); an RTCP graph resumed before it
  ever ran starts with the configuration it was created with (`VideoStreamGraphRtcp.cpp:121`); a preview
  asked for with RECEIVE_ONLY is stopped by the next update (`VideoStreamGraphRtpTx.cpp:154`); a surface
  changed while the graph runs is only stored, and a start that fails in `setSurface` only logged;
  a node that is told a new configuration does not take all of it over. The video source answers success
  without storing anything when only the bitrate, the sampling rate or the zoom changed
  (`IVideoSourceNode.cpp:204-218`), or only what it does not compare, the intra interval and the path of
  the pause image; the renderer does not compare the frame rate that it copies
  (`IVideoRendererNode.cpp:156-161`). `Heeded` is what makes a node store its configuration, and
  `NodesFollowGraph` is about that: the rest can be as old as the last change of something heeded.

RTP and RTCP
- The timer: no lock keeps a BYE, or RTCP enabled again, from running beside a callback or beside each
  other. Each time it does it can leave one more chain of reports, of which the session knows one;
  `StopRtcp` then stops only that one, and a callback of the other can be about to lock the session when
  `deleteRtpSession` frees it. A callback that finds its own timer stored as the one to stop, and one
  that holds the session, or the release, which stops a timer whose callback waits for the session, are
  circles that end with SIGTERM. A timer
  deleted between the check in `TimerStop` and its lock (`ImsMediaTimer.cpp:188-194`) is locked and
  written to all the same.
- The socket: `Listen` clears the listener of a socket (`ImsMediaSocket.cpp:197`) without the mutex under
  which the monitor loads it twice (lines 527-529), so the monitor can call a null listener; the monitor
  is then at `crashed`. `CallbackFindsItsNode` says that this happens to a socket in removal only.
- A BYE of this side is never enabled by the nodes (`RtcpEncoderNode.cpp:131`) but by callers of the
  stack; a single-SSRC BYE of a peer deletes nothing; `m_bSndRtcpByePkt` and `m_bSelfCollisionByeSent`
  are never reset; an XR block given between making and sending a packet is lost; a packet sent as the
  timer expires loses its mark and the next report is an RR.
- The losses of members first heard of through SR, RR or a CSRC list are counted from zeroed numbers;
  `LossReportsTrue` is about members first heard of through RTP.

Voice, speech and digits
- A packet inserted in front between `Get` and `Delete` is deleted in place of the one that was played
  (excepted in `NoPacketVanishes`). The marker of a new SSRC has sequence number 0 and is recognised
  only at the head of the queue: packets numbered just below the wrap are inserted before it, and
  behind a late packet it is dropped, or played as an empty frame, without the reset (`overtook`
  excepts the first case). A SID dropped as late just after the wrap is counted as lost
  (`AudioJitterBuffer.cpp:425` compares plainly). Raising the delay brings frames back that were passed
  over, and with duplicates and reordering together a frame can be played again. The size can leave its
  bounds through `SetAdditionalDelay` and through drops with an adjustment pending.
- EVS: several header-full frames in one packet overwrite each other (`AudioRtpPayloadEncoderNode.cpp:449`),
  so the calls have one; a withdrawn request in header-full format does not bring back a source of SWB
  or FB, and NB and WB come back one bandwidth too wide (`AudioRtpPayloadDecoderNode.cpp:667`); a request
  for an AMR-WB IO mode changes the source but not the format the encoder packs in; in compact AMR-WB IO
  each SID reads as a withdrawal; a 2.8 kbps frame loses its first bit, and one that begins with 0x0C is
  taken for a SID. A request is lost while the sender does not run (`AudioSession.cpp:668`), and a sender
  started again at its highest mode ignores the one that the peer repeats.
- Digits: a ptime changed in the middle of a digit restarts the sender node but not the RTP encoder,
  which then holds the voice back until the next digit (`DtmfSenderNode.cpp:46`); stopping the encoder in
  the middle of a tone leaves no end packet; a digit without a duration mixed with one that ends it, and
  reordered packets, can be reported twice; with a ptime of 60 ms a digit of 40 ms has no packet of the
  tone and is never reported.

Text and video
- The encoder node sends T.140 as `mRtpPayloadRx` when there is no redundancy, and redundant text as
  `mRtpPayloadTx` (`RtpEncoderNode.cpp:550`, `555`); the decoder node knows `mRtpPayloadTx` and the number of redundancy
  only (`RtpDecoderNode.cpp:506`). With two numbers, what comes under an unknown number is read as the
  packet before was (lines 521-525): T.140 after redundant text is taken for its headers, and before the
  first known number everything is dropped. `TextShownOnce` ends at the first unknown number, which only
  calls with two numbers meet.
- A frame that outgrows the renderer's buffer is given up piece by piece (`IVideoRendererNode.cpp:194-200`
  drops what was gathered and the fragment), and the fragments that follow are shown as a frame without
  its beginning. The encoder for AVC drops NAL units above its own limit first; the one for HEVC has none.
- A text block of a lower number added between taking and deleting is deleted in place of the one shown,
  after which replacement characters stand for 65534 blocks (excepted through `raced`). Text held up for
  more than 16.383 s loses its redundancy.
- A video frame over the wrap of the numbers is never whole (`VideoJitterBuffer.cpp:420`) and goes when
  the buffer is full; a repeated last fragment or an SEI message does the same. A repetition of the
  packet just deleted can cut a frame short (`repeated`). `GetFrameType` takes only the types 19 and 20
  of HEVC for IDR. An orientation id of 8 or more is never recognised (`RtpDecoderNode.cpp:469`), though
  `VideoConfig.java:810-814` allows up to 14.

Configurations
- `operator!=` of `TextConfig` (`TextConfig.cpp:85`) compares its own members with `==`; its callers use
  `==`. A null path of the pause image (`VideoConfig.cpp:381`) or canonical name (`RtcpConfig.cpp:118`)
  ends the reading half way; `RtpHeaderExtension` compares as many bytes as the left side has.

## Proofs

All proofs are for arbitrary constants under the named assumptions of the modules (a positive number
of bits, finite or disjoint sets, bounds that are natural numbers), and none uses a fact that is not
proved or in the library.

- **`ConditionRing_proofs`.** Lemmas about the operators of `ConditionRing`, which the scheduler, the
  event handler, the sockets and the condition itself are built on: while the set bits are the window
  between the two cursors, a signal adds one to what is pending or takes a sleeper's place, a wait
  takes one away or goes to sleep, and waking leaves an empty ring.
- **`ThreadPrimitives_proofs`.** Of the condition: `ConditionTypeCorrect`, `NoSignalIsLost`,
  `NoReturnIsPhantom`, `SettledIsClean`, `IsCountingSignal`. The properties only speak of counters, so
  they are not inductive: the invariant describes the bitmaps. While no wait has expired, the set bits
  of the signal map are exactly the window from the wait cursor to the signal cursor, as wide as
  signals exceed waits, and at most one map has bits. With it a signal always finds either the
  sleeper's bit or a free one, and each step of the ring is a step of the counter or a stutter.
  Of the thread, under the assumption of its module: `ThreadTypeCorrect`,
  `WorkersAreJoinedBeforeReuse`, `NoStaleStop`, `DestructionIsSafe`, `JoinWaits`. The invariant says
  who may be between taking and releasing the lifecycle mutex, that only the worker in `mThread` can be
  alive, and where each client inside a call has got to; from it the join before a reuse finds the
  only live worker.
- **`StreamScheduler_proofs`.** `NodesAreReleasedSafely`, `StartTellsTheTruth`,
  `SchedulerKeepsLifecycle`. `LifeInv` relates the client's place in `Start` and `Stop`, the flags and
  the worker: a client outside both finds no worker, and one that waits for the worker to start or to
  end finds the one it made. `StartInv` says that from the reset of the result to the moment the
  client looks at it, a success means that the nodes which start in the worker run. The result of a
  condition is left open (a wait may return or not), so the proofs need nothing of the rings: a lost
  or stale signal, or a time limit, cannot make a release unsafe. The refinement goes by worker,
  client and the rest, one lemma each.
- **`ImsMediaEventHandler_proofs`.** `HandlerIsEventChannel`, `DeinitIsFinal`, `TypeCorrect`,
  `NoEventIsSleptOver`. The first two hold however many signals are outstanding: `WorkerInv` and
  `QueueInv` say what the owner may assume of the worker at each step of `Deinit` and what of the
  queue is still to be dispatched. The other two are about the ring, and assume that fewer signals
  are outstanding than it has bits (`Burst < Slots`, 32 in the code): beyond that signals collapse and
  an event can be slept over, as said above. `CondInv` and `SignalledInv` then give a worker that
  is about to sleep beside an event a signal that keeps it awake.
- **`RtpSession_proofs`.** Of the session: `LossesAreTold`, `PunctualIsDelivered`,
  `WhatIsSentReadsBack`, `RtpTypeCorrect`, under the assumption of its module: any set of peers whose reports fit into one
  packet (at most 31 blocks, and an MTU that holds them; beyond that the code adds reports or leaves
  members out), any number space wider than the two thresholds of `updateSeq`, any start, any packets in any order, any lists of CSRCs, and
  another SSRC to take after a collision. What a report says is a difference of counters that wrap
  and are corrected by `updateSeq`, so `LossReportsTrue` is not inductive. `ReportsInv` compares them
  with an observer that numbers packets without wrapping: the member list has nobody twice
  (`Roster`), whom the observer knows is in it, and a member first heard of through RTP `Agrees` with
  the observer on first and highest number with its cycles, on the count, on the counts of the last
  report, and on the number after a jump that would confirm it (`Observed`). The lemmas: numbers modulo
  a space, and that a step shorter than `MaxDropout` wraps exactly when the sum says so; what
  `updateSeq` does to one member that agrees; what counting, CSRC lists, RR and BYE leave of the list;
  that populating a report visits each sender of RTP once and reorders the list without losing
  anybody; and that the recursive functions which do so end, by the least number at which they would
  not (`LeastNat`).
  `WhatIsSentReadsBack` is about the words on the wire, for any number of blocks in a report and of
  SDES items. What a session makes is a compound packet of known shape (`IsCompound`, `CompoundMade`:
  at most one report, whose blocks are those of the reported members); the shape is the invariant while
  the packet waits to be sent. `CompoundRead` then reads it back part by part: `Reads` says that the
  reader, standing before the words of a part, comes to stand behind them with that part added.
  Beneath are one lemma for the fields of each kind of packet (`BlocksRead`, `SrAdded`, `ChunkRead`,
  ...), one for header and length (`PacketRead`), and for the lists that `FlattenSeq` joins, which have
  equal lengths, that each is found at its multiple of the length (`Flattened`, by `LeastNat` again).
  Of the timer: `NoReportOfFreedSession`, for any number of timers and of restarts that overlap: a callback
  that is under way when the session is freed sends no report and neither stops nor starts a timer. It
  may still take the lock of the freed session, to find itself off the list and leave. The invariant says
  who holds the lock of the session and where (`Places`, `LockInv`) and that a session which is freed, or
  about to be, is off the list (`FreedInv`), so that whoever enters later turns back.
- **`ImsMediaSocket_proofs`.** `CallbacksFindTheirNodes`, `MonitorServesListeners`,
  `WaitForMonitorIsAnswered`. The first holds for all interleavings: a socket is in the list exactly
  from `PushSocket` to `RemoveSocket` (`NodesInv`), the monitor calls out only with the list
  locked (`CallInv`), and a listed socket has its listener except between the two steps that clear it
  and take the socket off (`ListenerInv`). The other two say themselves that no two sessions were in
  `Listen` at once;
  `SequentialInv` is the invariant of such histories: one session in `Listen`, the atomic count equal
  to the listed sockets up to the step in progress, one monitor while the count is positive, and the
  exit condition either empty or holding the signal the closing session waits for.
- **`Sessions_proofs`.** Audio: `TypeCorrect`, `UnwantedMediaNeverRun`, `GraphsAreFoundBySender`,
  `ConfirmDeletesTheOthers`, `SuccessIsServed`. The lemmas are about the functions of `AudioSession`
  (what create, start, update leave of a graph; which lists a failed start has touched), and the
  actions only combine them. Direction and nesting of the lists are inductive together with the types.
  Video and text: `NodesAreTold`, `NothingIsLeftRunning`, `VideoIsServed`. `TextInv` and `VideoInv` say
  of every graph of every session what the requests may leave. `TxOff`: nodes of a video sender run
  only for a preview or a direction that sends. A graph that waits for a surface belongs to a
  session without it. As long as nothing failed, a graph that does not run has no started node
  (`Calm`), and one that runs or waits for its surface has told its nodes its own configuration
  (`Follows`): `update()` reaches only the nodes that are not started, so the second rests on the
  first. It is about what each node heeds (`Heeded`). The lemmas go from the member functions of a graph (`GraphStarted`, `VideoUpdated`, ...) over
  those of a session (`VideoStartGraph`, ...) to the steps of the managers; start and update are the
  same functions in both media (`SameOperations`). `OneTalkerEachMedium` counts: the open
  sessions are finite, only a direction with media makes a session active, and another active one is
  stopped first. `EachMediumIsItsManager` carries all of these to the composition; `MCSessions` checks
  on an instance what they prove.

- **`MediaPaths_proofs`.** Voice: `VoiceIsAccountedFor`, `TypeCorrect`, for every call
  (`CallsAssumption`: the numbers and timestamps of its packets are within their widths) and every
  size of the buffer (`SizesAssumption`). `Inv` adds to the property that a frame in the player's hands
  is in the report. A step of the player is a chain of functions of the buffer; one lemma each says
  that the voice queued before is queued after or reported (`Accounts`), and `GoodThenGood` joins them.
  `DropAllLate` repeats `DropLate` as often as there are entries; what the repetition keeps
  follows from the least number of repetitions at which it would fail (`LeastNat`).
  Digits: `DigitsAreHeard`, `DtmfTypeCorrect`, for every number of digits and faults, every duration,
  sampling rate and ptime (`DigitsAssumption`). What was heard speaks of the past and what was reported
  of the order, so neither is inductive. A packet gets a rank, by digits and the end of one after its
  tone. While each digit has a duration, ranks ascend from the network over the queue of the sender to
  what the caller still has to queue (`InOrder`), and `PeerInv` compares what the peer has heard,
  reported and remembers of a tone with the ranks ahead of it: a doubled or late packet has no lower
  rank than the digit it could repeat. `HandOn` says that handing on and losing keep the order,
  `PeerHears` that receiving keeps what the peer knows. The voice comes back because behind a start
  that is queued, or is the caller's or the thread's to queue, there is an end (`VoiceComesBack`).

Only model-checked:

- Liveness (`StoppedJoinReturns`, `StopOfAwakeWorkerReturns`, `NobodyIsLeftWaiting`, `EverybodyGoesOn`,
  `CollisionIsResolved`): reasoning about fairness and ENABLED is out of the prover's reach.
- Of the timer, how many callbacks outlive the session (the count in `FreedSessionUntouched`) and how
  many chains report (`OneReportChain`): both compare the size of a set with the number of overlaps.
- The types of `StreamScheduler`, whose `ScanNodes` filters a sequence, and of the sockets while
  sessions overlap, where the count may drift by a number that only the bound on overlaps limits.
- Of the media paths, that voice is played in order and once (`PlayedAsSent`, whose exceptions speak of
  several packets at a time), and speech, text and video: what they say of whole packets and frames
  rests on folds and recursive functions over sequences, each of which would need its own argument in
  the manner of `LeastNat`, the library's induction theorems being out of the provers' reach.
- The configurations, whose layouts are concrete data that the run goes through class by class.

## Abstractions

- A critical section of one mutex is one step; a section that calls out or waits is several.
- Memory is sequentially consistent; flags read without a lock are separate steps.
- Packets, configurations and events are small records or numbers; contents matter only where a
  property needs them. A session's configuration is its direction, remote address, mode and a format
  that stands for the rest; surfaces are there or not. In `ConfigParcels` every member is there.
- In `BaseStreamGraph` a node is its name, whether it started and its copy of the configuration.
- `select`, `recvfrom`, `std::thread` and the condition variable are choices among the outcomes their
  use in the code has to allow. Creating a graph's nodes always succeeds; starting them may fail.
- The scheduler's client calls in the order `BaseStreamGraph` calls, and registers while stopped.
- Networks are a sequence of packets of which one is lost, repeated or overtaken, up to a number of
  faults; a text or video receiver knows one SSRC.
- The share of dropped voice and the estimate of the network's jitter may be any value the code could
  compute. In the video buffer time is whether a gap is new, older than a frame, or older than the time
  to wait for an answer, and whether the pacing holds the next frame back; sizes (MTU, parameter sets)
  are small numbers.
- An update in place that meets no fault leaves an audio graph running, also one that had stalled. The
  number of losses is not cut to 24 bits before it is reported (`RtpReceiverInfo.cpp:74-79`).
- Clocks, jitter and octet counts are left out of RTP; the words that hold them are zero.

## Not modelled, and why

- **Media quality** (`MediaQualityAnalyzer`, `RtcpXrEncoder`): averages and thresholds over long
  histories of counters with a clock, too wide to enumerate and tested directly by its unit tests.
- **Platform**: AAudio streams and their reopening, codecs, camera, surfaces, sockets' options, image
  rotation. Their behaviour is that of the Android libraries, of which the code shows little.
- **Parsing of parameter sets** (`ImsMediaVideoUtil`), codec and mode names: tables and bit syntax.
- **JNI, Java handlers, `BaseManager`**: forward one by one. The **wake lock** follows the direction of
  open and modify; one integer set, a unit test's job.
- **Repeating timers**: the bandwidth feedback of video (TMMBR), the inactivity of RTP and RTCP and the
  report of the round trip only count seconds and send an event.
- **The loop from PLI and FIR** to a new IDR picture of the sender runs through both applications.
- **The list of RTP sessions** shared by the nodes of different media: each module has one session; that
  RTP and RTCP nodes keep the session of their first start when their addresses change is not modelled.
- A hold or a change of codec in the middle of text, of an utterance or of a digit.

## Plan

The order was by how much depends on a part: what every thread sleeps on, then the threads, then what
runs on them, then the sessions, then what travels between two sides.

1. Done: all modules above; proofs of the primitives, the threads, the scheduler, the event handler,
   the sockets, the RTCP timer, the reports and packets of the RTP session, the sessions of the three media, the
   accounting of voice and the digits.
2. Next, proofs: that a full video buffer goes on; what one `Add` of a jitter buffer leaves of the order
   of its queue; that an RTCP packet of the peer is read as the peer meant it.
