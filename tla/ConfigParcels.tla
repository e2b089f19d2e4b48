---------------------------- MODULE ConfigParcels ----------------------------
(***************************************************************************)
(* The parcelable objects of the media interface: for each class what its  *)
(* constructors leave, which members its copy constructors, assignment and *)
(* comparisons name, and in which order the native class and its Java twin *)
(* go through the fields.  Members have the names of the native class      *)
(* without the prefix m.                                                   *)
(***************************************************************************)
EXTENDS ParcelLayouts

(* ---- RtcpConfig ---- *)
RtcpConfigMembers ==
    {"canonicalName", "transmitPort", "intervalSec", "rtcpXrBlockTypes"}
RtcpConfigInit == [canonicalName |-> "", transmitPort |-> 0, intervalSec |-> 0,
                   rtcpXrBlockTypes |-> 0]
RtcpConfigDefault == [canonicalName |-> "", transmitPort |-> 0, intervalSec |-> 0,
                      rtcpXrBlockTypes |-> 0]
RtcpConfigCopy(c) == Copied(c, RtcpConfigInit, RtcpConfigMembers)
RtcpConfigAssign(c, onto) == Copied(c, onto, RtcpConfigMembers)
RtcpConfigEq(a, b) == Agree(a, b, RtcpConfigMembers)
RtcpConfigNe(a, b) == Differ(a, b, RtcpConfigMembers)
RtcpConfigWrite == Strs(<<"canonicalName">>)
    \o Ints(<<"transmitPort", "intervalSec", "rtcpXrBlockTypes">>)
RtcpConfigRead == Strs(<<"canonicalName">>)
    \o Ints(<<"transmitPort", "intervalSec", "rtcpXrBlockTypes">>)
JavaRtcpConfigWrite == Strs(<<"canonicalName">>)
    \o Ints(<<"transmitPort", "intervalSec", "rtcpXrBlockTypes">>)
JavaRtcpConfigRead == IgnoredStr("canonicalName")
    \o Ints(<<"transmitPort", "intervalSec", "rtcpXrBlockTypes">>)

(* ---- RtpContextParams ---- *)
RtpContextParamsMembers ==
    {"ssrc", "timestamp", "sequenceNumber"}
RtpContextParamsInit == [ssrc |-> 0, timestamp |-> 0, sequenceNumber |-> 0]
RtpContextParamsDefault == [ssrc |-> 0, timestamp |-> 0, sequenceNumber |-> 0]
RtpContextParamsCopy(c) == Copied(c, RtpContextParamsInit, RtpContextParamsMembers)
RtpContextParamsAssign(c, onto) == Copied(c, onto, RtpContextParamsMembers)
RtpContextParamsEq(a, b) == Agree(a, b, RtpContextParamsMembers)
RtpContextParamsNe(a, b) == Differ(a, b, RtpContextParamsMembers)
RtpContextParamsWrite == Longs(<<"ssrc", "timestamp">>) \o Ints(<<"sequenceNumber">>)
RtpContextParamsRead == Longs(<<"ssrc", "timestamp">>) \o Ints(<<"sequenceNumber">>)
JavaRtpContextParamsWrite == Longs(<<"ssrc", "timestamp">>) \o Ints(<<"sequenceNumber">>)
JavaRtpContextParamsRead == Longs(<<"ssrc", "timestamp">>) \o Ints(<<"sequenceNumber">>)

(* ---- AnbrMode ---- *)
AnbrModeMembers ==
    {"anbrUplinkMode", "anbrDownlinkMode"}
AnbrModeInit == [anbrUplinkMode |-> 0, anbrDownlinkMode |-> 0]
AnbrModeDefault == [anbrUplinkMode |-> 0, anbrDownlinkMode |-> 0]
AnbrModeCopy(c) == Copied(c, AnbrModeInit, AnbrModeMembers)
AnbrModeAssign(c, onto) == Copied(c, onto, AnbrModeMembers)
AnbrModeEq(a, b) == Agree(a, b, AnbrModeMembers)
AnbrModeNe(a, b) == Differ(a, b, AnbrModeMembers)
AnbrModeWrite == Ints(<<"anbrUplinkMode", "anbrDownlinkMode">>)
AnbrModeRead == Ints(<<"anbrUplinkMode", "anbrDownlinkMode">>)
JavaAnbrModeWrite == Ints(<<"anbrUplinkMode", "anbrDownlinkMode">>)
JavaAnbrModeRead == Ints(<<"anbrUplinkMode", "anbrDownlinkMode">>)

(* ---- AmrParams ---- *)
AmrParamsMembers ==
    {"amrMode", "octetAligned", "maxRedundancyMillis"}
AmrParamsInit == [amrMode |-> 0, octetAligned |-> FALSE, maxRedundancyMillis |-> 0]
AmrParamsDefault == [amrMode |-> 0, octetAligned |-> FALSE, maxRedundancyMillis |-> 0]
AmrParamsCopy(c) == Copied(c, AmrParamsInit, AmrParamsMembers)
AmrParamsAssign(c, onto) == Copied(c, onto, AmrParamsMembers)
AmrParamsEq(a, b) == Agree(a, b, AmrParamsMembers)
AmrParamsNe(a, b) == Differ(a, b, AmrParamsMembers)
AmrParamsWrite ==
    Ints(<<"amrMode">>) \o Bools(<<"octetAligned">>) \o Ints(<<"maxRedundancyMillis">>)
AmrParamsRead ==
    Ints(<<"amrMode">>) \o Bools(<<"octetAligned">>) \o Ints(<<"maxRedundancyMillis">>)
JavaAmrParamsWrite ==
    Ints(<<"amrMode">>) \o Bools(<<"octetAligned">>) \o Ints(<<"maxRedundancyMillis">>)
JavaAmrParamsRead ==
    Ints(<<"amrMode">>) \o Bools(<<"octetAligned">>) \o Ints(<<"maxRedundancyMillis">>)

(* ---- EvsParams ---- *)
EvsParamsMembers ==
    {"evsBandwidth", "evsMode", "channelAwareMode", "useHeaderFullOnly", "codecModeRequest"}
EvsParamsInit == [evsBandwidth |-> 0, evsMode |-> 1, channelAwareMode |-> -1,
                  useHeaderFullOnly |-> FALSE, codecModeRequest |-> -1]
EvsParamsDefault == [evsBandwidth |-> 0, evsMode |-> 1, channelAwareMode |-> -1,
                     useHeaderFullOnly |-> FALSE, codecModeRequest |-> -1]
EvsParamsCopy(c) == Copied(c, EvsParamsInit, EvsParamsMembers)
EvsParamsAssign(c, onto) == Copied(c, onto, EvsParamsMembers)
EvsParamsEq(a, b) == Agree(a, b, EvsParamsMembers)
EvsParamsNe(a, b) == Differ(a, b, EvsParamsMembers)
EvsParamsWrite == Ints(<<"evsBandwidth", "evsMode">>) \o Bytes(<<"channelAwareMode">>)
    \o Bools(<<"useHeaderFullOnly">>) \o Bytes(<<"codecModeRequest">>)
EvsParamsRead == Ints(<<"evsBandwidth", "evsMode">>) \o Bytes(<<"channelAwareMode">>)
    \o Bools(<<"useHeaderFullOnly">>) \o Bytes(<<"codecModeRequest">>)
JavaEvsParamsWrite == Ints(<<"evsBandwidth", "evsMode">>) \o Bytes(<<"channelAwareMode">>)
    \o Bools(<<"useHeaderFullOnly">>) \o Bytes(<<"codecModeRequest">>)
JavaEvsParamsRead == Ints(<<"evsBandwidth", "evsMode">>) \o Bytes(<<"channelAwareMode">>)
    \o Bools(<<"useHeaderFullOnly">>) \o Bytes(<<"codecModeRequest">>)

(* ---- RtpConfig, the part audio, video and text share ---- *)
RtpConfigMembers ==
    {"type", "direction", "accessNetwork", "remoteAddress", "remotePort", "dscp",
     "rxPayloadTypeNumber", "txPayloadTypeNumber", "samplingRateKHz"}
RtpConfigInit(mediaType) ==
    [type |-> mediaType, direction |-> 0, accessNetwork |-> 0, remoteAddress |-> "",
     remotePort |-> -1, rtcpConfig |-> RtcpConfigInit, dscp |-> 0, rxPayloadTypeNumber |-> 0,
     txPayloadTypeNumber |-> 0, samplingRateKHz |-> 0, rtpContextParams |-> RtpContextParamsInit,
     anbrMode |-> AnbrModeInit]
\* The constructor from a pointer, which a stream graph uses to keep a config.
RtpConfigFromPtr(c, onto) ==
    [Copied(c, onto, RtpConfigMembers)
        EXCEPT !.rtcpConfig = RtcpConfigCopy(c.rtcpConfig),
               !.rtpContextParams = RtpContextParamsCopy(c.rtpContextParams),
               !.anbrMode = AnbrModeCopy(c.anbrMode)]
RtpConfigCopy(c, onto) ==
    [Copied(c, onto, RtpConfigMembers)
        EXCEPT !.rtcpConfig = RtcpConfigCopy(c.rtcpConfig),
               !.rtpContextParams = RtpContextParamsCopy(c.rtpContextParams),
               !.anbrMode = AnbrModeCopy(c.anbrMode)]
RtpConfigAssign(c, onto) ==
    [Copied(c, onto, RtpConfigMembers)
        EXCEPT !.rtcpConfig = RtcpConfigAssign(c.rtcpConfig, @),
               !.rtpContextParams = RtpContextParamsAssign(c.rtpContextParams, @),
               !.anbrMode = AnbrModeAssign(c.anbrMode, @)]
RtpConfigEq(a, b) ==
    /\ Agree(a, b, RtpConfigMembers)
    /\ RtcpConfigEq(a.rtcpConfig, b.rtcpConfig)
    /\ RtpContextParamsEq(a.rtpContextParams, b.rtpContextParams)
    /\ AnbrModeEq(a.anbrMode, b.anbrMode)
RtpConfigNe(a, b) ==
    \/ Differ(a, b, RtpConfigMembers)
    \/ RtcpConfigNe(a.rtcpConfig, b.rtcpConfig)
    \/ RtpContextParamsNe(a.rtpContextParams, b.rtpContextParams)
    \/ AnbrModeNe(a.anbrMode, b.anbrMode)

RtcpConfigClass == "android.telephony.imsmedia.RtcpConfig"
RtpContextParamsClass == "android.telephony.imsmedia.RtpContextParams"
AnbrModeClass == "android.telephony.imsmedia.AnbrMode"
RtpConfigWrite == Ints(<<"type", "direction", "accessNetwork">>)
    \o Strs(<<"remoteAddress">>) \o Ints(<<"remotePort">>)
    \o Sub("rtcpConfig", RtcpConfigClass, RtcpConfigWrite, Null, Null)
    \o Bytes(<<"dscp", "rxPayloadTypeNumber", "txPayloadTypeNumber", "samplingRateKHz">>)
    \o Sub("rtpContextParams", RtpContextParamsClass, RtpContextParamsWrite, Null, Null)
    \o Sub("anbrMode", AnbrModeClass, AnbrModeWrite, Null, Null)
RtpConfigRead == Ints(<<"type", "direction", "accessNetwork">>)
    \o NullableStr("remoteAddress") \o Ints(<<"remotePort">>)
    \o Sub("rtcpConfig", "", RtcpConfigRead, RtcpConfigDefault, RtcpConfigInit)
    \o Bytes(<<"dscp", "rxPayloadTypeNumber", "txPayloadTypeNumber", "samplingRateKHz">>)
    \o Sub("rtpContextParams", "", RtpContextParamsRead, RtpContextParamsDefault,
           RtpContextParamsInit)
    \o Sub("anbrMode", "", AnbrModeRead, AnbrModeDefault, AnbrModeInit)
\* No address goes out as a null string and UNINITIALIZED_PORT: JavaAddress.
JavaRtpConfigWrite == Ints(<<"type", "direction", "accessNetwork">>)
    \o Strs(<<"remoteAddress">>) \o Ints(<<"remotePort">>)
    \o Sub("rtcpConfig", RtcpConfigClass, JavaRtcpConfigWrite, Null, Null)
    \o Bytes(<<"dscp", "rxPayloadTypeNumber", "txPayloadTypeNumber", "samplingRateKHz">>)
    \o Sub("rtpContextParams", RtpContextParamsClass, JavaRtpContextParamsWrite, Null, Null)
    \o Sub("anbrMode", AnbrModeClass, JavaAnbrModeWrite, Null, Null)
JavaRtpConfigRead == Ints(<<"type", "direction", "accessNetwork">>)
    \o IgnoredStr("remoteAddress") \o Ints(<<"remotePort">>)
    \o Sub("rtcpConfig", RtcpConfigClass, JavaRtcpConfigRead, Null, RtcpConfigInit)
    \o Bytes(<<"dscp", "rxPayloadTypeNumber", "txPayloadTypeNumber", "samplingRateKHz">>)
    \o Sub("rtpContextParams", RtpContextParamsClass, JavaRtpContextParamsRead, Null,
           RtpContextParamsInit)
    \o Sub("anbrMode", AnbrModeClass, JavaAnbrModeRead, Null, AnbrModeInit)
\* An address without a port, or a port without an address, is no address.
JavaAddress(c) ==
    IF "remotePort" \in DOMAIN c /\ (c.remoteAddress = Null \/ c.remotePort = -1)
    THEN [c EXCEPT !.remoteAddress = Null, !.remotePort = -1] ELSE c

(* ---- AudioConfig ---- *)
AudioConfigMembers ==
    {"pTimeMillis", "maxPTimeMillis", "dtxEnabled", "codecType", "dtmfTxPayloadTypeNumber",
     "dtmfRxPayloadTypeNumber", "dtmfSamplingRateKHz"}
AudioConfigInit == RtpConfigInit(0) @@
    [pTimeMillis |-> 0, maxPTimeMillis |-> 0, dtxEnabled |-> FALSE, codecType |-> 0,
     dtmfTxPayloadTypeNumber |-> 0, dtmfRxPayloadTypeNumber |-> 0, dtmfSamplingRateKHz |-> 0,
     amrParams |-> AmrParamsInit, evsParams |-> EvsParamsInit]
AudioConfigFromPtr(c) ==
    [Copied(c, RtpConfigFromPtr(c, AudioConfigInit), AudioConfigMembers)
        EXCEPT !.amrParams = AmrParamsAssign(c.amrParams, @),
               !.evsParams = EvsParamsAssign(c.evsParams, @)]
AudioConfigCopy(c) ==
    [Copied(c, RtpConfigCopy(c, AudioConfigInit), AudioConfigMembers)
        EXCEPT !.amrParams = AmrParamsCopy(c.amrParams), !.evsParams = EvsParamsCopy(c.evsParams)]
AudioConfigAssign(c, onto) ==
    [Copied(c, RtpConfigAssign(c, onto), AudioConfigMembers)
        EXCEPT !.amrParams = AmrParamsAssign(c.amrParams, @),
               !.evsParams = EvsParamsAssign(c.evsParams, @)]
AudioConfigEq(a, b) ==
    /\ RtpConfigEq(a, b)
    /\ Agree(a, b, AudioConfigMembers)
    /\ AmrParamsEq(a.amrParams, b.amrParams)
    /\ EvsParamsEq(a.evsParams, b.evsParams)
AudioConfigNe(a, b) ==
    \/ RtpConfigNe(a, b)
    \/ Differ(a, b, AudioConfigMembers)
    \/ AmrParamsNe(a.amrParams, b.amrParams)
    \/ EvsParamsNe(a.evsParams, b.evsParams)

AmrParamsClass == "android.telephony.imsmedia.AmrParams"
EvsParamsClass == "android.telephony.imsmedia.EvsParams"
AudioConfigWrite == RtpConfigWrite
    \o Bytes(<<"pTimeMillis">>) \o Ints(<<"maxPTimeMillis">>) \o Bools(<<"dtxEnabled">>)
    \o Ints(<<"codecType">>)
    \o Bytes(<<"dtmfTxPayloadTypeNumber", "dtmfRxPayloadTypeNumber", "dtmfSamplingRateKHz">>)
    \o Sub("amrParams", AmrParamsClass, AmrParamsWrite, Null, Null)
    \o Sub("evsParams", EvsParamsClass, EvsParamsWrite, Null, Null)
AudioConfigRead == RtpConfigRead
    \o Bytes(<<"pTimeMillis">>) \o Ints(<<"maxPTimeMillis">>) \o Bools(<<"dtxEnabled">>)
    \o Ints(<<"codecType">>)
    \o Bytes(<<"dtmfTxPayloadTypeNumber", "dtmfRxPayloadTypeNumber", "dtmfSamplingRateKHz">>)
    \o Sub("amrParams", "", AmrParamsRead, AmrParamsDefault, AmrParamsInit)
    \o Sub("evsParams", "", EvsParamsRead, EvsParamsDefault, EvsParamsInit)
JavaAudioConfigWrite == JavaRtpConfigWrite
    \o Bytes(<<"pTimeMillis">>) \o Ints(<<"maxPTimeMillis">>) \o Bools(<<"dtxEnabled">>)
    \o Ints(<<"codecType">>)
    \o Bytes(<<"dtmfTxPayloadTypeNumber", "dtmfRxPayloadTypeNumber", "dtmfSamplingRateKHz">>)
    \o Sub("amrParams", AmrParamsClass, JavaAmrParamsWrite, Null, Null)
    \o Sub("evsParams", EvsParamsClass, JavaEvsParamsWrite, Null, Null)
JavaAudioConfigRead == JavaRtpConfigRead
    \o Bytes(<<"pTimeMillis">>) \o Ints(<<"maxPTimeMillis">>) \o Bools(<<"dtxEnabled">>)
    \o Ints(<<"codecType">>)
    \o Bytes(<<"dtmfTxPayloadTypeNumber", "dtmfRxPayloadTypeNumber", "dtmfSamplingRateKHz">>)
    \o Sub("amrParams", AmrParamsClass, JavaAmrParamsRead, Null, AmrParamsInit)
    \o Sub("evsParams", EvsParamsClass, JavaEvsParamsRead, Null, EvsParamsInit)

(* ---- TextConfig ---- *)
TextConfigMembers ==
    {"codecType", "bitrate", "redundantPayload", "redundantLevel", "keepRedundantLevel"}
TextConfigInit == RtpConfigInit(2) @@
    [codecType |-> 0, bitrate |-> 0, redundantPayload |-> 0, redundantLevel |-> 0,
     keepRedundantLevel |-> FALSE]
TextConfigFromPtr(c) == Copied(c, RtpConfigFromPtr(c, TextConfigInit), TextConfigMembers)
TextConfigCopy(c) == Copied(c, RtpConfigCopy(c, TextConfigInit), TextConfigMembers)
TextConfigAssign(c, onto) == Copied(c, RtpConfigAssign(c, onto), TextConfigMembers)
TextConfigEq(a, b) == RtpConfigEq(a, b) /\ Agree(a, b, TextConfigMembers)
\* The five own members are compared with ==, as the code has it.
TextConfigNe(a, b) == RtpConfigNe(a, b)
    \/ \E f \in TextConfigMembers : a[f] = b[f]
TextConfigWrite == RtpConfigWrite \o Ints(<<"codecType", "bitrate">>)
    \o Bytes(<<"redundantPayload", "redundantLevel">>) \o Bools(<<"keepRedundantLevel">>)
TextConfigRead == RtpConfigRead \o Ints(<<"codecType", "bitrate">>)
    \o Bytes(<<"redundantPayload", "redundantLevel">>) \o Bools(<<"keepRedundantLevel">>)
JavaTextConfigWrite == JavaRtpConfigWrite \o Ints(<<"codecType", "bitrate">>)
    \o Bytes(<<"redundantPayload", "redundantLevel">>) \o Bools(<<"keepRedundantLevel">>)
JavaTextConfigRead == JavaRtpConfigRead \o Ints(<<"codecType", "bitrate">>)
    \o Bytes(<<"redundantPayload", "redundantLevel">>) \o Bools(<<"keepRedundantLevel">>)

(* ---- VideoConfig ---- *)
VideoConfigMembers ==
    {"videoMode", "codecType", "framerate", "bitrate", "maxMtuBytes", "codecProfile",
     "codecLevel", "codecSprop", "intraFrameIntervalSec", "packetizationMode", "cameraId",
     "cameraZoom", "resolutionWidth", "resolutionHeight", "pauseImagePath",
     "deviceOrientationDegree", "cvoValue", "rtcpFbTypes"}
VideoConfigInit == RtpConfigInit(1) @@
    [videoMode |-> 0, codecType |-> 32, framerate |-> 15, bitrate |-> 384, maxMtuBytes |-> 1500,
     codecProfile |-> 0, codecLevel |-> 0, codecSprop |-> "", intraFrameIntervalSec |-> 1,
     packetizationMode |-> 1, cameraId |-> 0, cameraZoom |-> 0, resolutionWidth |-> 480,
     resolutionHeight |-> 640, pauseImagePath |-> "", deviceOrientationDegree |-> 0,
     cvoValue |-> -1, rtcpFbTypes |-> 0]
VideoConfigFromPtr(c) == Copied(c, RtpConfigFromPtr(c, VideoConfigInit), VideoConfigMembers)
VideoConfigCopy(c) == Copied(c, RtpConfigCopy(c, VideoConfigInit), VideoConfigMembers)
VideoConfigAssign(c, onto) == Copied(c, RtpConfigAssign(c, onto), VideoConfigMembers)
\* Mutant: the pause image is not compared.
VideoConfigEqNoImage(a, b) ==
    RtpConfigEq(a, b) /\ Agree(a, b, VideoConfigMembers \ {"pauseImagePath"})
VideoConfigEq(a, b) == RtpConfigEq(a, b) /\ Agree(a, b, VideoConfigMembers)
VideoConfigNe(a, b) == RtpConfigNe(a, b) \/ Differ(a, b, VideoConfigMembers)
VideoConfigWrite == RtpConfigWrite
    \o Ints(<<"videoMode", "codecType", "framerate", "bitrate", "maxMtuBytes", "codecProfile",
              "codecLevel", "intraFrameIntervalSec", "packetizationMode", "cameraId", "cameraZoom",
              "resolutionWidth", "resolutionHeight">>)
    \o Strs(<<"pauseImagePath">>)
    \o Ints(<<"deviceOrientationDegree", "cvoValue", "rtcpFbTypes">>) \o Strs(<<"codecSprop">>)
VideoConfigRead == RtpConfigRead
    \o Ints(<<"videoMode", "codecType", "framerate", "bitrate", "maxMtuBytes", "codecProfile",
              "codecLevel", "intraFrameIntervalSec", "packetizationMode", "cameraId", "cameraZoom",
              "resolutionWidth", "resolutionHeight">>)
    \o Strs(<<"pauseImagePath">>)
    \o Ints(<<"deviceOrientationDegree", "cvoValue", "rtcpFbTypes">>) \o IgnoredStr("codecSprop")
JavaVideoConfigWrite == JavaRtpConfigWrite
    \o Ints(<<"videoMode", "codecType", "framerate", "bitrate", "maxMtuBytes", "codecProfile",
              "codecLevel", "intraFrameIntervalSec", "packetizationMode", "cameraId", "cameraZoom",
              "resolutionWidth", "resolutionHeight">>)
    \o Strs(<<"pauseImagePath">>)
    \o Ints(<<"deviceOrientationDegree", "cvoValue", "rtcpFbTypes">>) \o Strs(<<"codecSprop">>)
JavaVideoConfigRead == JavaRtpConfigRead
    \o Ints(<<"videoMode", "codecType", "framerate", "bitrate", "maxMtuBytes", "codecProfile",
              "codecLevel", "intraFrameIntervalSec", "packetizationMode", "cameraId", "cameraZoom",
              "resolutionWidth", "resolutionHeight">>)
    \o IgnoredStr("pauseImagePath")
    \o Ints(<<"deviceOrientationDegree", "cvoValue", "rtcpFbTypes">>) \o IgnoredStr("codecSprop")

(* ---- MediaQualityThreshold ---- *)
MediaQualityThresholdMembers ==
    {"rtpInactivityTimerMillis", "rtpPacketLossRate", "rtpJitterMillis",
     "rtcpInactivityTimerMillis", "rtpHysteresisTimeInMillis",
     "rtpPacketLossDurationMillis", "notifyCurrentStatus", "videoBitrateBps"}
MediaQualityThresholdInit ==
    [rtpInactivityTimerMillis |-> <<>>, rtcpInactivityTimerMillis |-> 0,
     rtpHysteresisTimeInMillis |-> 0, rtpPacketLossDurationMillis |-> 0,
     rtpPacketLossRate |-> <<>>, rtpJitterMillis |-> <<>>, notifyCurrentStatus |-> FALSE,
     videoBitrateBps |-> 0]
MediaQualityThresholdCopy(c) == Copied(c, MediaQualityThresholdInit, MediaQualityThresholdMembers)
MediaQualityThresholdAssign(c, onto) == Copied(c, onto, MediaQualityThresholdMembers)
MediaQualityThresholdEq(a, b) == Agree(a, b, MediaQualityThresholdMembers)
MediaQualityThresholdNe(a, b) == Differ(a, b, MediaQualityThresholdMembers)
MediaQualityThresholdWrite == Arrays(<<"rtpInactivityTimerMillis">>)
    \o Ints(<<"rtcpInactivityTimerMillis", "rtpHysteresisTimeInMillis",
              "rtpPacketLossDurationMillis">>)
    \o Arrays(<<"rtpPacketLossRate", "rtpJitterMillis">>)
    \o Bools(<<"notifyCurrentStatus">>) \o Ints(<<"videoBitrateBps">>)
MediaQualityThresholdRead == Arrays(<<"rtpInactivityTimerMillis">>)
    \o Ints(<<"rtcpInactivityTimerMillis", "rtpHysteresisTimeInMillis",
              "rtpPacketLossDurationMillis">>)
    \o Arrays(<<"rtpPacketLossRate", "rtpJitterMillis">>)
    \o OneIsTrue("notifyCurrentStatus") \o Ints(<<"videoBitrateBps">>)
JavaMediaQualityThresholdWrite == Arrays(<<"rtpInactivityTimerMillis">>)
    \o Ints(<<"rtcpInactivityTimerMillis", "rtpHysteresisTimeInMillis",
              "rtpPacketLossDurationMillis">>)
    \o Arrays(<<"rtpPacketLossRate", "rtpJitterMillis">>)
    \o Bools(<<"notifyCurrentStatus">>) \o Ints(<<"videoBitrateBps">>)
JavaMediaQualityThresholdRead == Arrays(<<"rtpInactivityTimerMillis">>)
    \o Ints(<<"rtcpInactivityTimerMillis", "rtpHysteresisTimeInMillis",
              "rtpPacketLossDurationMillis">>)
    \o Arrays(<<"rtpPacketLossRate", "rtpJitterMillis">>)
    \o Bools(<<"notifyCurrentStatus">>) \o Ints(<<"videoBitrateBps">>)

(* ---- CallQuality; its Java twin android.telephony.CallQuality is external ---- *)
CallQualityMembers ==
    {"downlinkCallQualityLevel", "uplinkCallQualityLevel", "callDuration",
     "numRtpPacketsTransmitted", "numRtpPacketsReceived", "numRtpPacketsTransmittedLost",
     "numRtpPacketsNotReceived", "averageRelativeJitter", "maxRelativeJitter",
     "averageRoundTripTime", "codecType", "rtpInactivityDetected", "rxSilenceDetected",
     "txSilenceDetected", "numVoiceFrames", "numNoDataFrames", "numDroppedRtpPackets",
     "minPlayoutDelayMillis", "maxPlayoutDelayMillis", "numRtpSidPacketsReceived",
     "numRtpDuplicatePackets"}
CallQualityInit ==
    [downlinkCallQualityLevel |-> 0, uplinkCallQualityLevel |-> 0, callDuration |-> 0,
     numRtpPacketsTransmitted |-> 0, numRtpPacketsReceived |-> 0, numRtpPacketsTransmittedLost
     |-> 0, numRtpPacketsNotReceived |-> 0, averageRelativeJitter |-> 0, maxRelativeJitter |->
     0, averageRoundTripTime |-> 0, codecType |-> -1, rtpInactivityDetected |-> FALSE,
     rxSilenceDetected |-> FALSE, txSilenceDetected |-> FALSE, numVoiceFrames |-> 0,
     numNoDataFrames |-> 0, numDroppedRtpPackets |-> 0, minPlayoutDelayMillis |-> 0,
     maxPlayoutDelayMillis |-> 0, numRtpSidPacketsReceived |-> 0, numRtpDuplicatePackets |-> 0]
CallQualityCopy(c) == Copied(c, CallQualityInit, CallQualityMembers)
CallQualityAssign(c, onto) == Copied(c, onto, CallQualityMembers)
CallQualityEq(a, b) == Agree(a, b, CallQualityMembers)
CallQualityNe(a, b) == Differ(a, b, CallQualityMembers)
CallQualityWrite ==
    Ints(<<"downlinkCallQualityLevel", "uplinkCallQualityLevel", "callDuration",
          "numRtpPacketsTransmitted", "numRtpPacketsReceived",
          "numRtpPacketsTransmittedLost", "numRtpPacketsNotReceived",
          "averageRelativeJitter", "maxRelativeJitter", "averageRoundTripTime", "codecType">>)
    \o Bools(<<"rtpInactivityDetected", "rxSilenceDetected", "txSilenceDetected">>)
    \o Ints(<<"numVoiceFrames", "numNoDataFrames", "numDroppedRtpPackets">>)
    \o Longs(<<"minPlayoutDelayMillis", "maxPlayoutDelayMillis">>)
    \o Ints(<<"numRtpSidPacketsReceived", "numRtpDuplicatePackets">>)
CallQualityRead ==
    Ints(<<"downlinkCallQualityLevel", "uplinkCallQualityLevel", "callDuration",
          "numRtpPacketsTransmitted", "numRtpPacketsReceived",
          "numRtpPacketsTransmittedLost", "numRtpPacketsNotReceived",
          "averageRelativeJitter", "maxRelativeJitter", "averageRoundTripTime", "codecType">>)
    \o Bools(<<"rtpInactivityDetected", "rxSilenceDetected", "txSilenceDetected">>)
    \o Ints(<<"numVoiceFrames", "numNoDataFrames", "numDroppedRtpPackets">>)
    \o Longs(<<"minPlayoutDelayMillis", "maxPlayoutDelayMillis">>)
    \o Ints(<<"numRtpSidPacketsReceived", "numRtpDuplicatePackets">>)

(* ---- MediaQualityStatus ---- *)
MediaQualityStatusMembers ==
    {"rtpInactivityTimeMillis", "rtcpInactivityTimeMillis", "rtpPacketLossRate",
     "rtpJitterMillis"}
MediaQualityStatusInit ==
    [rtpInactivityTimeMillis |-> 0,
     rtcpInactivityTimeMillis |-> 0,
     rtpPacketLossRate |-> 0,
     rtpJitterMillis |-> 0]
MediaQualityStatusCopy(c) == Copied(c, MediaQualityStatusInit, MediaQualityStatusMembers)
MediaQualityStatusAssign(c, onto) == Copied(c, onto, MediaQualityStatusMembers)
MediaQualityStatusEq(a, b) == Agree(a, b, MediaQualityStatusMembers)
MediaQualityStatusNe(a, b) == Differ(a, b, MediaQualityStatusMembers)
MediaQualityStatusWrite == Ints(<<"rtpInactivityTimeMillis", "rtcpInactivityTimeMillis",
    "rtpPacketLossRate", "rtpJitterMillis">>)
MediaQualityStatusRead == Ints(<<"rtpInactivityTimeMillis", "rtcpInactivityTimeMillis",
    "rtpPacketLossRate", "rtpJitterMillis">>)
JavaMediaQualityStatusWrite == Ints(<<"rtpInactivityTimeMillis", "rtcpInactivityTimeMillis",
    "rtpPacketLossRate", "rtpJitterMillis">>)
JavaMediaQualityStatusRead == Ints(<<"rtpInactivityTimeMillis", "rtcpInactivityTimeMillis",
    "rtpPacketLossRate", "rtpJitterMillis">>)

(* ---- RtpReceptionStats ---- *)
RtpReceptionStatsMembers ==
    {"rtpTimestamp", "rtcpSrTimestamp", "rtcpSrNtpTimestamp", "jitterBufferMs",
     "roundTripTimeMs"}
RtpReceptionStatsInit ==
    [rtpTimestamp |-> 0, rtcpSrTimestamp |-> 0, rtcpSrNtpTimestamp |-> 0,
     jitterBufferMs |-> 0, roundTripTimeMs |-> 0]
RtpReceptionStatsCopy(c) == Copied(c, RtpReceptionStatsInit, RtpReceptionStatsMembers)
RtpReceptionStatsAssign(c, onto) == Copied(c, onto, RtpReceptionStatsMembers)
RtpReceptionStatsEq(a, b) == Agree(a, b, RtpReceptionStatsMembers)
RtpReceptionStatsNe(a, b) == Differ(a, b, RtpReceptionStatsMembers)
RtpReceptionStatsWrite == Ints(<<"rtpTimestamp", "rtcpSrTimestamp">>)
    \o Longs(<<"rtcpSrNtpTimestamp">>) \o Ints(<<"jitterBufferMs", "roundTripTimeMs">>)
RtpReceptionStatsRead == Ints(<<"rtpTimestamp", "rtcpSrTimestamp">>)
    \o Longs(<<"rtcpSrNtpTimestamp">>) \o Ints(<<"jitterBufferMs", "roundTripTimeMs">>)
JavaRtpReceptionStatsWrite == Ints(<<"rtpTimestamp", "rtcpSrTimestamp">>)
    \o Longs(<<"rtcpSrNtpTimestamp">>) \o Ints(<<"jitterBufferMs", "roundTripTimeMs">>)
JavaRtpReceptionStatsRead == Ints(<<"rtpTimestamp", "rtcpSrTimestamp">>)
    \o Longs(<<"rtcpSrNtpTimestamp">>) \o Ints(<<"jitterBufferMs", "roundTripTimeMs">>)

(* ---- RtpHeaderExtension; its Java twin android.telephony.ims is external.  *)
(* The data and their length are one sequence.                              ---- *)
RtpHeaderExtensionMembers ==
    {"localIdentifier", "extensionData"}
RtpHeaderExtensionInit == [localIdentifier |-> 0, extensionData |-> <<>>]
RtpHeaderExtensionCopy(c) == Copied(c, RtpHeaderExtensionInit, RtpHeaderExtensionMembers)
RtpHeaderExtensionAssign(c, onto) == Copied(c, onto, RtpHeaderExtensionMembers)
RtpHeaderExtensionWrite == Ints(<<"localIdentifier">>) \o Arrays(<<"extensionData">>)
RtpHeaderExtensionRead == Ints(<<"localIdentifier">>) \o Arrays(<<"extensionData">>)
=============================================================================
