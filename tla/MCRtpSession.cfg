SPECIFICATION RtpSpec
CONSTANTS
    RTP_SEQ_MOD = 8
    MaxDropout = 3
    MaxMisorder = 2
    PeerSsrcs <- Peers
    LocalSsrcs <- Locals
    CsrcLists <- Lists
    StartSeq = 6
    MtuSize = 1500
    SdesItems = 1
    MaxIdx = 4
    MaxSteps = 6
    Nothing = Nothing
INVARIANTS
    LossReportsTrue
    WireRoundTrip
PROPERTIES
    PunctualDelivered
    CollisionIsResolved
\* MaxSteps ends every behaviour
CHECK_DEADLOCK FALSE
VIEW View
