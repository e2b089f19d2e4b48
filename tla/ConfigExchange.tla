--------------------------- MODULE ConfigExchange ---------------------------
(***************************************************************************)
(* A parcelable on its way through the interface: the Java service writes  *)
(* it, the native side reads it, the session keeps it - or finds it equal  *)
(* to what it has and keeps that - and writes it into its answer, which    *)
(* the Java side reads.  Several objects of a class follow each other, as  *)
(* openSession, modifySession, addConfig and their answers do.             *)
(***************************************************************************)
EXTENDS ConfigParcels

CONSTANTS
    Classes,   \* the classes of this instance
    MaxAsked   \* bound: objects sent one after the other

ASSUME ExchangeAssumption == MaxAsked \in Nat

VARIABLES
    cls,     \* the class of the objects exchanged
    step,    \* where the exchange stands
    asked,   \* the object of the Java side
    wire,    \* the parcel on its way
    got,     \* what the native side has read
    status,  \* what the reader returned
    held,    \* what the session keeps; Null before the first object
    seen,    \* what the Java side read from the answer
    count    \* objects sent so far

vars == <<cls, step, asked, wire, got, status, held, seen, count>>

(* The tables of the classes. *)
InitOf == [audio |-> AudioConfigInit, video |-> VideoConfigInit, text |-> TextConfigInit,
           threshold |-> MediaQualityThresholdInit, extension |-> RtpHeaderExtensionInit,
           status |-> MediaQualityStatusInit, stats |-> RtpReceptionStatsInit,
           quality |-> CallQualityInit]
JavaWrite == [audio |-> JavaAudioConfigWrite, video |-> JavaVideoConfigWrite,
              text |-> JavaTextConfigWrite, threshold |-> JavaMediaQualityThresholdWrite,
              extension |-> RtpHeaderExtensionWrite, status |-> JavaMediaQualityStatusWrite,
              stats |-> JavaRtpReceptionStatsWrite, quality |-> CallQualityWrite]
NativeRead == [audio |-> AudioConfigRead, video |-> VideoConfigRead, text |-> TextConfigRead,
               threshold |-> MediaQualityThresholdRead, extension |-> RtpHeaderExtensionRead,
               status |-> MediaQualityStatusRead, stats |-> RtpReceptionStatsRead,
               quality |-> CallQualityRead]
NativeWrite == [audio |-> AudioConfigWrite, video |-> VideoConfigWrite, text |-> TextConfigWrite,
                threshold |-> MediaQualityThresholdWrite, extension |-> RtpHeaderExtensionWrite,
                status |-> MediaQualityStatusWrite, stats |-> RtpReceptionStatsWrite,
                quality |-> CallQualityWrite]
JavaRead == [audio |-> JavaAudioConfigRead, video |-> JavaVideoConfigRead,
             text |-> JavaTextConfigRead, threshold |-> JavaMediaQualityThresholdRead,
             extension |-> RtpHeaderExtensionRead, status |-> JavaMediaQualityStatusRead,
             stats |-> JavaRtpReceptionStatsRead, quality |-> CallQualityRead]
Copy(c) == CASE cls = "audio" -> AudioConfigCopy(c)
             [] cls = "video" -> VideoConfigCopy(c)
             [] cls = "text"  -> TextConfigCopy(c)
             [] cls = "threshold" -> MediaQualityThresholdCopy(c)
             [] cls = "extension" -> RtpHeaderExtensionCopy(c)
             [] cls = "status" -> MediaQualityStatusCopy(c)
             [] cls = "stats"  -> RtpReceptionStatsCopy(c)
             [] cls = "quality" -> CallQualityCopy(c)
FromPtr(c) == CASE cls = "audio" -> AudioConfigFromPtr(c)
                [] cls = "video" -> VideoConfigFromPtr(c)
                [] cls = "text"  -> TextConfigFromPtr(c)
                [] OTHER -> Copy(c)
Assign(c, onto) == CASE cls = "audio" -> AudioConfigAssign(c, onto)
                     [] cls = "video" -> VideoConfigAssign(c, onto)
                     [] cls = "text"  -> TextConfigAssign(c, onto)
                     [] cls = "threshold" -> MediaQualityThresholdAssign(c, onto)
                     [] cls = "extension" -> RtpHeaderExtensionAssign(c, onto)
                     [] cls = "status" -> MediaQualityStatusAssign(c, onto)
                     [] cls = "stats"  -> RtpReceptionStatsAssign(c, onto)
                     [] cls = "quality" -> CallQualityAssign(c, onto)
Equal(a, b) == CASE cls = "audio" -> AudioConfigEq(a, b)
                 [] cls = "video" -> VideoConfigEq(a, b)
                 [] cls = "text"  -> TextConfigEq(a, b)
                 [] cls = "threshold" -> MediaQualityThresholdEq(a, b)
                 [] cls = "extension" -> FALSE
                 [] cls = "status" -> MediaQualityStatusEq(a, b)
                 [] cls = "stats"  -> RtpReceptionStatsEq(a, b)
                 [] cls = "quality" -> CallQualityEq(a, b)
NotEqual(a, b) == CASE cls = "audio" -> AudioConfigNe(a, b)
                    [] cls = "video" -> VideoConfigNe(a, b)
                    [] cls = "text"  -> TextConfigNe(a, b)
                    [] cls = "threshold" -> MediaQualityThresholdNe(a, b)
                    [] cls = "extension" -> TRUE
                    [] cls = "status" -> MediaQualityStatusNe(a, b)
                    [] cls = "stats"  -> RtpReceptionStatsNe(a, b)
                    [] cls = "quality" -> CallQualityNe(a, b)

(***************************************************************************)
(* The objects of a class the Java side sends: the one its constructor     *)
(* leaves with one member, or one member of a nested object, changed; a    *)
(* nested object or a string may be null.  With one member changed, two    *)
(* members that changed places are told apart.                             *)
(***************************************************************************)
Others(e, val) ==
    CASE e.as \in {"int", "long"} -> {300, -2}
      [] e.as = "byte" -> {100, -3}
      [] e.as = "bool" -> {~val}
      [] e.as = "str"  -> {"x", Null}
      [] e.as = "ints" -> {<<7>>, <<8, 9>>}
      [] e.as = "sub"  ->
         {Null} \cup UNION {{[val EXCEPT ![b.f] = x] : x \in
             CASE b.as = "bool" -> {~val[b.f]} [] b.as = "byte" -> {100, -3}
               [] b.as = "str" -> {"x", Null} [] OTHER -> {300, -2}}
             : b \in Range(e.body)}
Plain == [f \in DOMAIN InitOf[cls] |-> IF f = "remoteAddress" THEN "y" ELSE
                                       IF f = "remotePort" THEN 5004 ELSE InitOf[cls][f]]
Objects == {JavaAddress(o) : o \in
    {Plain} \cup UNION {{[Plain EXCEPT ![e.f] = x] : x \in Others(e, Plain[e.f])}
                        : e \in {e2 \in Range(JavaWrite[cls]) : e2.f # "type"}}}

Init ==
    /\ cls \in Classes
    /\ step = "ask" /\ count = 0
    /\ asked = Null /\ wire = <<>> /\ got = Null /\ status = "OK"
    /\ held = Null /\ seen = Null

\* config.writeToParcel(parcel, 0) of AudioLocalSession and its siblings, or
\* the object the native side itself has made.
JavaWrites ==
    /\ step = "ask" /\ count < MaxAsked
    /\ \E o \in Objects :
        /\ asked' = o
        /\ wire' = WriteToParcel(JavaWrite[cls], o)
    /\ step' = "sent" /\ count' = count + 1
    /\ UNCHANGED <<cls, got, status, held, seen>>

\* sendMessage of AudioManager, VideoManager and TextManager.
NativeReads ==
    /\ step = "sent"
    /\ LET r == ReadFromParcel(NativeRead[cls], wire, InitOf[cls])
       IN got' = r.obj /\ status' = r.status
    /\ step' = "read"
    /\ UNCHANGED <<cls, asked, wire, held, seen, count>>

\* What a reader left when it failed goes on all the same, as far as it was
\* filled; only VideoManager opens a session without a config then.
Handed == IF status # "OK" /\ cls = "video" /\ held = Null THEN Null ELSE got

\* create of a stream graph, then its update: an equal config changes nothing.
SessionKeeps ==
    /\ step = "read"
    /\ held' = IF Handed = Null THEN Null
               ELSE IF held # Null /\ Equal(held, got) THEN held
               ELSE FromPtr(got)
    /\ step' = "kept"
    /\ UNCHANGED <<cls, asked, wire, got, status, seen, count>>

\* Members that are kept by value, as BaseSession keeps its threshold.
SessionAssigns ==
    /\ step = "read"
    /\ held' = IF Handed = Null THEN Null
               ELSE IF held = Null THEN Copy(got) ELSE Assign(got, held)
    /\ step' = "kept"
    /\ UNCHANGED <<cls, asked, wire, got, status, seen, count>>

\* ResponseHandler writes the config of the answer.
NativeAnswers ==
    /\ step = "kept" /\ held # Null
    /\ wire' = WriteToParcel(NativeWrite[cls], held)
    /\ step' = "answered"
    /\ UNCHANGED <<cls, asked, got, status, held, seen, count>>

JavaReads ==
    /\ step = "answered"
    /\ LET r == ReadFromParcel(JavaRead[cls], wire, InitOf[cls])
       IN seen' = JavaAddress(r.obj) /\ status' = r.status
    /\ step' = "ask"
    /\ UNCHANGED <<cls, asked, wire, got, held, count>>

\* VideoListener is answered with no config at all.
NativeAnswersNothing ==
    /\ step = "kept" /\ held = Null
    /\ step' = "ask"
    /\ UNCHANGED <<cls, asked, wire, got, status, held, seen, count>>

Next == \/ JavaWrites \/ NativeReads \/ SessionKeeps \/ SessionAssigns
        \/ NativeAnswers \/ NativeAnswersNothing \/ JavaReads

Spec == Init /\ [][Next]_vars

(* What a null member means to the native side. *)
Meant(o) == [f \in DOMAIN o |->
    IF o[f] # Null THEN o[f]
    ELSE CASE f = "rtcpConfig" -> RtcpConfigDefault
           [] f = "rtpContextParams" -> RtpContextParamsDefault
           [] f = "anbrMode" -> AnbrModeDefault
           [] f = "amrParams" -> AmrParamsDefault
           [] f = "evsParams" -> EvsParamsDefault
           [] OTHER -> ""]
\* The two null strings the native readers refuse.
Refused(o) == \/ "rtcpConfig" \in DOMAIN o /\ o.rtcpConfig # Null
                 /\ o.rtcpConfig.canonicalName = Null
              \/ "pauseImagePath" \in DOMAIN o /\ o.pauseImagePath = Null

(* The native side has exactly the object the Java side sent, or refuses it *)
(* because of a null string; a session keeps it, whether it was new,       *)
(* compared with the one before or assigned over it; and the answer reads  *)
(* as what is kept.                                                        *)
NativeHasWhatWasSent ==
    step = "read" => /\ (status = "OK") = ~Refused(asked)
                     /\ status = "OK" => got = Meant(asked)
SessionHasWhatWasAsked ==
    step \in {"kept", "answered"} /\ ~Refused(asked) => held = Meant(asked)
AnswerIsWhatIsHeld ==
    step = "ask" /\ seen # Null /\ held # Null => status = "OK" /\ Meant(seen) = held

(* != answers the opposite of ==.  TextConfig is left out: its != compares *)
(* its own members with ==, so that two equal configurations are also      *)
(* unequal.                                                                *)
Pairs == {<<held, got>>, <<got, held>>, <<got, got>>}
NotEqualIsNotEqual ==
    step = "read" /\ held # Null /\ status = "OK" /\ cls # "text"
        => \A p \in Pairs : NotEqual(p[1], p[2]) # Equal(p[1], p[2])

(***************************************************************************)
(* Safety: what a session runs with, and what its answer says, is what was *)
(* asked for last - all members, each in its place, a change of any one of *)
(* them told apart from none.  A member missing from one list, out of      *)
(* order in one of the two languages, or not compared makes a              *)
(* configuration that was asked for differ from the one that runs.         *)
(***************************************************************************)
ExchangeFaithful ==
    NativeHasWhatWasSent /\ SessionHasWhatWasAsked /\ AnswerIsWhatIsHeld /\ NotEqualIsNotEqual
=============================================================================
