---------------------------- MODULE AudioManager ----------------------------
(***************************************************************************)
(* core/audio/AudioManager.cpp: the sessions, and the requests its         *)
(* RequestHandler serves one after the other on the worker of              *)
(* AUDIO_REQUEST_EVENT.  A request is one step; what makes the order of    *)
(* requests hard is what an earlier one left behind: held graphs, a        *)
(* session deactivated for another, a start that failed half way.          *)
(***************************************************************************)
EXTENDS AudioSession, Naturals, FiniteSets

CONSTANTS Sessions,     \* session identifiers
          Inputs,       \* the session, remote and configuration requests ask for
          MaxFaults     \* bound on the starts that fail

ASSUME RemotesFinite == IsFiniteSet(Remotes)
ASSUME InputsAssumption == Inputs \subseteq Sessions \X (Remotes \cup {NoRemote}) \X Config
ASSUME FaultsAssumption == MaxFaults \in Nat

VARIABLES mSessions,    \* the open sessions
          session,      \* what each of them holds
          served,       \* the request served last and its result (auxiliary)
          faults        \* starts that failed so far (auxiliary)

vars == <<mSessions, session, served, faults>>

\* What a request without a configuration carries.
NoConfig == [direction |-> "none"]

Request == [op : {"none", "open", "close", "modify", "add", "confirm", "delete"},
            id : Sessions, remote : Remotes \cup {NoRemote}, config : Config \cup {NoConfig},
            result : Result]

TypeOK ==
    /\ mSessions \subseteq Sessions
    /\ session \in [Sessions -> Session]
    /\ \A id \in Sessions \ mSessions : session[id] = NewSession
    /\ served \in Request
    /\ faults \in 0 .. MaxFaults

Init ==
    /\ mSessions = {}
    /\ session = [id \in Sessions |-> NewSession]
    /\ served \in [op : {"none"}, id : Sessions, remote : {NoRemote},
                   config : {NoConfig}, result : {"SUCCESS"}]
    /\ faults = 0

Answer(op, id, r, c, result) ==
    served' = [op |-> op, id |-> id, remote |-> r, config |-> c, result |-> result]

\* The starts that fail in one request, of those it can make: the graphs of its remote
\* that run in its direction, and RTCP graphs that addGraph starts beside them.
Starts(r, c) == {k \in Kind : Serves(k, c)} \X ({r} \cap Remotes)
FaultSets(starts) == {F \in SUBSET starts : Cardinality(F) <= MaxFaults - faults}

\* The sessions other than id that are in a state with media.
ActiveOthers(id) == {o \in mSessions \ {id} : IsActive(session[o])}

\* deactivateOtherSessionIfActive: the first active session the map yields is stopped, and
\* no other one.  Stopping cannot fail, so the request always goes on.
AfterDeactivation(id) ==
    IF ActiveOthers(id) = {} THEN {session}
    ELSE {[session EXCEPT ![o] = StopRtp(@)] : o \in ActiveOthers(id)}

----------------------------------------------------------------------------
\* A session is opened whatever comes of its graphs.
OpenSession(id, r, c) ==
    /\ id \notin mSessions
    /\ \E F \in FaultSets(Starts(r, c)) :
           /\ faults' = faults + Cardinality(F)
           /\ session' = [session EXCEPT ![id] = StartGraph(NewSession, r, c, F, {}).session]
    /\ mSessions' = mSessions \cup {id}
    /\ Answer("open", id, r, c, "SUCCESS")

\* An identifier in use, and a request for a session that is not open.
Reject(op, id) ==
    /\ IF op = "open" THEN id \in mSessions ELSE id \notin mSessions
    /\ Answer(op, id, NoRemote, NoConfig, "INVALID_PARAM")
    /\ UNCHANGED <<mSessions, session, faults>>

\* The destructor of the session stops and deletes all its graphs.
CloseSession(id) ==
    /\ id \in mSessions
    /\ mSessions' = mSessions \ {id}
    /\ session' = [session EXCEPT ![id] = NewSession]
    /\ Answer("close", id, NoRemote, NoConfig, "SUCCESS")
    /\ UNCHANGED faults

\* A request whose outcome is what a member function of the session makes of it.
Serve(op, id, r, c, sessions, F, outcome) ==
    /\ faults' = faults + Cardinality(F)
    /\ session' = [sessions EXCEPT ![id] = outcome.session]
    /\ Answer(op, id, r, c, outcome.result)
    /\ UNCHANGED mSessions

\* modifySession: the graph for the remote is updated, or replaces the others.  A direction
\* with media takes the one active session away first, even when the address is invalid.
ModifySession(id, r, c) ==
    /\ id \in mSessions
    /\ \E sessions \in IF Serves("tx", c) \/ Serves("rx", c) THEN AfterDeactivation(id)
                                                           ELSE {session} :
       \E F \in FaultSets(Starts(r, c)) : \E logged \in SUBSET F :
           Serve("modify", id, r, c, sessions, F,
                 AddGraph(session[id], r, c, FALSE, F, logged))

AddConfig(id, r, c) ==
    /\ id \in mSessions
    /\ \E F \in FaultSets(Starts(r, c) \cup ({"rtcp"} \X Remotes)) : \E logged \in SUBSET F :
           Serve("add", id, r, c, session, F, AddGraph(session[id], r, c, TRUE, F, logged))

ConfirmConfig(id, r, c) ==
    /\ id \in mSessions
    /\ \E F \in FaultSets(Starts(r, c)) : \E logged \in SUBSET F :
           Serve("confirm", id, r, c, session, F, ConfirmGraph(session[id], r, c, F, logged))

\* deleteConfig is the one request whose result is not sent back.
DeleteConfig(id, r) ==
    /\ id \in mSessions
    /\ Serve("delete", id, r, NoConfig, session, {}, DeleteGraph(session[id], r))

Next ==
    \/ \E id \in Sessions :
           \/ CloseSession(id)
           \/ \E op \in {"open", "close", "modify", "add", "confirm", "delete"} : Reject(op, id)
           \/ \E r \in Remotes \cup {NoRemote} : DeleteConfig(id, r)
    \/ \E id \in Sessions, r \in Remotes \cup {NoRemote}, c \in Config :
           /\ <<id, r, c>> \in Inputs
           /\ \/ OpenSession(id, r, c)
              \/ ModifySession(id, r, c)
              \/ AddConfig(id, r, c)
              \/ ConfirmConfig(id, r, c)

Spec == Init /\ [][Next]_vars

----------------------------------------------------------------------------
(* No graph runs in a direction that excludes its media, whatever sequence of holds,
   resumes, deactivations and failed starts came before (the pause branches of the three
   update functions). *)
NoUnwantedMedia ==
    \A id \in Sessions, k \in Kind, r \in Remotes :
        LET g == session[id].graphs[k][r]
        IN  InRunState(g) => Serves(k, g.config)

(* A receiver has a sender to the same remote and an RTCP graph has both, also after a
   start that failed half way: deleteGraph looks for the sender alone, so anything else
   would never be deleted (AudioSession.cpp:401). *)
ListsNested ==
    \A id \in Sessions :
        /\ Listed(session[id], "rtcp") \subseteq Listed(session[id], "rx")
        /\ Listed(session[id], "rx") \subseteq Listed(session[id], "tx")

(* A confirmed remote is the only one left, if no list was empty: "All other early remote
   configs (potentially including the config created as part of openSession) are auto
   deleted when one config is confirmed" (ImsAudioSession.java:110). *)
ConfirmLeavesOneRemote ==
    [][ LET q == served' IN
        (/\ q.op = "confirm" /\ q.result = "SUCCESS"
         /\ \A k \in Kind : Listed(session[q.id], k) # {}) =>
            \A k \in Kind : Listed(session'[q.id], k) = {q.remote} ]_vars

(* A request answered with success leaves all three graphs of its remote with its
   configuration, and one that should flow is not stopped, unless it was stopped with an
   equal configuration before and so was taken for up to date. *)
ServedAsAsked ==
    [][ LET q == served' IN
        (q.op \in {"modify", "add", "confirm"} /\ q.result = "SUCCESS") =>
            \A k \in Kind :
                LET g == session'[q.id].graphs[k][q.remote]
                IN  /\ g # NoGraph /\ g.config = q.config
                    /\ (Serves(k, q.config) /\ ~InRunState(g)) =>
                           g = session[q.id].graphs[k][q.remote] ]_vars

(* modifySession never brings a further session into a state with media: it stops another
   one for the one it starts (AudioManager.cpp:110). *)
ModifyAddsNoTalker ==
    [][ served'.op = "modify" =>
            LET Talking(ss) == {id \in Sessions : IsActive(ss[id])}
            IN  \/ Cardinality(Talking(session')) <= 1
                \/ Cardinality(Talking(session')) <= Cardinality(Talking(session)) ]_vars
=============================================================================
