--------------------------- MODULE Sessions_proofs ---------------------------
(***************************************************************************)
(* For any sessions, remotes, configurations and any number of failed      *)
(* starts.  An audio graph never runs against its direction and can be     *)
(* found by the sender of its remote; a video or text graph tells its      *)
(* nodes what it is told itself, and keeps none of them running when it    *)
(* stops; a modified session is served and has its media alone.  Each is a *)
(* fact about one session, so each member function is shown to keep a      *)
(* session well formed, and the steps of the managers follow.              *)
(***************************************************************************)
EXTENDS Sessions, Sequences, FiniteSetTheorems, TLAPS

USE RemotesAssumption

\* A graph runs only with a configuration that serves its kind.
Rightly(k, g) == InRunState(g) => Serves(k, g.config)

\* A session whose running graphs run rightly and whose lists are nested.
Sound(s) ==
    /\ s \in Session
    /\ \A k \in Kind, r \in Remotes : Rightly(k, s.graphs[k][r])
    /\ Listed(s, "rtcp") \subseteq Listed(s, "rx")
    /\ Listed(s, "rx") \subseteq Listed(s, "tx")

----------------------------------------------------------------------------
(* A graph after start, stop or update is a graph of the same kind, and it runs rightly. *)
LEMMA GraphOperations ==
    ASSUME NEW k \in Kind, NEW c \in Config, NEW fault \in BOOLEAN,
           NEW g \in Graph \ {NoGraph}, Rightly(k, g)
    PROVE  /\ \A h \in {Create(c), Stop(g), Start(k, g, fault), Start(k, Create(c), fault),
                        Update(k, g, c, fault)} :
                  h \in Graph \ {NoGraph} /\ Rightly(k, h)
<1>1. /\ g = [state |-> g.state, config |-> g.config]
      /\ g.config \in Config /\ g.state \in {"created", "running", "stalled"}
  BY DEF Graph
<1>2. /\ Create(c) \in Graph \ {NoGraph} /\ Rightly(k, Create(c))
      /\ Create(c).config = c
  BY DEF Create, Graph, NoGraph, Rightly, InRunState
<1>3. Stop(g) \in Graph \ {NoGraph} /\ Rightly(k, Stop(g))
  BY <1>1 DEF Stop, Create, Graph, NoGraph, Rightly, InRunState
<1>4. Start(k, g, fault) \in Graph \ {NoGraph} /\ Rightly(k, Start(k, g, fault))
  BY <1>1 DEF Start, Graph, NoGraph, Rightly, InRunState
<1>5. /\ Start(k, Create(c), fault) \in Graph \ {NoGraph}
      /\ Rightly(k, Start(k, Create(c), fault))
  BY DEF Start, Create, Graph, NoGraph, Rightly, InRunState
<1>6. Update(k, g, c, fault) \in Graph \ {NoGraph} /\ Rightly(k, Update(k, g, c, fault))
  <2>1. CASE g.config = c
    BY <2>1 DEF Update
  <2>2. CASE g.config # c /\ ~Serves(k, c)
    BY <2>2, <1>2 DEF Update
  <2>3. CASE g.config # c /\ Serves(k, c) /\ UpdatedInPlace(k, g)
    BY <2>3 DEF Update, Restarted, Graph, NoGraph, Rightly, InRunState
  <2>4. CASE g.config # c /\ Serves(k, c) /\ ~UpdatedInPlace(k, g)
    BY <2>4, <1>5 DEF Update, Restarted
  <2> QED
    BY <2>1, <2>2, <2>3, <2>4
<1> QED
  BY <1>2, <1>3, <1>4, <1>5, <1>6

(* startGraph leaves a graph of the remote in a list only when it left one in the lists it
   visits before. *)
LEMMA StartGraphSound ==
    ASSUME NEW s, Sound(s), NEW r \in Remotes \cup {NoRemote}, NEW c \in Config,
           NEW F, NEW logged
    PROVE  /\ Sound(StartGraph(s, r, c, F, logged).session)
           /\ StartGraph(s, r, c, F, logged).result \in Result
<1>1. CASE r = NoRemote
  BY <1>1 DEF StartGraph, Result
<1>2. CASE r \in Remotes
  <2> DEFINE failing == {k \in Kind : TouchFails(k, s.graphs[k][r], c, <<k, r>> \in F,
                                                 <<k, r>> \in logged)}
             reached == {k \in Kind : EarlierKinds[k] \cap failing = {}}
             after == [k \in Kind |->
                          IF k \in reached
                          THEN [s.graphs[k] EXCEPT ![r] = Touched(k, @, c, <<k, r>> \in F)]
                          ELSE s.graphs[k]]
             t == StartGraph(s, r, c, F, logged).session
  <2>1. r # NoRemote
    BY <1>2
  <2>2. t = [graphs |-> after, analyzing |-> c.direction # "NO_FLOW"]
    BY <2>1 DEF StartGraph
  <2>3. StartGraph(s, r, c, F, logged).result \in Result
    BY <2>1 DEF StartGraph, Result
  <2>4. \A k \in Kind : s.graphs[k] \in [Remotes -> Graph]
    BY DEF Sound, Session
  <2>5. ASSUME NEW k \in Kind
        PROVE  LET h == Touched(k, s.graphs[k][r], c, <<k, r>> \in F)
               IN  h \in Graph \ {NoGraph} /\ Rightly(k, h)
    <3>1. s.graphs[k][r] \in Graph /\ Rightly(k, s.graphs[k][r])
      BY <2>4, <1>2 DEF Sound
    <3> DEFINE fault == <<k, r>> \in F
    <3>2. fault \in BOOLEAN
      OBVIOUS
    <3> HIDE DEF fault
    <3>3. CASE s.graphs[k][r] = NoGraph
      <4>1. Create(c) \in Graph \ {NoGraph} /\ Rightly(k, Create(c))
        BY DEF Create, Graph, NoGraph, Rightly, InRunState
      <4>2. Start(k, Create(c), fault) \in Graph \ {NoGraph}
            /\ Rightly(k, Start(k, Create(c), fault))
        BY <3>2, <4>1, GraphOperations
      <4>3. Touched(k, s.graphs[k][r], c, fault) = Start(k, Create(c), fault)
        BY <3>3 DEF Touched
      <4> QED
        BY <4>2, <4>3 DEF fault
    <3>4. CASE s.graphs[k][r] # NoGraph
      <4>1. Update(k, s.graphs[k][r], c, fault) \in Graph \ {NoGraph}
            /\ Rightly(k, Update(k, s.graphs[k][r], c, fault))
        BY <3>1, <3>2, <3>4, GraphOperations
      <4>2. Touched(k, s.graphs[k][r], c, fault) = Update(k, s.graphs[k][r], c, fault)
        BY <3>4 DEF Touched
      <4> QED
        BY <4>1, <4>2 DEF fault
    <3> QED
      BY <3>3, <3>4
  <2>6. \A k \in Kind : after[k] \in [Remotes -> Graph]
    BY <2>4, <2>5
  <2>7. t \in Session
    BY <2>2, <2>6 DEF Session
  <2>8. \A k \in Kind, q \in Remotes : Rightly(k, t.graphs[k][q])
    BY <2>2, <2>4, <2>5 DEF Sound
  <2>9. \A k \in Kind : Listed(t, k) = IF k \in reached THEN Listed(s, k) \cup {r}
                                                         ELSE Listed(s, k)
    BY <2>2, <2>4, <2>5, <1>2 DEF Listed
  <2>10. /\ "rtcp" \in reached => "rx" \in reached
         /\ "rx" \in reached => "tx" \in reached
         /\ "tx" \in Kind /\ "rx" \in Kind /\ "rtcp" \in Kind
    BY DEF EarlierKinds, Kind
  <2> QED
    BY <2>3, <2>7, <2>8, <2>9, <2>10 DEF Sound
<1> QED
  BY <1>1, <1>2

(* Stopping the RTP graphs and starting the RTCP graphs changes no list. *)
LEMMA StopRtpSound ==
    ASSUME NEW s, Sound(s)
    PROVE  Sound(StopRtp(s))
<1> DEFINE t == StopRtp(s)
<1>1. \A k \in Kind : s.graphs[k] \in [Remotes -> Graph]
  BY DEF Sound, Session
<1>2. /\ \A k \in Kind, r \in Remotes :
             t.graphs[k][r] = IF k = "rtcp" THEN s.graphs[k][r] ELSE Stop(s.graphs[k][r])
      /\ DOMAIN t.graphs = Kind /\ t.analyzing = s.analyzing
      /\ t = [graphs |-> t.graphs, analyzing |-> s.analyzing]
  BY <1>1 DEF StopRtp, Sound, Session
<1>3. \A k \in Kind, r \in Remotes :
          LET g == s.graphs[k][r] IN
          /\ Stop(g) \in Graph /\ Rightly(k, Stop(g))
          /\ Stop(g) = NoGraph <=> g = NoGraph
  BY <1>1 DEF Stop, Create, Graph, NoGraph, Rightly, InRunState
<1>4. t \in Session
  BY <1>1, <1>3 DEF StopRtp, Sound, Session
<1>5. \A k \in Kind, r \in Remotes : Rightly(k, t.graphs[k][r])
  BY <1>2, <1>3 DEF Sound
<1>6. \A k \in Kind : Listed(t, k) = Listed(s, k)
  BY <1>2, <1>3 DEF Listed
<1> QED
  BY <1>4, <1>5, <1>6 DEF Sound, Kind

LEMMA StartRtcpSound ==
    ASSUME NEW s, Sound(s), NEW F
    PROVE  Sound(StartRtcp(s, F))
<1> DEFINE started(r, g) == IF g = NoGraph \/ InRunState(g) THEN g
                            ELSE Start("rtcp", g, <<"rtcp", r>> \in F)
           t == StartRtcp(s, F)
<1>0. "rtcp" \in Kind
  BY DEF Kind
<1>1. \A k \in Kind : s.graphs[k] \in [Remotes -> Graph]
  BY DEF Sound, Session
<1>2. \A r \in Remotes :
          LET g == s.graphs["rtcp"][r] IN
          /\ started(r, g) \in Graph /\ Rightly("rtcp", started(r, g))
          /\ started(r, g) = NoGraph <=> g = NoGraph
  <2> SUFFICES ASSUME NEW r \in Remotes
               PROVE  LET g == s.graphs["rtcp"][r] IN
                      /\ started(r, g) \in Graph /\ Rightly("rtcp", started(r, g))
                      /\ started(r, g) = NoGraph <=> g = NoGraph
    OBVIOUS
  <2>1. s.graphs["rtcp"][r] \in Graph /\ Rightly("rtcp", s.graphs["rtcp"][r])
    BY <1>0, <1>1 DEF Sound
  <2> QED
    BY <2>1 DEF Start, Graph, NoGraph, Rightly, InRunState
<1>4. t \in Session
  BY <1>0, <1>1, <1>2 DEF StartRtcp, Sound, Session
<1>5. \A k \in Kind, r \in Remotes : t.graphs[k][r] =
          IF k = "rtcp" THEN started(r, s.graphs["rtcp"][r]) ELSE s.graphs[k][r]
  BY <1>0, <1>1 DEF StartRtcp, Sound, Session
<1>6. \A k \in Kind, r \in Remotes : Rightly(k, t.graphs[k][r])
  BY <1>2, <1>5 DEF Sound
<1>7. \A k \in Kind : Listed(t, k) = Listed(s, k)
  BY <1>2, <1>5 DEF Listed
<1> QED
  BY <1>4, <1>6, <1>7 DEF Sound, Kind

(* Deleting graphs remote by remote, in all three lists, keeps the lists nested. *)
LEMMA DeletionSound ==
    ASSUME NEW s, Sound(s), NEW r
    PROVE  Sound(OthersDeleted(s, r)) /\ Sound(DeleteGraph(s, r).session)
<1>1. \A k \in Kind : s.graphs[k] \in [Remotes -> Graph]
  BY DEF Sound, Session
<1>2. NoGraph \in Graph /\ \A k \in Kind : Rightly(k, NoGraph)
  BY DEF Graph, NoGraph, Rightly, InRunState
<1>3. Sound(OthersDeleted(s, r))
  <2> DEFINE t == OthersDeleted(s, r)
  <2>1. t \in Session
    BY <1>1, <1>2 DEF OthersDeleted, Sound, Session
  <2>2. \A k \in Kind, q \in Remotes :
            t.graphs[k][q] = IF q = r THEN s.graphs[k][q] ELSE NoGraph
    BY <1>1 DEF OthersDeleted, Sound, Session
  <2>3. \A k \in Kind : Listed(t, k) = Listed(s, k) \cap {r}
    BY <2>2 DEF Listed
  <2> QED
    BY <1>2, <2>1, <2>2, <2>3 DEF Sound, Kind
<1>4. Sound(DeleteGraph(s, r).session)
  <2> DEFINE t == DeleteGraph(s, r).session
  <2>1. CASE r \notin Listed(s, "tx")
    BY <2>1 DEF DeleteGraph
  <2>2. CASE r \in Listed(s, "tx")
    <3>1. t = [s EXCEPT !.graphs = [k \in Kind |-> [s.graphs[k] EXCEPT ![r] = NoGraph]]]
      BY <2>2 DEF DeleteGraph
    <3>2. t \in Session
      BY <3>1, <1>1, <1>2 DEF Sound, Session
    <3>3. \A k \in Kind, q \in Remotes :
              t.graphs[k][q] = IF q = r THEN NoGraph ELSE s.graphs[k][q]
      BY <3>1, <1>1 DEF Sound, Session
    <3>4. \A k \in Kind : Listed(t, k) = Listed(s, k) \ {r}
      BY <3>3 DEF Listed
    <3> QED
      BY <1>2, <3>2, <3>3, <3>4 DEF Sound, Kind
  <2> QED
    BY <2>1, <2>2
<1> QED
  BY <1>3, <1>4

(* The member functions that serve a request leave a well formed session. *)
LEMMA OutcomesSound ==
    ASSUME NEW s, Sound(s), NEW r \in Remotes \cup {NoRemote}, NEW c \in Config,
           NEW F, NEW logged
    PROVE  /\ Sound(ConfirmGraph(s, r, c, F, logged).session)
           /\ ConfirmGraph(s, r, c, F, logged).result \in Result
           /\ \A enableRtcp \in BOOLEAN :
                  /\ Sound(AddGraph(s, r, c, enableRtcp, F, logged).session)
                  /\ AddGraph(s, r, c, enableRtcp, F, logged).result \in Result
           /\ DeleteGraph(s, r).result \in Result
<1>1. /\ Sound(ConfirmGraph(s, r, c, F, logged).session)
      /\ ConfirmGraph(s, r, c, F, logged).result \in Result
  BY StartGraphSound, DeletionSound DEF ConfirmGraph
<1>2. Sound(StartRtcp(StopRtp(s), F))
  BY StopRtpSound, StartRtcpSound
<1>3. /\ Sound(StartGraph(StartRtcp(StopRtp(s), F), r, c, F, logged).session)
      /\ StartGraph(StartRtcp(StopRtp(s), F), r, c, F, logged).result \in Result
      /\ Sound(StartGraph(s, r, c, F, logged).session)
      /\ StartGraph(s, r, c, F, logged).result \in Result
  BY <1>2, StartGraphSound
<1>4. ASSUME NEW enableRtcp \in BOOLEAN
      PROVE  /\ Sound(AddGraph(s, r, c, enableRtcp, F, logged).session)
             /\ AddGraph(s, r, c, enableRtcp, F, logged).result \in Result
  BY <1>1, <1>3 DEF AddGraph
<1>5. DeleteGraph(s, r).result \in Result
  BY DEF DeleteGraph, Result
<1> QED
  BY <1>1, <1>4, <1>5

LEMMA NewSessionSound == Sound(NewSession)
<1>1. \A k \in Kind : NewSession.graphs[k] = [r \in Remotes |-> NoGraph]
  BY DEF NewSession
<1>2. NoGraph \in Graph /\ \A k \in Kind : Rightly(k, NoGraph)
  BY DEF Graph, NoGraph, Rightly, InRunState
<1>3. NewSession \in Session
  BY <1>2 DEF NewSession, Session
<1>4. \A k \in Kind : Listed(NewSession, k) = {}
  BY <1>1 DEF Listed
<1> QED
  BY <1>1, <1>2, <1>3, <1>4 DEF Sound, Kind

(* The starts of a request are finitely many, so the count of the failed ones stays within
   its bound. *)
LEMMA FaultsBounded ==
    ASSUME faults \in 0 .. MaxFaults,
           NEW r, NEW c, NEW starts \in {Starts(r, c), {}, Starts(r, c) \cup ({"rtcp"} \X Remotes)},
           NEW F \in FaultSets(starts)
    PROVE  faults + Cardinality(F) \in 0 .. MaxFaults
<1>1. IsFiniteSet({}) /\ IsFiniteSet({"rtcp"})
  BY FS_EmptySet, FS_Singleton
<1>2. IsFiniteSet({k \in Kind : Serves(k, c)})
  <2> DEFINE serving == {k \in Kind : Serves(k, c)}
  <2>1. IsFiniteSet({"tx"}) /\ IsFiniteSet({"tx"} \cup {"rx"})
    BY FS_Singleton, FS_AddElement
  <2>2. IsFiniteSet(({"tx"} \cup {"rx"}) \cup {"rtcp"})
    BY <2>1, FS_AddElement
  <2>3. IsFiniteSet(Kind) /\ serving \in SUBSET Kind
    <3>1. Kind = ({"tx"} \cup {"rx"}) \cup {"rtcp"}
      BY DEF Kind
    <3> QED
      BY <2>2, <3>1
  <2> QED
    BY <2>3, FS_Subset
<1>3. IsFiniteSet({r} \cap Remotes)
  BY RemotesFinite, FS_Subset
<1>4. IsFiniteSet(Starts(r, c))
  BY <1>2, <1>3, FS_Product DEF Starts
<1>5. IsFiniteSet({"rtcp"} \X Remotes)
  BY <1>1, RemotesFinite, FS_Product
<1>6. IsFiniteSet(Starts(r, c) \cup ({"rtcp"} \X Remotes))
  BY <1>4, <1>5, FS_Union
<1>7. IsFiniteSet(F)
  BY <1>1, <1>4, <1>6, FS_Subset DEF FaultSets
<1>8. Cardinality(F) \in Nat /\ Cardinality(F) <= MaxFaults - faults
  BY <1>7, FS_CardinalityType DEF FaultSets
<1> QED
  BY <1>8, FaultsAssumption

----------------------------------------------------------------------------
(* Every session is well formed, open or not. *)
IInv ==
    /\ TypeOK
    /\ \A id \in Sessions : Sound(session[id])

(* What a step of the manager comes down to: one session gets the outcome of a member
   function, after another one may have been deactivated. *)
LEMMA ServeSound ==
    ASSUME IInv, NEW op \in {"modify", "add", "confirm", "delete"}, NEW id \in mSessions,
           NEW r \in Remotes \cup {NoRemote}, NEW c \in Config \cup {NoConfig},
           NEW sessions \in {session} \cup AfterDeactivation(id),
           NEW F, faults + Cardinality(F) \in 0 .. MaxFaults,
           NEW outcome, Sound(outcome.session), outcome.result \in Result,
           Serve(op, id, r, c, sessions, F, outcome)
    PROVE  IInv'
<1>1. /\ sessions \in [Sessions -> Session]
      /\ \A o \in Sessions : Sound(sessions[o])
      /\ \A o \in Sessions \ mSessions : sessions[o] = NewSession
  <2>1. CASE sessions = session
    BY <2>1 DEF IInv, TypeOK
  <2>2. CASE sessions # session
    <3>1. PICK o \in ActiveOthers(id) : sessions = [session EXCEPT ![o] = StopRtp(@)]
      BY <2>2 DEF AfterDeactivation
    <3>2. o \in mSessions /\ o \in Sessions /\ session \in [Sessions -> Session]
      BY <3>1 DEF ActiveOthers, IInv, TypeOK
    <3>3. Sound(StopRtp(session[o]))
      BY <3>2, StopRtpSound DEF IInv
    <3> QED
      BY <3>1, <3>2, <3>3 DEF IInv, TypeOK, Sound
  <2> QED
    BY <2>1, <2>2
<1>2. id \in Sessions /\ session' = [sessions EXCEPT ![id] = outcome.session]
  BY DEF IInv, TypeOK, Serve
<1>3. /\ session' \in [Sessions -> Session]
      /\ \A o \in Sessions : Sound(session'[o])
      /\ \A o \in Sessions \ mSessions : session'[o] = NewSession
  BY <1>1, <1>2 DEF Sound
<1>4. served' \in Request
  BY <1>2 DEF Serve, Answer, Request
<1>5. faults' \in 0 .. MaxFaults /\ mSessions' = mSessions
  BY DEF Serve
<1> QED
  BY <1>3, <1>4, <1>5 DEF IInv, TypeOK

LEMMA InitIInv == Init => IInv
<1> SUFFICES ASSUME Init PROVE IInv
  OBVIOUS
<1>1. NewSession \in Session
  BY NewSessionSound DEF Sound
<1>2. served \in Request
  BY DEF Init, Request, Result
<1>3. TypeOK
  BY <1>1, <1>2, FaultsAssumption DEF Init, TypeOK
<1> QED
  BY <1>3, NewSessionSound DEF Init, IInv

LEMMA StepIInv == IInv /\ [Next]_vars => IInv'
<1> SUFFICES ASSUME IInv, [Next]_vars PROVE IInv'
  OBVIOUS
<1>1. ASSUME NEW id \in Sessions, CloseSession(id) PROVE IInv'
  <2>1. session' = [session EXCEPT ![id] = NewSession]
        /\ session \in [Sessions -> Session] /\ NewSession \in Session
    BY <1>1, NewSessionSound DEF CloseSession, IInv, TypeOK, Sound
  <2>2. served' \in Request
    BY <1>1 DEF CloseSession, Answer, Request, Result
  <2> QED
    BY <1>1, <2>1, <2>2, NewSessionSound DEF CloseSession, IInv, TypeOK
<1>2. ASSUME NEW id \in Sessions,
             NEW op \in {"open", "close", "modify", "add", "confirm", "delete"}, Reject(op, id)
      PROVE  IInv'
  <2>1. served' \in Request
    BY <1>2 DEF Reject, Answer, Request, Result
  <2> QED
    BY <1>2, <2>1 DEF Reject, IInv, TypeOK
<1>3. ASSUME NEW id \in Sessions, NEW r \in Remotes \cup {NoRemote}, DeleteConfig(id, r)
      PROVE  IInv'
  <2>1. faults + Cardinality({}) \in 0 .. MaxFaults
    BY FS_EmptySet, FaultsAssumption DEF IInv, TypeOK
  <2>2. /\ Sound(DeleteGraph(session[id], r).session)
        /\ DeleteGraph(session[id], r).result \in Result
    BY DeletionSound DEF IInv, DeleteGraph, Result
  <2> QED
    BY <1>3, <2>1, <2>2, ServeSound DEF DeleteConfig
<1>4. ASSUME NEW id \in Sessions, NEW r \in Remotes \cup {NoRemote}, NEW c \in Config,
             OpenSession(id, r, c)
      PROVE  IInv'
  <2>1. PICK F \in FaultSets(Starts(r, c)) :
            /\ faults' = faults + Cardinality(F)
            /\ session' = [session EXCEPT ![id] = StartGraph(NewSession, r, c, F, {}).session]
    BY <1>4 DEF OpenSession
  <2>2. faults' \in 0 .. MaxFaults
    BY <2>1, FaultsBounded DEF IInv, TypeOK
  <2>3. Sound(StartGraph(NewSession, r, c, F, {}).session)
    BY NewSessionSound, StartGraphSound
  <2>4. served' \in Request
    BY <1>4 DEF OpenSession, Answer, Request, Result
  <2>5. /\ session' \in [Sessions -> Session]
        /\ \A o \in Sessions : Sound(session'[o])
        /\ \A o \in Sessions \ mSessions' : session'[o] = NewSession
    BY <1>4, <2>1, <2>3 DEF OpenSession, IInv, TypeOK, Sound
  <2> QED
    BY <1>4, <2>2, <2>4, <2>5 DEF OpenSession, IInv, TypeOK
<1>5. ASSUME NEW id \in Sessions, NEW r \in Remotes \cup {NoRemote}, NEW c \in Config,
             ModifySession(id, r, c)
      PROVE  IInv'
  <2>1. PICK sessions \in {session} \cup AfterDeactivation(id), F \in FaultSets(Starts(r, c)) :
             \E logged \in SUBSET F :
                 Serve("modify", id, r, c, sessions, F,
                       AddGraph(session[id], r, c, FALSE, F, logged))
    BY <1>5 DEF ModifySession
  <2>2. faults + Cardinality(F) \in 0 .. MaxFaults
    BY FaultsBounded DEF IInv, TypeOK
  <2>3. \A logged : /\ Sound(AddGraph(session[id], r, c, FALSE, F, logged).session)
                    /\ AddGraph(session[id], r, c, FALSE, F, logged).result \in Result
    BY OutcomesSound DEF IInv
  <2> QED
    BY <1>5, <2>1, <2>2, <2>3, ServeSound DEF ModifySession
<1>6. ASSUME NEW id \in Sessions, NEW r \in Remotes \cup {NoRemote}, NEW c \in Config,
             AddConfig(id, r, c)
      PROVE  IInv'
  <2>1. PICK F \in FaultSets(Starts(r, c) \cup ({"rtcp"} \X Remotes)) :
          \E logged \in SUBSET F :
            Serve("add", id, r, c, session, F,
                  AddGraph(session[id], r, c, TRUE, F, logged))
    BY <1>6 DEF AddConfig
  <2>2. faults + Cardinality(F) \in 0 .. MaxFaults
    BY FaultsBounded DEF IInv, TypeOK
  <2>3. \A logged : /\ Sound(AddGraph(session[id], r, c, TRUE, F, logged).session)
                    /\ AddGraph(session[id], r, c, TRUE, F, logged).result \in Result
    BY OutcomesSound DEF IInv
  <2> QED
    BY <1>6, <2>1, <2>2, <2>3, ServeSound DEF AddConfig
<1>7. ASSUME NEW id \in Sessions, NEW r \in Remotes \cup {NoRemote}, NEW c \in Config,
             ConfirmConfig(id, r, c)
      PROVE  IInv'
  <2>1. PICK F \in FaultSets(Starts(r, c)) :
          \E logged \in SUBSET F :
            Serve("confirm", id, r, c, session, F,
                  ConfirmGraph(session[id], r, c, F, logged))
    BY <1>7 DEF ConfirmConfig
  <2>2. faults + Cardinality(F) \in 0 .. MaxFaults
    BY FaultsBounded DEF IInv, TypeOK
  <2>3. \A logged : /\ Sound(ConfirmGraph(session[id], r, c, F, logged).session)
                    /\ ConfirmGraph(session[id], r, c, F, logged).result \in Result
    BY OutcomesSound DEF IInv
  <2> QED
    BY <1>7, <2>1, <2>2, <2>3, ServeSound DEF ConfirmConfig
<1>8. ASSUME UNCHANGED vars PROVE IInv'
  BY <1>8 DEF vars, IInv, TypeOK
<1> QED
  BY <1>1, <1>2, <1>3, <1>4, <1>5, <1>6, <1>7, <1>8 DEF Next

LEMMA Invariance == Spec => []IInv
BY InitIInv, StepIInv, PTL DEF Spec

(* The types, for any number of sessions, remotes and failed starts. *)
THEOREM TypeCorrect == Spec => []TypeOK
<1>1. IInv => TypeOK
  BY DEF IInv
<1> QED
  BY <1>1, Invariance, PTL

(* No graph runs in a direction that excludes its media: the pause branches of the update
   functions, with every start that failed before. *)
THEOREM UnwantedMediaNeverRun == Spec => []NoUnwantedMedia
<1>1. IInv => NoUnwantedMedia
  BY DEF IInv, NoUnwantedMedia, Sound, Rightly
<1> QED
  BY <1>1, Invariance, PTL

(* Every receiver and RTCP graph has the sender that deleteGraph finds it by. *)
THEOREM GraphsAreFoundBySender == Spec => []ListsNested
<1>1. IInv => ListsNested
  BY DEF IInv, ListsNested, Sound
<1> QED
  BY <1>1, Invariance, PTL

----------------------------------------------------------------------------
(* What a successful request leaves for its remote. *)
AsAsked(s, t, r, c) ==
    \A k \in Kind :
        LET g == t.graphs[k][r]
        IN  /\ g # NoGraph /\ g.config = c
            /\ (Serves(k, c) /\ ~InRunState(g)) => g = s.graphs[k][r]

(* A graph touched without an error has the configuration and runs, or was up to date. *)
LEMMA TouchServes ==
    ASSUME NEW k \in Kind, NEW c \in Config, NEW g \in Graph,
           NEW fault \in BOOLEAN, NEW logged \in BOOLEAN,
           ~TouchFails(k, g, c, fault, logged)
    PROVE  LET h == Touched(k, g, c, fault)
           IN  /\ h # NoGraph /\ h.config = c
               /\ (Serves(k, c) /\ ~InRunState(h)) => h = g
<1>1. CASE g = NoGraph
  <2>1. Create(c).config = c /\ Create(c) # NoGraph
    BY DEF Create, NoGraph
  <2>2. ~(fault /\ Serves(k, c))
    BY <1>1, <2>1 DEF TouchFails, StartFails
  <2> QED
    BY <1>1, <2>1, <2>2 DEF Touched, Start, Create, NoGraph, InRunState
<1>2. CASE g # NoGraph
  <2>1. /\ g = [state |-> g.state, config |-> g.config]
        /\ g.config \in Config /\ g.state \in {"created", "running", "stalled"}
    BY <1>2 DEF Graph
  <2>2. ~UpdateFails(k, g, c, fault, logged) /\ Touched(k, g, c, fault) = Update(k, g, c, fault)
    BY <1>2 DEF TouchFails, Touched
  <2>3. CASE g.config = c
    BY <1>2, <2>2, <2>3 DEF Update
  <2>4. CASE g.config # c /\ ~Serves(k, c)
    BY <2>2, <2>4 DEF Update, Create, NoGraph
  <2>5. CASE g.config # c /\ Serves(k, c) /\ UpdatedInPlace(k, g)
    BY <2>2, <2>5 DEF Update, Restarted, NoGraph, InRunState
  <2>6. CASE g.config # c /\ Serves(k, c) /\ ~UpdatedInPlace(k, g)
    <3>1. ~fault
      BY <2>2, <2>6 DEF UpdateFails
    <3>2. Update(k, g, c, fault) = Start(k, Create(c), fault)
      BY <2>6 DEF Update, Restarted
    <3> QED
      BY <2>2, <2>6, <3>1, <3>2 DEF Start, Create, NoGraph, InRunState
  <2> QED
    BY <2>3, <2>4, <2>5, <2>6
<1> QED
  BY <1>1, <1>2

(* startGraph without an error serves its remote, and leaves the other remotes alone. *)
LEMMA StartGraphServes ==
    ASSUME NEW s, Sound(s), NEW r \in Remotes \cup {NoRemote}, NEW c \in Config,
           NEW F, NEW logged, StartGraph(s, r, c, F, logged).result = "SUCCESS"
    PROVE  LET t == StartGraph(s, r, c, F, logged).session
           IN  /\ r \in Remotes /\ AsAsked(s, t, r, c)
               /\ \A k \in Kind : Listed(t, k) = Listed(s, k) \cup {r}
<1> DEFINE failing == {k \in Kind : TouchFails(k, s.graphs[k][r], c, <<k, r>> \in F,
                                               <<k, r>> \in logged)}
           reached == {k \in Kind : EarlierKinds[k] \cap failing = {}}
           after == [k \in Kind |->
                        IF k \in reached
                        THEN [s.graphs[k] EXCEPT ![r] = Touched(k, @, c, <<k, r>> \in F)]
                        ELSE s.graphs[k]]
           t == StartGraph(s, r, c, F, logged).session
<1>1. r # NoRemote
  BY DEF StartGraph
<1>2. t = [graphs |-> after, analyzing |-> c.direction # "NO_FLOW"]
  BY <1>1 DEF StartGraph
<1>3. failing = {}
  BY <1>1 DEF StartGraph
<1>4. \A k \in Kind : s.graphs[k] \in [Remotes -> Graph]
  BY DEF Sound, Session
<1>5. \A k \in Kind : t.graphs[k] =
          [s.graphs[k] EXCEPT ![r] = Touched(k, @, c, <<k, r>> \in F)]
  BY <1>2, <1>3
<1>6. ASSUME NEW k \in Kind
      PROVE  LET h == t.graphs[k][r]
             IN  /\ h # NoGraph /\ h.config = c
                 /\ (Serves(k, c) /\ ~InRunState(h)) => h = s.graphs[k][r]
  <2> DEFINE fault == <<k, r>> \in F
             quiet == <<k, r>> \in logged
  <2>1. fault \in BOOLEAN /\ quiet \in BOOLEAN
    OBVIOUS
  <2>2. ~TouchFails(k, s.graphs[k][r], c, fault, quiet)
    BY <1>3
  <2>3. t.graphs[k][r] = Touched(k, s.graphs[k][r], c, fault)
    BY <1>1, <1>4, <1>5
  <2> HIDE DEF fault, quiet
  <2>4. s.graphs[k][r] \in Graph
    BY <1>1, <1>4
  <2> QED
    BY <2>1, <2>2, <2>3, <2>4, TouchServes
<1>7. \A k \in Kind : Listed(t, k) = Listed(s, k) \cup {r}
  BY <1>1, <1>4, <1>5, <1>6 DEF Listed
<1> QED
  BY <1>1, <1>6, <1>7 DEF AsAsked

LEMMA OutcomesServe ==
    ASSUME NEW s, Sound(s), NEW r \in Remotes \cup {NoRemote}, NEW c \in Config,
           NEW F, NEW logged
    PROVE  /\ LET o == ConfirmGraph(s, r, c, F, logged)
              IN  o.result = "SUCCESS" =>
                      /\ r \in Remotes /\ AsAsked(s, o.session, r, c)
                      /\ (\A k \in Kind : Listed(s, k) # {}) =>
                             \A k \in Kind : Listed(o.session, k) = {r}
           /\ \A enableRtcp \in BOOLEAN :
                  LET o == AddGraph(s, r, c, enableRtcp, F, logged)
                  IN  o.result = "SUCCESS" => r \in Remotes /\ AsAsked(s, o.session, r, c)
<1>0. \A k \in Kind : s.graphs[k] \in [Remotes -> Graph]
  BY DEF Sound, Session
<1>1. ASSUME NEW o, o = ConfirmGraph(s, r, c, F, logged), o.result = "SUCCESS"
      PROVE  /\ r \in Remotes /\ AsAsked(s, o.session, r, c)
             /\ (\A k \in Kind : Listed(s, k) # {}) =>
                    \A k \in Kind : Listed(o.session, k) = {r}
  <2> DEFINE all == \A k \in Kind : Listed(s, k) # {}
             u == OthersDeleted(s, r)
  <2>1. CASE r # NoRemote /\ all
    <3>1. o = StartGraph(u, r, c, F, logged)
      BY <1>1, <2>1 DEF ConfirmGraph
    <3>2. Sound(u)
      BY DeletionSound
    <3>3. /\ r \in Remotes /\ AsAsked(u, o.session, r, c)
          /\ \A k \in Kind : Listed(o.session, k) = Listed(u, k) \cup {r}
      BY <1>1, <3>1, <3>2, StartGraphServes
    <3>4. \A k \in Kind, q \in Remotes :
              u.graphs[k][q] = IF q = r THEN s.graphs[k][q] ELSE NoGraph
      BY <1>0 DEF OthersDeleted, Sound, Session
    <3>5. \A k \in Kind : Listed(u, k) \subseteq {r}
      BY <3>4 DEF Listed
    <3> QED
      BY <3>3, <3>4, <3>5 DEF AsAsked
  <2>2. CASE ~(r # NoRemote /\ all)
    <3>1. o = StartGraph(s, r, c, F, logged)
      BY <1>1, <2>2 DEF ConfirmGraph
    <3>2. r \in Remotes /\ AsAsked(s, o.session, r, c)
      BY <1>1, <3>1, StartGraphServes
    <3>3. ~all
      BY <2>2, <3>2
    <3> QED
      BY <3>2, <3>3
  <2> QED
    BY <2>1, <2>2
<1>2. ASSUME NEW enableRtcp \in BOOLEAN,
             NEW o, o = AddGraph(s, r, c, enableRtcp, F, logged), o.result = "SUCCESS"
      PROVE  r \in Remotes /\ AsAsked(s, o.session, r, c)
  <2>1. CASE r = NoRemote \/ r \in Listed(s, "tx") \/ Listed(s, "tx") = {}
    <3>1. o = StartGraph(s, r, c, F, logged)
      BY <1>2, <2>1 DEF AddGraph
    <3> QED
      BY <1>2, <3>1, StartGraphServes
  <2>2. CASE r # NoRemote /\ r \notin Listed(s, "tx") /\ Listed(s, "tx") # {} /\ enableRtcp
    <3> DEFINE u == StartRtcp(StopRtp(s), F)
    <3>1. o = StartGraph(u, r, c, F, logged)
      BY <1>2, <2>2 DEF AddGraph
    <3>2. Sound(u)
      BY StopRtpSound, StartRtcpSound
    <3>3. r \in Remotes /\ AsAsked(u, o.session, r, c)
      BY <1>2, <3>1, <3>2, StartGraphServes
    <3>4. \A k \in Kind : s.graphs[k][r] = NoGraph
      BY <2>2, <3>3 DEF Sound, Listed, Kind
    <3>5. \A k \in Kind : StopRtp(s).graphs[k][r] = NoGraph
      BY <1>0, <3>3, <3>4 DEF StopRtp, Stop, Sound, Session
    <3>6. \A k \in Kind : u.graphs[k][r] = NoGraph
      <4>1. Sound(StopRtp(s))
        BY StopRtpSound
      <4> QED
        BY <3>3, <3>5, <4>1 DEF StartRtcp, Sound, Session
    <3> QED
      BY <3>3, <3>4, <3>6 DEF AsAsked
  <2>3. CASE r # NoRemote /\ r \notin Listed(s, "tx") /\ Listed(s, "tx") # {} /\ ~enableRtcp
    <3>1. o = ConfirmGraph(s, r, c, F, logged)
      BY <1>2, <2>3 DEF AddGraph
    <3> QED
      BY <1>1, <1>2, <3>1
  <2> QED
    BY <2>1, <2>2, <2>3
<1> QED
  BY <1>1, <1>2

(* What the two action properties need of a step. *)
LEMMA StepServes ==
    ASSUME IInv, Next, served'.result = "SUCCESS",
           served'.op \in {"modify", "add", "confirm"}
    PROVE  /\ AsAsked(session[served'.id], session'[served'.id], served'.remote, served'.config)
           /\ (served'.op = "confirm" /\ \A k \in Kind : Listed(session[served'.id], k) # {}) =>
                  \A k \in Kind : Listed(session'[served'.id], k) = {served'.remote}
<1> DEFINE Goal ==
        /\ AsAsked(session[served'.id], session'[served'.id], served'.remote, served'.config)
        /\ (served'.op = "confirm" /\ \A k \in Kind : Listed(session[served'.id], k) # {}) =>
               \A k \in Kind : Listed(session'[served'.id], k) = {served'.remote}
<1>1. ASSUME NEW op, NEW id \in Sessions, NEW r, NEW c, NEW F, NEW outcome,
             NEW sessions \in {session} \cup AfterDeactivation(id),
             Serve(op, id, r, c, sessions, F, outcome)
      PROVE  /\ served'.op = op /\ served'.id = id /\ served'.remote = r
             /\ served'.config = c /\ served'.result = outcome.result
             /\ session'[id] = outcome.session
  <2>1. sessions \in {f \in {sessions} : DOMAIN f = Sessions}
    <3>1. DOMAIN session = Sessions
      BY DEF IInv, TypeOK
    <3> QED
      BY <3>1 DEF AfterDeactivation
  <2> QED
    BY <1>1, <2>1 DEF Serve, Answer
<1>2. ASSUME NEW id \in Sessions, NEW r \in Remotes \cup {NoRemote}, NEW c \in Config,
             ModifySession(id, r, c)
      PROVE  Goal
  <2>0. PICK sessions \in {session} \cup AfterDeactivation(id) :
            \E F, logged :
                Serve("modify", id, r, c, sessions, F,
                      AddGraph(session[id], r, c, FALSE, F, logged))
    BY <1>2 DEF ModifySession
  <2>1. PICK F, logged :
            Serve("modify", id, r, c, sessions, F,
                  AddGraph(session[id], r, c, FALSE, F, logged))
    BY <2>0
  <2> DEFINE o == AddGraph(session[id], r, c, FALSE, F, logged)
  <2>2. Sound(session[id])
    BY DEF IInv
  <2>3. o.result = "SUCCESS" =>
             /\ AsAsked(session[id], o.session, r, c)
    BY <2>2, OutcomesServe
  <2>4. /\ served'.op = "modify" /\ served'.id = id /\ served'.remote = r
        /\ served'.config = c /\ served'.result = o.result
        /\ session'[id] = o.session
    BY <1>1, <2>1
  <2> HIDE DEF o
  <2> QED
    BY <2>3, <2>4
<1>3. ASSUME NEW id \in Sessions, NEW r \in Remotes \cup {NoRemote}, NEW c \in Config,
             AddConfig(id, r, c)
      PROVE  Goal
  <2>1. PICK F, logged :
            Serve("add", id, r, c, session, F, AddGraph(session[id], r, c, TRUE, F, logged))
    BY <1>3 DEF AddConfig
  <2> DEFINE o == AddGraph(session[id], r, c, TRUE, F, logged)
  <2>2. Sound(session[id])
    BY DEF IInv
  <2>3. o.result = "SUCCESS" =>
             /\ AsAsked(session[id], o.session, r, c)
    BY <2>2, OutcomesServe
  <2>4. /\ served'.op = "add" /\ served'.id = id /\ served'.remote = r
        /\ served'.config = c /\ served'.result = o.result
        /\ session'[id] = o.session
    BY <1>1, <2>1
  <2> HIDE DEF o
  <2> QED
    BY <2>3, <2>4
<1>4. ASSUME NEW id \in Sessions, NEW r \in Remotes \cup {NoRemote}, NEW c \in Config,
             ConfirmConfig(id, r, c)
      PROVE  Goal
  <2>1. PICK F, logged :
            Serve("confirm", id, r, c, session, F, ConfirmGraph(session[id], r, c, F, logged))
    BY <1>4 DEF ConfirmConfig
  <2> DEFINE o == ConfirmGraph(session[id], r, c, F, logged)
  <2>2. Sound(session[id])
    BY DEF IInv
  <2>3. o.result = "SUCCESS" =>
             /\ AsAsked(session[id], o.session, r, c)
             /\ (\A k \in Kind : Listed(session[id], k) # {}) =>
                    \A k \in Kind : Listed(o.session, k) = {r}
    BY <2>2, OutcomesServe
  <2>4. /\ served'.op = "confirm" /\ served'.id = id /\ served'.remote = r
        /\ served'.config = c /\ served'.result = o.result
        /\ session'[id] = o.session
    BY <1>1, <2>1
  <2> HIDE DEF o
  <2> QED
    BY <2>3, <2>4
<1>5. ASSUME NEW id \in Sessions PROVE ~CloseSession(id)
  BY DEF CloseSession, Answer
<1>6. ASSUME NEW id \in Sessions, NEW op PROVE ~Reject(op, id)
  BY DEF Reject, Answer
<1>7. ASSUME NEW id \in Sessions, NEW r PROVE ~DeleteConfig(id, r)
  BY DEF DeleteConfig, Serve, Answer
<1>8. ASSUME NEW id, NEW r, NEW c PROVE ~OpenSession(id, r, c)
  BY DEF OpenSession, Answer
<1> QED
  BY <1>2, <1>3, <1>4, <1>5, <1>6, <1>7, <1>8 DEF Next

(* A successful confirmConfig deletes every other remote, if no list was empty. *)
THEOREM ConfirmDeletesTheOthers == Spec => ConfirmLeavesOneRemote
<1>1. ASSUME IInv, [Next]_vars
      PROVE  [ LET q == served' IN
               (/\ q.op = "confirm" /\ q.result = "SUCCESS"
                /\ \A k \in Kind : Listed(session[q.id], k) # {}) =>
                   \A k \in Kind : Listed(session'[q.id], k) = {q.remote} ]_vars
  BY <1>1, StepServes
<1> QED
  BY <1>1, Invariance, PTL DEF Spec, ConfirmLeavesOneRemote

(* Success means that the remote has what was asked for, after any history. *)
THEOREM SuccessIsServed == Spec => ServedAsAsked
<1>1. ASSUME IInv, [Next]_vars
      PROVE  [ LET q == served' IN
               (q.op \in {"modify", "add", "confirm"} /\ q.result = "SUCCESS") =>
                   \A k \in Kind :
                       LET g == session'[q.id].graphs[k][q.remote]
                       IN  /\ g # NoGraph /\ g.config = q.config
                           /\ (Serves(k, q.config) /\ ~InRunState(g)) =>
                                  g = session[q.id].graphs[k][q.remote] ]_vars
  BY <1>1, StepServes DEF AsAsked
<1> QED
  BY <1>1, Invariance, PTL DEF Spec, ServedAsAsked

HIDE RemotesAssumption

----------------------------------------------------------------------------
(* Video and text: the graphs over BaseStreamGraph.  The two share its operators; facts
   about them are stated with those of T and carried to V by SameOperations. *)

(* Nodes that were added to a graph one by one. *)
Node == {"SocketWriter", "SocketReader", "RtcpEncoder", "RtcpDecoder", "RtpEncoder", "RtpDecoder",
         "PayloadEncoder", "PayloadDecoder", "VideoSource", "VideoRenderer", "TextSource",
         "TextRenderer"}
NodeList == Seq(Node)

\* A graph that was created, whatever failed since.
IsGraph(g) ==
    /\ DOMAIN g = {"state", "config", "nodes", "seen", "started", "dead", "surface"}
    /\ g.state \in {"created", "wait", "running"}
    /\ g.nodes \in NodeList

\* Every node holds what it heeds of configuration c.
Told(g, c) == \A i \in DOMAIN g.nodes : T!UpToDate(g.nodes[i], g.seen[i], c)

\* How the operations on running and stopped nodes change a graph.
Same(g, h, fields) == \A f \in {"config", "nodes", "surface"} \cup fields : h[f] = g[f]

(* A list of nodes stays one when a node is added. *)
LEMMA AddedNodes ==
    ASSUME NEW nodes \in NodeList, NEW node \in Node
    PROVE  T!AddNode(node, nodes) \in NodeList /\ V!AddNode(node, nodes) \in NodeList
<1>1. <<node>> \in Seq(Node)
  OBVIOUS
<1>2. <<node>> \o nodes \in Seq(Node)
  BY <1>1 DEF NodeList
<1> QED
  BY <1>2 DEF NodeList, T!AddNode, V!AddNode

(* A node updates its configuration the same way whichever medium it works for. *)
LEMMA SameUpdateConfig ==
    /\ \A node, c : V!SetConfig(node, c) = T!SetConfig(node, c)
    /\ \A node, seen, c : V!UpToDate(node, seen, c) <=> T!UpToDate(node, seen, c)
    /\ \A node, seen, c : V!UpdateConfig(node, seen, c) = T!UpdateConfig(node, seen, c)
<1>1. V!Copied = T!Copied
  BY DEF T!Copied, V!Copied,
         T!SocketWriterConfig, V!SocketWriterConfig, T!SocketReaderConfig, V!SocketReaderConfig,
         T!RtcpEncoderConfig, V!RtcpEncoderConfig, T!RtcpDecoderConfig, V!RtcpDecoderConfig,
         T!RtpEncoderConfig, V!RtpEncoderConfig, T!RtpDecoderConfig, V!RtpDecoderConfig,
         T!PayloadEncoderConfig, V!PayloadEncoderConfig, T!PayloadDecoderConfig,
         V!PayloadDecoderConfig, T!VideoSourceConfig, V!VideoSourceConfig,
         T!VideoRendererConfig, V!VideoRendererConfig, T!TextSourceConfig, V!TextSourceConfig,
         T!TextRendererConfig, V!TextRendererConfig
<1>2. V!Heeded = T!Heeded
  BY <1>1 DEF T!Heeded, V!Heeded
<1>3. \A node, c : V!SetConfig(node, c) = T!SetConfig(node, c)
  BY <1>1 DEF T!SetConfig, V!SetConfig
<1>4. \A node, seen, c : V!UpToDate(node, seen, c) <=> T!UpToDate(node, seen, c)
  BY <1>2 DEF T!UpToDate, V!UpToDate
<1> QED
  BY <1>3, <1>4 DEF T!UpdateConfig, V!UpdateConfig

(* A node heeds what it copies, and so is up to date once it was told. *)
LEMMA ToldIsUpToDate ==
    \A node \in Node : \A seen, c :
        /\ T!UpToDate(node, T!SetConfig(node, c), c)
        /\ T!UpToDate(node, T!UpdateConfig(node, seen, c), c)
<1>1. \A node \in Node : T!Heeded[node] \subseteq T!Copied[node]
  BY DEF Node, T!Heeded, T!Copied
<1>2. \A node \in Node : \A c : T!UpToDate(node, T!SetConfig(node, c), c)
  BY <1>1 DEF T!UpToDate, T!SetConfig
<1> QED
  BY <1>2 DEF T!UpdateConfig

(* What is stopped, started or updated is a graph with the same nodes. *)
LEMMA GraphStopped ==
    ASSUME NEW g, IsGraph(g)
    PROVE  LET h == T!Stop(g)
           IN  IsGraph(h) /\ h.state = "created" /\ h.started = 0 /\ Same(g, h, {"seen"})
  BY DEF IsGraph, Same, T!Stop, T!StopNodes

(* start() of the RTP graphs and of the RTCP graph. *)
LEMMA GraphStarted ==
    ASSUME NEW g, IsGraph(g), NEW broken
    PROVE  /\ LET r == T!StartRtp(g, broken)
              IN  /\ IsGraph(r.graph) /\ Same(g, r.graph, {"seen"})
                  /\ r.graph.state = IF r.ok THEN "running" ELSE "created"
                  /\ broken = {} => r.ok
           /\ LET r == T!Start(g, broken)
              IN  /\ IsGraph(r.graph) /\ Same(g, r.graph, {"seen"})
                  /\ r.graph.state = IF r.ok THEN "running" ELSE g.state
                  /\ ~r.ok => r.graph.started = 0
                  /\ broken = {} => r.ok
<1>1. LET r == T!StartRtp(g, broken)
      IN  /\ IsGraph(r.graph) /\ Same(g, r.graph, {"seen"})
          /\ r.graph.state = IF r.ok THEN "running" ELSE "created"
          /\ broken = {} => r.ok
  BY DEF IsGraph, Same, T!StartRtp, T!StartNodes, T!Done
<1>2. LET r == T!Start(g, broken)
      IN  /\ IsGraph(r.graph) /\ Same(g, r.graph, {"seen"})
          /\ r.graph.state = IF r.ok THEN "running" ELSE g.state
          /\ ~r.ok => r.graph.started = 0
          /\ broken = {} => r.ok
  BY DEF IsGraph, Same, T!Start, T!StopNodes, T!StartNodes, T!Done
<1> QED
  BY <1>1, <1>2

(* update() of a running graph tells every node, also those it cannot start again. *)
LEMMA GraphUpdated ==
    ASSUME NEW g, IsGraph(g), NEW c, NEW broken
    PROVE  LET r == T!UpdateStarted(g, c, broken)
           IN  /\ IsGraph(r.graph) /\ Same(g, r.graph, {"state", "started"})
               /\ Told(r.graph, c)
               /\ broken = {} => r.ok
<1> DEFINE h == T!UpdateStarted(g, c, broken).graph
<1>1. IsGraph(h) /\ Same(g, h, {"state", "started"})
  BY DEF IsGraph, Same, T!UpdateStarted, T!Done
<1>2. \A i \in DOMAIN h.nodes : h.seen[i] = T!UpdateConfig(g.nodes[i], g.seen[i], c) /\ h.nodes[i] \in Node
  <2>1. h.seen = [i \in DOMAIN g.nodes |-> T!UpdateConfig(g.nodes[i], g.seen[i], c)]
    BY DEF IsGraph, T!UpdateStarted, T!Done
  <2>2. h.nodes = g.nodes
    BY <1>1 DEF Same
  <2>3. \A i \in DOMAIN g.nodes : g.nodes[i] \in Node
    BY DEF IsGraph, NodeList
  <2> HIDE DEF h
  <2> QED
    BY <2>1, <2>2, <2>3
<1>3. Told(h, c)
  <2> SUFFICES ASSUME NEW i \in DOMAIN h.nodes PROVE T!UpToDate(h.nodes[i], h.seen[i], c)
    BY DEF Told
  <2> h.nodes[i] = g.nodes[i]
    BY <1>1 DEF Same
  <2> QED
    BY <1>2, ToldIsUpToDate
<1>4. broken = {} => T!FailsAgain(g, c, broken) = {}
  BY DEF T!FailsAgain
<1>5. broken = {} => T!UpdateStarted(g, c, broken).ok
  BY <1>4 DEF T!UpdateStarted, T!Done
<1> QED
  BY <1>1, <1>3, <1>5

(* update() of a graph that is not running tells every node, if none was left started. *)
LEMMA GraphUpdatedToStart ==
    ASSUME NEW g, IsGraph(g), NEW c
    PROVE  LET r == T!UpdateToStart(g, c)
           IN  /\ IsGraph(r.graph) /\ Same(g, r.graph, {"state", "started"})
               /\ g.started = 0 => Told(r.graph, c)
  BY ToldIsUpToDate DEF IsGraph, Same, Told, NodeList, T!UpdateToStart, T!Done

(* Video and text share BaseStreamGraph. *)
LEMMA SameOperations ==
    /\ \A node, c : V!SetConfig(node, c) = T!SetConfig(node, c)
    /\ \A nodes, c : V!Created(nodes, c) = T!Created(nodes, c)
    /\ \A g : V!Stop(g) = T!Stop(g)
    /\ \A g, broken : V!StartRtp(g, broken) = T!StartRtp(g, broken)
    /\ \A g, broken : V!Start(g, broken) = T!Start(g, broken)
    /\ \A g, c, broken : V!UpdateStarted(g, c, broken) = T!UpdateStarted(g, c, broken)
    /\ \A g, c : V!UpdateToStart(g, c) = T!UpdateToStart(g, c)
    /\ \A g, c, broken : V!UpdateControl(g, c, broken) = T!UpdateControl(g, c, broken)
    /\ \A g : V!LeftBehind(g) = T!LeftBehind(g)
<1>1. /\ \A node, c : V!SetConfig(node, c) = T!SetConfig(node, c)
      /\ \A node, seen, c : V!UpToDate(node, seen, c) <=> T!UpToDate(node, seen, c)
      /\ \A node, seen, c : V!UpdateConfig(node, seen, c) = T!UpdateConfig(node, seen, c)
  BY SameUpdateConfig
<1>2. \A nodes, c : V!Created(nodes, c) = T!Created(nodes, c)
  BY <1>1 DEF V!Created, T!Created
<1>3. \A g : V!StopNodes(g) = T!StopNodes(g) /\ V!Stop(g) = T!Stop(g)
  BY DEF V!Stop, T!Stop, V!StopNodes, T!StopNodes
<1>4. \A g, broken : V!StartNodes(g, broken) = T!StartNodes(g, broken)
  BY DEF V!StartNodes, T!StartNodes, V!Done, T!Done
<1>5. \A g, broken : /\ V!StartRtp(g, broken) = T!StartRtp(g, broken)
                     /\ V!Start(g, broken) = T!Start(g, broken)
  BY <1>3, <1>4 DEF V!StartRtp, T!StartRtp, V!Start, T!Start, V!Done, T!Done
<1>6. \A g, c, broken : V!FailsAgain(g, c, broken) = T!FailsAgain(g, c, broken)
  BY <1>1 DEF V!FailsAgain, T!FailsAgain, V!Differs, T!Differs
<1>7. \A g, c, broken : V!UpdateStarted(g, c, broken) = T!UpdateStarted(g, c, broken)
  BY <1>1, <1>6 DEF V!UpdateStarted, T!UpdateStarted, V!Done, T!Done
<1>8. \A g, c : V!UpdateToStart(g, c) = T!UpdateToStart(g, c)
  BY <1>1 DEF V!UpdateToStart, T!UpdateToStart, V!Done, T!Done
<1>9. \A g, c, broken : V!UpdateControl(g, c, broken) = T!UpdateControl(g, c, broken)
  BY <1>3, <1>5, <1>7 DEF V!UpdateControl, T!UpdateControl, V!Done, T!Done, V!Serves, T!Serves,
       V!Flows, T!Flows, V!Direction, T!Direction, V!IsRunning, T!IsRunning
<1>10. \A g : V!LeftBehind(g) = T!LeftBehind(g)
  BY DEF V!LeftBehind, T!LeftBehind, V!StartedNodes, T!StartedNodes, V!NoGraph, T!NoGraph
<1> QED
  BY <1>1, <1>2, <1>3, <1>5, <1>7, <1>8, <1>9, <1>10

----------------------------------------------------------------------------
\* Only a graph that runs has nodes that run; as long as nothing failed to start.
Calm(g) == g # T!NoGraph /\ g.state # "running" => g.started = 0

\* The nodes of a graph that runs, or will run once it has its surface, were told of its
\* configuration; as long as nothing failed to start.
Follows(g) == g.state \in {"wait", "running"} => Told(g, g.config)

(* A new graph has told its nodes what it was created for. *)
LEMMA NewGraph ==
    ASSUME NEW nodes \in NodeList, NEW c
    PROVE  LET g == T!Created(nodes, c)
           IN  /\ IsGraph(g) /\ g.state = "created" /\ g.started = 0 /\ g.config = c
               /\ g.nodes = nodes /\ ~g.surface /\ Told(g, c)
  BY ToldIsUpToDate DEF T!Created, IsGraph, Told, NodeList

(* Storing a configuration changes nothing else. *)
LEMMA Reconfigured ==
    ASSUME NEW g, IsGraph(g), NEW c
    PROVE  LET h == [g EXCEPT !.config = c]
           IN  /\ IsGraph(h) /\ h.config = c /\ h.state = g.state /\ h.started = g.started
               /\ h.nodes = g.nodes /\ h.seen = g.seen /\ h.surface = g.surface
  BY DEF IsGraph

(* What is left behind by a graph that is destroyed: nothing, if it is calm. *)
LEMMA CalmLeavesNothing ==
    ASSUME NEW g, g = T!NoGraph \/ IsGraph(g), Calm(g)
    PROVE  T!Destroyed(g) = {}
<1>1. CASE g = T!NoGraph
  BY <1>1 DEF T!Destroyed, T!LeftBehind, T!StartedNodes, T!IsRunning, T!NoGraph
<1>2. CASE g # T!NoGraph
  <2> DEFINE h == IF T!IsRunning(g) THEN T!Stop(g) ELSE g
  <2>1. IsGraph(g)
    BY <1>2
  <2>2. h.started = 0
    BY <1>2, <2>1, GraphStopped DEF Calm, T!IsRunning
  <2>3. T!StartedNodes(h) = {}
    <3> HIDE DEF h
    <3> QED
      BY <2>2 DEF T!StartedNodes
  <2> QED
    BY <2>3 DEF T!Destroyed, T!LeftBehind
<1> QED
  BY <1>1, <1>2

(* update() of an RTCP graph. *)
LEMMA ControlUpdated ==
    ASSUME NEW g, IsGraph(g), NEW c, NEW broken
    PROVE  LET r == T!UpdateControl(g, c, broken)
           IN  /\ IsGraph(r.graph)
               /\ broken = {} /\ Calm(g) => Calm(r.graph)
<1> DEFINE h == [g EXCEPT !.config = c]
<1>1. IsGraph(h) /\ h.state = g.state /\ h.started = g.started
  BY Reconfigured
<1> HIDE DEF h
<1>2. /\ IsGraph(T!Stop(h)) /\ IsGraph(T!Start(h, broken).graph)
      /\ IsGraph(T!UpdateStarted(h, c, broken).graph)
  BY <1>1, GraphStopped, GraphStarted, GraphUpdated
<1>3. ASSUME broken = {}, Calm(g)
      PROVE  \A k \in {T!Stop(h), T!Start(h, broken).graph} : Calm(k)
  BY <1>1, <1>3, GraphStopped, GraphStarted DEF Calm
<1>4. ASSUME T!IsRunning(h)
      PROVE  Calm(T!UpdateStarted(h, c, broken).graph)
  BY <1>1, <1>4, GraphUpdated DEF Calm, Same, T!IsRunning
<1> QED
  BY <1>2, <1>3, <1>4 DEF T!UpdateControl, T!Done, h

----------------------------------------------------------------------------
(* The text sessions. *)

\* What a text graph is after it was started or updated for configuration c.
TextServed(k, r, g, c, broken) ==
    /\ IsGraph(r.graph)
    /\ T!IsRunning(r.graph) => T!IsRunning(g) \/ T!Serves(k, c)
    /\ broken = {} /\ Calm(g) /\ Follows(g) => Calm(r.graph) /\ Follows(r.graph)

(* A text graph that is started with its nodes told of its configuration. *)
LEMMA TextStarted ==
    ASSUME NEW g, IsGraph(g), NEW broken, ~T!IsRunning(g),
           broken = {} /\ Calm(g) => Told(g, g.config)
    PROVE  /\ TextServed("tx", T!StartTx(g, broken), g, g.config, broken)
           /\ TextServed("rx", T!StartRx(g, broken), g, g.config, broken)
           /\ TextServed("rtcp", T!StartRtcp(g, broken), g, g.config, broken)
<1> DEFINE c == g.config
<1>1. /\ TextServed("tx", T!Done(g, TRUE), g, c, broken)
      /\ TextServed("rx", T!Done(g, TRUE), g, c, broken)
      /\ TextServed("rtcp", T!Done(g, TRUE), g, c, broken)
  BY DEF TextServed, T!Done, Follows
<1>2. /\ T!Serves("tx", c) => TextServed("tx", T!StartRtp(g, broken), g, c, broken)
      /\ T!Serves("rx", c) => TextServed("rx", T!StartRtp(g, broken), g, c, broken)
  <2>1. /\ IsGraph(T!StartRtp(g, broken).graph) /\ Same(g, T!StartRtp(g, broken).graph, {"seen"})
        /\ broken = {} => T!StartRtp(g, broken).graph.state = "running"
    BY GraphStarted
  <2> QED
    BY <2>1 DEF TextServed, Calm, Follows, Told, Same
<1>3. T!Serves("rtcp", c) => TextServed("rtcp", T!Start(g, broken), g, c, broken)
  <2>1. /\ IsGraph(T!Start(g, broken).graph) /\ Same(g, T!Start(g, broken).graph, {"seen"})
        /\ broken = {} => T!Start(g, broken).graph.state = "running"
    BY GraphStarted
  <2> QED
    BY <2>1 DEF TextServed, Calm, Follows, Told, Same
<1> QED
  BY <1>1, <1>2, <1>3 DEF T!StartTx, T!StartRx, T!StartRtcp

(* A text graph that is updated, whatever state it is in. *)
LEMMA TextUpdated ==
    ASSUME NEW g, IsGraph(g), NEW c, NEW broken
    PROVE  /\ TextServed("tx", T!UpdateTx(g, c, broken), g, c, broken)
           /\ TextServed("rx", T!UpdateRx(g, c, broken), g, c, broken)
<1> DEFINE h == [g EXCEPT !.config = c]
           u == T!UpdateToStart(h, c).graph
<1>1. /\ IsGraph(h) /\ h.config = c /\ h.state = g.state /\ h.started = g.started
  BY Reconfigured
<1> HIDE DEF h
<1>2. g.config = c => \A k : TextServed(k, T!Done(g, TRUE), g, c, broken)
  BY DEF TextServed, T!Done
<1>3. \A k : TextServed(k, T!Done(T!Stop(h), TRUE), g, c, broken)
  <2>1. IsGraph(T!Stop(h)) /\ T!Stop(h).state = "created" /\ T!Stop(h).started = 0
    BY <1>1, GraphStopped
  <2> QED
    BY <2>1 DEF TextServed, T!Done, Calm, Follows, T!IsRunning
<1>4. ASSUME T!IsRunning(h)
      PROVE  \A k : TextServed(k, T!UpdateStarted(h, c, broken), g, c, broken)
  <2>1. LET r == T!UpdateStarted(h, c, broken)
        IN  IsGraph(r.graph) /\ r.graph.state = "running" /\ r.graph.config = c /\ Told(r.graph, c)
    BY <1>1, <1>4, GraphUpdated DEF Same, T!IsRunning
  <2> QED
    BY <1>1, <1>4, <2>1 DEF TextServed, Calm, Follows, T!IsRunning
<1>5. ASSUME ~T!IsRunning(h)
      PROVE  /\ TextServed("tx", T!StartTx(u, broken), g, c, broken)
             /\ TextServed("rx", T!StartRx(u, broken), g, c, broken)
  <2>1. /\ IsGraph(u) /\ u.state = g.state /\ u.config = c /\ u.started = g.started
        /\ g.started = 0 => Told(u, c)
    BY <1>1, GraphUpdatedToStart DEF Same
  <2>2. /\ TextServed("tx", T!StartTx(u, broken), u, c, broken)
        /\ TextServed("rx", T!StartRx(u, broken), u, c, broken)
    <3> HIDE DEF u
    <3> QED
      BY <1>1, <1>5, <2>1, TextStarted DEF T!IsRunning, Calm, IsGraph, T!NoGraph
  <2> QED
    BY <1>1, <1>5, <2>1, <2>2 DEF TextServed, Calm, Follows, T!IsRunning, T!NoGraph, IsGraph
<1> QED
  BY <1>2, <1>3, <1>4, <1>5 DEF T!UpdateTx, T!UpdateRx, h

\* A text session, and one whose graphs are as they should be while nothing failed.
TextSession(s) ==
    /\ DOMAIN s = {"tx", "rx", "rtcp"}
    /\ \A k \in T!Kind : s[k] = T!NoGraph \/ IsGraph(s[k])
TextCalm(s) == (\A k \in T!Kind : Calm(s[k])) /\ Follows(s["tx"]) /\ Follows(s["rx"])

(* The graphs a request for c creates and starts, or updates. *)
LEMMA TextTouched ==
    ASSUME NEW s, TextSession(s), NEW c, NEW broken
    PROVE  /\ TextServed("tx", T!TouchTx(s, c, broken), s["tx"], c, T!BrokenOf("tx", broken))
           /\ TextServed("rx", T!TouchRx(s, c, broken), s["rx"], c, T!BrokenOf("rx", broken))
           /\ IsGraph(T!TouchRtcp(s, c, broken).graph)
           /\ T!BrokenOf("rtcp", broken) = {} /\ Calm(s["rtcp"]) =>
                  Calm(T!TouchRtcp(s, c, broken).graph)
<1>1. \A k \in {"tx", "rx", "rtcp"} : s[k] = T!NoGraph \/ IsGraph(s[k])
  BY DEF TextSession, T!Kind
<1>2. /\ T!NodesOf.tx \in NodeList /\ T!NodesOf.rx \in NodeList /\ T!NodesOf.rtcp \in NodeList
  <2>1. <<>> \in NodeList
    BY DEF NodeList
  <2>2. \A a, b, d, e \in Node :
            T!AddNode(a, T!AddNode(b, T!AddNode(d, T!AddNode(e, <<>>)))) \in NodeList
    BY <2>1, AddedNodes
  <2>3. /\ "SocketWriter" \in Node /\ "RtpEncoder" \in Node /\ "PayloadEncoder" \in Node
        /\ "TextSource" \in Node /\ "TextRenderer" \in Node /\ "PayloadDecoder" \in Node
        /\ "RtpDecoder" \in Node /\ "SocketReader" \in Node /\ "RtcpDecoder" \in Node
        /\ "RtcpEncoder" \in Node
    BY DEF Node
  <2> QED
    BY <2>2, <2>3 DEF T!NodesOf
<1>3. \A nodes \in NodeList : \A b :
          LET g == T!Created(nodes, c)
          IN  /\ TextServed("tx", T!StartTx(g, b), g, c, b)
              /\ TextServed("rx", T!StartRx(g, b), g, c, b)
              /\ TextServed("rtcp", T!StartRtcp(g, b), g, c, b)
              /\ IsGraph(g) /\ g.state = "created" /\ Calm(g) /\ Follows(g)
  <2> SUFFICES ASSUME NEW nodes \in NodeList, NEW b
               PROVE  LET g == T!Created(nodes, c)
                      IN  /\ TextServed("tx", T!StartTx(g, b), g, c, b)
                          /\ TextServed("rx", T!StartRx(g, b), g, c, b)
                          /\ TextServed("rtcp", T!StartRtcp(g, b), g, c, b)
                          /\ IsGraph(g) /\ g.state = "created" /\ Calm(g) /\ Follows(g)
    OBVIOUS
  <2> DEFINE g == T!Created(nodes, c)
  <2>1. IsGraph(g) /\ g.state = "created" /\ g.started = 0 /\ g.config = c /\ Told(g, c)
    BY NewGraph
  <2> HIDE DEF g
  <2>2. ~T!IsRunning(g) /\ Told(g, g.config) /\ Calm(g) /\ Follows(g)
    BY <2>1 DEF T!IsRunning, Calm, Follows
  <2>3. /\ TextServed("tx", T!StartTx(g, b), g, c, b) /\ TextServed("rx", T!StartRx(g, b), g, c, b)
        /\ TextServed("rtcp", T!StartRtcp(g, b), g, c, b)
    BY <2>1, <2>2, TextStarted
  <2> QED
    BY <2>1, <2>2, <2>3 DEF g
<1>4. ASSUME NEW b
      PROVE  /\ s["tx"] = T!NoGraph =>
                    TextServed("tx", T!StartTx(T!CreateTx(c), b), s["tx"], c, b)
             /\ s["rx"] = T!NoGraph =>
                    TextServed("rx", T!StartRx(T!CreateRx(c), b), s["rx"], c, b)
             /\ IsGraph(T!StartRtcp(T!CreateRtcp(c), b).graph)
             /\ b = {} => Calm(T!StartRtcp(T!CreateRtcp(c), b).graph)
  BY <1>2, <1>3 DEF TextServed, T!CreateTx, T!CreateRx, T!CreateRtcp, T!IsRunning
<1>5. \A k \in {"tx", "rx", "rtcp"} : s[k] # T!NoGraph => IsGraph(s[k])
  BY <1>1
<1> QED
  BY <1>4, <1>5, TextUpdated, ControlUpdated
     DEF T!TouchTx, T!TouchRx, T!TouchRtcp, T!UpdateRtcp

(* startGraph of a text session, at whichever graph it ends. *)
LEMMA TextStartGraph ==
    ASSUME NEW s, TextSession(s), NEW c, NEW broken
    PROVE  LET t == T!StartGraph(s, c, broken).session
           IN  /\ TextSession(t)
               /\ T!IsActive(t) => T!IsActive(s) \/ T!Serves("tx", c) \/ T!Serves("rx", c)
               /\ broken = {} /\ TextCalm(s) => TextCalm(t)
<1> DEFINE tx == T!TouchTx(s, c, broken)
           rx == T!TouchRx(s, c, broken)
           rtcp == T!TouchRtcp(s, c, broken)
           afterTx == [s EXCEPT !.tx = tx.graph]
           afterRx == [afterTx EXCEPT !.rx = rx.graph]
           after == [afterRx EXCEPT !.rtcp = rtcp.graph]
           Good(t) ==
               /\ TextSession(t)
               /\ T!IsActive(t) => T!IsActive(s) \/ T!Serves("tx", c) \/ T!Serves("rx", c)
               /\ broken = {} /\ TextCalm(s) => TextCalm(t)
<1>1. broken = {} => \A k : T!BrokenOf(k, broken) = {}
  BY DEF T!BrokenOf
<1>2. /\ IsGraph(tx.graph) /\ IsGraph(rx.graph) /\ IsGraph(rtcp.graph)
      /\ T!IsRunning(tx.graph) => T!IsRunning(s["tx"]) \/ T!Serves("tx", c)
      /\ T!IsRunning(rx.graph) => T!IsRunning(s["rx"]) \/ T!Serves("rx", c)
      /\ broken = {} /\ TextCalm(s) =>
             /\ Calm(tx.graph) /\ Calm(rx.graph) /\ Calm(rtcp.graph)
             /\ Follows(tx.graph) /\ Follows(rx.graph)
  BY <1>1, TextTouched DEF TextServed, TextCalm, T!Kind
<1> HIDE DEF tx, rx, rtcp
<1>3. Good(s)
  OBVIOUS
<1>4. Good(afterTx)
  BY <1>2 DEF TextSession, TextCalm, T!IsActive, T!Kind
<1>5. Good(afterRx)
  BY <1>2 DEF TextSession, TextCalm, T!IsActive, T!Kind
<1>6. Good(after)
  BY <1>2 DEF TextSession, TextCalm, T!IsActive, T!Kind
<1>7. T!StartGraph(s, c, broken).session \in {s, afterTx, afterRx, after}
  BY DEF T!StartGraph, tx, rx, rtcp
<1> HIDE DEF afterTx, afterRx, after
<1> QED
  BY <1>3, <1>4, <1>5, <1>6, <1>7

(* The instances count as this module does. *)
LEMMA SameCardinality ==
    \A S : T!Cardinality(S) = Cardinality(S) /\ V!Cardinality(S) = Cardinality(S)
<1>1. \A S : T!Cardinality(S) = Cardinality(S)
  BY DEF T!Cardinality, Cardinality
<1>2. \A S : V!Cardinality(S) = Cardinality(S)
  BY DEF V!Cardinality, Cardinality
<1> QED
  BY <1>1, <1>2

(* A session that was just opened has no graph. *)
LEMMA TextNewSession ==
    TextSession(T!NewSession) /\ TextCalm(T!NewSession) /\ ~T!IsActive(T!NewSession)
  BY DEF TextSession, TextCalm, T!NewSession, T!Kind, T!IsActive, T!IsRunning, T!NoGraph, Calm,
         Follows

(* A session that lost its graphs has no media; what was calm leaves no node running. *)
LEMMA TextDeactivated ==
    ASSUME NEW s, TextSession(s)
    PROVE  /\ TextSession(T!Deactivate(s)) /\ ~T!IsActive(T!Deactivate(s))
           /\ TextCalm(s) =>
                  /\ TextCalm(T!Deactivate(s))
                  /\ T!Leaked(s) = {} /\ T!LeakedByDeactivate(s) = {}
<1>1. TextSession(T!Deactivate(s)) /\ ~T!IsActive(T!Deactivate(s))
  BY DEF TextSession, T!Deactivate, T!Kind, T!IsActive, T!IsRunning, T!NoGraph
<1>2. TextCalm(s) => TextCalm(T!Deactivate(s))
  BY DEF TextSession, TextCalm, T!Deactivate, T!Kind, Calm, Follows, T!NoGraph
<1>3. TextCalm(s) => \A k \in {"tx", "rx", "rtcp"} : T!Destroyed(s[k]) = {}
  BY CalmLeavesNothing DEF TextSession, TextCalm, T!Kind
<1>4. TextCalm(s) => T!Leaked(s) = {} /\ T!LeakedByDeactivate(s) = {}
  BY <1>3 DEF T!Leaked, T!LeakedByDeactivate
<1> QED
  BY <1>1, <1>2, <1>4

TextInv ==
    /\ tSessions \subseteq TextSessions /\ IsFiniteSet(tSessions)
    /\ tFaults \in Nat /\ DOMAIN tSession = TextSessions
    /\ \A id \in TextSessions : TextSession(tSession[id])
    /\ \A id \in TextSessions \ tSessions : tSession[id] = T!NewSession
    /\ tFaults = 0 => tLeaked = {} /\ \A id \in TextSessions : TextCalm(tSession[id])

\* A failed start is counted, so a count that stays or is zero means that none failed.
LEMMA FaultsCounted ==
    ASSUME NEW n \in Nat, NEW F \in T!FaultSets \cup V!FaultSets
    PROVE  /\ n + Cardinality(F) \in Nat
           /\ n + Cardinality(F) = 0 => n = 0 /\ F = {}
           /\ n + Cardinality(F) = n => F = {}
<1>1. F = {} \/ \E p : F = {p}
  BY DEF T!FaultSets, V!FaultSets
<1>2. CASE F = {}
  BY <1>2, FS_EmptySet
<1>3. CASE F # {}
  <2>1. PICK p : F = {p}
    BY <1>1, <1>3
  <2>2. Cardinality(F) = 1
    BY <2>1, FS_Singleton
  <2> QED
    BY <1>3, <2>2
<1> QED
  BY <1>2, <1>3

\* A step in which one session is served, after another may have lost its media.
LEMMA StepTextInv == TextInv /\ [T!Next]_T!vars => TextInv'
<1> SUFFICES ASSUME TextInv, [T!Next]_T!vars PROVE TextInv'
  OBVIOUS
<1>1. ASSUME NEW id \in TextSessions, T!CloseSession(id) PROVE TextInv'
  <2>1. tSession' = [tSession EXCEPT ![id] = T!NewSession] /\ tFaults' = tFaults
        /\ tLeaked' = tLeaked \cup T!Leaked(tSession[id]) /\ tSessions' = tSessions \ {id}
    BY <1>1 DEF T!CloseSession
  <2>2. IsFiniteSet(tSessions')
    BY <2>1, FS_Subset DEF TextInv
  <2>3. tFaults = 0 => T!Leaked(tSession[id]) = {}
    BY TextDeactivated DEF TextInv
  <2> QED
    BY <2>1, <2>2, <2>3, TextNewSession DEF TextInv
<1>2. ASSUME NEW id \in TextSessions, NEW c, T!OpenSession(id, c) PROVE TextInv'
  <2>1. PICK F \in T!FaultSets :
            /\ tFaults' = tFaults + Cardinality(F)
            /\ tSession' = [tSession EXCEPT ![id] = T!StartGraph(T!NewSession, c, F).session]
    BY <1>2, SameCardinality DEF T!OpenSession
  <2>2. tSessions' = tSessions \cup {id} /\ tLeaked' = tLeaked
    BY <1>2 DEF T!OpenSession
  <2>3. IsFiniteSet(tSessions')
    BY <2>2, FS_AddElement DEF TextInv
  <2>4. tFaults' \in Nat /\ (tFaults' = 0 => tFaults = 0 /\ F = {})
    BY <2>1, FaultsCounted DEF TextInv
  <2> DEFINE t == T!StartGraph(T!NewSession, c, F).session
  <2>5. TextSession(t) /\ (F = {} => TextCalm(t))
    BY TextNewSession, TextStartGraph
  <2> HIDE DEF t
  <2> QED
    BY <2>1, <2>2, <2>3, <2>4, <2>5 DEF TextInv, t
<1>3. ASSUME NEW id \in TextSessions, NEW c, T!ModifySession(id, c) PROVE TextInv'
  <2>1. PICK F \in T!FaultSets, o \in {id} \cup T!ActiveOthers(id) :
            LET outcome == T!StartGraph(tSession[id], c, F)
                others == IF o = id THEN tSession
                          ELSE [tSession EXCEPT ![o] = T!Deactivate(@)]
            IN  /\ tFaults' = tFaults + Cardinality(F)
                /\ tSession' = [others EXCEPT ![id] = outcome.session]
                /\ tLeaked' = tLeaked \cup (IF o = id THEN {}
                                            ELSE T!LeakedByDeactivate(tSession[o]))
    BY <1>3, SameCardinality DEF T!ModifySession, T!Deactivated
  <2>2. tSessions' = tSessions /\ id \in tSessions
    BY <1>3 DEF T!ModifySession
  <2>3. tFaults' \in Nat /\ (tFaults' = 0 => tFaults = 0 /\ F = {})
    BY <2>1, FaultsCounted DEF TextInv
  <2> DEFINE t == T!StartGraph(tSession[id], c, F).session
             others == IF o = id THEN tSession ELSE [tSession EXCEPT ![o] = T!Deactivate(@)]
  <2>4. TextSession(t) /\ (F = {} /\ TextCalm(tSession[id]) => TextCalm(t))
    BY TextStartGraph DEF TextInv
  <2>5. o \in TextSessions /\ o \in tSessions
    BY <2>1, <2>2 DEF T!ActiveOthers, TextInv
  <2>6. /\ DOMAIN others = TextSessions
        /\ \A p \in TextSessions : TextSession(others[p])
        /\ \A p \in TextSessions \ tSessions : others[p] = T!NewSession
        /\ tFaults = 0 => \A p \in TextSessions : TextCalm(others[p])
    BY <2>5, TextDeactivated DEF TextInv
  <2>7. tFaults' = 0 => tLeaked' = {}
    BY <2>1, <2>3, <2>5, TextDeactivated DEF TextInv
  <2>8. tSession' = [others EXCEPT ![id] = t]
    BY <2>1
  <2> HIDE DEF t, others
  <2> QED
    BY <2>2, <2>3, <2>4, <2>6, <2>7, <2>8 DEF TextInv
<1>4. ASSUME NEW id \in TextSessions, NEW op, T!SendRttToSession(id) \/ T!Reject(op, id)
      PROVE  TextInv'
  BY <1>4 DEF T!SendRttToSession, T!Reject, TextInv
<1>5. CASE UNCHANGED T!vars
  BY <1>5 DEF T!vars, TextInv
<1> QED
  BY <1>1, <1>2, <1>3, <1>4, <1>5 DEF T!Next

(* The invariant of the text sessions. *)
LEMMA TextInvariance == T!Spec => []TextInv
<1>1. T!Init => TextInv
  BY TextNewSession, FS_EmptySet DEF T!Init, TextInv
<1> QED
  BY <1>1, StepTextInv, PTL DEF T!Spec

\* A set of talkers that gained at most the served session, and lost another one for it.
LEMMA NoMoreTalkers ==
    ASSUME NEW A, IsFiniteSet(A), NEW id, NEW B,
           B \subseteq A \/ B \subseteq {id} \/ \E o \in A \ {id} : B \subseteq (A \ {o}) \cup {id}
    PROVE  Cardinality(B) <= 1 \/ Cardinality(B) <= Cardinality(A)
<1>1. CASE B \subseteq A
  BY <1>1, FS_Subset
<1>2. CASE B \subseteq {id}
  <2>1. IsFiniteSet({id}) /\ Cardinality({id}) = 1
    BY FS_Singleton
  <2>2. Cardinality(B) <= Cardinality({id})
    BY <1>2, <2>1, FS_Subset
  <2> QED
    BY <2>1, <2>2
<1>3. ASSUME NEW o \in A \ {id}, B \subseteq (A \ {o}) \cup {id}
      PROVE  Cardinality(B) <= Cardinality(A)
  <2>1. IsFiniteSet(A \ {o}) /\ Cardinality(A \ {o}) = Cardinality(A) - 1
    BY <1>3, FS_RemoveElement
  <2>2. /\ IsFiniteSet((A \ {o}) \cup {id})
        /\ Cardinality((A \ {o}) \cup {id}) \in {Cardinality(A \ {o}), Cardinality(A \ {o}) + 1}
    BY <2>1, FS_AddElement
  <2>3. Cardinality(B) <= Cardinality((A \ {o}) \cup {id})
    BY <1>3, <2>2, FS_Subset
  <2>4. Cardinality(A) \in Nat /\ Cardinality(B) \in Nat
    BY <1>3, <2>2, FS_Subset, FS_CardinalityType
  <2> QED
    BY <2>1, <2>2, <2>3, <2>4
<1> QED
  BY <1>1, <1>2, <1>3

TextTalking(ss) == {id \in TextSessions : T!IsActive(ss[id])}

(* modifySession starts media in one session and takes them from another one. *)
LEMMA TextModifyAddsNoTalker ==
    ASSUME TextInv, NEW id \in TextSessions, NEW c, T!ModifySession(id, c)
    PROVE  \/ Cardinality(TextTalking(tSession')) <= 1
           \/ Cardinality(TextTalking(tSession')) <= Cardinality(TextTalking(tSession))
<1> DEFINE A == TextTalking(tSession)
           B == TextTalking(tSession')
<1>1. IsFiniteSet(A) /\ A \subseteq tSessions
  <2>1. A \subseteq tSessions
    BY TextNewSession DEF TextTalking, TextInv
  <2> QED
    BY <2>1, FS_Subset DEF TextInv
<1>2. PICK F \in T!FaultSets,
           o \in IF T!Serves("tx", c) \/ T!Serves("rx", c) THEN T!Deactivated(id) ELSE {id} :
          LET others == IF o = id THEN tSession ELSE [tSession EXCEPT ![o] = T!Deactivate(@)]
          IN  tSession' = [others EXCEPT ![id] = T!StartGraph(tSession[id], c, F).session]
  BY DEF T!ModifySession
<1> DEFINE t == T!StartGraph(tSession[id], c, F).session
<1>3. T!IsActive(t) => T!IsActive(tSession[id]) \/ T!Serves("tx", c) \/ T!Serves("rx", c)
  BY TextStartGraph DEF TextInv
<1> HIDE DEF t
<1>4. CASE o = id
  <2>1. tSession' = [tSession EXCEPT ![id] = t]
    BY <1>2, <1>4 DEF t
  <2>2. B \subseteq A \cup {id}
    BY <2>1 DEF TextTalking, TextInv
  <2>3. CASE T!Serves("tx", c) \/ T!Serves("rx", c)
    <3>1. T!ActiveOthers(id) = {}
      BY <1>2, <1>4, <2>3 DEF T!Deactivated, T!ActiveOthers
    <3>2. A \subseteq {id}
      BY <1>1, <3>1 DEF T!ActiveOthers, TextTalking
    <3> QED
      BY <1>1, <2>2, <3>2, NoMoreTalkers
  <2>4. CASE ~T!Serves("tx", c) /\ ~T!Serves("rx", c)
    <3>1. B \subseteq A
      BY <1>3, <2>1, <2>4 DEF TextTalking, TextInv
    <3> QED
      BY <1>1, <3>1, NoMoreTalkers
  <2> QED
    BY <2>3, <2>4
<1>5. CASE o # id
  <2>1. tSession' = [[tSession EXCEPT ![o] = T!Deactivate(@)] EXCEPT ![id] = t]
    BY <1>2, <1>5 DEF t
  <2>2. o \in T!ActiveOthers(id)
    BY <1>2, <1>5 DEF T!Deactivated
  <2>3. o \in A \ {id} /\ o \in TextSessions
    BY <2>2 DEF T!ActiveOthers, TextTalking, TextInv
  <2>4. ~T!IsActive(T!Deactivate(tSession[o]))
    BY <2>3, TextDeactivated DEF TextInv
  <2>5. B \subseteq (A \ {o}) \cup {id}
    BY <1>5, <2>1, <2>3, <2>4 DEF TextTalking, TextInv
  <2> QED
    BY <1>1, <2>3, <2>5, NoMoreTalkers
<1> QED
  BY <1>4, <1>5

(* The same for each step of the text manager. *)
LEMMA TextOneTalker == T!Spec => T!ModifyAddsNoTalker
<1>1. ASSUME TextInv, T!Next, tServed'.op = "modify"
      PROVE  \/ T!Cardinality(TextTalking(tSession')) <= 1
             \/ T!Cardinality(TextTalking(tSession')) <= T!Cardinality(TextTalking(tSession))
  <2>1. CASE tSession' = tSession
    <3>1. TextTalking(tSession) \subseteq tSessions
      BY <1>1, TextNewSession DEF TextTalking, TextInv
    <3>2. IsFiniteSet(TextTalking(tSession))
      BY <1>1, <3>1, FS_Subset DEF TextInv
    <3>3. \/ Cardinality(TextTalking(tSession')) <= 1
          \/ Cardinality(TextTalking(tSession')) <= Cardinality(TextTalking(tSession))
      BY <2>1, <3>2, NoMoreTalkers DEF TextTalking
    <3> QED
      BY <3>3, SameCardinality
  <2>2. CASE tSession' # tSession
    <3>1. PICK id \in TextSessions, c \in TextConfigs : T!ModifySession(id, c)
      BY <1>1, <2>2 DEF T!Next, T!CloseSession, T!SendRttToSession, T!Reject, T!OpenSession,
                        T!Answer
    <3> QED
      BY <1>1, <3>1, TextModifyAddsNoTalker, SameCardinality
  <2> QED
    BY <2>1, <2>2
<1>2. TextInv /\ [T!Next]_T!vars =>
        [ tServed'.op = "modify" =>
            LET Talking(ss) == {id \in TextSessions : T!IsActive(ss[id])}
            IN  \/ T!Cardinality(Talking(tSession')) <= 1
                \/ T!Cardinality(Talking(tSession')) <= T!Cardinality(Talking(tSession)) ]_T!vars
  BY <1>1 DEF TextTalking
<1> QED
  BY <1>2, TextInvariance, PTL DEF T!Spec, T!ModifyAddsNoTalker

----------------------------------------------------------------------------
(* The video sessions. *)

\* What a successful start or update for c makes of graph old: h has c and runs or waits
\* for its surface, unless old was taken for up to date.
Asked(k, h, c, old) ==
    /\ h.config = c
    /\ V!Serves(k, c) /\ h.state = "created" =>
           old # T!NoGraph /\ old.config = c /\ ~V!IsRunning(old)

\* Nodes of a sender run only for a preview or a direction that sends.
TxOff(g) == g = T!NoGraph \/ g.started = 0 \/ V!InPreview(g.config) \/ V!Serves("tx", g.config)

\* What becomes of a video graph that is started or updated for configuration c.
VideoServed(k, r, old, c, broken) ==
    /\ IsGraph(r.graph)
    /\ ~r.ok => ~V!Waits(r.graph)
    /\ k = "tx" => TxOff(r.graph)
    /\ broken = {} /\ Calm(old) /\ Follows(old) => Calm(r.graph) /\ Follows(r.graph)
    /\ broken = {} /\ r.ok => Asked(k, r.graph, c, old)

(* update() of a running sender of video, which ends with the first error. *)
LEMMA UpdatedUpToError ==
    ASSUME NEW g, IsGraph(g), NEW c, NEW broken
    PROVE  LET r == V!UpdateUpToError(g, c, broken)
           IN  /\ IsGraph(r.graph) /\ Same(g, r.graph, {"state", "started"})
               /\ broken = {} => Told(r.graph, c) /\ r.ok
<1>1. LET r == T!UpdateStarted(g, c, broken)
      IN  /\ IsGraph(r.graph) /\ Same(g, r.graph, {"state", "started"}) /\ Told(r.graph, c)
          /\ broken = {} => r.ok
  BY GraphUpdated
<1>2. V!UpdateStarted(g, c, broken) = T!UpdateStarted(g, c, broken)
  BY SameOperations
<1>3. broken = {} => V!FailsAgain(g, c, broken) = {}
  BY DEF V!FailsAgain
<1> DEFINE failing == V!FailsAgain(g, c, broken)
           last == CHOOSE i \in failing : \A j \in failing : j <= i
           h == [g EXCEPT !.seen = [i \in DOMAIN g.nodes |->
                                       IF i >= last THEN V!UpdateConfig(g.nodes[i], @[i], c) ELSE @[i]],
                          !.dead = @ \cup {g.nodes[last], "Scheduler"}]
<1>4. IsGraph(h) /\ Same(g, h, {"state", "started"})
  <2> HIDE DEF last
  <2> QED
    BY DEF IsGraph, Same
<1>5. V!UpdateUpToError(g, c, broken) \in {T!UpdateStarted(g, c, broken), V!Done(h, FALSE)}
  BY <1>2 DEF V!UpdateUpToError
<1>6. broken = {} => V!UpdateUpToError(g, c, broken) = T!UpdateStarted(g, c, broken)
  BY <1>2, <1>3 DEF V!UpdateUpToError
<1> HIDE DEF h
<1> QED
  BY <1>1, <1>4, <1>5, <1>6 DEF V!Done

(* start() of a video graph that has told its nodes. *)
LEMMA VideoStarted ==
    ASSUME NEW k, NEW old, NEW g, IsGraph(g), g.state = "created", k = "tx" => TxOff(g), NEW broken,
           broken = {} /\ Calm(old) /\ Follows(old) => Calm(g) /\ Told(g, g.config)
    PROVE  VideoServed(k, V!StartMedia(k, g, broken), old, g.config, broken)
<1> DEFINE c == g.config
           w == [g EXCEPT !.state = "wait"]
           serves == V!Serves(k, c) \/ (k = "tx" /\ V!InPreview(c))
<1>1. CASE ~serves
  <2>1. V!StartMedia(k, g, broken) = V!Done(g, TRUE)
    BY <1>1 DEF V!StartMedia
  <2> QED
    BY <1>1, <2>1 DEF VideoServed, V!Done, Follows, Asked
<1>2. CASE serves /\ V!NeedsSurface(k, c) /\ ~g.surface
  <2>1. V!StartMedia(k, g, broken) = V!Done(w, TRUE)
    BY <1>2 DEF V!StartMedia
  <2>2. IsGraph(w) /\ Same(g, w, {"seen", "started"}) /\ w.state = "wait"
    BY DEF IsGraph, Same
  <2> HIDE DEF w
  <2>3. broken = {} /\ Calm(old) /\ Follows(old) => Calm(w) /\ Follows(w)
    <3> SUFFICES ASSUME broken = {}, Calm(old), Follows(old) PROVE Calm(w) /\ Follows(w)
      OBVIOUS
    <3>1. g # T!NoGraph
      BY DEF T!NoGraph
    <3>2. g.started = 0 /\ Told(g, g.config)
      BY <3>1 DEF Calm
    <3> QED
      BY <2>2, <3>2 DEF Calm, Follows, Told, Same
  <2>4. TxOff(g) => TxOff(w)
    BY <2>2 DEF TxOff, Same, T!NoGraph
  <2> QED
    BY <2>1, <2>2, <2>3, <2>4 DEF VideoServed, V!Done, Asked, Same
<1>3. CASE serves /\ ~(V!NeedsSurface(k, c) /\ ~g.surface)
  <2> DEFINE r == T!StartRtp(g, broken)
  <2>1. V!StartMedia(k, g, broken) = r
    BY <1>3, SameOperations DEF V!StartMedia
  <2>2. /\ IsGraph(r.graph) /\ Same(g, r.graph, {"seen"})
        /\ r.graph.state = IF r.ok THEN "running" ELSE "created"
        /\ broken = {} => r.ok
    BY GraphStarted
  <2> HIDE DEF r
  <2>3. broken = {} /\ Calm(old) /\ Follows(old) => Calm(r.graph) /\ Follows(r.graph)
    BY <2>2 DEF Calm, Follows, Told, Same
  <2>4. k = "tx" => TxOff(r.graph)
    BY <1>3, <2>2 DEF TxOff, Same
  <2> QED
    BY <2>1, <2>2, <2>3, <2>4 DEF VideoServed, Asked, Same, V!Waits
<1> QED
  BY <1>1, <1>2, <1>3

(* A graph that is created for c, and started if it serves c. *)
LEMMA VideoCreated ==
    ASSUME NEW k, NEW old, NEW nodes \in NodeList, NEW c, NEW broken
    PROVE  LET g == T!Created(nodes, c)
           IN  /\ VideoServed(k, V!StartMedia(k, g, broken), old, c, broken)
               /\ ~V!Serves(k, c) => VideoServed(k, V!Done(g, TRUE), old, c, broken)
<1> DEFINE g == T!Created(nodes, c)
<1>1. IsGraph(g) /\ g.state = "created" /\ g.started = 0 /\ g.config = c /\ Told(g, c)
  BY NewGraph
<1> HIDE DEF g
<1>2. Calm(g) /\ Follows(g) /\ TxOff(g)
  BY <1>1 DEF Calm, Follows, TxOff
<1>3. VideoServed(k, V!StartMedia(k, g, broken), old, g.config, broken)
  BY <1>1, <1>2, VideoStarted
<1>4. ~V!Serves(k, c) => VideoServed(k, V!Done(g, TRUE), old, c, broken)
  BY <1>1, <1>2 DEF VideoServed, V!Done, Asked
<1> QED
  BY <1>1, <1>3, <1>4 DEF g

(* A graph that leaves its wait for the surface, and what it goes on with. *)
LEMMA VideoResumed ==
    ASSUME NEW g, IsGraph(g), NEW c
    PROVE  LET h == V!Resumed(g, c)
               u == T!UpdateToStart(h, c).graph
           IN  /\ IsGraph(h) /\ h.config = c /\ h.started = g.started /\ h.state # "wait"
               /\ V!IsRunning(h) <=> V!IsRunning(g)
               /\ IsGraph(u) /\ u.config = c /\ u.state = h.state /\ u.started = g.started
               /\ ~V!IsRunning(h) /\ Calm(g) => Calm(u) /\ Told(u, u.config)
<1> DEFINE h == V!Resumed(g, c)
           u == T!UpdateToStart(h, c).graph
<1>1. /\ IsGraph(h) /\ h.config = c /\ h.started = g.started /\ h.state # "wait"
      /\ V!IsRunning(h) <=> V!IsRunning(g)
  BY DEF IsGraph, V!Resumed, V!IsRunning
<1> HIDE DEF h
<1>2. /\ IsGraph(u) /\ Same(h, u, {"state", "started"}) /\ (h.started = 0 => Told(u, c))
  BY <1>1, GraphUpdatedToStart
<1> HIDE DEF u
<1>3. g # T!NoGraph
  BY DEF IsGraph, T!NoGraph
<1>4. ~V!IsRunning(h) /\ Calm(g) => Calm(u) /\ Told(u, u.config)
  BY <1>1, <1>2, <1>3 DEF Calm, Same, V!IsRunning
<1> QED
  BY <1>1, <1>2, <1>4 DEF Same, h, u

(* A graph that is put on hold. *)
LEMMA VideoStopped ==
    ASSUME NEW k, NEW g, IsGraph(g), NEW h, IsGraph(h), NEW broken, ~V!Serves(k, h.config)
    PROVE  VideoServed(k, V!Done(V!Stop(h), TRUE), g, h.config, broken)
<1>1. LET s == V!Stop(h)
      IN  IsGraph(s) /\ s.state = "created" /\ s.started = 0 /\ Same(h, s, {"seen"})
  BY GraphStopped, SameOperations
<1> QED
  BY <1>1 DEF VideoServed, V!Done, Calm, Follows, Asked, TxOff, Same

(* A running graph that is updated and goes on. *)
LEMMA VideoUpdatedRunning ==
    ASSUME NEW k, NEW g, IsGraph(g), NEW h, IsGraph(h), V!IsRunning(h), NEW broken,
           V!Serves(k, h.config)
    PROVE  /\ VideoServed(k, V!UpdateStarted(h, h.config, broken), g, h.config, broken)
           /\ VideoServed(k, V!UpdateUpToError(h, h.config, broken), g, h.config, broken)
<1> DEFINE c == h.config
<1>1. ASSUME NEW r, IsGraph(r.graph), Same(h, r.graph, {"state", "started"}),
             broken = {} => Told(r.graph, c)
      PROVE  VideoServed(k, r, g, c, broken)
  BY <1>1 DEF VideoServed, V!IsRunning, V!Waits, Calm, Follows, Asked, TxOff, Same
<1>2. LET r == V!UpdateStarted(h, c, broken)
      IN  /\ IsGraph(r.graph) /\ Same(h, r.graph, {"state", "started"})
          /\ broken = {} => Told(r.graph, c)
  BY GraphUpdated, SameOperations
<1>3. LET r == V!UpdateUpToError(h, c, broken)
      IN  /\ IsGraph(r.graph) /\ Same(h, r.graph, {"state", "started"})
          /\ broken = {} => Told(r.graph, c)
  BY UpdatedUpToError
<1> QED
  BY <1>1, <1>2, <1>3

(* update() of the sender and of the receiver, whatever state they are in. *)
LEMMA VideoUpdated ==
    ASSUME NEW g, IsGraph(g), NEW c, NEW broken
    PROVE  /\ TxOff(g) =>
                  VideoServed("tx", V!UpdateTx(g, c, broken), g, c, broken)
           /\ VideoServed("rx", V!UpdateRx(g, c, broken), g, c, broken)
<1> DEFINE h == V!Resumed(g, c)
           u == T!UpdateToStart(h, c).graph
           w == V!WaitForSurface(h, c)
<1>1. /\ IsGraph(h) /\ h.config = c /\ h.started = g.started /\ h.state # "wait"
      /\ V!IsRunning(h) <=> V!IsRunning(g)
      /\ IsGraph(u) /\ u.config = c /\ u.state = h.state /\ u.started = g.started
      /\ ~V!IsRunning(h) /\ Calm(g) => Calm(u) /\ Told(u, u.config)
  BY VideoResumed
<1>2. V!UpdateToStart(h, c) = T!UpdateToStart(h, c)
  BY SameOperations
<1>3. g # T!NoGraph /\ g.state \in {"created", "wait", "running"}
  BY DEF IsGraph, T!NoGraph
<1>4. g.config = c => /\ TxOff(g) => VideoServed("tx", V!Done(g, TRUE), g, c, broken)
                      /\ VideoServed("rx", V!Done(g, TRUE), g, c, broken)
  BY <1>3 DEF VideoServed, V!Done, Asked, V!IsRunning
<1>5. VideoServed("tx", V!SwitchMode(c, broken), g, c, broken)
  <2>1. V!PreviewNodes \in NodeList /\ V!TxNodes \in NodeList
    <3>1. <<>> \in NodeList
      BY DEF NodeList
    <3>2. V!PreviewNodes \in NodeList
      BY <3>1, AddedNodes DEF V!PreviewNodes, Node
    <3> QED
      BY <3>2, AddedNodes DEF V!TxNodes, Node
  <2>2. \E nodes \in NodeList : V!CreateTx(c) = T!Created(nodes, c)
    BY <2>1, SameOperations DEF V!CreateTx
  <2> QED
    BY <2>2, VideoCreated DEF V!SwitchMode
<1>6. \A k : ~V!Serves(k, c) => VideoServed(k, V!Done(V!Stop(h), TRUE), g, c, broken)
  BY <1>1, VideoStopped
<1>7. V!Serves("tx", c) => VideoServed("tx", V!Done(w, TRUE), g, c, broken)
  <2> DEFINE p == IF V!IsRunning(h) THEN V!Stop(h) ELSE h
             v == T!UpdateToStart(p, c).graph
  <2>1. IsGraph(p) /\ p.config = c /\ (Calm(g) => p.started = 0)
    <3>1. IsGraph(V!Stop(h)) /\ V!Stop(h).started = 0 /\ V!Stop(h).config = c
      BY <1>1, GraphStopped, SameOperations DEF Same
    <3>2. ~V!IsRunning(h) /\ Calm(g) => h.started = 0
      BY <1>1, <1>3 DEF Calm, V!IsRunning
    <3> QED
      BY <1>1, <3>1, <3>2
  <2>2. w = [v EXCEPT !.state = "wait"]
    BY SameOperations DEF V!WaitForSurface
  <2> HIDE DEF p
  <2>3. IsGraph(v) /\ Same(p, v, {"state", "started"}) /\ (p.started = 0 => Told(v, c))
    BY <2>1, GraphUpdatedToStart
  <2> HIDE DEF v
  <2>4. IsGraph(w) /\ w.state = "wait" /\ Same(v, w, {"seen", "started"})
    BY <2>2, <2>3 DEF IsGraph, Same
  <2> HIDE DEF w
  <2>5. w.config = c /\ (Calm(g) => w.started = 0 /\ Told(w, c))
    BY <2>1, <2>3, <2>4 DEF Same, Told
  <2> QED
    BY <2>4, <2>5 DEF VideoServed, V!Done, Calm, Follows, Asked, TxOff
<1>8. \A k : V!Serves(k, c) /\ V!IsRunning(h) =>
          /\ VideoServed(k, V!UpdateStarted(h, c, broken), g, c, broken)
          /\ VideoServed(k, V!UpdateUpToError(h, c, broken), g, c, broken)
  BY <1>1, VideoUpdatedRunning
<1>9. ASSUME ~V!IsRunning(h), NEW k, V!Serves(k, c)
      PROVE  VideoServed(k, V!StartMedia(k, u, broken), g, c, broken)
  <2>1. u.state = "created"
    BY <1>1, <1>9 DEF IsGraph, V!IsRunning
  <2>2. k = "tx" => TxOff(u)
    BY <1>1, <1>9 DEF TxOff
  <2>3. VideoServed(k, V!StartMedia(k, u, broken), g, u.config, broken)
    BY <1>1, <1>9, <2>1, <2>2, VideoStarted
  <2> QED
    BY <1>1, <2>3
<1>10. ASSUME ~V!IsRunning(h), ~T!UpdateToStart(h, c).ok, V!Serves("tx", c)
       PROVE  VideoServed("tx", T!UpdateToStart(h, c), g, c, broken)
  <2>1. u.state = "created"
    BY <1>1, <1>10 DEF IsGraph, V!IsRunning
  <2> QED
    BY <1>1, <1>10, <2>1 DEF VideoServed, V!Waits, Follows, TxOff
<1> HIDE DEF h, w
<1>11. TxOff(g) => VideoServed("tx", V!UpdateTx(g, c, broken), g, c, broken)
  BY <1>2, <1>4, <1>5, <1>6, <1>7, <1>8, <1>9, <1>10 DEF V!UpdateTx, h, w
<1>12. VideoServed("rx", V!UpdateRx(g, c, broken), g, c, broken)
  BY <1>2, <1>4, <1>6, <1>8, <1>9 DEF V!UpdateRx, h
<1> QED
  BY <1>11, <1>12

(* A surface takes a graph out of its wait, and leaves it otherwise as it was. *)
LEMMA VideoSurface ==
    ASSUME NEW k, NEW g, IsGraph(g), k = "tx" => TxOff(g), NEW broken
    PROVE  LET h == V!SetSurface(k, g, broken)
           IN  /\ IsGraph(h) /\ ~V!Waits(h)
               /\ k = "tx" => TxOff(h)
               /\ broken = {} /\ Calm(g) /\ Follows(g) => Calm(h) /\ Follows(h)
               /\ \A c, old : broken = {} /\ Asked(k, g, c, old) => Asked(k, h, c, old)
<1> DEFINE h == V!SetSurface(k, g, broken)
           s == [g EXCEPT !.surface = TRUE]
           u == [s EXCEPT !.state = "created"]
           r == V!StartMedia(k, u, broken)
<1>1. g # T!NoGraph
  BY DEF IsGraph, T!NoGraph
<1>2. CASE g.state # "wait"
  <2>1. h = s
    BY <1>2 DEF V!SetSurface
  <2>2. IsGraph(s) /\ s.state = g.state /\ s.started = g.started /\ s.config = g.config
        /\ s.seen = g.seen /\ s.nodes = g.nodes
    BY DEF IsGraph
  <2> HIDE DEF h, s
  <2>3. ~V!Waits(s) /\ (TxOff(g) => TxOff(s))
    BY <1>1, <1>2, <2>2 DEF V!Waits, TxOff
  <2>4. Calm(g) /\ Follows(g) => Calm(s) /\ Follows(s)
    BY <1>1, <2>2 DEF Calm, Follows, Told
  <2>5. \A c, old : Asked(k, g, c, old) => Asked(k, s, c, old)
    BY <2>2 DEF Asked
  <2> QED
    BY <2>1, <2>2, <2>3, <2>4, <2>5 DEF h
<1>3. CASE g.state = "wait"
  <2>1. h = r.graph
    BY <1>3 DEF V!SetSurface
  <2>2. /\ IsGraph(u) /\ u.state = "created" /\ u.started = g.started /\ u.config = g.config
        /\ u.seen = g.seen /\ u.nodes = g.nodes /\ u.surface
    BY DEF IsGraph
  <2> HIDE DEF u
  <2>3. k = "tx" => TxOff(u)
    BY <1>1, <2>2 DEF TxOff
  <2>4. Calm(g) /\ Follows(g) => Calm(u) /\ Told(u, u.config)
    BY <1>1, <1>3, <2>2 DEF Calm, Follows, Told
  <2>5. VideoServed(k, r, g, u.config, broken)
    BY <2>2, <2>3, <2>4, VideoStarted
  <2>6. /\ ~V!Waits(r.graph) /\ r.graph.config = g.config
        /\ V!Serves(k, g.config) /\ broken = {} => r.graph.state = "running"
    <3>1. \/ ~V!Serves(k, g.config) /\ r = V!Done(u, TRUE)
          \/ r = T!StartRtp(u, broken)
      BY <2>2, SameOperations DEF V!StartMedia
    <3>2. LET t == T!StartRtp(u, broken).graph
          IN  /\ t.state \in {"running", "created"} /\ t.config = u.config
              /\ broken = {} => t.state = "running"
      BY <2>2 DEF IsGraph, T!StartRtp, T!StartNodes, T!Done
    <3> HIDE DEF r
    <3> QED
      BY <2>2, <3>1, <3>2 DEF V!Done, V!Waits
  <2> HIDE DEF r, h
  <2>7. \A c, old : broken = {} /\ Asked(k, g, c, old) => Asked(k, r.graph, c, old)
    BY <2>6 DEF Asked
  <2> QED
    BY <2>1, <2>5, <2>6, <2>7 DEF VideoServed, h
<1> QED
  BY <1>2, <1>3

(* update() of the RTCP graph. *)
LEMMA VideoControl ==
    ASSUME NEW g, IsGraph(g), NEW c, NEW broken
    PROVE  LET r == V!UpdateRtcp(g, c, broken)
           IN  /\ IsGraph(r.graph)
               /\ broken = {} /\ Calm(g) => Calm(r.graph)
               /\ broken = {} /\ r.ok => Asked("rtcp", r.graph, c, g)
<1> DEFINE h == [g EXCEPT !.config = c]
<1>1. IsGraph(h) /\ h.config = c /\ h.state = g.state /\ h.started = g.started
  BY Reconfigured
<1>2. g # T!NoGraph /\ g.state \in {"created", "wait", "running"}
  BY DEF IsGraph, T!NoGraph
<1> HIDE DEF h
<1>3. g.config = c => Asked("rtcp", V!Done(g, TRUE).graph, c, g)
  BY <1>2 DEF Asked, V!Done, V!IsRunning
<1>4. ~V!Serves("rtcp", c) => Asked("rtcp", V!Done(V!Stop(h), TRUE).graph, c, g)
  BY <1>1, GraphStopped, SameOperations DEF Asked, V!Done, Same
<1>5. V!IsRunning(h) => Asked("rtcp", V!UpdateStarted(h, c, broken).graph, c, g)
  <2>1. V!IsRunning(h) => LET u == T!UpdateStarted(h, c, broken).graph
                          IN  u.config = c /\ u.state = "running"
    BY <1>1, GraphUpdated DEF Same, V!IsRunning
  <2> QED
    BY <2>1, SameOperations DEF Asked
<1>6. broken = {} => Asked("rtcp", V!Start(h, broken).graph, c, g)
  BY <1>1, GraphStarted, SameOperations DEF Asked, Same
<1>7. broken = {} => Asked("rtcp", V!UpdateRtcp(g, c, broken).graph, c, g)
  BY <1>3, <1>4, <1>5, <1>6 DEF V!UpdateRtcp, V!UpdateControl, h
<1>8. V!UpdateRtcp(g, c, broken) = T!UpdateControl(g, c, broken)
  BY SameOperations DEF V!UpdateRtcp
<1> QED
  BY <1>7, <1>8, ControlUpdated

(* The RTCP graph of a session that has none. *)
LEMMA VideoControlCreated ==
    ASSUME NEW c, NEW broken
    PROVE  LET r == V!StartRtcp(V!CreateRtcp(c), broken)
           IN  /\ IsGraph(r.graph)
               /\ broken = {} => Calm(r.graph)
               /\ broken = {} => Asked("rtcp", r.graph, c, T!NoGraph)
<1>1. V!RtcpNodes \in NodeList
  <2>1. <<>> \in NodeList
    BY DEF NodeList
  <2>2. V!AddNode("RtcpEncoder", <<>>) \in NodeList
    BY <2>1, AddedNodes DEF Node
  <2>3. V!AddNode("SocketWriter", V!AddNode("RtcpEncoder", <<>>)) \in NodeList
    BY <2>2, AddedNodes DEF Node
  <2>4. V!AddNode("SocketReader", V!AddNode("SocketWriter", V!AddNode("RtcpEncoder", <<>>)))
            \in NodeList
    BY <2>3, AddedNodes DEF Node
  <2> QED
    BY <2>4, AddedNodes DEF V!RtcpNodes, Node
<1> DEFINE g == V!CreateRtcp(c)
<1>2. IsGraph(g) /\ g.state = "created" /\ g.started = 0 /\ g.config = c
  BY <1>1, NewGraph, SameOperations DEF V!CreateRtcp
<1> HIDE DEF g
<1>3. LET r == V!Start(g, broken)
      IN  /\ IsGraph(r.graph) /\ r.graph.config = c
          /\ broken = {} => r.graph.state = "running"
  BY <1>2, GraphStarted, SameOperations DEF Same
<1>4. LET r == V!StartRtcp(g, broken)
      IN  /\ IsGraph(r.graph)
          /\ broken = {} => Calm(r.graph)
          /\ broken = {} => Asked("rtcp", r.graph, c, T!NoGraph)
  BY <1>2, <1>3 DEF V!StartRtcp, V!Done, Calm, Asked
<1> QED
  BY <1>4 DEF g

----------------------------------------------------------------------------
\* A video session as the requests leave it: no graph waits for a surface it could have.
VideoSession(s) ==
    /\ DOMAIN s = {"tx", "rx", "rtcp", "preview", "display"}
    /\ s["preview"] \in BOOLEAN /\ s["display"] \in BOOLEAN
    /\ \A k \in {"tx", "rx", "rtcp"} : s[k] = T!NoGraph \/ IsGraph(s[k])
    /\ TxOff(s["tx"])
    /\ V!Waits(s["tx"]) => ~s["preview"]
    /\ V!Waits(s["rx"]) => ~s["display"]

\* As long as nothing failed to start.
VideoCalm(s) ==
    /\ \A k \in {"tx", "rx", "rtcp"} : Calm(s[k])
    /\ Follows(s["tx"]) /\ Follows(s["rx"])

(* The graphs a request for c creates and starts, or updates. *)
LEMMA VideoTouched ==
    ASSUME NEW s, VideoSession(s), NEW c, NEW broken
    PROVE  /\ VideoServed("tx", V!TouchTx(s, c, broken), s["tx"], c, V!BrokenOf("tx", broken))
           /\ VideoServed("rx", V!TouchRx(s, c, broken), s["rx"], c, V!BrokenOf("rx", broken))
           /\ LET r == V!TouchRtcp(s, c, broken)
              IN  /\ IsGraph(r.graph)
                  /\ broken = {} /\ Calm(s["rtcp"]) => Calm(r.graph)
                  /\ broken = {} /\ r.ok => Asked("rtcp", r.graph, c, s["rtcp"])
<1> DEFINE btx == V!BrokenOf("tx", broken)
           brx == V!BrokenOf("rx", broken)
           brtcp == V!BrokenOf("rtcp", broken)
<1>1. V!PreviewNodes \in NodeList /\ V!TxNodes \in NodeList /\ V!RxNodes \in NodeList
  <2>1. <<>> \in NodeList
    BY DEF NodeList
  <2>2. V!PreviewNodes \in NodeList
    BY <2>1, AddedNodes DEF V!PreviewNodes, Node
  <2>3. V!TxNodes \in NodeList
    BY <2>2, AddedNodes DEF V!TxNodes, Node
  <2>4. V!AddNode("SocketReader", <<>>) \in NodeList
    BY <2>1, AddedNodes DEF Node
  <2>5. V!AddNode("RtpDecoder", V!AddNode("SocketReader", <<>>)) \in NodeList
    BY <2>4, AddedNodes DEF Node
  <2> QED
    BY <2>2, <2>3, <2>5, AddedNodes DEF V!RxNodes, Node
<1>2. /\ \E nodes \in NodeList : V!CreateTx(c) = T!Created(nodes, c)
      /\ \E nodes \in NodeList : V!CreateRx(c) = T!Created(nodes, c)
  BY <1>1, SameOperations DEF V!CreateTx, V!CreateRx
<1>3. \A k : V!NoGraph = T!NoGraph
  BY DEF V!NoGraph, T!NoGraph
<1>4. ASSUME NEW old, NEW b
      PROVE  /\ VideoServed("tx", V!StartMedia("tx", V!CreateTx(c), b), old, c, b)
             /\ ~V!Serves("tx", c) => VideoServed("tx", V!Done(V!CreateTx(c), TRUE), old, c, b)
             /\ VideoServed("rx", V!StartMedia("rx", V!CreateRx(c), b), old, c, b)
             /\ ~V!Serves("rx", c) => VideoServed("rx", V!Done(V!CreateRx(c), TRUE), old, c, b)
  BY <1>2, VideoCreated
<1>5. VideoServed("tx", V!TouchTx(s, c, broken), s["tx"], c, btx)
  <2>1. CASE s["tx"] = T!NoGraph
    BY <1>3, <1>4, <2>1 DEF V!TouchTx
  <2>2. CASE s["tx"] # T!NoGraph
    BY <1>3, <2>2, VideoUpdated DEF V!TouchTx, VideoSession
  <2> QED
    BY <2>1, <2>2
<1>6. VideoServed("rx", V!TouchRx(s, c, broken), s["rx"], c, brx)
  <2>1. CASE s["rx"] = T!NoGraph
    BY <1>3, <1>4, <2>1 DEF V!TouchRx
  <2>2. CASE s["rx"] # T!NoGraph
    BY <1>3, <2>2, VideoUpdated DEF V!TouchRx, VideoSession
  <2> QED
    BY <2>1, <2>2
<1>7. LET r == V!TouchRtcp(s, c, broken)
      IN  /\ IsGraph(r.graph)
          /\ broken = {} /\ Calm(s["rtcp"]) => Calm(r.graph)
          /\ broken = {} /\ r.ok => Asked("rtcp", r.graph, c, s["rtcp"])
  <2>1. broken = {} => brtcp = {}
    BY DEF V!BrokenOf
  <2>2. CASE s["rtcp"] = T!NoGraph
    BY <1>3, <2>1, <2>2, VideoControlCreated DEF V!TouchRtcp
  <2>3. CASE s["rtcp"] # T!NoGraph
    BY <1>3, <2>1, <2>3, VideoControl DEF V!TouchRtcp, VideoSession
  <2> QED
    BY <2>2, <2>3
<1> QED
  BY <1>5, <1>6, <1>7

(* A graph that was served gets the surface of its session. *)
LEMMA VideoSurfaced ==
    ASSUME NEW k, NEW given \in BOOLEAN, NEW r, NEW old, NEW c, NEW broken,
           VideoServed(k, r, old, c, V!BrokenOf(k, broken))
    PROVE  LET h == IF r.ok THEN V!Surfaced(k, given, r.graph, broken) ELSE r.graph
           IN  /\ IsGraph(h)
               /\ given => ~V!Waits(h)
               /\ k = "tx" => TxOff(h)
               /\ broken = {} /\ Calm(old) /\ Follows(old) => Calm(h) /\ Follows(h)
               /\ broken = {} /\ r.ok => Asked(k, h, c, old)
<1> DEFINE b == V!BrokenOf(k, broken)
           g == r.graph
<1>1. broken = {} => b = {}
  BY DEF V!BrokenOf
<1>2. IsGraph(g) /\ g # V!NoGraph
  BY DEF VideoServed, IsGraph, V!NoGraph
<1> HIDE DEF b
<1>3. CASE r.ok /\ given
  <2>1. V!Surfaced(k, given, g, broken) = V!SetSurface(k, g, b)
    BY <1>2, <1>3 DEF V!Surfaced, b
  <2>2. k = "tx" => TxOff(g)
    BY DEF VideoServed
  <2>3. LET h == V!SetSurface(k, g, b)
        IN  /\ IsGraph(h) /\ ~V!Waits(h)
            /\ k = "tx" => TxOff(h)
            /\ b = {} /\ Calm(g) /\ Follows(g) => Calm(h) /\ Follows(h)
            /\ b = {} /\ Asked(k, g, c, old) => Asked(k, h, c, old)
    BY <1>2, <2>2, VideoSurface
  <2> HIDE DEF g
  <2> QED
    BY <1>1, <1>3, <2>1, <2>3 DEF VideoServed, g, b
<1>4. CASE ~(r.ok /\ given)
  <2>1. (IF r.ok THEN V!Surfaced(k, given, g, broken) ELSE g) = g
    BY <1>4 DEF V!Surfaced
  <2> QED
    BY <1>1, <1>2, <1>4, <2>1 DEF VideoServed, b
<1> QED
  BY <1>3, <1>4

(* startGraph of a video session, at whichever graph it ends. *)
LEMMA VideoStartGraph ==
    ASSUME NEW s, VideoSession(s), NEW c, NEW broken
    PROVE  LET o == V!StartGraph(s, c, broken)
               t == o.session
           IN  /\ VideoSession(t)
               /\ broken = {} /\ VideoCalm(s) => VideoCalm(t)
               /\ broken = {} /\ o.result = "SUCCESS" /\ ~V!PreviewOnly(c) =>
                      \A k \in {"tx", "rx", "rtcp"} :
                          IsGraph(t[k]) /\ Asked(k, t[k], c, s[k])
<1> DEFINE tx == V!TouchTx(s, c, broken)
           rx == V!TouchRx(s, c, broken)
           rtcp == V!TouchRtcp(s, c, broken)
           gtx == IF tx.ok THEN V!Surfaced("tx", s.preview, tx.graph, broken) ELSE tx.graph
           grx == IF rx.ok THEN V!Surfaced("rx", V!SurfaceForRx(s, c), rx.graph, broken)
                           ELSE rx.graph
           afterTx == [s EXCEPT !.tx = gtx]
           afterRx == [afterTx EXCEPT !.rx = grx]
           after == [afterRx EXCEPT !.rtcp = rtcp.graph]
<1>1. /\ VideoServed("tx", tx, s["tx"], c, V!BrokenOf("tx", broken))
      /\ VideoServed("rx", rx, s["rx"], c, V!BrokenOf("rx", broken))
      /\ IsGraph(rtcp.graph)
      /\ broken = {} /\ Calm(s["rtcp"]) => Calm(rtcp.graph)
      /\ broken = {} /\ rtcp.ok => Asked("rtcp", rtcp.graph, c, s["rtcp"])
  BY VideoTouched
<1>2. s["rx"] = V!NoGraph /\ ~V!Serves("rx", c) => ~V!Waits(rx.graph)
  <2> SUFFICES ASSUME s["rx"] = V!NoGraph, ~V!Serves("rx", c) PROVE ~V!Waits(rx.graph)
    OBVIOUS
  <2>1. rx.graph = V!CreateRx(c)
    BY DEF V!TouchRx, V!Done
  <2> QED
    BY <2>1 DEF V!CreateRx, V!Created, V!Waits
<1> HIDE DEF tx, rx, rtcp
<1>3. /\ IsGraph(gtx) /\ TxOff(gtx) /\ (s["preview"] => ~V!Waits(gtx))
      /\ broken = {} /\ Calm(s["tx"]) /\ Follows(s["tx"]) => Calm(gtx) /\ Follows(gtx)
      /\ broken = {} /\ tx.ok => Asked("tx", gtx, c, s["tx"])
  BY <1>1, VideoSurfaced DEF VideoSession
<1>4. V!SurfaceForRx(s, c) \in BOOLEAN
  BY DEF V!SurfaceForRx
<1>5. /\ IsGraph(grx) /\ (V!SurfaceForRx(s, c) => ~V!Waits(grx))
      /\ broken = {} /\ Calm(s["rx"]) /\ Follows(s["rx"]) => Calm(grx) /\ Follows(grx)
      /\ broken = {} /\ rx.ok => Asked("rx", grx, c, s["rx"])
  BY <1>1, <1>4, VideoSurfaced
<1>6. s["display"] => ~V!Waits(grx)
  <2>1. CASE V!SurfaceForRx(s, c)
    BY <1>5, <2>1
  <2>2. CASE ~V!SurfaceForRx(s, c)
    <3>1. grx = rx.graph
      BY <2>2 DEF V!Surfaced
    <3> QED
      BY <1>2, <2>2, <3>1 DEF V!SurfaceForRx
  <2> QED
    BY <2>1, <2>2
<1>7. LET o == V!StartGraph(s, c, broken)
      IN  /\ o.session \in {afterTx, afterRx, after}
          /\ o.result = "SUCCESS" /\ ~V!PreviewOnly(c) =>
                 tx.ok /\ rx.ok /\ rtcp.ok /\ o.session = after
  <2> HIDE DEF gtx, grx
  <2>1. V!StartGraph(s, c, broken) =
            IF ~tx.ok THEN [session |-> afterTx, result |-> "START_ERROR"]
            ELSE IF V!PreviewOnly(c) THEN [session |-> afterTx, result |-> "SUCCESS"]
            ELSE IF ~rx.ok THEN [session |-> afterRx, result |-> "START_ERROR"]
            ELSE [session |-> after, result |-> IF rtcp.ok THEN "SUCCESS" ELSE "START_ERROR"]
    BY DEF V!StartGraph, tx, rx, rtcp, gtx, grx
  <2> HIDE DEF afterTx, afterRx, after
  <2> QED
    BY <2>1
<1> HIDE DEF gtx, grx
<1>8. VideoSession(afterTx) /\ (broken = {} /\ VideoCalm(s) => VideoCalm(afterTx))
  BY <1>3 DEF VideoSession, VideoCalm
<1>9. VideoSession(afterRx) /\ (broken = {} /\ VideoCalm(s) => VideoCalm(afterRx))
  BY <1>3, <1>5, <1>6 DEF VideoSession, VideoCalm
<1>10. VideoSession(after) /\ (broken = {} /\ VideoCalm(s) => VideoCalm(after))
  BY <1>1, <1>3, <1>5, <1>6 DEF VideoSession, VideoCalm
<1>11. broken = {} /\ tx.ok /\ rx.ok /\ rtcp.ok =>
           \A k \in {"tx", "rx", "rtcp"} : IsGraph(after[k]) /\ Asked(k, after[k], c, s[k])
  BY <1>1, <1>3, <1>5 DEF VideoSession
<1> HIDE DEF afterTx, afterRx, after
<1> QED
  BY <1>7, <1>8, <1>9, <1>10, <1>11

(* A session that was just opened has no graph and no surface. *)
LEMMA VideoNewSession == VideoSession(V!NewSession) /\ VideoCalm(V!NewSession)
  BY DEF VideoSession, VideoCalm, V!NewSession, TxOff, V!Waits, Calm, Follows, V!NoGraph, T!NoGraph

(* A surface request gives it to the session and to the graph that waits for it. *)
LEMMA VideoSurfaceGiven ==
    ASSUME NEW s, VideoSession(s), NEW broken
    PROVE  \A t \in {V!SetPreviewSurface(s, broken), V!SetDisplaySurface(s, broken)} :
               VideoSession(t) /\ (broken = {} /\ VideoCalm(s) => VideoCalm(t))
<1> DEFINE tx == V!Surfaced("tx", TRUE, s["tx"], broken)
           rx == V!Surfaced("rx", TRUE, s["rx"], broken)
           p == [s EXCEPT !.preview = TRUE, !.tx = tx]
           d == [s EXCEPT !.display = TRUE, !.rx = rx]
<1>1. V!NoGraph = T!NoGraph /\ T!NoGraph.state = "none"
  BY DEF V!NoGraph, T!NoGraph
<1>2. broken = {} => \A k : V!BrokenOf(k, broken) = {}
  BY DEF V!BrokenOf
<1>3. /\ tx = T!NoGraph \/ IsGraph(tx)
      /\ TxOff(tx) /\ ~V!Waits(tx)
      /\ broken = {} /\ Calm(s["tx"]) /\ Follows(s["tx"]) => Calm(tx) /\ Follows(tx)
  <2>1. CASE s["tx"] = T!NoGraph
    <3>1. tx = T!NoGraph
      BY <1>1, <2>1 DEF V!Surfaced
    <3> QED
      BY <1>1, <2>1, <3>1 DEF TxOff, V!Waits
  <2>2. CASE s["tx"] # T!NoGraph
    <3>1. tx = V!SetSurface("tx", s["tx"], V!BrokenOf("tx", broken))
      BY <1>1, <2>2 DEF V!Surfaced
    <3> HIDE DEF tx
    <3> QED
      BY <1>2, <2>2, <3>1, VideoSurface DEF VideoSession
  <2> QED
    BY <2>1, <2>2
<1>4. /\ rx = T!NoGraph \/ IsGraph(rx)
      /\ ~V!Waits(rx)
      /\ broken = {} /\ Calm(s["rx"]) /\ Follows(s["rx"]) => Calm(rx) /\ Follows(rx)
  <2>1. CASE s["rx"] = T!NoGraph
    <3>1. rx = T!NoGraph
      BY <1>1, <2>1 DEF V!Surfaced
    <3> QED
      BY <1>1, <2>1, <3>1 DEF V!Waits
  <2>2. CASE s["rx"] # T!NoGraph
    <3>1. rx = V!SetSurface("rx", s["rx"], V!BrokenOf("rx", broken))
      BY <1>1, <2>2 DEF V!Surfaced
    <3> HIDE DEF rx
    <3> QED
      BY <1>2, <2>2, <3>1, VideoSurface DEF VideoSession
  <2> QED
    BY <2>1, <2>2
<1> HIDE DEF tx, rx
<1>5. VideoSession(p) /\ (broken = {} /\ VideoCalm(s) => VideoCalm(p))
  BY <1>3 DEF VideoSession, VideoCalm
<1>6. VideoSession(d) /\ (broken = {} /\ VideoCalm(s) => VideoCalm(d))
  BY <1>4 DEF VideoSession, VideoCalm
<1>7. V!SetPreviewSurface(s, broken) = p /\ V!SetDisplaySurface(s, broken) = d
  BY DEF V!SetPreviewSurface, V!SetDisplaySurface, tx, rx, VideoSession
<1> HIDE DEF p, d
<1> QED
  BY <1>5, <1>6, <1>7

(* The destructor of a session in which nothing failed stops every node. *)
LEMMA VideoCalmLeavesNothing ==
    ASSUME NEW s, VideoSession(s), VideoCalm(s)
    PROVE  V!Leaked(s) = {}
<1>1. \A k \in {"tx", "rx", "rtcp"} : T!Destroyed(s[k]) = {}
  BY CalmLeavesNothing DEF VideoSession, VideoCalm
<1>2. \A g : V!Destroyed(g) = T!Destroyed(g)
  BY SameOperations DEF V!Destroyed, T!Destroyed, V!IsRunning, T!IsRunning
<1> QED
  BY <1>1, <1>2 DEF V!Leaked

VideoInv ==
    /\ vFaults \in Nat /\ DOMAIN vSession = VideoSessions
    /\ \A id \in VideoSessions : VideoSession(vSession[id])
    /\ vFaults = 0 => vLeaked = {} /\ \A id \in VideoSessions : VideoCalm(vSession[id])

\* A step replaces one session, with the starts of F failing.
LEMMA StepVideoInv == VideoInv /\ [V!Next]_V!vars => VideoInv'
<1> SUFFICES ASSUME VideoInv, [V!Next]_V!vars PROVE VideoInv'
  OBVIOUS
<1>1. ASSUME NEW id \in VideoSessions, NEW F \in V!FaultSets, NEW t,
             vFaults' = vFaults + Cardinality(F), vLeaked' = vLeaked,
             vSession' = [vSession EXCEPT ![id] = t],
             VideoSession(t), F = {} /\ VideoCalm(vSession[id]) => VideoCalm(t)
      PROVE  VideoInv'
  <2>1. vFaults' \in Nat /\ (vFaults' = 0 => vFaults = 0 /\ F = {})
    BY <1>1, FaultsCounted DEF VideoInv
  <2> QED
    BY <1>1, <2>1 DEF VideoInv
<1>2. ASSUME NEW id \in VideoSessions, NEW c, V!OpenSession(id, c) PROVE VideoInv'
  <2>1. PICK F \in V!FaultSets :
            /\ vFaults' = vFaults + Cardinality(F)
            /\ vSession' = [vSession EXCEPT ![id] = V!StartGraph(V!NewSession, c, F).session]
    BY <1>2, SameCardinality DEF V!OpenSession
  <2> DEFINE t == V!StartGraph(V!NewSession, c, F).session
  <2>2. VideoSession(t) /\ (F = {} => VideoCalm(t))
    BY VideoNewSession, VideoStartGraph
  <2>3. vLeaked' = vLeaked /\ vSession' = [vSession EXCEPT ![id] = t]
    BY <1>2, <2>1 DEF V!OpenSession
  <2> HIDE DEF t
  <2> QED
    BY <1>1, <2>1, <2>2, <2>3
<1>3. ASSUME NEW id \in VideoSessions, NEW c, V!ModifySession(id, c) PROVE VideoInv'
  <2>1. PICK F \in V!FaultSets :
            /\ vFaults' = vFaults + Cardinality(F)
            /\ vSession' = [vSession EXCEPT ![id] = V!StartGraph(vSession[id], c, F).session]
    BY <1>3, SameCardinality DEF V!ModifySession
  <2> DEFINE t == V!StartGraph(vSession[id], c, F).session
  <2>2. VideoSession(t) /\ (F = {} /\ VideoCalm(vSession[id]) => VideoCalm(t))
    BY VideoStartGraph DEF VideoInv
  <2>3. vLeaked' = vLeaked /\ vSession' = [vSession EXCEPT ![id] = t]
    BY <1>3, <2>1 DEF V!ModifySession
  <2> HIDE DEF t
  <2> QED
    BY <1>1, <2>1, <2>2, <2>3
<1>4. ASSUME NEW id \in VideoSessions,
             V!SetPreviewSurfaceToSession(id) \/ V!SetDisplaySurfaceToSession(id)
      PROVE  VideoInv'
  <2>1. PICK F \in V!FaultSets : \E t \in {V!SetPreviewSurface(vSession[id], F),
                                           V!SetDisplaySurface(vSession[id], F)} :
            vFaults' = vFaults + Cardinality(F) /\ vSession' = [vSession EXCEPT ![id] = t]
    BY <1>4, SameCardinality DEF V!SetPreviewSurfaceToSession, V!SetDisplaySurfaceToSession
  <2>2. \A t \in {V!SetPreviewSurface(vSession[id], F), V!SetDisplaySurface(vSession[id], F)} :
            VideoSession(t) /\ (F = {} /\ VideoCalm(vSession[id]) => VideoCalm(t))
    BY VideoSurfaceGiven DEF VideoInv
  <2>3. vLeaked' = vLeaked
    BY <1>4 DEF V!SetPreviewSurfaceToSession, V!SetDisplaySurfaceToSession
  <2> QED
    BY <1>1, <2>1, <2>2, <2>3
<1>5. ASSUME NEW id \in VideoSessions, V!CloseSession(id) PROVE VideoInv'
  <2>1. /\ vSession' = [vSession EXCEPT ![id] = V!NewSession] /\ vFaults' = vFaults
        /\ vLeaked' = vLeaked \cup V!Leaked(vSession[id])
    BY <1>5 DEF V!CloseSession
  <2>2. vFaults = 0 => V!Leaked(vSession[id]) = {}
    BY VideoCalmLeavesNothing DEF VideoInv
  <2> QED
    BY <2>1, <2>2, VideoNewSession DEF VideoInv
<1>6. ASSUME NEW id, NEW op, V!Reject(op, id) PROVE VideoInv'
  BY <1>6 DEF V!Reject, VideoInv
<1>7. CASE UNCHANGED V!vars
  BY <1>7 DEF V!vars, VideoInv
<1> QED
  BY <1>2, <1>3, <1>4, <1>5, <1>6, <1>7 DEF V!Next

(* The invariant of the video sessions. *)
LEMMA VideoInvariance == V!Spec => []VideoInv
<1>1. V!Init => VideoInv
  BY VideoNewSession DEF V!Init, VideoInv
<1> QED
  BY <1>1, StepVideoInv, PTL DEF V!Spec

\* What a successful modifySession leaves.
LEMMA VideoModifyServes ==
    ASSUME VideoInv, NEW id \in VideoSessions, NEW c, V!ModifySession(id, c),
           vServed'.result = "SUCCESS", vFaults' = vFaults, ~V!PreviewOnly(c)
    PROVE  \A k \in V!Kind :
               LET h == vSession'[id][k]
                   g == vSession[id][k]
               IN  /\ h # V!NoGraph /\ h.config = c
                   /\ V!Serves(k, c) /\ ~V!IsRunning(h) /\ ~V!Waits(h) =>
                          g # V!NoGraph /\ g.config = c /\ ~V!IsRunning(g)
<1>1. PICK F \in V!FaultSets :
          LET outcome == V!StartGraph(vSession[id], c, F)
          IN  /\ vFaults' = vFaults + V!Cardinality(F)
              /\ vSession' = [vSession EXCEPT ![id] = outcome.session]
              /\ V!Answer("modify", id, c, outcome.result)
  BY DEF V!ModifySession
<1> DEFINE o == V!StartGraph(vSession[id], c, F)
<1>2. F = {}
  BY <1>1, FaultsCounted, SameCardinality DEF VideoInv
<1>3. o.result = "SUCCESS"
  BY <1>1 DEF V!Answer
<1>4. vSession'[id] = o.session
  BY <1>1 DEF VideoInv
<1>5. \A k \in {"tx", "rx", "rtcp"} :
          IsGraph(o.session[k]) /\ Asked(k, o.session[k], c, vSession[id][k])
  BY <1>2, <1>3, VideoStartGraph DEF VideoInv
<1> HIDE DEF o
<1>6. ASSUME NEW k \in V!Kind, NEW h, IsGraph(h), NEW g, Asked(k, h, c, g)
      PROVE  /\ h # V!NoGraph /\ h.config = c
             /\ V!Serves(k, c) /\ ~V!IsRunning(h) /\ ~V!Waits(h) =>
                    g # V!NoGraph /\ g.config = c /\ ~V!IsRunning(g)
  BY <1>6 DEF Asked, IsGraph, V!NoGraph, T!NoGraph, V!IsRunning, V!Waits
<1> QED
  BY <1>4, <1>5, <1>6 DEF V!Kind

----------------------------------------------------------------------------
(* The audio sessions: only a direction with media brings media into a session. *)

(* A configuration without media for sender and receiver brings no media. *)
LEMMA HoldStartsNoMedia ==
    ASSUME NEW s \in Session, NEW r \in Remotes \cup {NoRemote}, NEW c, NEW F, NEW logged,
           ~Serves("tx", c), ~Serves("rx", c)
    PROVE  IsActive(AddGraph(s, r, c, FALSE, F, logged).session) => IsActive(s)
<1>1. ASSUME NEW k \in {"tx", "rx"}, NEW g, NEW fault, InRunState(Touched(k, g, c, fault))
      PROVE  InRunState(g)
  BY <1>1 DEF Touched, Update, Start, Create, InRunState
<1>2. ASSUME NEW t \in Session, IsActive(StartGraph(t, r, c, F, logged).session)
      PROVE  IsActive(t)
  <2>1. CASE r = NoRemote
    BY <1>2, <2>1 DEF StartGraph
  <2>2. CASE r # NoRemote
    <3>1. PICK reached \in SUBSET Kind :
              StartGraph(t, r, c, F, logged).session.graphs =
                  [k \in Kind |->
                      IF k \in reached
                      THEN [t.graphs[k] EXCEPT ![r] = Touched(k, @, c, <<k, r>> \in F)]
                      ELSE t.graphs[k]]
      BY <2>2 DEF StartGraph
    <3>2. PICK k \in {"tx", "rx"}, q \in Remotes :
              InRunState(StartGraph(t, r, c, F, logged).session.graphs[k][q])
      BY <1>2 DEF IsActive
    <3>3. k \in Kind /\ t.graphs[k] \in [Remotes -> Graph]
      BY DEF Kind, Session
    <3>4. \/ InRunState(t.graphs[k][q])
          \/ InRunState(Touched(k, t.graphs[k][q], c, <<k, r>> \in F))
      BY <3>1, <3>2, <3>3
    <3> QED
      BY <1>1, <3>4 DEF IsActive
  <2> QED
    BY <2>1, <2>2
<1>3. OthersDeleted(s, r) \in Session /\ (IsActive(OthersDeleted(s, r)) => IsActive(s))
  BY DEF OthersDeleted, Session, Graph, NoGraph, IsActive, InRunState, Kind
<1>4. \/ AddGraph(s, r, c, FALSE, F, logged) = StartGraph(s, r, c, F, logged)
      \/ AddGraph(s, r, c, FALSE, F, logged) = StartGraph(OthersDeleted(s, r), r, c, F, logged)
  BY DEF AddGraph, ConfirmGraph
<1> QED
  BY <1>2, <1>3, <1>4

(* A deactivated session has no media. *)
LEMMA StoppedIsInactive == \A s \in Session : ~IsActive(StopRtp(s))
  BY DEF StopRtp, Session, Graph, NoGraph, IsActive, InRunState, Kind, Stop, Create

Talking(ss) == {id \in Sessions : IsActive(ss[id])}

(* modifySession starts media in one session and takes them from another one. *)
LEMMA AudioModifyAddsNoTalker ==
    ASSUME TypeOK, IsFiniteSet(mSessions), NEW id \in Sessions,
           NEW r \in Remotes \cup {NoRemote}, NEW c, ModifySession(id, r, c)
    PROVE  \/ Cardinality(Talking(session')) <= 1
           \/ Cardinality(Talking(session')) <= Cardinality(Talking(session))
<1> DEFINE A == Talking(session)
           B == Talking(session')
<1>1. IsFiniteSet(A) /\ A \subseteq mSessions
  <2>1. A \subseteq mSessions
    <3>1. ~IsActive(NewSession)
      BY DEF NewSession, IsActive, InRunState, NoGraph, Kind
    <3> QED
      BY <3>1 DEF Talking, TypeOK
  <2> QED
    BY <2>1, FS_Subset
<1>2. PICK sessions \in IF Serves("tx", c) \/ Serves("rx", c) THEN AfterDeactivation(id)
                                                             ELSE {session} :
          \E F, logged :
              session' = [sessions EXCEPT
                             ![id] = AddGraph(session[id], r, c, FALSE, F, logged).session]
  BY DEF ModifySession, Serve
<1>3. PICK F, logged :
          session' = [sessions EXCEPT
                         ![id] = AddGraph(session[id], r, c, FALSE, F, logged).session]
  BY <1>2
<1> DEFINE t == AddGraph(session[id], r, c, FALSE, F, logged).session
<1>4. ~Serves("tx", c) /\ ~Serves("rx", c) /\ IsActive(t) => IsActive(session[id])
  BY HoldStartsNoMedia DEF TypeOK
<1>5. session' = [sessions EXCEPT ![id] = t]
  BY <1>3
<1> HIDE DEF t
<1>6. CASE ~Serves("tx", c) /\ ~Serves("rx", c)
  <2>1. session' = [session EXCEPT ![id] = t]
    BY <1>2, <1>5, <1>6
  <2>2. B \subseteq A
    BY <1>4, <1>6, <2>1 DEF Talking, TypeOK
  <2> QED
    BY <1>1, <2>2, NoMoreTalkers
<1>7. CASE (Serves("tx", c) \/ Serves("rx", c)) /\ ActiveOthers(id) = {}
  <2>1. session' = [session EXCEPT ![id] = t]
    BY <1>2, <1>5, <1>7 DEF AfterDeactivation
  <2>2. A \subseteq {id}
    BY <1>1, <1>7 DEF ActiveOthers, Talking
  <2>3. B \subseteq {id}
    BY <2>1, <2>2 DEF Talking, TypeOK
  <2> QED
    BY <1>1, <2>3, NoMoreTalkers
<1>8. CASE (Serves("tx", c) \/ Serves("rx", c)) /\ ActiveOthers(id) # {}
  <2>1. PICK o \in ActiveOthers(id) : sessions = [session EXCEPT ![o] = StopRtp(@)]
    BY <1>2, <1>8 DEF AfterDeactivation
  <2>2. o \in A \ {id} /\ o \in Sessions
    BY DEF ActiveOthers, Talking, TypeOK
  <2>3. ~IsActive(StopRtp(session[o]))
    BY <2>2, StoppedIsInactive DEF TypeOK
  <2>4. B \subseteq (A \ {o}) \cup {id}
    BY <1>5, <2>1, <2>2, <2>3 DEF Talking, TypeOK
  <2> QED
    BY <1>1, <2>2, <2>4, NoMoreTalkers
<1> QED
  BY <1>6, <1>7, <1>8

\* Sessions are opened one at a time.
LEMMA FiniteSessions == Spec => []IsFiniteSet(mSessions)
<1>1. Init => IsFiniteSet(mSessions)
  BY FS_EmptySet DEF Init
<1>2. IsFiniteSet(mSessions) /\ [Next]_vars => IsFiniteSet(mSessions)'
  <2> SUFFICES ASSUME IsFiniteSet(mSessions), [Next]_vars
               PROVE  mSessions' \subseteq mSessions \/ \E id : mSessions' = mSessions \cup {id}
    BY FS_Subset, FS_AddElement
  <2>1. ASSUME NEW id, NEW r, NEW c, NEW op,
               \/ ModifySession(id, r, c) \/ AddConfig(id, r, c) \/ ConfirmConfig(id, r, c)
               \/ DeleteConfig(id, r) \/ Reject(op, id)
        PROVE  mSessions' = mSessions
    BY <2>1 DEF ModifySession, AddConfig, ConfirmConfig, DeleteConfig, Reject, Serve
  <2>2. ASSUME NEW id, CloseSession(id) PROVE mSessions' \subseteq mSessions
    BY <2>2 DEF CloseSession
  <2>3. ASSUME NEW id, NEW r, NEW c, OpenSession(id, r, c)
        PROVE  mSessions' = mSessions \cup {id}
    BY <2>3 DEF OpenSession
  <2>4. CASE UNCHANGED vars
    BY <2>4 DEF vars
  <2> QED
    BY <2>1, <2>2, <2>3, <2>4 DEF Next
<1> QED
  BY <1>1, <1>2, PTL DEF Spec

(* The same for each step of the audio manager. *)
LEMMA AudioOneTalker == Spec => ModifyAddsNoTalker
<1>1. ASSUME TypeOK, IsFiniteSet(mSessions), Next, served'.op = "modify"
      PROVE  \/ Cardinality(Talking(session')) <= 1
             \/ Cardinality(Talking(session')) <= Cardinality(Talking(session))
  <2>1. CASE session' = session
    <3>1. Talking(session) \subseteq mSessions
      <4>1. ~IsActive(NewSession)
        BY DEF NewSession, IsActive, InRunState, NoGraph, Kind
      <4> QED
        BY <1>1, <4>1 DEF Talking, TypeOK
    <3>2. IsFiniteSet(Talking(session))
      BY <1>1, <3>1, FS_Subset
    <3> QED
      BY <2>1, <3>2, NoMoreTalkers DEF Talking
  <2>2. CASE session' # session
    <3>1. ASSUME NEW op, NEW id, NEW r, NEW c, NEW result, Answer(op, id, r, c, result)
          PROVE  op = "modify"
      BY <1>1, <3>1 DEF Answer
    <3>2. ASSUME NEW id, NEW r, NEW c
          PROVE  /\ ~OpenSession(id, r, c) /\ ~CloseSession(id)
                 /\ ~AddConfig(id, r, c) /\ ~ConfirmConfig(id, r, c) /\ ~DeleteConfig(id, r)
      BY <3>1 DEF OpenSession, CloseSession, AddConfig, ConfirmConfig, DeleteConfig, Serve
    <3>3. ASSUME NEW id, NEW op PROVE ~Reject(op, id)
      BY <2>2 DEF Reject
    <3>4. \E id \in Sessions, r \in Remotes \cup {NoRemote}, c \in Config : ModifySession(id, r, c)
      BY <1>1, <3>2, <3>3 DEF Next
    <3> QED
      BY <1>1, <3>4, AudioModifyAddsNoTalker
  <2> QED
    BY <2>1, <2>2
<1>2. TypeOK /\ IsFiniteSet(mSessions) /\ [Next]_vars =>
        [ served'.op = "modify" =>
            LET Talk(ss) == {id \in Sessions : IsActive(ss[id])}
            IN  \/ Cardinality(Talk(session')) <= 1
                \/ Cardinality(Talk(session')) <= Cardinality(Talk(session)) ]_vars
  BY <1>1 DEF Talking
<1> QED
  BY <1>2, TypeCorrect, FiniteSessions, PTL DEF Spec, ModifyAddsNoTalker

----------------------------------------------------------------------------
(* The three media together. *)

(* Each medium of the composition is its manager alone: the others leave its state as it
   is. *)
THEOREM EachMediumIsItsManager == SessionsSpec => Spec /\ V!Spec /\ T!Spec
<1>1. SessionsInit => Init /\ V!Init /\ T!Init
  BY DEF SessionsInit
<1>2. [SessionsNext]_<<vars, video, text>> =>
          [Next]_vars /\ [V!Next]_V!vars /\ [T!Next]_T!vars
  BY DEF SessionsNext, video, text, V!vars, T!vars
<1> QED
  BY <1>1, <1>2, PTL DEF SessionsSpec, Spec, V!Spec, T!Spec

(* Every node of a running sender or receiver of video or text holds what it heeds of the
   configuration of its graph as long as nothing failed to start: update() reaches the nodes
   that run, those that wait for a surface and those of a graph on hold, in any order of the
   requests.  A renderer does not heed the frame rate, nor a video source a bitrate, a zoom, a
   sampling rate, an intra interval or an image path. *)
THEOREM NodesAreTold == V!Spec /\ T!Spec => []NodesFollowGraph
<1>1. ASSUME NEW g, g = T!NoGraph \/ IsGraph(g), Follows(g)
      PROVE  V!NodesFollow(g) /\ T!NodesFollow(g)
  <2>1. T!IsRunning(g) => \A i \in DOMAIN g.nodes : T!UpToDate(g.nodes[i], g.seen[i], g.config)
    BY <1>1 DEF Follows, Told, T!IsRunning
  <2>2. T!NodesFollow(g)
    BY <2>1 DEF T!NodesFollow, T!Differs
  <2>3. V!NodesFollow(g)
    BY <2>1, SameUpdateConfig DEF V!NodesFollow, V!Differs, V!IsRunning, T!IsRunning
  <2> QED
    BY <2>2, <2>3
<1>2. VideoInv => V!NodesFollowGraph
  BY <1>1 DEF VideoInv, VideoSession, VideoCalm, V!NodesFollowGraph
<1>3. TextInv => T!NodesFollowGraph
  BY <1>1 DEF TextInv, TextSession, TextCalm, T!NodesFollowGraph, T!Kind
<1>4. VideoInv /\ TextInv => NodesFollowGraph
  BY <1>2, <1>3 DEF NodesFollowGraph
<1> QED
  BY <1>4, VideoInvariance, TextInvariance, PTL

(* The camera is on only for a preview or a direction that sends, whatever failed; and as
   long as nothing failed to start no graph is deleted with a node that still runs. *)
THEOREM NothingIsLeftRunning == V!Spec /\ T!Spec => []NothingLeftRunning
<1>1. VideoInv => V!CameraOffOnHold
  <2> SUFFICES ASSUME VideoInv, NEW id \in VideoSessions, NEW g, g = vSession[id].tx,
                      "VideoSource" \in V!LeftBehind(g)
               PROVE  V!InPreview(g.config) \/ V!Serves("tx", g.config)
    BY DEF V!CameraOffOnHold
  <2>1. TxOff(g)
    BY DEF VideoInv, VideoSession
  <2>2. g # T!NoGraph /\ g.started # 0
    BY DEF V!LeftBehind, V!StartedNodes, V!NoGraph, T!NoGraph
  <2> QED
    BY <2>1, <2>2 DEF TxOff
<1>2. VideoInv /\ TextInv => NothingLeftRunning
  BY <1>1 DEF VideoInv, TextInv, V!NoNodeLeaks, T!NoNodeLeaks, NothingLeftRunning
<1> QED
  BY <1>2, VideoInvariance, TextInvariance, PTL

(* A successful modifySession of a video session leaves each graph its direction asks for
   running or waiting for its surface, also after starts that failed half way, and no graph
   goes on waiting for a surface that its session was given. *)
THEOREM VideoIsServed == V!Spec => VideoServedAsAsked
<1>1. VideoInv => V!NoSurfaceForgotten
  BY DEF VideoInv, VideoSession, V!NoSurfaceForgotten
<1>2. ASSUME VideoInv, V!Next, vServed'.op = "modify", vServed'.result = "SUCCESS",
             vFaults' = vFaults, ~V!PreviewOnly(vServed'.config)
      PROVE  \A k \in V!Kind :
                 LET h == vSession'[vServed'.id][k]
                     g == vSession[vServed'.id][k]
                 IN  /\ h # V!NoGraph /\ h.config = vServed'.config
                     /\ V!Serves(k, vServed'.config) /\ ~V!IsRunning(h) /\ ~V!Waits(h) =>
                            g # V!NoGraph /\ g.config = vServed'.config /\ ~V!IsRunning(g)
  <2>1. PICK id \in VideoSessions, c \in VideoConfigs :
            V!ModifySession(id, c) /\ vServed'.id = id /\ vServed'.config = c
    BY <1>2 DEF V!Next, V!OpenSession, V!CloseSession, V!ModifySession, V!Reject, V!Answer,
                V!SetPreviewSurfaceToSession, V!SetDisplaySurfaceToSession
  <2> QED
    BY <1>2, <2>1, VideoModifyServes
<1>3. VideoInv /\ [V!Next]_V!vars =>
        [ (/\ vServed'.op = "modify" /\ vServed'.result = "SUCCESS" /\ vFaults' = vFaults
           /\ ~V!PreviewOnly(vServed'.config)) =>
            \A k \in V!Kind :
                LET h == vSession'[vServed'.id][k]
                    g == vSession[vServed'.id][k]
                IN  /\ h # V!NoGraph /\ h.config = vServed'.config
                    /\ V!Serves(k, vServed'.config) /\ ~V!IsRunning(h) /\ ~V!Waits(h) =>
                           g # V!NoGraph /\ g.config = vServed'.config /\ ~V!IsRunning(g) ]_V!vars
  BY <1>2
<1>4. V!Spec => V!ServedAsAsked
  BY <1>3, VideoInvariance, PTL DEF V!Spec, V!ServedAsAsked
<1>5. V!Spec => []V!NoSurfaceForgotten
  BY <1>1, VideoInvariance, PTL
<1> QED
  BY <1>4, <1>5 DEF VideoServedAsAsked

(* modifySession never brings a further session of audio or text into a state with media,
   for any number of sessions, remotes and failed starts. *)
THEOREM OneTalkerEachMedium == Spec /\ T!Spec => OneTalkerEach
  BY AudioOneTalker, TextOneTalker DEF OneTalkerEach
=============================================================================
