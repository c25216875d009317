--------------------------- MODULE EndpointProofs ---------------------------
(***************************************************************************)
(* Theorems about Endpoint, for every number of calls, application servers *)
(* and sessions.  AnyOrderInv is inductive whatever the callers do;        *)
(* AwaitedInv is inductive when nobody calls stop() during a listen.       *)
(***************************************************************************)
EXTENDS EndpointImpl, TLAPS

USE DEF Servers

-----------------------------------------------------------------------------
(* What holds in any order of calls.                                       *)

LEMMA InitAnyOrder == Init => AnyOrderInv
  <1>1. ASSUME Init PROVE TypeOK
    <2>1. definitions \in 0..MaxDefinitions
      BY <1>1, EndpointAssumption DEF Init, EndpointAssumption
    <2>2. pc \in [Calls -> PCs] /\ awaits \in [Calls -> Calls \cup {NULL}]
      BY <1>1 DEF Init, PCs
    <2>3. server \in [Calls -> ServerStates] /\ attached \in [Servers -> SUBSET Calls]
      BY <1>1 DEF Init, ServerStates
    <2>4. /\ sessState \in [Sessions -> SessionStates]
          /\ sessServer \in [Sessions -> Calls \cup {NULL}]
      BY <1>1 DEF Init, SessionStates
    <2> QED
      BY <1>1, <2>1, <2>2, <2>3, <2>4 DEF Init, TypeOK
  <1>2. Init => CallInv /\ FieldInv
    BY EndpointAssumption DEF EndpointAssumption, Init, CallInv, FieldInv
  <1>3. Init => SessionsTracked
    BY DEF Init, SessionsTracked
  <1> QED
    BY <1>1, <1>2, <1>3 DEF AnyOrderInv

LEMMA NextType == TypeOK /\ FieldInv /\ [Next]_vars => TypeOK'
  <1> SUFFICES ASSUME TypeOK, FieldInv, [Next]_vars PROVE TypeOK'
    OBVIOUS
  <1> USE EndpointAssumption DEF TypeOK, PCs, ServerStates, SessionStates,
          fields, net
  <1>1. CASE AddDefinition
    BY <1>1 DEF AddDefinition
  <1>2. ASSUME NEW c \in Calls, Start(c) PROVE TypeOK'
    <2>1. CASE StartRefused(c) \/ StartWithoutDefinitions(c) \/ StartInvalid(c)
      BY <2>1 DEF StartRefused, StartWithoutDefinitions, StartInvalid
    <2>2. ASSUME NEW e \in ExtServers, StartAttached(c, e) PROVE TypeOK'
      BY <2>2 DEF StartAttached, CreateHandler
    <2>3. CASE StartListening(c)
      BY <2>3 DEF StartListening, CreateHandler
    <2>4. CASE StartLambda(c)
      BY <2>4 DEF StartLambda, CreateHandler
    <2> QED
      BY <1>2, <2>1, <2>2, <2>3, <2>4 DEF Start
  <1>3. ASSUME NEW c \in Calls, ListenSucceeds(c) PROVE TypeOK'
    BY <1>3 DEF ListenSucceeds
  <1>4. ASSUME NEW c \in Calls, ListenFails(c) PROVE TypeOK'
    BY <1>4 DEF ListenFails
  <1>5. ASSUME NEW c \in Calls, StopOwned(c) PROVE TypeOK'
    BY <1>5 DEF StopOwned, MayStop, FieldInv
  <1>6. ASSUME NEW c \in Calls, StopAttached(c) PROVE TypeOK'
    BY <1>6 DEF StopAttached, MayStop, Reset
  <1>7. ASSUME NEW c \in Calls, StopWithoutServer(c) PROVE TypeOK'
    BY <1>7 DEF StopWithoutServer, MayStop, Reset
  <1>8. ASSUME NEW s \in Calls, ServerCloses(s) PROVE TypeOK'
    BY <1>8 DEF ServerCloses, Reset
  <1>9. ASSUME NEW x \in Sessions, NEW s \in Calls, SessionOpens(x, s) PROVE TypeOK'
    BY <1>9 DEF SessionOpens
  <1>10. ASSUME NEW x \in Sessions, PeerCloses(x) \/ DestroyCompletes(x) PROVE TypeOK'
    BY <1>10 DEF PeerCloses, DestroyCompletes, SessionEnds
  <1>11. CASE UNCHANGED vars
    BY <1>11 DEF vars
  <1> QED
    BY <1>1, <1>2, <1>3, <1>4, <1>5, <1>6, <1>7, <1>8, <1>9, <1>10, <1>11
       DEF Next, Stop

LEMMA NextCall ==
  ASSUME TypeOK, FieldInv, CallInv, [Next]_vars
  PROVE  CallInv'
  <1> USE EndpointAssumption DEF TypeOK, CallInv, fields, net
  <1>1. CASE AddDefinition
    BY <1>1 DEF AddDefinition
  <1>2. ASSUME NEW c \in Calls,
               StartRefused(c) \/ StartWithoutDefinitions(c) \/ StartInvalid(c)
        PROVE CallInv'
    BY <1>2 DEF StartRefused, StartWithoutDefinitions, StartInvalid
  <1>3. ASSUME NEW c \in Calls, NEW e \in ExtServers, StartAttached(c, e)
        PROVE CallInv'
    BY <1>3 DEF StartAttached, CreateHandler, NotStarted
  <1>4. ASSUME NEW c \in Calls, StartListening(c) PROVE CallInv'
    BY <1>4 DEF StartListening, CreateHandler, NotStarted
  <1>5. ASSUME NEW c \in Calls, StartLambda(c) PROVE CallInv'
    BY <1>5 DEF StartLambda, CreateHandler, NotStarted
  <1>6. ASSUME NEW c \in Calls, ListenSucceeds(c) PROVE CallInv'
    BY <1>6 DEF ListenSucceeds
  <1>7. ASSUME NEW c \in Calls, ListenFails(c) PROVE CallInv'
    BY <1>7 DEF ListenFails
  <1>8. ASSUME NEW c \in Calls, StopOwned(c) PROVE CallInv'
    <2>1. /\ httpServer \in Calls
          /\ server[httpServer] \in {"listening", "closing"}
          /\ server' = [server EXCEPT ![httpServer] = "closing"]
          /\ pc[c] = "idle"
          /\ pc' = [pc EXCEPT ![c] = "closing"]
          /\ awaits' = [awaits EXCEPT ![c] = httpServer]
          /\ attached' = attached
      BY <1>8 DEF StopOwned, MayStop, FieldInv
    <2> QED
      BY <2>1
  <1>9. ASSUME NEW c \in Calls, StopAttached(c) PROVE CallInv'
    <2>1. /\ httpServer \notin Calls
          /\ pc[c] = "idle"
          /\ pc' = [pc EXCEPT ![c] = "stopped"]
          /\ attached' = [attached EXCEPT ![httpServer] = @ \ {endpointHandler}]
          /\ server' = server /\ awaits' = awaits
      BY <1>9 DEF StopAttached, MayStop, FieldInv
    <2>2. \A d \in Calls : attached'[d] = attached[d]
      BY <2>1
    <2> QED
      BY <2>1, <2>2
  <1>10. ASSUME NEW c \in Calls, StopWithoutServer(c) PROVE CallInv'
    BY <1>10 DEF StopWithoutServer, MayStop, Reset
  <1>11. ASSUME NEW s \in Calls, ServerCloses(s) PROVE CallInv'
    BY <1>11 DEF ServerCloses, Reset
  <1>12. ASSUME NEW x \in Sessions, NEW s \in Calls, SessionOpens(x, s)
        PROVE CallInv'
    BY <1>12 DEF SessionOpens
  <1>13. ASSUME NEW x \in Sessions, PeerCloses(x) \/ DestroyCompletes(x)
        PROVE CallInv'
    BY <1>13 DEF PeerCloses, DestroyCompletes, SessionEnds
  <1>14. CASE UNCHANGED vars
    BY <1>14 DEF vars
  <1> QED
    BY <1>1, <1>2, <1>3, <1>4, <1>5, <1>6, <1>7, <1>8,
       <1>9, <1>10, <1>11, <1>12, <1>13, <1>14 DEF Next, Start, Stop

LEMMA NextField ==
  ASSUME TypeOK, CallInv, FieldInv, [Next]_vars
  PROVE  FieldInv'
  <1> USE EndpointAssumption DEF TypeOK, CallInv, FieldInv, fields, net
  <1>1. CASE AddDefinition
    BY <1>1 DEF AddDefinition
  <1>2. ASSUME NEW c \in Calls,
               StartRefused(c) \/ StartWithoutDefinitions(c) \/ StartInvalid(c)
        PROVE FieldInv'
    BY <1>2 DEF StartRefused, StartWithoutDefinitions, StartInvalid
  <1>3. ASSUME NEW c \in Calls, NEW e \in ExtServers, StartAttached(c, e)
        PROVE FieldInv'
    BY <1>3 DEF StartAttached, CreateHandler, NotStarted
  <1>4. ASSUME NEW c \in Calls, StartListening(c) PROVE FieldInv'
    BY <1>4 DEF StartListening, CreateHandler, NotStarted
  <1>5. ASSUME NEW c \in Calls, StartLambda(c) PROVE FieldInv'
    BY <1>5 DEF StartLambda, CreateHandler, NotStarted
  <1>6. ASSUME NEW c \in Calls, ListenSucceeds(c) PROVE FieldInv'
    BY <1>6 DEF ListenSucceeds
  <1>7. ASSUME NEW c \in Calls, ListenFails(c) PROVE FieldInv'
    BY <1>7 DEF ListenFails
  <1>8. ASSUME NEW c \in Calls, StopOwned(c) PROVE FieldInv'
    BY <1>8 DEF StopOwned, MayStop
  <1>9. ASSUME NEW c \in Calls, StopAttached(c) PROVE FieldInv'
    BY <1>9 DEF StopAttached, MayStop, Reset
  <1>10. ASSUME NEW c \in Calls, StopWithoutServer(c) PROVE FieldInv'
    BY <1>10 DEF StopWithoutServer, MayStop, Reset
  <1>11. ASSUME NEW s \in Calls, ServerCloses(s) PROVE FieldInv'
    BY <1>11 DEF ServerCloses, Reset
  <1>12. ASSUME NEW x \in Sessions, NEW s \in Calls, SessionOpens(x, s)
        PROVE FieldInv'
    BY <1>12 DEF SessionOpens
  <1>13. ASSUME NEW x \in Sessions, PeerCloses(x) \/ DestroyCompletes(x)
        PROVE FieldInv'
    BY <1>13 DEF PeerCloses, DestroyCompletes, SessionEnds
  <1>14. CASE UNCHANGED vars
    BY <1>14 DEF vars
  <1> QED
    BY <1>1, <1>2, <1>3, <1>4, <1>5, <1>6, <1>7, <1>8,
       <1>9, <1>10, <1>11, <1>12, <1>13, <1>14 DEF Next, Start, Stop

LEMMA NextSessions ==
  ASSUME TypeOK, CallInv, FieldInv, SessionsTracked, [Next]_vars
  PROVE  SessionsTracked'
  <1> USE EndpointAssumption DEF TypeOK, CallInv, FieldInv, SessionsTracked, fields, net
  <1>1. CASE AddDefinition
    BY <1>1 DEF AddDefinition
  <1>2. ASSUME NEW c \in Calls,
               StartRefused(c) \/ StartWithoutDefinitions(c) \/ StartInvalid(c)
        PROVE SessionsTracked'
    BY <1>2 DEF StartRefused, StartWithoutDefinitions, StartInvalid
  <1>3. ASSUME NEW c \in Calls, NEW e \in ExtServers, StartAttached(c, e)
        PROVE SessionsTracked'
    BY <1>3 DEF StartAttached, CreateHandler, NotStarted
  <1>4. ASSUME NEW c \in Calls, StartListening(c) PROVE SessionsTracked'
    BY <1>4 DEF StartListening, CreateHandler, NotStarted
  <1>5. ASSUME NEW c \in Calls, StartLambda(c) PROVE SessionsTracked'
    BY <1>5 DEF StartLambda, CreateHandler, NotStarted
  <1>6. ASSUME NEW c \in Calls, ListenSucceeds(c) PROVE SessionsTracked'
    BY <1>6 DEF ListenSucceeds
  <1>7. ASSUME NEW c \in Calls, ListenFails(c) PROVE SessionsTracked'
    BY <1>7 DEF ListenFails
  <1>8. ASSUME NEW c \in Calls, StopOwned(c) PROVE SessionsTracked'
    BY <1>8 DEF StopOwned, MayStop
  <1>9. ASSUME NEW c \in Calls, StopAttached(c) PROVE SessionsTracked'
    BY <1>9 DEF StopAttached, MayStop, Reset
  <1>10. ASSUME NEW c \in Calls, StopWithoutServer(c) PROVE SessionsTracked'
    BY <1>10 DEF StopWithoutServer, MayStop, Reset
  <1>11. ASSUME NEW s \in Calls, ServerCloses(s) PROVE SessionsTracked'
    BY <1>11 DEF ServerCloses, Reset
  <1>12. ASSUME NEW x \in Sessions, NEW s \in Calls, SessionOpens(x, s)
        PROVE SessionsTracked'
    BY <1>12 DEF SessionOpens
  <1>13. ASSUME NEW x \in Sessions, PeerCloses(x) \/ DestroyCompletes(x)
        PROVE SessionsTracked'
    BY <1>13 DEF PeerCloses, DestroyCompletes, SessionEnds
  <1>14. CASE UNCHANGED vars
    BY <1>14 DEF vars
  <1> QED
    BY <1>1, <1>2, <1>3, <1>4, <1>5, <1>6, <1>7, <1>8,
       <1>9, <1>10, <1>11, <1>12, <1>13, <1>14 DEF Next, Start, Stop

LEMMA NextAnyOrder == AnyOrderInv /\ [Next]_vars => AnyOrderInv'
  BY NextType, NextCall, NextField, NextSessions DEF AnyOrderInv

\* Whatever the callers do, the manager's fields, Node's servers and sessions
\* stay consistent.
THEOREM AnyOrder == Spec => []AnyOrderInv
  BY InitAnyOrder, NextAnyOrder, PTL DEF Spec

\* The fields of the manager keep their types in every order of calls.
THEOREM TypeCorrect == Spec => []TypeOK
  <1>1. AnyOrderInv => TypeOK
    BY DEF AnyOrderInv
  <1> QED
    BY <1>1, AnyOrder, PTL

\* stop() always finds every open session of every own server: none that a
\* peer keeps open can hold up a close.
THEOREM AllSessionsTracked == Spec => []SessionsTracked
  <1>1. AnyOrderInv => SessionsTracked
    BY DEF AnyOrderInv
  <1> QED
    BY <1>1, AnyOrder, PTL

\* The port that registration is given is that of the server held, which
\* is still listening or closing.
THEOREM PortAlwaysLive == Spec => []PortIsLive
  <1>1. AnyOrderInv => PortIsLive
    BY EndpointAssumption DEF EndpointAssumption, AnyOrderInv, TypeOK, FieldInv,
       PortIsLive
  <1> QED
    BY <1>1, AnyOrder, PTL

-----------------------------------------------------------------------------
(* What holds when nobody stops during a listen.                           *)

LEMMA InitAwaited == Init => AwaitedInv
  BY InitAnyOrder, EndpointAssumption
     DEF EndpointAssumption, AwaitedInv, Init, ListenInv, HoldInv, AttachInv

LEMMA NextListen ==
  ASSUME ~StopDuringListen, AnyOrderInv, ListenInv, HoldInv, [Next]_vars
  PROVE  ListenInv'
  <1> USE EndpointAssumption DEF AnyOrderInv, TypeOK, CallInv, FieldInv,
          ListenInv, HoldInv, fields, net
  <1>1. CASE AddDefinition
    BY <1>1 DEF AddDefinition
  <1>2. ASSUME NEW c \in Calls,
               StartRefused(c) \/ StartWithoutDefinitions(c) \/ StartInvalid(c)
        PROVE ListenInv'
    BY <1>2 DEF StartRefused, StartWithoutDefinitions, StartInvalid
  <1>3. ASSUME NEW c \in Calls, NEW e \in ExtServers, StartAttached(c, e)
        PROVE ListenInv'
    BY <1>3 DEF StartAttached, CreateHandler, NotStarted
  <1>4. ASSUME NEW c \in Calls, StartListening(c) PROVE ListenInv'
    BY <1>4 DEF StartListening, CreateHandler, NotStarted
  <1>5. ASSUME NEW c \in Calls, StartLambda(c) PROVE ListenInv'
    BY <1>5 DEF StartLambda, CreateHandler, NotStarted
  <1>6. ASSUME NEW c \in Calls, ListenSucceeds(c) PROVE ListenInv'
    BY <1>6 DEF ListenSucceeds
  <1>7. ASSUME NEW c \in Calls, ListenFails(c) PROVE ListenInv'
    BY <1>7 DEF ListenFails
  <1>8. ASSUME NEW c \in Calls, StopOwned(c) PROVE ListenInv'
    BY <1>8 DEF StopOwned, MayStop
  <1>9. ASSUME NEW c \in Calls, StopAttached(c) PROVE ListenInv'
    BY <1>9 DEF StopAttached, MayStop, Reset
  <1>10. ASSUME NEW c \in Calls, StopWithoutServer(c) PROVE ListenInv'
    BY <1>10 DEF StopWithoutServer, MayStop, Reset
  <1>11. ASSUME NEW s \in Calls, ServerCloses(s) PROVE ListenInv'
    BY <1>11 DEF ServerCloses, Reset
  <1>12. ASSUME NEW x \in Sessions, NEW s \in Calls, SessionOpens(x, s)
        PROVE ListenInv'
    BY <1>12 DEF SessionOpens
  <1>13. ASSUME NEW x \in Sessions, PeerCloses(x) \/ DestroyCompletes(x)
        PROVE ListenInv'
    BY <1>13 DEF PeerCloses, DestroyCompletes, SessionEnds
  <1>14. CASE UNCHANGED vars
    BY <1>14 DEF vars
  <1> QED
    BY <1>1, <1>2, <1>3, <1>4, <1>5, <1>6, <1>7, <1>8,
       <1>9, <1>10, <1>11, <1>12, <1>13, <1>14 DEF Next, Start, Stop

LEMMA NextHold ==
  ASSUME ~StopDuringListen, AnyOrderInv, ListenInv, HoldInv, [Next]_vars
  PROVE  HoldInv'
  <1> USE EndpointAssumption DEF AnyOrderInv, TypeOK, CallInv, FieldInv,
          ListenInv, HoldInv, fields, net
  <1>1. CASE AddDefinition
    BY <1>1 DEF AddDefinition
  <1>2. ASSUME NEW c \in Calls,
               StartRefused(c) \/ StartWithoutDefinitions(c) \/ StartInvalid(c)
        PROVE HoldInv'
    BY <1>2 DEF StartRefused, StartWithoutDefinitions, StartInvalid
  <1>3. ASSUME NEW c \in Calls, NEW e \in ExtServers, StartAttached(c, e)
        PROVE HoldInv'
    BY <1>3 DEF StartAttached, CreateHandler, NotStarted
  <1>4. ASSUME NEW c \in Calls, StartListening(c) PROVE HoldInv'
    BY <1>4 DEF StartListening, CreateHandler, NotStarted
  <1>5. ASSUME NEW c \in Calls, StartLambda(c) PROVE HoldInv'
    BY <1>5 DEF StartLambda, CreateHandler, NotStarted
  <1>6. ASSUME NEW c \in Calls, ListenSucceeds(c) PROVE HoldInv'
    BY <1>6 DEF ListenSucceeds
  <1>7. ASSUME NEW c \in Calls, ListenFails(c) PROVE HoldInv'
    BY <1>7 DEF ListenFails
  <1>8. ASSUME NEW c \in Calls, StopOwned(c) PROVE HoldInv'
    BY <1>8 DEF StopOwned, MayStop
  <1>9. ASSUME NEW c \in Calls, StopAttached(c) PROVE HoldInv'
    BY <1>9 DEF StopAttached, MayStop, Reset
  <1>10. ASSUME NEW c \in Calls, StopWithoutServer(c) PROVE HoldInv'
    BY <1>10 DEF StopWithoutServer, MayStop, Reset
  <1>11. ASSUME NEW s \in Calls, ServerCloses(s) PROVE HoldInv'
    BY <1>11 DEF ServerCloses, Reset
  <1>12. ASSUME NEW x \in Sessions, NEW s \in Calls, SessionOpens(x, s)
        PROVE HoldInv'
    BY <1>12 DEF SessionOpens
  <1>13. ASSUME NEW x \in Sessions, PeerCloses(x) \/ DestroyCompletes(x)
        PROVE HoldInv'
    BY <1>13 DEF PeerCloses, DestroyCompletes, SessionEnds
  <1>14. CASE UNCHANGED vars
    BY <1>14 DEF vars
  <1> QED
    BY <1>1, <1>2, <1>3, <1>4, <1>5, <1>6, <1>7, <1>8,
       <1>9, <1>10, <1>11, <1>12, <1>13, <1>14 DEF Next, Start, Stop

LEMMA NextAttach ==
  ASSUME ~StopDuringListen, AwaitedInv, [Next]_vars
  PROVE  AttachInv'
  <1> USE EndpointAssumption DEF AwaitedInv, AnyOrderInv, TypeOK, CallInv, FieldInv, ListenInv,
          HoldInv, AttachInv, fields, net
  <1>1. CASE AddDefinition
    BY <1>1 DEF AddDefinition
  <1>2. ASSUME NEW c \in Calls,
               StartRefused(c) \/ StartWithoutDefinitions(c) \/ StartInvalid(c)
        PROVE AttachInv'
    BY <1>2 DEF StartRefused, StartWithoutDefinitions, StartInvalid
  <1>3. ASSUME NEW c \in Calls, NEW e \in ExtServers, StartAttached(c, e)
        PROVE AttachInv'
    BY <1>3 DEF StartAttached, CreateHandler, NotStarted
  <1>4. ASSUME NEW c \in Calls, StartListening(c) PROVE AttachInv'
    BY <1>4 DEF StartListening, CreateHandler, NotStarted
  <1>5. ASSUME NEW c \in Calls, StartLambda(c) PROVE AttachInv'
    BY <1>5 DEF StartLambda, CreateHandler, NotStarted
  <1>6. ASSUME NEW c \in Calls, ListenSucceeds(c) PROVE AttachInv'
    BY <1>6 DEF ListenSucceeds
  <1>7. ASSUME NEW c \in Calls, ListenFails(c) PROVE AttachInv'
    BY <1>7 DEF ListenFails
  <1>8. ASSUME NEW c \in Calls, StopOwned(c) PROVE AttachInv'
    BY <1>8 DEF StopOwned, MayStop
  <1>9. ASSUME NEW c \in Calls, StopAttached(c) PROVE AttachInv'
    BY <1>9 DEF StopAttached, MayStop, Reset
  <1>10. ASSUME NEW c \in Calls, StopWithoutServer(c) PROVE AttachInv'
    BY <1>10 DEF StopWithoutServer, MayStop, Reset
  <1>11. ASSUME NEW s \in Calls, ServerCloses(s) PROVE AttachInv'
    BY <1>11 DEF ServerCloses, Reset
  <1>12. ASSUME NEW x \in Sessions, NEW s \in Calls, SessionOpens(x, s)
        PROVE AttachInv'
    BY <1>12 DEF SessionOpens
  <1>13. ASSUME NEW x \in Sessions, PeerCloses(x) \/ DestroyCompletes(x)
        PROVE AttachInv'
    BY <1>13 DEF PeerCloses, DestroyCompletes, SessionEnds
  <1>14. CASE UNCHANGED vars
    BY <1>14 DEF vars
  <1> QED
    BY <1>1, <1>2, <1>3, <1>4, <1>5, <1>6, <1>7, <1>8,
       <1>9, <1>10, <1>11, <1>12, <1>13, <1>14 DEF Next, Start, Stop

LEMMA NextAwaited == ~StopDuringListen /\ AwaitedInv /\ [Next]_vars => AwaitedInv'
  BY NextAnyOrder, NextListen, NextHold, NextAttach DEF AwaitedInv
\* The discipline under which the theorems below hold: every caller of stop()
\* awaits the start() before it.
THEOREM Awaited ==
  ASSUME ~StopDuringListen
  PROVE  Spec => []AwaitedInv
  <1>1. AwaitedInv /\ [Next]_vars => AwaitedInv'
    BY NextAwaited
  <1> QED
    BY <1>1, InitAwaited, PTL DEF Spec

\* No server that start() created is alive without stop() finding it.
THEOREM NoOrphans ==
  ASSUME ~StopDuringListen
  PROVE  Spec => []NoOrphanServer
  <1>1. AwaitedInv => NoOrphanServer
    BY DEF AwaitedInv, AnyOrderInv, FieldInv, HoldInv, NoOrphanServer
  <1>2. Spec => []AwaitedInv
    BY Awaited
  <1> QED
    BY <1>1, <1>2, PTL

LEMMA ServesHeld == AwaitedInv => ServesHeldHandler
  BY DEF AwaitedInv, AnyOrderInv, CallInv, HoldInv, AttachInv,
     ServesHeldHandler, Serving, Reachable

\* Requests reach no handler but the one the manager holds.
THEOREM OnlyHeldHandlerServes ==
  ASSUME ~StopDuringListen
  PROVE  Spec => []ServesHeldHandler
  <1>1. Spec => []AwaitedInv
    BY Awaited
  <1> QED
    BY <1>1, ServesHeld, PTL

\* The manager holds neither a handler nor a server.
Released == endpointHandler = NULL /\ httpServer = NULL

\* No handler is served and no own server is alive.
AllQuiet ==
    /\ Serving = {}
    /\ \A s \in Calls : server[s] \notin {"pending", "listening", "closing"}

LEMMA ReleasedIsQuiet == AwaitedInv /\ Released => AllQuiet
  <1> SUFFICES ASSUME AwaitedInv, endpointHandler = NULL, httpServer = NULL
               PROVE  AllQuiet
    BY DEF Released
  <1>1. Serving = {}
    BY ServesHeld, EndpointAssumption
       DEF EndpointAssumption, ServesHeldHandler, Serving
  <1>2. \A s \in Calls : server[s] \notin {"pending", "listening", "closing"}
    BY EndpointAssumption
       DEF EndpointAssumption, AwaitedInv, AnyOrderInv, CallInv, ListenInv, HoldInv
  <1> QED
    BY <1>1, <1>2 DEF AllQuiet

\* The last thing every stop() does is to let go of everything.
LEMMA StopReleases ==
  ASSUME TypeOK, CallInv, [Next]_vars,
         NEW c \in Calls, pc[c] # "stopped", pc'[c] = "stopped"
  PROVE  Released'
  <1> USE DEF Released, TypeOK, CallInv, fields, net
  <1>1. CASE AddDefinition \/ UNCHANGED vars
    BY <1>1 DEF AddDefinition, vars
  <1>2. ASSUME NEW d \in Calls, Start(d) PROVE FALSE
    BY <1>2 DEF Start, StartRefused, StartWithoutDefinitions, StartInvalid,
       StartAttached, StartListening, StartLambda, CreateHandler
  <1>3. ASSUME NEW d \in Calls, ListenSucceeds(d) \/ ListenFails(d) PROVE FALSE
    BY <1>3 DEF ListenSucceeds, ListenFails
  <1>4. ASSUME NEW d \in Calls, StopOwned(d) PROVE FALSE
    BY <1>4 DEF StopOwned
  <1>5. ASSUME NEW d \in Calls,
               StopAttached(d) \/ StopWithoutServer(d) \/ ServerCloses(d)
        PROVE  Released'
    BY <1>5 DEF StopAttached, StopWithoutServer, ServerCloses, Reset
  <1>6. ASSUME NEW x \in Sessions,
               \/ \E s \in Calls : SessionOpens(x, s)
               \/ PeerCloses(x) \/ DestroyCompletes(x)
        PROVE  FALSE
    BY <1>6 DEF SessionOpens, PeerCloses, DestroyCompletes, SessionEnds
  <1> QED
    BY <1>1, <1>2, <1>3, <1>4, <1>5, <1>6 DEF Next, Stop

\* A stop() that returns leaves nothing served and no server alive.
THEOREM StoppedIsStopped ==
  ASSUME ~StopDuringListen
  PROVE  Spec => StopMeansStopped
  <1> DEFINE P == \A c \in Calls : pc[c] # "stopped" /\ pc'[c] = "stopped" =>
                    /\ Serving' = {}
                    /\ \A s \in Calls :
                          server'[s] \notin {"pending", "listening", "closing"}
  <1>1. AwaitedInv /\ [Next]_vars => [P]_vars
    <2> SUFFICES ASSUME AwaitedInv, [Next]_vars PROVE P
      OBVIOUS
    <2>1. AwaitedInv'
      BY NextAwaited
    <2>2. ASSUME NEW c \in Calls, pc[c] # "stopped", pc'[c] = "stopped"
          PROVE  AllQuiet'
      <3>1. Released'
        BY <2>2, StopReleases DEF AwaitedInv, AnyOrderInv
      <3> QED
        BY <2>1, <3>1, ReleasedIsQuiet, PTL
    <2> QED
      BY <2>2 DEF AllQuiet
  <1>2. Spec => []AwaitedInv
    BY Awaited
  <1> QED
    BY <1>1, <1>2, PTL DEF Spec, StopMeansStopped

LEMMA HeldByOneStart ==
  ASSUME TypeOK, AwaitedInv, [Next]_vars,
         NEW c \in Calls, endpointHandler' = c, endpointHandler # c
  PROVE  Released
  <1> USE EndpointAssumption DEF EndpointAssumption, Released, TypeOK, fields, net
  <1>1. CASE AddDefinition \/ UNCHANGED vars
    BY <1>1 DEF AddDefinition, vars
  <1>2. ASSUME NEW d \in Calls, Start(d)
        PROVE  Released
    BY <1>2 DEF Start, StartRefused, StartWithoutDefinitions, StartInvalid,
       StartAttached, StartListening, StartLambda, CreateHandler, NotStarted
  <1>3. ASSUME NEW d \in Calls,
               \/ ListenSucceeds(d) \/ ListenFails(d)
               \/ Stop(d) \/ ServerCloses(d)
        PROVE FALSE
    BY <1>3 DEF ListenSucceeds, ListenFails, Stop, StopOwned, StopAttached,
       StopWithoutServer, ServerCloses, Reset
  <1>4. ASSUME NEW x \in Sessions,
               \/ \E s \in Calls : SessionOpens(x, s)
               \/ PeerCloses(x) \/ DestroyCompletes(x)
        PROVE  FALSE
    BY <1>4 DEF SessionOpens, PeerCloses, DestroyCompletes, SessionEnds
  <1> QED
    BY <1>1, <1>2, <1>3, <1>4 DEF Next

\* A start() that takes charge finds nothing served and no server alive: the
\* guard is enough when nobody stops during a listen.
THEOREM StartedFromStopped ==
  ASSUME ~StopDuringListen
  PROVE  Spec => StartMeansStopped
  <1> DEFINE P == \A c \in Calls : endpointHandler' = c /\ endpointHandler # c =>
                    /\ Serving = {}
                    /\ \A s \in Calls :
                          server[s] \notin {"pending", "listening", "closing"}
  <1>1. AwaitedInv /\ [Next]_vars => [P]_vars
    <2> SUFFICES ASSUME AwaitedInv, [Next]_vars,
                        NEW c \in Calls, endpointHandler' = c, endpointHandler # c
                 PROVE  AllQuiet
      BY DEF AllQuiet
    <2>1. Released
      BY HeldByOneStart DEF AwaitedInv, AnyOrderInv
    <2> QED
      BY <2>1, ReleasedIsQuiet
  <1>2. Spec => []AwaitedInv
    BY Awaited
  <1> QED
    BY <1>1, <1>2, PTL DEF Spec, StartMeansStopped

-----------------------------------------------------------------------------
(* Endpoint implements EndpointPromise (its safety part).                  *)

USE DEF Promise!Next, Promise!Begin, Promise!Settle, Promise!Drain,
        Promise!Down, Promise!vars

LEMMA InitImplements == Init => Promise!Init
  BY DEF Init, Promise!Init, Phase, Serving

LEMMA NextImplements ==
  ASSUME ~StopDuringListen, AwaitedInv, [Next]_vars
  PROVE  [Promise!Next]_(Promise!vars)
  <1> USE EndpointAssumption DEF EndpointAssumption, AwaitedInv, AnyOrderInv,
          TypeOK, CallInv, FieldInv, ListenInv, HoldInv, AttachInv, fields, net,
          Phase, Serving, Reachable
  <1>1. CASE AddDefinition \/ UNCHANGED vars
    BY <1>1 DEF AddDefinition, vars
  <1>2. ASSUME NEW c \in Calls,
               StartRefused(c) \/ StartWithoutDefinitions(c) \/ StartInvalid(c)
        PROVE  UNCHANGED Promise!vars
    BY <1>2 DEF StartRefused, StartWithoutDefinitions, StartInvalid
  <1>3. ASSUME NEW c \in Calls, NEW e \in ExtServers, StartAttached(c, e)
        PROVE  Promise!Begin(c)
    BY <1>3 DEF StartAttached, CreateHandler, NotStarted
  <1>4. ASSUME NEW c \in Calls, StartListening(c) \/ StartLambda(c)
        PROVE  Promise!Begin(c)
    BY <1>4 DEF StartListening, StartLambda, CreateHandler, NotStarted
  <1>5. ASSUME NEW c \in Calls, ListenSucceeds(c) \/ ListenFails(c)
        PROVE  Promise!Settle
    <2>1. Phase = "starting" /\ endpointHandler = c
      BY <1>5 DEF ListenSucceeds, ListenFails
    <2>2. CASE ListenSucceeds(c)
      <3>1. Phase' = "up"
        BY <2>1, <2>2 DEF ListenSucceeds
      <3>2. Serving' = {c}
        BY <2>1, <2>2 DEF ListenSucceeds
      <3> QED
        BY <2>1, <2>2, <3>1, <3>2 DEF ListenSucceeds
    <2>3. CASE ListenFails(c)
      <3>1. Phase' = "down" /\ endpointHandler' = NULL
        BY <2>3 DEF ListenFails
      <3>2. Serving' = {}
        BY <2>1, <2>3 DEF ListenFails
      <3> QED
        BY <2>1, <3>1, <3>2
    <2> QED
      BY <1>5, <2>2, <2>3
  <1>6. ASSUME NEW c \in Calls, StopOwned(c)
        PROVE  Promise!Drain \/ UNCHANGED Promise!vars
    BY <1>6 DEF StopOwned, MayStop
  <1>7. ASSUME NEW c \in Calls, StopAttached(c)
        PROVE  Promise!Down
    BY <1>7 DEF StopAttached, MayStop, Reset
  <1>8. ASSUME NEW c \in Calls, StopWithoutServer(c)
        PROVE  Promise!Down \/ UNCHANGED Promise!vars
    BY <1>8 DEF StopWithoutServer, MayStop, Reset
  <1>9. ASSUME NEW s \in Calls, ServerCloses(s)
        PROVE  Promise!Down
    BY <1>9 DEF ServerCloses, Reset
  <1>10. ASSUME NEW x \in Sessions,
               \/ \E s \in Calls : SessionOpens(x, s)
               \/ PeerCloses(x) \/ DestroyCompletes(x)
        PROVE  UNCHANGED Promise!vars
    BY <1>10 DEF SessionOpens, PeerCloses, DestroyCompletes, SessionEnds
  <1> QED
    BY <1>1, <1>2, <1>3, <1>4, <1>5, <1>6, <1>7, <1>8, <1>9, <1>10
       DEF Next, Start, Stop

\* Every step of the manager is a step of the promised life cycle or leaves it
\* alone, when nobody stops during a listen.
THEOREM Implements ==
  ASSUME ~StopDuringListen
  PROVE  Spec => ImplementsPromiseSteps
  <1>1. AwaitedInv /\ [Next]_vars => [Promise!Next]_(Promise!vars)
    BY NextImplements
  <1>2. Spec => []AwaitedInv
    BY Awaited
  <1> QED
    BY <1>1, <1>2, InitImplements, PTL
       DEF Spec, ImplementsPromiseSteps, Promise!Spec
=============================================================================
