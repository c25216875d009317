------------------------------ MODULE Endpoint ------------------------------
(***************************************************************************)
(* RestateEndpointManager (lib/endpoint/restate.endpoint.ts): one object   *)
(* whose start() and stop() are asynchronous methods, so that the part of  *)
(* a call after its await interleaves with other calls.                    *)
(*                                                                         *)
(* A member c of Calls is one call of start() or stop().  The HTTP/2       *)
(* server and the request handler that a start() call creates are named by *)
(* that call; ExtServers are the servers a caller owns and passes in.      *)
(* Request processing is abstracted to which handlers are attached to      *)
(* which servers.                                                          *)
(***************************************************************************)
EXTENDS Integers, FiniteSets

CONSTANTS
    Calls,            \* calls of start() and stop()
    ExtServers,       \* HTTP/2 servers owned by the application
    Sessions,         \* HTTP/2 sessions that peers may open
    NULL,
    MaxDefinitions,   \* bound on addDefinition()
    StopDuringListen  \* may stop() be called while a start() awaits listen?

ASSUME EndpointAssumption ==
    /\ Calls \cap ExtServers = {}
    /\ NULL \notin Calls \cup ExtServers
    /\ MaxDefinitions \in Nat
    /\ StopDuringListen \in BOOLEAN

VARIABLES
    \* the fields of the manager
    definitions,      \* how many definitions were added
    endpointHandler,  \* the start() call whose handler is held, or NULL
    httpServer,       \* the server held, or NULL
    ownsHttpServer,
    listeningPort,    \* the own server whose port it is, or NULL
    sessions,         \* the tracked sessions
    \* the calls in flight
    pc,               \* where each call is
    awaits,           \* the server whose close each stop() awaits, or NULL
    \* Node's side: servers and sessions
    server,           \* life of the server each start() call creates
    attached,         \* the "request" listeners of every server
    sessState,        \* life of each session
    sessServer        \* the own server each session belongs to, or NULL

fields == <<definitions, endpointHandler, httpServer, ownsHttpServer,
            listeningPort, sessions>>
net    == <<sessState, sessServer>>
vars   == <<fields, pc, awaits, server, attached, net>>

Servers == Calls \cup ExtServers

PCs == {"idle", "listening", "closing", "started", "threw", "stopped"}
ServerStates == {"none", "pending", "listening", "closing", "closed", "failed"}
SessionStates == {"new", "open", "destroyed", "closed"}

Init ==
    /\ definitions = 0
    /\ endpointHandler = NULL
    /\ httpServer = NULL
    /\ ownsHttpServer = FALSE
    /\ listeningPort = NULL
    /\ sessions = {}
    /\ pc = [c \in Calls |-> "idle"]
    /\ awaits = [c \in Calls |-> NULL]
    /\ server = [c \in Calls |-> "none"]
    /\ attached = [s \in Servers |-> {}]
    /\ sessState = [x \in Sessions |-> "new"]
    /\ sessServer = [x \in Sessions |-> NULL]

-----------------------------------------------------------------------------
(* addDefinition() and start(config).                                      *)

AddDefinition ==
    /\ definitions < MaxDefinitions
    /\ definitions' = definitions + 1
    /\ UNCHANGED <<endpointHandler, httpServer, ownsHttpServer, listeningPort,
                   sessions, pc, awaits, server, attached, net>>

\* Slip: a start() that is still listening goes unnoticed.
NotStarted_ServerOnly == httpServer = NULL

\* The guard at the top of start().
NotStarted == endpointHandler = NULL /\ httpServer = NULL

\* "Restate endpoint already started. Call stop() before start()."
StartRefused(c) ==
    /\ pc[c] = "idle"
    /\ ~NotStarted
    /\ pc' = [pc EXCEPT ![c] = "threw"]
    /\ UNCHANGED <<fields, awaits, server, attached, net>>

\* "No Restate definitions to serve"
StartWithoutDefinitions(c) ==
    /\ pc[c] = "idle"
    /\ NotStarted
    /\ definitions = 0
    /\ pc' = [pc EXCEPT ![c] = "started"]
    /\ UNCHANGED <<fields, awaits, server, attached, net>>

\* createEndpointHandler rejects its options (invalid identity keys).
StartInvalid(c) ==
    /\ pc[c] = "idle"
    /\ NotStarted
    /\ definitions > 0
    /\ pc' = [pc EXCEPT ![c] = "threw"]
    /\ UNCHANGED <<fields, awaits, server, attached, net>>

\* createEndpointHandler succeeds and its handler is held.
CreateHandler(c) ==
    /\ pc[c] = "idle"
    /\ NotStarted
    /\ definitions > 0
    /\ endpointHandler' = c

\* Slip: the port of the application's server is reported as the manager's.
StartAttached_WithPort(c, e) ==
    /\ CreateHandler(c)
    /\ attached' = [attached EXCEPT ![e] = @ \cup {c}]
    /\ httpServer' = e
    /\ ownsHttpServer' = FALSE
    /\ listeningPort' = e
    /\ pc' = [pc EXCEPT ![c] = "started"]
    /\ UNCHANGED <<definitions, sessions, awaits, server, net>>

\* Server mode: attach to a server the application owns.
StartAttached(c, e) ==
    /\ CreateHandler(c)
    /\ attached' = [attached EXCEPT ![e] = @ \cup {c}]
    /\ httpServer' = e
    /\ ownsHttpServer' = FALSE
    /\ pc' = [pc EXCEPT ![c] = "started"]
    /\ UNCHANGED <<definitions, listeningPort, sessions, awaits, server, net>>

\* Port mode, up to the await of listen.
StartListening(c) ==
    /\ CreateHandler(c)
    /\ server' = [server EXCEPT ![c] = "pending"]
    /\ attached' = [attached EXCEPT ![c] = {c}]
    /\ pc' = [pc EXCEPT ![c] = "listening"]
    /\ UNCHANGED <<definitions, httpServer, ownsHttpServer, listeningPort,
                   sessions, awaits, net>>

\* Port mode, after listen succeeded.
ListenSucceeds(c) ==
    /\ pc[c] = "listening"
    /\ server' = [server EXCEPT ![c] = "listening"]
    /\ httpServer' = c
    /\ ownsHttpServer' = TRUE
    /\ listeningPort' = c
    /\ pc' = [pc EXCEPT ![c] = "started"]
    /\ UNCHANGED <<definitions, endpointHandler, sessions, awaits, attached, net>>

\* Port mode, after listen failed (port in use).
ListenFails(c) ==
    /\ pc[c] = "listening"
    /\ server' = [server EXCEPT ![c] = "failed"]
    /\ attached' = [attached EXCEPT ![c] = {}]
    /\ endpointHandler' = NULL
    /\ pc' = [pc EXCEPT ![c] = "threw"]
    /\ UNCHANGED <<definitions, httpServer, ownsHttpServer, listeningPort,
                   sessions, awaits, net>>

\* Lambda mode: nothing to start.
StartLambda(c) ==
    /\ CreateHandler(c)
    /\ pc' = [pc EXCEPT ![c] = "started"]
    /\ UNCHANGED <<definitions, httpServer, ownsHttpServer, listeningPort,
                   sessions, awaits, server, attached, net>>

-----------------------------------------------------------------------------
(* stop().                                                                 *)

\* Callers that await start() before they call stop() never stop during a
\* listen; StopDuringListen drops that discipline.
MayStop(c) ==
    /\ pc[c] = "idle"
    /\ StopDuringListen \/ \A d \in Calls : pc[d] # "listening"

\* Slip: the handler is not forgotten, so that start() refuses for ever.
Reset_KeepingHandler ==
    /\ httpServer' = NULL
    /\ ownsHttpServer' = FALSE
    /\ endpointHandler' = endpointHandler
    /\ listeningPort' = NULL

\* Slip: the port of a closed server is still reported.
Reset_KeepingPort ==
    /\ httpServer' = NULL
    /\ ownsHttpServer' = FALSE
    /\ endpointHandler' = NULL
    /\ listeningPort' = listeningPort

\* The assignments that end every stop(), whatever it did before.
Reset ==
    /\ httpServer' = NULL
    /\ ownsHttpServer' = FALSE
    /\ endpointHandler' = NULL
    /\ listeningPort' = NULL

\* Slip: close() is not awaited.
StopOwned_NotAwaiting(c) ==
    /\ MayStop(c)
    /\ httpServer # NULL
    /\ ownsHttpServer
    /\ sessState' = [x \in Sessions |->
                        IF x \in sessions THEN "destroyed" ELSE sessState[x]]
    /\ sessions' = {}
    /\ server' = [server EXCEPT ![httpServer] = "closing"]
    /\ Reset
    /\ pc' = [pc EXCEPT ![c] = "stopped"]
    /\ UNCHANGED <<definitions, awaits, attached, sessServer>>

\* Slip: the sessions are forgotten but not destroyed.
StopOwned_KeepingSessions(c) ==
    /\ MayStop(c)
    /\ httpServer # NULL
    /\ ownsHttpServer
    /\ sessions' = {}
    /\ server' = [server EXCEPT ![httpServer] = "closing"]
    /\ awaits' = [awaits EXCEPT ![c] = httpServer]
    /\ pc' = [pc EXCEPT ![c] = "closing"]
    /\ UNCHANGED <<definitions, endpointHandler, httpServer, ownsHttpServer,
                   listeningPort, attached, net>>

\* Own server: destroy the tracked sessions, close, await the close.
StopOwned(c) ==
    /\ MayStop(c)
    /\ httpServer # NULL
    /\ ownsHttpServer
    /\ sessState' = [x \in Sessions |->
                        IF x \in sessions THEN "destroyed" ELSE sessState[x]]
    /\ sessions' = {}
    /\ server' = [server EXCEPT ![httpServer] = "closing"]
    /\ awaits' = [awaits EXCEPT ![c] = httpServer]
    /\ pc' = [pc EXCEPT ![c] = "closing"]
    /\ UNCHANGED <<definitions, endpointHandler, httpServer, ownsHttpServer,
                   listeningPort, attached, sessServer>>

\* Slip: the application's server keeps the handler.
StopAttached_KeepingListener(c) ==
    /\ MayStop(c)
    /\ httpServer # NULL
    /\ ~ownsHttpServer
    /\ Reset
    /\ pc' = [pc EXCEPT ![c] = "stopped"]
    /\ UNCHANGED <<definitions, sessions, awaits, server, attached, net>>

\* Application's server: take the handler off it.
StopAttached(c) ==
    /\ MayStop(c)
    /\ httpServer # NULL
    /\ ~ownsHttpServer
    /\ attached' = [attached EXCEPT ![httpServer] = @ \ {endpointHandler}]
    /\ Reset
    /\ pc' = [pc EXCEPT ![c] = "stopped"]
    /\ UNCHANGED <<definitions, sessions, awaits, server, net>>

\* No server held: only the fields are reset.
StopWithoutServer(c) ==
    /\ MayStop(c)
    /\ httpServer = NULL
    /\ Reset
    /\ pc' = [pc EXCEPT ![c] = "stopped"]
    /\ UNCHANGED <<definitions, sessions, awaits, server, attached, net>>

\* The server has no session left and emits "close".  That event resolves
\* every stop() that awaits it in one go, and their continuations run before
\* any caller's.
ServerCloses(s) ==
    /\ server[s] = "closing"
    /\ \A x \in Sessions :
          sessServer[x] = s => sessState[x] \notin {"open", "destroyed"}
    /\ server' = [server EXCEPT ![s] = "closed"]
    /\ Reset
    /\ pc' = [c \in Calls |-> IF awaits[c] = s THEN "stopped" ELSE pc[c]]
    /\ awaits' = [c \in Calls |-> IF awaits[c] = s THEN NULL ELSE awaits[c]]
    /\ UNCHANGED <<definitions, sessions, attached, net>>

-----------------------------------------------------------------------------
(* trackSessions(): the "session" and "close" events of an own server.     *)

\* Slip: a session of the server is not tracked.
SessionOpens_Untracked(x, s) ==
    /\ sessState[x] = "new"
    /\ server[s] = "listening"
    /\ sessState' = [sessState EXCEPT ![x] = "open"]
    /\ sessServer' = [sessServer EXCEPT ![x] = s]
    /\ UNCHANGED <<fields, pc, awaits, server, attached>>

SessionOpens(x, s) ==
    /\ sessState[x] = "new"
    /\ server[s] = "listening"
    /\ sessState' = [sessState EXCEPT ![x] = "open"]
    /\ sessServer' = [sessServer EXCEPT ![x] = s]
    /\ sessions' = sessions \cup {x}
    /\ UNCHANGED <<definitions, endpointHandler, httpServer, ownsHttpServer,
                   listeningPort, pc, awaits, server, attached>>

SessionEnds(x, from) ==
    /\ sessState[x] = from
    /\ sessState' = [sessState EXCEPT ![x] = "closed"]
    /\ sessions' = sessions \ {x}
    /\ UNCHANGED <<definitions, endpointHandler, httpServer, ownsHttpServer,
                   listeningPort, pc, awaits, server, attached, sessServer>>

PeerCloses(x)      == SessionEnds(x, "open")
DestroyCompletes(x) == SessionEnds(x, "destroyed")

-----------------------------------------------------------------------------

Start(c) ==
    \/ StartRefused(c)
    \/ StartWithoutDefinitions(c)
    \/ StartInvalid(c)
    \/ \E e \in ExtServers : StartAttached(c, e)
    \/ StartListening(c)
    \/ StartLambda(c)

Stop(c) == StopOwned(c) \/ StopAttached(c) \/ StopWithoutServer(c)

Next ==
    \/ AddDefinition
    \/ \E c \in Calls :
          \/ Start(c) \/ ListenSucceeds(c) \/ ListenFails(c)
          \/ Stop(c) \/ ServerCloses(c)
    \/ \E x \in Sessions :
          \/ \E s \in Calls : SessionOpens(x, s)
          \/ PeerCloses(x) \/ DestroyCompletes(x)

Spec == Init /\ [][Next]_vars

\* Node answers every listen, finishes every destroy and emits "close" once
\* nothing is left open.  Peers owe nothing.
Fairness ==
    /\ \A c \in Calls : WF_vars(ListenSucceeds(c) \/ ListenFails(c))
    /\ \A c \in Calls : WF_vars(ServerCloses(c))
    /\ \A x \in Sessions : WF_vars(DestroyCompletes(x))

FairSpec == Spec /\ Fairness

-----------------------------------------------------------------------------
(* Properties.                                                             *)

\* The type invariant: what the manager's fields and Node's objects may hold.
TypeOK ==
    /\ definitions \in 0..MaxDefinitions
    /\ endpointHandler \in Calls \cup {NULL}
    /\ httpServer \in Servers \cup {NULL}
    /\ ownsHttpServer \in BOOLEAN
    /\ listeningPort \in Calls \cup {NULL}
    /\ sessions \subseteq Sessions
    /\ pc \in [Calls -> PCs]
    /\ awaits \in [Calls -> Calls \cup {NULL}]
    /\ server \in [Calls -> ServerStates]
    /\ attached \in [Servers -> SUBSET Calls]
    /\ sessState \in [Sessions -> SessionStates]
    /\ sessServer \in [Sessions -> Calls \cup {NULL}]

\* The handlers that requests can reach: those attached to a server that
\* accepts connections.
Reachable(s) == s \in ExtServers \/ server[s] = "listening"
Serving == {h \in Calls : \E s \in Servers : Reachable(s) /\ h \in attached[s]}

\* No server this manager created stays alive behind its back: every own
\* server that listens or closes is the one stop() would find.
NoOrphanServer ==
    \A s \in Calls :
        server[s] \in {"listening", "closing"} => httpServer = s /\ ownsHttpServer

\* Requests reach only the handler that the manager holds: whatever was
\* attached by an earlier start() is detached or unreachable.
ServesHeldHandler == Serving \subseteq {endpointHandler}

\* The sessions that stop() will destroy are exactly the open ones of the own
\* server, and a server that is closing has no session a peer could keep open.
SessionsTracked ==
    /\ sessions = {x \in Sessions : sessState[x] = "open"}
    /\ \A x \in sessions : server[sessServer[x]] = "listening"

\* registerDeployment() substitutes getListeningPort() for {{port}}: a port is
\* reported exactly while the server it belongs to is held and not closed.
PortIsLive ==
    /\ listeningPort # NULL <=> ownsHttpServer
    /\ listeningPort # NULL =>
          /\ httpServer = listeningPort
          /\ server[listeningPort] \in {"listening", "closing"}

\* When a stop() call returns, requests reach no handler of this manager
\* and no server of it is pending, listening or closing.
StopMeansStopped ==
    [][\A c \in Calls : pc[c] # "stopped" /\ pc'[c] = "stopped" =>
          /\ Serving' = {}
          /\ \A s \in Calls : server'[s] \notin {"pending", "listening", "closing"}]_vars

\* start() proceeds only when no server of an earlier start() is pending,
\* listening or closing: what its guard's message says.
StartMeansStopped ==
    [][\A c \in Calls : endpointHandler' = c /\ endpointHandler # c =>
          /\ Serving = {}
          /\ \A s \in Calls : server[s] \notin {"pending", "listening", "closing"}]_vars

\* Every stop() returns, however long the peers keep their sessions open, and
\* every start() returns or throws.
CallsReturn ==
    \A c \in Calls :
        pc[c] \in {"listening", "closing"} ~> pc[c] \in {"started", "threw", "stopped"}

-----------------------------------------------------------------------------
(* The inductive invariants that EndpointProofs uses.                      *)

\* Where a call is determines what became of its server.
CallInv ==
    \A c \in Calls :
        /\ pc[c] = "idle" => server[c] = "none"
        /\ pc[c] = "listening" <=> server[c] = "pending"
        /\ awaits[c] # NULL => pc[c] = "closing"
        /\ attached[c] \subseteq {c}
        /\ server[c] \in {"pending", "listening"} => attached[c] = {c}

\* The manager's fields agree with one another and with the server they name.
FieldInv ==
    /\ ownsHttpServer <=> httpServer \in Calls
    /\ listeningPort = IF httpServer \in Calls THEN httpServer ELSE NULL
    /\ httpServer \in Calls => server[httpServer] \in {"listening", "closing"}

\* What holds whatever the callers do.
AnyOrderInv == TypeOK /\ CallInv /\ FieldInv /\ SessionsTracked

\* A listen in progress is the manager's only business.
ListenInv ==
    \A c \in Calls :
        pc[c] = "listening" => endpointHandler = c /\ httpServer = NULL

\* A live own server is the one held, and a held server has its handler held.
HoldInv ==
    /\ \A s \in Calls : server[s] \in {"listening", "closing"} => httpServer = s
    /\ httpServer \in Calls => endpointHandler = httpServer
    /\ httpServer \in ExtServers => endpointHandler # NULL

\* Only the application's server that is held has a handler, the held one.
AttachInv ==
    \A e \in ExtServers :
        attached[e] # {} => httpServer = e /\ attached[e] = {endpointHandler}

\* What holds when nobody stops during a listen.
AwaitedInv == AnyOrderInv /\ ListenInv /\ HoldInv /\ AttachInv
=============================================================================
