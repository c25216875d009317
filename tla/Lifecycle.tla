----------------------------- MODULE Lifecycle -----------------------------
(***************************************************************************)
(* RestateModule's onModuleInit() and onModuleDestroy() (restate.module.ts)*)
(* over the life of one process: the composition of the endpoint manager   *)
(* (Endpoint) and of auto-registration (Registration).  The module calls   *)
(* start() and stop() once each, so that Endpoint's calls are those two;   *)
(* the process is the only one of Registration, and boots once.            *)
(*                                                                         *)
(* Nest is external.  It calls onModuleDestroy() on a signal or when the   *)
(* application is closed, and depending on its version it waits for the    *)
(* initialization to end first (setup.awaitsInit).                         *)
(***************************************************************************)
EXTENDS Integers, FiniteSets

CONSTANTS
    Sessions,           \* HTTP/2 sessions that peers may open
    Releases,           \* what discovery may find: sets of component summaries
    MaxComponents,      \* bound on the components of a release
    Configs,            \* autoRegister options, as in Registration
    InitialDeployments, \* what the admin API may hold at first
    Setups,             \* records [mode, autoRegister, awaitsInit]
    NULL, NoMetadata, EmptyMetadata, Malformed, NoAnswer

EndpointModes == {"port", "server", "lambda"}

ASSUME LifecycleAssumption ==
    /\ NULL \notin {"start", "stop", "app"}
    /\ MaxComponents \in Nat
    /\ \A r \in Releases : IsFiniteSet(r) /\ Cardinality(r) <= MaxComponents
    /\ Setups \subseteq [mode : EndpointModes, autoRegister : BOOLEAN,
                         awaitsInit : BOOLEAN]

VARIABLES
    \* the endpoint manager, Node's servers and sessions: see Endpoint
    definitions, endpointHandler, httpServer, ownsHttpServer, listeningPort,
    sessions, calls, awaits, server, attached, sessState, sessServer,
    \* registration and the admin API: see Registration
    config, deployed, posts, reg, boot, release, snapshot, told, outcome, overtaken,
    \* the module and its process
    setup,   \* the endpoint's mode, whether to register, and Nest's version
    init,    \* where onModuleInit() is
    url,     \* the own server whose port is in deploymentUrl, or NULL
    alive    \* is the process running?

E == INSTANCE Endpoint WITH
        pc <- calls, Calls <- {"start", "stop"}, ExtServers <- {"app"},
        MaxDefinitions <- MaxComponents, StopDuringListen <- TRUE

\* The manager as its callers should use it: nobody stops during a listen.
Orderly == INSTANCE Endpoint WITH
        pc <- calls, Calls <- {"start", "stop"}, ExtServers <- {"app"},
        MaxDefinitions <- MaxComponents, StopDuringListen <- FALSE

R == INSTANCE Registration WITH
        pc <- reg, Procs <- {"self"}, MaxBoots <- 1,
        fleet <- Releases, Fleets <- {Releases}

endpoint     == <<definitions, endpointHandler, httpServer, ownsHttpServer,
                  listeningPort, sessions, calls, awaits, server, attached,
                  sessState, sessServer>>
registration == <<config, deployed, posts, reg, boot, release, snapshot, told,
                  outcome, overtaken>>
vars == <<endpoint, registration, setup, init, url, alive>>

Init ==
    /\ E!Init
    /\ R!Init
    /\ setup \in Setups
    /\ init = "adding"
    /\ url = NULL
    /\ alive = TRUE

-----------------------------------------------------------------------------
(* onModuleInit().                                                         *)

Found == release["self"]

AddDefinition ==
    /\ alive /\ init = "adding"
    /\ definitions < Cardinality(Found)
    /\ E!AddDefinition
    /\ UNCHANGED <<registration, setup, init, url, alive>>

\* discover() refuses a component, and onModuleInit() throws what it threw.
DiscoveryThrows ==
    /\ alive /\ init = "adding"
    /\ definitions = 0 /\ Found # {}
    /\ init' = "threw"
    /\ UNCHANGED <<endpoint, registration, setup, url, alive>>

AllAdded == alive /\ init = "adding" /\ definitions = Cardinality(Found)

\* definitions.length > 0: call start() and await it.
StartEndpoint ==
    /\ AllAdded
    /\ definitions > 0
    /\ \/ E!StartInvalid("start")
       \/ setup.mode = "port"   /\ E!StartListening("start")
       \/ setup.mode = "server" /\ E!StartAttached("start", "app")
       \/ setup.mode = "lambda" /\ E!StartLambda("start")
    /\ init' = "starting"
    /\ UNCHANGED <<registration, setup, url, alive>>

\* No component was found: nothing to start.
StartNothing ==
    /\ AllAdded
    /\ definitions = 0
    /\ init' = "starting"
    /\ UNCHANGED <<endpoint, registration, setup, url, alive>>

ListenEnds ==
    /\ alive
    /\ E!ListenSucceeds("start") \/ E!ListenFails("start")
    /\ UNCHANGED <<registration, setup, init, url, alive>>

\* start() threw, and so does onModuleInit().
InitThrows ==
    /\ alive /\ init = "starting"
    /\ calls["start"] = "threw"
    /\ init' = "threw"
    /\ UNCHANGED <<endpoint, registration, setup, url, alive>>

\* Slip: start() is called but not awaited.
StartReturned_NotAwaited == calls["start"] # "threw"

\* Slip: a start() that was never called is waited for.
StartReturned_NothingToServe == calls["start"] = "started"

\* start() returned, or was not needed.
StartReturned == definitions = 0 \/ calls["start"] = "started"

\* Neither autoRegister nor admin is set: done.
StayQuiet ==
    /\ alive /\ init = "starting"
    /\ StartReturned
    /\ ~setup.autoRegister
    /\ init' = "quiet"
    /\ UNCHANGED <<endpoint, registration, setup, url, alive>>

\* Call registerDeployment(), with the summary of what was found.
Register ==
    /\ alive /\ init = "starting"
    /\ StartReturned
    /\ setup.autoRegister
    /\ R!Boot("self") /\ release' = release
    /\ init' = "registering"
    /\ UNCHANGED <<endpoint, setup, url, alive>>

-----------------------------------------------------------------------------
(* registerDeployment().                                                   *)

PortMissing == config.placeholder /\ listeningPort = NULL

SkipWithoutPort ==
    /\ alive
    /\ PortMissing
    /\ R!SkipWithoutPort("self")
    /\ UNCHANGED <<endpoint, setup, init, url, alive>>

\* Slip: "null" is put where the port belongs.
PortSubstituted_Unchecked == url' = IF config.placeholder THEN listeningPort ELSE NULL

\* deploymentUrl.replace("{{port}}", ...)
PortSubstituted ==
    /\ ~PortMissing
    /\ url' = IF config.placeholder THEN listeningPort ELSE NULL

\* The URL is settled in the same turn as the first request leaves.
FirstRequest ==
    /\ alive
    /\ PortSubstituted
    /\ R!SendGet("self") \/ R!PostBlindly("self")
    /\ UNCHANGED <<endpoint, setup, init, alive>>

LaterSteps ==
    /\ alive
    /\ \/ R!GetAnswered("self") \/ R!GetFails("self") \/ R!CallHook("self")
       \/ R!SkipUnchanged("self") \/ R!PostChecked("self")
       \/ R!PostReturns("self") \/ R!PostFails("self")
    /\ UNCHANGED <<endpoint, setup, init, url, alive>>

HookSettles ==
    /\ alive
    /\ R!Hook("self")
    /\ UNCHANGED <<endpoint, setup, init, url, alive>>

\* Requests reach a handler at deploymentUrl: through a server, or in lambda
\* mode through the platform.
Serves == E!Serving # {} \/ (setup.mode = "lambda" /\ endpointHandler # NULL)

\* Restate asks the URL for its interface, and is answered or not.
Handled(m) ==
    /\ alive /\ Serves
    /\ R!PostHandled(m, "self")
    /\ UNCHANGED <<endpoint, setup, init, url, alive>>

Rejected(m) ==
    /\ R!PostRejected(m)
    /\ UNCHANGED <<endpoint, setup, init, url, alive>>

-----------------------------------------------------------------------------
(* onModuleDestroy(), peers, and the end of the process.                   *)

Registered == init = "registering" /\ reg["self"] = "ready"

InitEnded == init \in {"quiet", "threw"} \/ Registered

\* The synchronous part of onModuleInit(), before which and after which a
\* signal may be handled, but not within.
BetweenTurns == init = "adding" => definitions = 0

\* Slip: the application is closed without waiting for its initialization.
MayDestroy_Always == BetweenTurns

MayDestroy == BetweenTurns /\ (setup.awaitsInit => InitEnded)

Destroy ==
    /\ alive
    /\ MayDestroy
    /\ E!Stop("stop")
    /\ UNCHANGED <<registration, setup, init, url, alive>>

ServerCloses ==
    /\ alive
    /\ E!ServerCloses("start")
    /\ UNCHANGED <<registration, setup, init, url, alive>>

DestroyCompletes(x) ==
    /\ alive
    /\ E!DestroyCompletes(x)
    /\ UNCHANGED <<registration, setup, init, url, alive>>

Peer(x) ==
    /\ alive
    /\ E!SessionOpens(x, "start") \/ E!PeerCloses(x)
    /\ UNCHANGED <<registration, setup, init, url, alive>>

\* The process is killed, or exits; what is on its way to Restate stays so.
Die ==
    /\ alive
    /\ alive' = FALSE
    /\ IF reg["self"] = "down" THEN UNCHANGED registration ELSE R!Crash("self")
    /\ UNCHANGED <<endpoint, setup, init, url>>

-----------------------------------------------------------------------------

OnModuleInit ==
    \/ DiscoveryThrows \/ AddDefinition \/ StartEndpoint \/ StartNothing
    \/ InitThrows \/ StayQuiet \/ Register

Registering == SkipWithoutPort \/ FirstRequest \/ LaterSteps

Next ==
    \/ OnModuleInit \/ ListenEnds
    \/ Registering \/ HookSettles
    \/ \E m \in posts : Handled(m) \/ Rejected(m)
    \/ Destroy \/ ServerCloses
    \/ \E x \in Sessions : Peer(x) \/ DestroyCompletes(x)
    \/ Die

Spec == Init /\ [][Next]_vars

\* The event loop runs every continuation; Node answers every listen, finishes
\* every destroy and emits "close".  Peers, the hook and signals owe nothing.
Fairness ==
    /\ WF_vars(OnModuleInit)
    /\ WF_vars(ListenEnds)
    /\ WF_vars(Registering)
    /\ WF_vars(ServerCloses)
    /\ \A x \in Sessions : WF_vars(DestroyCompletes(x))

FairSpec == Spec /\ Fairness

-----------------------------------------------------------------------------
(* Properties.                                                             *)

InitPoints == {"adding", "starting", "registering", "quiet", "threw"}

\* The type invariant: that of the components, and of the module's own state.
TypeOK ==
    /\ E!TypeOK
    /\ R!TypeOK
    /\ setup \in Setups
    /\ init \in InitPoints
    /\ url \in {"start", "stop", NULL}
    /\ alive \in BOOLEAN

StopIdle == calls["stop"] = "idle"

\* registerDeployment() is under way.
InProgress == reg["self"] \in {"registering", "getting", "answered", "hooking",
                               "posting", "replied"}

\* From the call of registerDeployment() on, Restate's discovery finds every
\* component of the release served, unless the application is being closed.
RegistersWhatServes ==
    init = "registering" /\ StopIdle /\ Found # {} =>
        Serves /\ definitions = Cardinality(Found)

\* The port in the URL that is being registered is the one the endpoint
\* listens on, and there is one if the URL asks for it.
UrlIsLive ==
    InProgress /\ reg["self"] # "registering" /\ StopIdle =>
        /\ url # NULL <=> config.placeholder
        /\ url # NULL => url = listeningPort /\ server[url] = "listening"

\* After onModuleDestroy() has returned, requests reach nothing, no server of
\* the manager is left and registration has ended, if Nest awaits the
\* initialization before it destroys.
DestroyedIsQuiet ==
    setup.awaitsInit /\ calls["stop"] = "stopped" =>
        /\ E!Serving = {}
        /\ server["start"] \in {"none", "closed", "failed"}
        /\ ~InProgress

\* A Nest that awaits the initialization keeps to the order that the endpoint
\* manager depends on: each of its steps is one of a manager that nobody stops
\* during a listen.
UsesEndpointOrderly ==
    [][setup.awaitsInit => [Orderly!Next]_endpoint]_vars

\* onModuleInit() ends, unless the process does or the user's hook never settles.
InitEnds == alive ~> InitEnded \/ ~alive \/ reg["self"] = "hooking"

-----------------------------------------------------------------------------
(* The inductive invariant that LifecycleProofs uses.                      *)

\* Where onModuleInit() is, and what it has called.
InitInv ==
    /\ calls["start"] \in {"idle", "listening", "started", "threw"}
    /\ init = "adding" => calls["start"] = "idle"
    /\ calls["start"] # "idle" => definitions > 0
    /\ calls["start"] = "listening" => init = "starting"
    /\ init \in {"starting", "registering", "quiet"} =>
          /\ definitions = Cardinality(Found)
          /\ calls["start"] = "idle" => definitions = 0
    /\ init \in {"registering", "quiet"} => calls["start"] \in {"idle", "started"}
    /\ reg["self"] # "down" => init = "registering" /\ alive

\* What a start() that returned leaves behind until the module is destroyed.
HeldInv ==
    StopIdle =>
        /\ calls["start"] = "started" =>
              /\ endpointHandler = "start"
              /\ CASE setup.mode = "port" ->
                        httpServer = "start" /\ server["start"] = "listening"
                   [] setup.mode = "server" ->
                        httpServer = "app" /\ "start" \in attached["app"]
                   [] setup.mode = "lambda" -> httpServer = NULL
        /\ calls["start"] = "listening" =>
              setup.mode = "port" /\ endpointHandler = "start"
        /\ calls["start"] # "started" => httpServer = NULL
        /\ server["start"] # "closing"

\* The port in the URL is that of the server held.
UrlInv ==
    InProgress /\ reg["self"] # "registering" =>
        /\ url # NULL <=> config.placeholder
        /\ StopIdle /\ url # NULL => url = listeningPort

\* A Nest that awaits the initialization destroys after it, and nothing that
\* the module does later undoes that.
DestroyInv ==
    setup.awaitsInit =>
        /\ ~StopIdle => InitEnded \/ ~alive
        /\ calls["stop"] = "stopped" => endpointHandler = NULL /\ httpServer = NULL

LifecycleInv == TypeOK /\ InitInv /\ HeldInv /\ UrlInv /\ DestroyInv
=============================================================================
