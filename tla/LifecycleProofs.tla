--------------------------- MODULE LifecycleProofs ---------------------------
(***************************************************************************)
(* Theorems about Lifecycle, for every set of releases, options, setups    *)
(* and sessions.  The composition is shown to be one of Endpoint's and one *)
(* of Registration's behaviours, so that their theorems hold of it; and an *)
(* orderly one of Endpoint's when Nest awaits the initialization, so that  *)
(* the theorems that need that order hold too.                             *)
(***************************************************************************)
EXTENDS Lifecycle, FiniteSetTheorems, TLAPS

\* The theorems about the parts, read in the terms of the composition.
EP == INSTANCE EndpointProofs WITH
        pc <- calls, Calls <- {"start", "stop"}, ExtServers <- {"app"},
        MaxDefinitions <- MaxComponents, StopDuringListen <- TRUE

OP == INSTANCE EndpointProofs WITH
        pc <- calls, Calls <- {"start", "stop"}, ExtServers <- {"app"},
        MaxDefinitions <- MaxComponents, StopDuringListen <- FALSE

RP == INSTANCE RegistrationProofs WITH
        pc <- reg, Procs <- {"self"}, MaxBoots <- 1,
        fleet <- Releases, Fleets <- {Releases}

\* What the parts assume of their constants: of Registration's options this
\* module knows nothing, so that its theorems about it assume it.
PartsAssumption == RP!RegistrationAssumption /\ RP!SentinelAssumption

LEMMA EndpointAssumed ==
  EP!EndpointAssumption /\ OP!EndpointAssumption
  BY LifecycleAssumption
     DEF LifecycleAssumption, EP!EndpointAssumption, OP!EndpointAssumption

-----------------------------------------------------------------------------
(* The instances of one module with the same constants are the same.       *)

LEMMA SameEndpointStep == E!Next <=> EP!Next
  BY DEF E!AddDefinition, EP!AddDefinition, E!Start, EP!Start,
         E!StartRefused, EP!StartRefused, E!StartWithoutDefinitions,
         EP!StartWithoutDefinitions, E!StartInvalid, EP!StartInvalid,
         E!StartAttached, EP!StartAttached, E!StartListening,
         EP!StartListening, E!StartLambda, EP!StartLambda,
         E!CreateHandler, EP!CreateHandler, E!NotStarted,
         EP!NotStarted, E!ListenSucceeds, EP!ListenSucceeds,
         E!ListenFails, EP!ListenFails, E!Stop, EP!Stop, E!StopOwned,
         EP!StopOwned, E!StopAttached, EP!StopAttached,
         E!StopWithoutServer, EP!StopWithoutServer, E!MayStop,
         EP!MayStop, E!Reset, EP!Reset, E!ServerCloses,
         EP!ServerCloses, E!SessionOpens, EP!SessionOpens,
         E!SessionEnds, EP!SessionEnds, E!PeerCloses, EP!PeerCloses,
         E!DestroyCompletes, EP!DestroyCompletes, E!Next, EP!Next,
         E!net, EP!net, E!fields, EP!fields, E!vars, EP!vars

LEMMA SameOrderlyStep == Orderly!Next <=> OP!Next
  BY DEF Orderly!AddDefinition, OP!AddDefinition, Orderly!Start,
         OP!Start, Orderly!StartRefused, OP!StartRefused,
         Orderly!StartWithoutDefinitions, OP!StartWithoutDefinitions,
         Orderly!StartInvalid, OP!StartInvalid, Orderly!StartAttached,
         OP!StartAttached, Orderly!StartListening, OP!StartListening,
         Orderly!StartLambda, OP!StartLambda, Orderly!CreateHandler,
         OP!CreateHandler, Orderly!NotStarted, OP!NotStarted,
         Orderly!ListenSucceeds, OP!ListenSucceeds,
         Orderly!ListenFails, OP!ListenFails, Orderly!Stop, OP!Stop,
         Orderly!StopOwned, OP!StopOwned, Orderly!StopAttached,
         OP!StopAttached, Orderly!StopWithoutServer,
         OP!StopWithoutServer, Orderly!MayStop, OP!MayStop,
         Orderly!Reset, OP!Reset, Orderly!ServerCloses,
         OP!ServerCloses, Orderly!SessionOpens, OP!SessionOpens,
         Orderly!SessionEnds, OP!SessionEnds, Orderly!PeerCloses,
         OP!PeerCloses, Orderly!DestroyCompletes, OP!DestroyCompletes,
         Orderly!Next, OP!Next, Orderly!net, OP!net, Orderly!fields,
         OP!fields, Orderly!vars, OP!vars

LEMMA SameRegistrationStep == R!Next <=> RP!Next
  <1>1. \A m, q : R!PostHandled(m, q) <=> RP!PostHandled(m, q)
    BY DEF R!PostHandled, RP!PostHandled, R!Answers, RP!Answers, R!Respond,
           RP!Respond, R!Stored, RP!Stored, R!AlreadyStored,
           RP!AlreadyStored, R!Conflicts, RP!Conflicts, R!Goto, RP!Goto,
           R!Holds, RP!Holds, R!Boots, RP!Boots, R!BootOf, RP!BootOf,
           R!Sender, RP!Sender, R!ParseBlob, RP!ParseBlob, R!NoEntries,
           RP!NoEntries, R!ComponentMetadataMap, RP!ComponentMetadataMap,
           R!Tagged, RP!Tagged, R!InterfaceHash, RP!InterfaceHash
  <1>2. \A m : R!PostRejected(m) <=> RP!PostRejected(m)
    BY DEF R!PostRejected, RP!PostRejected, R!Respond, RP!Respond, R!Goto,
           RP!Goto
  <1>3. \A p : /\ R!Boot(p) <=> RP!Boot(p)
               /\ R!Crash(p) <=> RP!Crash(p)
               /\ R!Hook(p) <=> RP!Hook(p)
    BY DEF R!Boot, RP!Boot, R!Crash, RP!Crash, R!Hook, RP!Hook,
           R!HookReturns, RP!HookReturns, R!HookThrows, RP!HookThrows,
           R!SendPost, RP!SendPost, R!Goto, RP!Goto, R!End, RP!End,
           R!EffectiveForce, RP!EffectiveForce
  <1>4. \A p : R!Step(p) <=> RP!Step(p)
    BY DEF R!SkipWithoutPort, RP!SkipWithoutPort, R!SendGet, RP!SendGet,
           R!SendPost, RP!SendPost, R!PostBlindly, RP!PostBlindly,
           R!GetAnswered, RP!GetAnswered, R!GetFails, RP!GetFails,
           R!CallHook, RP!CallHook, R!Unchanged, RP!Unchanged,
           R!SkipUnchanged, RP!SkipUnchanged, R!PostChecked,
           RP!PostChecked, R!PostReturns, RP!PostReturns, R!PostFails,
           RP!PostFails, R!Step, RP!Step, R!Goto, RP!Goto, R!End, RP!End,
           R!EffectiveForce, RP!EffectiveForce, R!NeedsGet, RP!NeedsGet,
           R!Changes, RP!Changes, R!ExistingHashMatches,
           RP!ExistingHashMatches, R!StoredHash, RP!StoredHash,
           R!StoredBlob, RP!StoredBlob, R!DiffComponentMetadata,
           RP!DiffComponentMetadata, R!ComponentType, RP!ComponentType,
           R!Entry, RP!Entry, R!ParseBlob, RP!ParseBlob, R!NoEntries,
           RP!NoEntries, R!ComponentMetadataMap, RP!ComponentMetadataMap,
           R!Tagged, RP!Tagged, R!InterfaceHash, RP!InterfaceHash
  <1> QED
    BY <1>1, <1>2, <1>3, <1>4 DEF R!Next, RP!Next

LEMMA SameTypes == (E!TypeOK <=> EP!TypeOK) /\ (R!TypeOK <=> RP!TypeOK)
  <1>1. E!TypeOK <=> EP!TypeOK
    BY DEF E!TypeOK, EP!TypeOK, E!Servers, EP!Servers, E!PCs, EP!PCs,
           E!ServerStates, EP!ServerStates, E!SessionStates,
           EP!SessionStates
  <1>2. R!TypeOK <=> RP!TypeOK
    BY DEF R!TypeOK, RP!TypeOK, R!StoredDeployments,
           RP!StoredDeployments, R!RegisteredDeployments,
           RP!RegisteredDeployments, R!Ifaces, RP!Ifaces, R!Blobs,
           RP!Blobs, R!PCs, RP!PCs, R!Outcomes, RP!Outcomes,
           R!IsChange, RP!IsChange, R!ComponentMetadataMap,
           RP!ComponentMetadataMap, R!Tagged, RP!Tagged,
           R!InterfaceHash, RP!InterfaceHash
  <1> QED
    BY <1>1, <1>2

LEMMA SameInit == (E!Init <=> EP!Init) /\ (R!Init <=> RP!Init) /\ (E!Init <=> OP!Init)
  BY DEF E!Init, EP!Init, OP!Init, R!Init, RP!Init, E!Servers, EP!Servers, OP!Servers

-----------------------------------------------------------------------------
(* Every step of the composition is one of each part.                      *)

\* What a step of the composition is to the endpoint manager.
LEMMA EndpointStep == [Next]_vars => [E!Next]_endpoint
  <1> SUFFICES ASSUME [Next]_vars PROVE [E!Next]_endpoint
    OBVIOUS
  <1>1. ASSUME AddDefinition PROVE E!Next
    BY <1>1 DEF AddDefinition, E!Next
  <1>2. ASSUME StartEndpoint PROVE E!Next
    BY <1>2 DEF StartEndpoint, E!Next, E!Start
  <1>3. ASSUME ListenEnds PROVE E!Next
    BY <1>3 DEF ListenEnds, E!Next
  <1>4. ASSUME Destroy PROVE E!Next
    BY <1>4 DEF Destroy, E!Next
  <1>5. ASSUME ServerCloses PROVE E!Next
    BY <1>5 DEF ServerCloses, E!Next
  <1>6. ASSUME NEW x \in Sessions, Peer(x) \/ DestroyCompletes(x) PROVE E!Next
    BY <1>6 DEF Peer, DestroyCompletes, E!Next
  <1>7. ASSUME \/ DiscoveryThrows \/ StartNothing \/ InitThrows \/ StayQuiet
               \/ Register \/ Registering \/ HookSettles \/ Die
        PROVE  UNCHANGED endpoint
    BY <1>7 DEF DiscoveryThrows, StartNothing, InitThrows, StayQuiet, Register,
       Registering, SkipWithoutPort, FirstRequest, LaterSteps, HookSettles, Die
  <1>8. ASSUME NEW m \in posts, Handled(m) \/ Rejected(m) PROVE UNCHANGED endpoint
    BY <1>8 DEF Handled, Rejected
  <1>9. CASE UNCHANGED vars
    BY <1>9 DEF vars
  <1> QED
    BY <1>1, <1>2, <1>3, <1>4, <1>5, <1>6, <1>7, <1>8, <1>9 DEF Next, OnModuleInit

\* What a step of the composition is to registration.
LEMMA RegistrationStep == [Next]_vars => [R!Next]_registration
  <1> SUFFICES ASSUME [Next]_vars PROVE [R!Next]_registration
    OBVIOUS
  <1>1. ASSUME Register PROVE R!Next
    BY <1>1 DEF Register, R!Next
  <1>2. ASSUME Registering PROVE R!Next
    BY <1>2 DEF Registering, SkipWithoutPort, FirstRequest, LaterSteps, R!Next, R!Step
  <1>3. ASSUME HookSettles PROVE R!Next
    BY <1>3 DEF HookSettles, R!Next
  <1>4. ASSUME NEW m \in posts, Handled(m) \/ Rejected(m) PROVE R!Next
    BY <1>4 DEF Handled, Rejected, R!Next
  <1>5. ASSUME Die PROVE [R!Next]_registration
    BY <1>5 DEF Die, R!Next
  <1>6. ASSUME \/ DiscoveryThrows \/ AddDefinition \/ StartEndpoint \/ StartNothing
               \/ InitThrows \/ StayQuiet \/ ListenEnds \/ Destroy \/ ServerCloses
        PROVE  UNCHANGED registration
    BY <1>6 DEF DiscoveryThrows, AddDefinition, StartEndpoint, StartNothing,
       InitThrows, StayQuiet, ListenEnds, Destroy, ServerCloses
  <1>7. ASSUME NEW x \in Sessions, Peer(x) \/ DestroyCompletes(x)
        PROVE  UNCHANGED registration
    BY <1>7 DEF Peer, DestroyCompletes
  <1>8. CASE UNCHANGED vars
    BY <1>8 DEF vars
  <1> QED
    BY <1>1, <1>2, <1>3, <1>4, <1>5, <1>6, <1>7, <1>8 DEF Next, OnModuleInit

LEMMA EndpointVars == /\ UNCHANGED endpoint => UNCHANGED EP!vars
                      /\ UNCHANGED endpoint => UNCHANGED OP!vars
                      /\ UNCHANGED endpoint => UNCHANGED E!vars
                      /\ UNCHANGED registration => UNCHANGED RP!vars
                      /\ UNCHANGED registration => UNCHANGED R!vars
  BY DEF endpoint, registration, E!vars, E!fields, E!net, EP!vars, EP!fields, EP!net,
     OP!vars, OP!fields, OP!net, R!vars, RP!vars

LEMMA EndpointBehaviour == Spec => EP!Spec
  <1>1. Init => EP!Init
    BY SameInit DEF Init
  <1>2. [Next]_vars => [EP!Next]_(EP!vars)
    BY EndpointStep, EndpointVars, SameEndpointStep
  <1> QED
    BY <1>1, <1>2, PTL DEF Spec, EP!Spec

LEMMA RegistrationBehaviour == Spec => RP!Spec
  <1>1. Init => RP!Init
    BY SameInit DEF Init
  <1>2. [Next]_vars => [RP!Next]_(RP!vars)
    BY RegistrationStep, EndpointVars, SameRegistrationStep
  <1> QED
    BY <1>1, <1>2, PTL DEF Spec, RP!Spec

\* The module uses the endpoint manager as Endpoint describes it.
THEOREM ImplementsEndpoint == Spec => E!Spec
  <1>1. Init => E!Init
    BY DEF Init
  <1>2. [Next]_vars => [E!Next]_(E!vars)
    BY EndpointStep, EndpointVars
  <1> QED
    BY <1>1, <1>2, PTL DEF Spec, E!Spec

\* The module registers as Registration describes it.
THEOREM ImplementsRegistration == Spec => R!Spec
  <1>1. Init => R!Init
    BY DEF Init
  <1>2. [Next]_vars => [R!Next]_(R!vars)
    BY RegistrationStep, EndpointVars
  <1> QED
    BY <1>1, <1>2, PTL DEF Spec, R!Spec

-----------------------------------------------------------------------------
(* The module's own invariant.                                             *)

LEMMA InitLifecycle == Init => InitInv /\ HeldInv /\ UrlInv /\ DestroyInv
  BY LifecycleAssumption
     DEF LifecycleAssumption, Init, E!Init, R!Init, InitInv, HeldInv, UrlInv,
         DestroyInv, StopIdle, InProgress

\* The steps of a registration that has begun.
RegistrationGoesOn ==
    \/ R!Step("self") \/ R!Hook("self")
    \/ \E m \in posts : R!PostRejected(m) \/ R!PostHandled(m, "self")

LEMMA GoingOn ==
  ASSUME R!TypeOK, RegistrationGoesOn
  PROVE  /\ release' = release /\ config' = config
         /\ reg["self"] = "down" <=> reg'["self"] = "down"
         /\ reg["self"] = "ready" => reg'["self"] = "ready"
         /\ reg'["self"] = "registering" => reg["self"] = "registering"
  <1> DEFINE G == /\ release' = release /\ config' = config
                  /\ reg["self"] = "down" <=> reg'["self"] = "down"
                  /\ reg["self"] = "ready" => reg'["self"] = "ready"
                  /\ reg'["self"] = "registering" => reg["self"] = "registering"
  <1>1. reg \in [{"self"} -> R!PCs] /\ \A m \in posts : m.proc = "self"
    BY DEF R!TypeOK
  <1> USE <1>1 DEF R!Goto, R!End, R!SendPost, R!Respond
  <1>2. ASSUME R!SkipWithoutPort("self") \/ R!SendGet("self") \/ R!PostBlindly("self")
        PROVE  G
    BY <1>2 DEF R!SkipWithoutPort, R!SendGet, R!PostBlindly
  <1>3. ASSUME R!GetAnswered("self") \/ R!GetFails("self") \/ R!CallHook("self")
        PROVE  G
    BY <1>3 DEF R!GetAnswered, R!GetFails, R!CallHook
  <1>4. ASSUME \/ R!SkipUnchanged("self") \/ R!PostChecked("self")
               \/ R!PostReturns("self") \/ R!PostFails("self")
        PROVE  G
    BY <1>4 DEF R!SkipUnchanged, R!PostChecked, R!PostReturns, R!PostFails
  <1>5. ASSUME R!Hook("self") PROVE G
    BY <1>5 DEF R!Hook, R!HookReturns, R!HookThrows
  <1>6. ASSUME NEW m \in posts, R!PostRejected(m) PROVE G
    BY <1>6 DEF R!PostRejected
  <1>7. ASSUME NEW m \in posts, R!PostHandled(m, "self") PROVE G
    BY <1>7 DEF R!PostHandled, R!Stored, R!AlreadyStored, R!Conflicts
  <1> QED
    BY <1>2, <1>3, <1>4, <1>5, <1>6, <1>7 DEF RegistrationGoesOn, R!Step

\* What the invariant says of a step that leaves the endpoint alone and goes
\* on with a registration.
LEMMA GoingOnKeeps ==
  ASSUME R!TypeOK, InitInv, HeldInv, DestroyInv, RegistrationGoesOn,
         UNCHANGED <<endpoint, setup, init, alive>>
  PROVE  InitInv' /\ HeldInv' /\ DestroyInv'
  <1>1. /\ release' = release
        /\ reg["self"] = "down" <=> reg'["self"] = "down"
        /\ reg["self"] = "ready" => reg'["self"] = "ready"
    BY GoingOn
  <1> QED
    BY <1>1 DEF InitInv, HeldInv, DestroyInv, endpoint, Found, StopIdle,
       InitEnded, Registered

LEMMA LaterStepsGoOn ==
  ASSUME LaterSteps
  PROVE  RegistrationGoesOn /\ reg["self"] # "registering"
  BY DEF LaterSteps, RegistrationGoesOn, R!Step, R!GetAnswered, R!GetFails,
     R!CallHook, R!SkipUnchanged, R!PostChecked, R!PostReturns, R!PostFails

\* The URL stays what it was.
LEMMA GoingOnKeepsUrl ==
  ASSUME R!TypeOK, UrlInv, RegistrationGoesOn, UNCHANGED <<endpoint, url>>,
         reg["self"] = "registering" => ~InProgress'
  PROVE  UrlInv'
  <1>1. /\ config' = config
        /\ reg["self"] = "down" <=> reg'["self"] = "down"
        /\ reg["self"] = "ready" => reg'["self"] = "ready"
    BY GoingOn
  <1>2. reg["self"] \in R!PCs
    BY DEF R!TypeOK
  <1> QED
    BY <1>1, <1>2 DEF UrlInv, InProgress, StopIdle, endpoint, R!PCs

LEMMA PostGoesOn ==
  ASSUME R!TypeOK, NEW m \in posts, R!PostRejected(m) \/ R!PostHandled(m, "self"),
         reg["self"] = "registering"
  PROVE  reg'["self"] = "registering"
  BY DEF R!PostRejected, R!PostHandled, R!Stored, R!AlreadyStored, R!Conflicts,
     R!Respond, R!Goto, R!TypeOK

ModuleInv == InitInv /\ HeldInv /\ UrlInv /\ DestroyInv

\* What Endpoint's theorems say of the fields, in the composition's terms.
LEMMA EndpointFacts ==
  ASSUME EP!AnyOrderInv
  PROVE  /\ calls \in [{"start", "stop"} -> E!PCs]
         /\ server \in [{"start", "stop"} -> E!ServerStates]
         /\ attached \in [{"start", "stop"} \cup {"app"} -> SUBSET {"start", "stop"}]
         /\ definitions \in Nat
         /\ httpServer \in {"start", "stop"} \cup {"app", NULL}
         /\ awaits["start"] # NULL => calls["start"] = "closing"
         /\ listeningPort =
               IF httpServer \in {"start", "stop"} THEN httpServer ELSE NULL
         /\ \A c \in {"start", "stop"} :
               server[c] \in {"pending", "listening"} => attached[c] = {c}
         /\ httpServer \in {"start", "stop"} =>
               ownsHttpServer /\ server[httpServer] \in {"listening", "closing"}
         /\ calls["start"] = "listening" <=> server["start"] = "pending"
         /\ calls["stop"] = "idle" => server["stop"] = "none"
  BY LifecycleAssumption
     DEF LifecycleAssumption, EP!AnyOrderInv, EP!TypeOK, EP!CallInv, EP!FieldInv,
         EP!Servers, EP!PCs, EP!ServerStates, E!PCs, E!ServerStates

LEMMA NextModule ==
  ASSUME EP!AnyOrderInv, R!TypeOK, setup \in Setups, ModuleInv, [Next]_vars
  PROVE  ModuleInv'
  <1> USE EndpointFacts, LifecycleAssumption
      DEF LifecycleAssumption, ModuleInv, InitInv, HeldInv, UrlInv, DestroyInv,
          EndpointModes, StopIdle, Found, InitEnded, Registered, InProgress, endpoint,
          registration, E!PCs, E!ServerStates, E!net, E!fields
  <1>1. CASE DiscoveryThrows
    BY <1>1 DEF DiscoveryThrows
  <1>2. CASE AddDefinition
    BY <1>2 DEF AddDefinition, E!AddDefinition
  <1>3. CASE StartEndpoint
    <2>1. CASE E!StartInvalid("start")
      BY <1>3, <2>1 DEF StartEndpoint, AllAdded, E!StartInvalid
    <2>2. CASE setup.mode = "port" /\ E!StartListening("start")
      BY <1>3, <2>2 DEF StartEndpoint, AllAdded, E!StartListening, E!CreateHandler
    <2>3. CASE setup.mode = "server" /\ E!StartAttached("start", "app")
      BY <1>3, <2>3 DEF StartEndpoint, AllAdded, E!StartAttached, E!CreateHandler
    <2>4. CASE setup.mode = "lambda" /\ E!StartLambda("start")
      BY <1>3, <2>4 DEF StartEndpoint, AllAdded, E!StartLambda, E!CreateHandler
    <2> QED
      BY <1>3, <2>1, <2>2, <2>3, <2>4 DEF StartEndpoint
  <1>4. CASE StartNothing
    BY <1>4 DEF StartNothing, AllAdded
  <1>5. CASE InitThrows
    BY <1>5 DEF InitThrows
  <1>6. CASE StayQuiet
    <2>1. calls["start"] \in {"idle", "started"}
      BY <1>6 DEF StayQuiet, StartReturned
    <2> QED
      BY <1>6, <2>1 DEF StayQuiet
  <1>7. CASE Register
    <2>1. reg \in [{"self"} -> R!PCs]
      BY DEF R!TypeOK
    <2>2. reg["self"] = "down" /\ reg' = [reg EXCEPT !["self"] = "registering"]
      BY <1>7 DEF Register, R!Boot, R!Goto
    <2>3. reg'["self"] = "registering" /\ release' = release
      BY <1>7, <2>1, <2>2 DEF Register
    <2>4. calls["start"] \in {"idle", "started"}
      BY <1>7 DEF Register, StartReturned
    <2> QED
      BY <1>7, <2>2, <2>3, <2>4 DEF Register
  <1>8. CASE ListenEnds
    <2>1. CASE E!ListenSucceeds("start")
      BY <1>8, <2>1 DEF ListenEnds, E!ListenSucceeds
    <2>2. CASE E!ListenFails("start")
      BY <1>8, <2>2 DEF ListenEnds, E!ListenFails
    <2> QED
      BY <1>8, <2>1, <2>2 DEF ListenEnds
  <1>9. CASE SkipWithoutPort
    <2>1. RegistrationGoesOn /\ ~InProgress'
      BY <1>9 DEF SkipWithoutPort, RegistrationGoesOn, R!Step, R!SkipWithoutPort,
         R!End, R!Goto, R!TypeOK
    <2> HIDE DEF ModuleInv, InitInv, HeldInv, UrlInv, DestroyInv, InProgress
    <2> QED
      BY <1>9, <2>1, GoingOnKeeps, GoingOnKeepsUrl DEF SkipWithoutPort, ModuleInv
  <1>10. CASE FirstRequest
    <2>1. RegistrationGoesOn /\ config' = config
      BY <1>10, GoingOn DEF FirstRequest, RegistrationGoesOn, R!Step
    <2>2. reg["self"] = "registering"
      BY <1>10 DEF FirstRequest, R!SendGet, R!PostBlindly
    <2>3. url' = IF config.placeholder THEN listeningPort ELSE NULL
      BY <1>10 DEF FirstRequest, PortSubstituted
    <2>4. config.placeholder => listeningPort # NULL
      BY <1>10 DEF FirstRequest, PortSubstituted, PortMissing
    <2>5. UrlInv'
      BY <1>10, <2>1, <2>3, <2>4 DEF FirstRequest
    <2> HIDE DEF InitInv, HeldInv, UrlInv, DestroyInv
    <2> QED
      BY <1>10, <2>1, <2>5, GoingOnKeeps DEF FirstRequest
  <1>11. CASE LaterSteps
    <2>1. RegistrationGoesOn /\ reg["self"] # "registering"
      BY <1>11, LaterStepsGoOn
    <2> HIDE DEF InitInv, HeldInv, UrlInv, DestroyInv, InProgress
    <2> QED
      BY <1>11, <2>1, GoingOnKeeps, GoingOnKeepsUrl DEF LaterSteps
  <1>12. CASE HookSettles
    <2>1. RegistrationGoesOn /\ reg["self"] # "registering"
      BY <1>12 DEF HookSettles, RegistrationGoesOn, R!Hook, R!HookReturns, R!HookThrows
    <2> HIDE DEF InitInv, HeldInv, UrlInv, DestroyInv, InProgress
    <2> QED
      BY <1>12, <2>1, GoingOnKeeps, GoingOnKeepsUrl DEF HookSettles
  <1>13. ASSUME NEW m \in posts, Handled(m) \/ Rejected(m)
         PROVE  ModuleInv'
    <2>1. R!PostRejected(m) \/ R!PostHandled(m, "self")
      BY <1>13 DEF Handled, Rejected
    <2>2. RegistrationGoesOn
      BY <2>1 DEF RegistrationGoesOn
    <2>3. UNCHANGED <<endpoint, setup, init, url, alive>>
      BY <1>13 DEF Handled, Rejected
    <2>4. UrlInv'
      <3>1. CASE reg["self"] = "registering"
        <4>1. reg'["self"] = "registering"
          BY <2>1, <3>1, PostGoesOn
        <4> QED
          BY <4>1 DEF UrlInv
      <3>2. CASE reg["self"] # "registering"
        <4> HIDE DEF InitInv, HeldInv, UrlInv, DestroyInv, InProgress
        <4> QED
          BY <2>2, <2>3, <3>2, GoingOnKeepsUrl
      <3> QED
        BY <3>1, <3>2
    <2> HIDE DEF InitInv, HeldInv, UrlInv, DestroyInv, InProgress
    <2> QED
      BY <2>2, <2>3, <2>4, GoingOnKeeps
  <1>14. CASE Destroy
    <2>1. CASE E!StopOwned("stop")
      BY <1>14, <2>1 DEF Destroy, MayDestroy, E!StopOwned, E!MayStop
    <2>2. CASE E!StopAttached("stop")
      BY <1>14, <2>2 DEF Destroy, MayDestroy, E!StopAttached, E!MayStop, E!Reset
    <2>3. CASE E!StopWithoutServer("stop")
      BY <1>14, <2>3 DEF Destroy, MayDestroy, E!StopWithoutServer, E!MayStop, E!Reset
    <2> QED
      BY <1>14, <2>1, <2>2, <2>3 DEF Destroy, E!Stop
  <1>15. CASE ServerCloses
    BY <1>15 DEF ServerCloses, E!ServerCloses, E!Reset
  <1>16. ASSUME NEW x \in Sessions, Peer(x) \/ DestroyCompletes(x)
         PROVE  ModuleInv'
    BY <1>16 DEF Peer, DestroyCompletes, E!SessionOpens, E!PeerCloses,
       E!DestroyCompletes, E!SessionEnds
  <1>17. CASE Die
    <2>1. reg'["self"] = "down" /\ UNCHANGED release
      BY <1>17 DEF Die, R!Crash, R!Goto, R!TypeOK
    <2> QED
      BY <1>17, <2>1 DEF Die
  <1>18. CASE UNCHANGED vars
    BY <1>18 DEF vars
  <1> QED
    BY <1>1, <1>2, <1>3, <1>4, <1>5, <1>6, <1>7, <1>8, <1>9, <1>10, <1>11,
       <1>12, <1>13, <1>14, <1>15, <1>16, <1>17, <1>18
       DEF Next, OnModuleInit, Registering

-----------------------------------------------------------------------------
(* The theorems.                                                           *)

LEMMA SetupKept == [Next]_vars => UNCHANGED setup
  BY DEF Next, vars, OnModuleInit, Registering, DiscoveryThrows, AddDefinition,
     StartEndpoint, StartNothing, InitThrows, StayQuiet, Register, ListenEnds,
     SkipWithoutPort, FirstRequest, LaterSteps, HookSettles, Handled, Rejected,
     Destroy, ServerCloses, Peer, DestroyCompletes, Die

LEMMA InitOwnType == Init => setup \in Setups /\ init \in InitPoints
                             /\ url \in {"start", "stop", NULL} /\ alive \in BOOLEAN
  BY DEF Init, InitPoints

LEMMA NextOwnType ==
  ASSUME EP!AnyOrderInv, init \in InitPoints, url \in {"start", "stop", NULL},
         alive \in BOOLEAN, [Next]_vars
  PROVE  /\ init' \in InitPoints
         /\ url' \in {"start", "stop", NULL}
         /\ alive' \in BOOLEAN
  <1>1. listeningPort \in {"start", "stop", NULL}
    BY EndpointFacts
  <1> QED
    BY <1>1 DEF InitPoints, Next, vars, OnModuleInit, Registering, DiscoveryThrows,
     AddDefinition, StartEndpoint, StartNothing, InitThrows, StayQuiet, Register,
     ListenEnds, SkipWithoutPort, FirstRequest, PortSubstituted, LaterSteps,
     HookSettles, Handled, Rejected, Destroy, ServerCloses, Peer, DestroyCompletes, Die

OwnType == /\ setup \in Setups /\ init \in InitPoints
           /\ url \in {"start", "stop", NULL} /\ alive \in BOOLEAN

\* The inductive invariant of the composition: types, and how the points of
\* onModuleInit() and onModuleDestroy() relate to endpoint and registration.
THEOREM LifecycleInvariant ==
  ASSUME PartsAssumption
  PROVE  Spec => []LifecycleInv
  <1>1. Spec => []EP!AnyOrderInv
    BY EndpointBehaviour, EndpointAssumed, EP!AnyOrder, PTL
  <1>2. Spec => []RP!TypeOK
    BY RegistrationBehaviour, RP!RegistrationTypeCorrect, PTL DEF PartsAssumption
  <1>3. RP!TypeOK => R!TypeOK
    BY SameTypes
  <1>4. EP!AnyOrderInv => E!TypeOK
    BY SameTypes DEF EP!AnyOrderInv
  <1>5. Init => OwnType /\ ModuleInv
    BY InitOwnType, InitLifecycle DEF OwnType, ModuleInv
  <1>6. EP!AnyOrderInv /\ R!TypeOK /\ OwnType /\ ModuleInv /\ [Next]_vars
          => OwnType' /\ ModuleInv'
    BY SetupKept, NextOwnType, NextModule DEF OwnType
  <1>7. E!TypeOK /\ R!TypeOK /\ OwnType /\ ModuleInv => LifecycleInv
    BY DEF LifecycleInv, TypeOK, OwnType, ModuleInv
  <1> QED
    BY <1>1, <1>2, <1>3, <1>4, <1>5, <1>6, <1>7, PTL DEF Spec

\* The composition keeps the types of both parts.
THEOREM LifecycleTypeCorrect ==
  ASSUME PartsAssumption
  PROVE  Spec => []TypeOK
  <1>1. LifecycleInv => TypeOK
    BY DEF LifecycleInv
  <1> QED
    BY <1>1, LifecycleInvariant, PTL

LEMMA FoundIsFinite ==
  ASSUME TypeOK
  PROVE  IsFiniteSet(Found)
  <1>1. release["self"] \in Releases
    BY DEF TypeOK, R!TypeOK
  <1> QED
    BY <1>1, LifecycleAssumption DEF LifecycleAssumption, Found

LEMMA ServesWhenRegistering ==
  ASSUME LifecycleInv, EP!AnyOrderInv, init = "registering", StopIdle, Found # {}
  PROVE  Serves
  <1>1. definitions = Cardinality(Found) /\ calls["start"] = "started"
    <2>1. Cardinality(Found) # 0
      BY FoundIsFinite, FS_EmptySet DEF LifecycleInv
    <2> QED
      BY <2>1 DEF LifecycleInv, InitInv
  <1>2. setup.mode \in EndpointModes
    BY LifecycleAssumption DEF LifecycleAssumption, LifecycleInv, TypeOK
  <1>3. CASE setup.mode = "port"
    <2>1. server["start"] = "listening" /\ attached["start"] = {"start"}
      BY <1>1, <1>3, EndpointFacts DEF LifecycleInv, HeldInv
    <2>2. "start" \in E!Serving
      BY <2>1 DEF E!Serving, E!Servers, E!Reachable
    <2> QED
      BY <2>2 DEF Serves
  <1>4. CASE setup.mode = "server"
    <2>1. "start" \in attached["app"]
      BY <1>1, <1>4 DEF LifecycleInv, HeldInv
    <2>2. "start" \in E!Serving
      BY <2>1 DEF E!Serving, E!Servers, E!Reachable
    <2> QED
      BY <2>2 DEF Serves
  <1>5. CASE setup.mode = "lambda"
    <2>1. endpointHandler = "start"
      BY <1>1 DEF LifecycleInv, HeldInv
    <2> QED
      BY <1>5, <2>1, LifecycleAssumption DEF LifecycleAssumption, Serves
  <1> QED
    BY <1>2, <1>3, <1>4, <1>5 DEF EndpointModes

\* What is registered is served: discovery at the URL finds every component.
THEOREM RegistersWhatServesAlways ==
  ASSUME PartsAssumption
  PROVE  Spec => []RegistersWhatServes
  <1>1. LifecycleInv /\ EP!AnyOrderInv => RegistersWhatServes
    BY ServesWhenRegistering DEF RegistersWhatServes, LifecycleInv, InitInv
  <1>2. Spec => []EP!AnyOrderInv
    BY EndpointBehaviour, EndpointAssumed, EP!AnyOrder, PTL
  <1> QED
    BY <1>1, <1>2, LifecycleInvariant, PTL

\* The port that is registered is the one the endpoint listens on.
THEOREM UrlIsLiveAlways ==
  ASSUME PartsAssumption
  PROVE  Spec => []UrlIsLive
  <1>1. LifecycleInv /\ EP!AnyOrderInv => UrlIsLive
    <2> SUFFICES ASSUME LifecycleInv, EP!AnyOrderInv, InProgress,
                        reg["self"] # "registering", StopIdle
                 PROVE  /\ url # NULL <=> config.placeholder
                        /\ url # NULL => url = listeningPort /\ server[url] = "listening"
      BY DEF UrlIsLive
    <2>1. url # NULL <=> config.placeholder
      BY DEF LifecycleInv, UrlInv
    <2>2. ASSUME url # NULL PROVE url = listeningPort /\ server[url] = "listening"
      <3>1. url = listeningPort
        BY <2>2 DEF LifecycleInv, UrlInv
      <3>2. url = httpServer /\ url \in {"start", "stop"}
        BY <2>2, <3>1, EndpointFacts
      <3>3. server[url] \in {"listening", "closing"}
        BY <3>2, EndpointFacts
      <3>4. url = "start"
        BY <3>2, <3>3, EndpointFacts DEF StopIdle
      <3> QED
        BY <3>1, <3>3, <3>4 DEF LifecycleInv, HeldInv
    <2> QED
      BY <2>1, <2>2
  <1>2. Spec => []EP!AnyOrderInv
    BY EndpointBehaviour, EndpointAssumed, EP!AnyOrder, PTL
  <1> QED
    BY <1>1, <1>2, LifecycleInvariant, PTL

-----------------------------------------------------------------------------
(* A Nest that awaits the initialization.                                  *)

\* A step of the composition is one of a manager that nobody stops during a
\* listen: a destroy comes when onModuleInit() has ended.
LEMMA OrderlyStep ==
  ASSUME LifecycleInv, EP!AnyOrderInv, setup.awaitsInit, [Next]_vars
  PROVE  [Orderly!Next]_endpoint
  <1>1. ASSUME AddDefinition PROVE Orderly!Next
    BY <1>1 DEF AddDefinition, E!AddDefinition, Orderly!AddDefinition, Orderly!Next,
       E!net, Orderly!net
  <1>2. ASSUME StartEndpoint PROVE Orderly!Next
    BY <1>2 DEF StartEndpoint, Orderly!Next, Orderly!Start,
       E!StartInvalid, E!StartListening, E!StartAttached, E!StartLambda,
       E!CreateHandler, E!NotStarted, E!fields, E!net,
       Orderly!StartInvalid, Orderly!StartListening, Orderly!StartAttached,
       Orderly!StartLambda, Orderly!CreateHandler, Orderly!NotStarted,
       Orderly!fields, Orderly!net
  <1>3. ASSUME ListenEnds PROVE Orderly!Next
    BY <1>3 DEF ListenEnds, Orderly!Next, E!ListenSucceeds, E!ListenFails, E!net,
       Orderly!ListenSucceeds, Orderly!ListenFails, Orderly!net
  <1>4. ASSUME Destroy PROVE Orderly!Next
    <2>1. InitEnded
      BY <1>4 DEF Destroy, MayDestroy
    <2>2. \A d \in {"start", "stop"} : calls[d] # "listening"
      BY <1>4, <2>1
         DEF LifecycleInv, InitInv, InitEnded, Registered, Destroy, E!Stop, E!StopOwned,
             E!StopAttached, E!StopWithoutServer, E!MayStop
    <2>3. Orderly!Stop("stop")
      BY <1>4, <2>2 DEF Destroy, E!Stop, E!StopOwned, E!StopAttached,
         E!StopWithoutServer, E!MayStop, E!Reset, E!net, Orderly!Stop, Orderly!StopOwned,
         Orderly!StopAttached, Orderly!StopWithoutServer, Orderly!MayStop,
         Orderly!Reset, Orderly!net
    <2> QED
      BY <2>3 DEF Orderly!Next
  <1>5. ASSUME ServerCloses PROVE Orderly!Next
    BY <1>5 DEF ServerCloses, E!ServerCloses, E!Reset, E!net, Orderly!Next,
       Orderly!ServerCloses, Orderly!Reset, Orderly!net
  <1>6. ASSUME NEW x \in Sessions, Peer(x) \/ DestroyCompletes(x) PROVE Orderly!Next
    BY <1>6 DEF Peer, DestroyCompletes, E!SessionOpens, E!PeerCloses,
       E!DestroyCompletes, E!SessionEnds, E!fields, Orderly!Next,
       Orderly!SessionOpens, Orderly!PeerCloses, Orderly!DestroyCompletes,
       Orderly!SessionEnds, Orderly!fields
  <1>7. ASSUME \/ DiscoveryThrows \/ StartNothing \/ InitThrows \/ StayQuiet
               \/ Register \/ Registering \/ HookSettles \/ Die
        PROVE  UNCHANGED endpoint
    BY <1>7 DEF DiscoveryThrows, StartNothing, InitThrows, StayQuiet, Register,
       Registering, SkipWithoutPort, FirstRequest, LaterSteps, HookSettles, Die
  <1>8. ASSUME NEW m \in posts, Handled(m) \/ Rejected(m) PROVE UNCHANGED endpoint
    BY <1>8 DEF Handled, Rejected
  <1>9. CASE UNCHANGED vars
    BY <1>9 DEF vars
  <1> QED
    BY <1>1, <1>2, <1>3, <1>4, <1>5, <1>6, <1>7, <1>8, <1>9 DEF Next, OnModuleInit

\* Such a Nest keeps to the order that the endpoint manager depends on.
THEOREM EndpointUsedOrderly ==
  ASSUME PartsAssumption
  PROVE  Spec => UsesEndpointOrderly
  <1>1. LifecycleInv /\ EP!AnyOrderInv /\ [Next]_vars
          => [setup.awaitsInit => [Orderly!Next]_endpoint]_vars
    BY OrderlyStep
  <1>2. Spec => []EP!AnyOrderInv
    BY EndpointBehaviour, EndpointAssumed, EP!AnyOrder, PTL
  <1> QED
    BY <1>1, <1>2, LifecycleInvariant, PTL DEF Spec, UsesEndpointOrderly

\* What the manager guarantees when used in order, under such a Nest.
LEMMA OrderlyBehaviour ==
  ASSUME PartsAssumption
  PROVE  Spec /\ setup.awaitsInit => OP!Spec
  <1>1. Init => OP!Init
    BY SameInit DEF Init
  <1>2. LifecycleInv /\ EP!AnyOrderInv /\ setup.awaitsInit /\ [Next]_vars
          => [OP!Next]_(OP!vars)
    BY OrderlyStep, SameOrderlyStep, EndpointVars
  <1>3. setup.awaitsInit /\ [Next]_vars => (setup.awaitsInit)'
    BY SetupKept
  <1>4. Spec => []EP!AnyOrderInv
    BY EndpointBehaviour, EndpointAssumed, EP!AnyOrder, PTL
  <1> QED
    BY <1>1, <1>2, <1>3, <1>4, LifecycleInvariant, PTL DEF Spec, OP!Spec

LEMMA QuietWhenReleased ==
  ASSUME OP!AwaitedInv, LifecycleInv, setup.awaitsInit, calls["stop"] = "stopped"
  PROVE  /\ E!Serving = {}
         /\ server["start"] \in {"none", "closed", "failed"}
         /\ ~InProgress
  <1>1. OP!Released
    BY DEF LifecycleInv, DestroyInv, OP!Released
  <1>2. OP!AllQuiet
    BY <1>1, OP!ReleasedIsQuiet, EndpointAssumed
  <1>3. E!Serving = {}
    BY <1>2 DEF OP!AllQuiet, OP!Serving, E!Serving, OP!Servers, E!Servers,
       OP!Reachable, E!Reachable
  <1>4. server["start"] \in {"none", "closed", "failed"}
    BY <1>2 DEF OP!AllQuiet, LifecycleInv, TypeOK, E!TypeOK, E!ServerStates
  <1>5. ~InProgress
    BY DEF LifecycleInv, DestroyInv, InitInv, StopIdle, InitEnded, Registered, InProgress
  <1> QED
    BY <1>3, <1>4, <1>5

\* Nothing is served, left open or under way once onModuleDestroy() returned.
THEOREM DestroyedIsQuietAlways ==
  ASSUME PartsAssumption
  PROVE  Spec => []DestroyedIsQuiet
  <1>1. Spec /\ setup.awaitsInit => []OP!AwaitedInv
    BY OrderlyBehaviour, EndpointAssumed, OP!Awaited, PTL
  <1>2. OP!AwaitedInv /\ LifecycleInv => DestroyedIsQuiet
    BY QuietWhenReleased DEF DestroyedIsQuiet
  <1>3. ~setup.awaitsInit => DestroyedIsQuiet
    BY DEF DestroyedIsQuiet
  <1>4. ~setup.awaitsInit /\ [Next]_vars => (~setup.awaitsInit)'
    BY SetupKept
  <1> QED
    BY <1>1, <1>2, <1>3, <1>4, LifecycleInvariant, PTL DEF Spec

-----------------------------------------------------------------------------
(* What the parts promise, the process keeps.                              *)

\* Deploying a process keeps the promise of registration: one request a boot, no
\* replacement without a reason, and no report that is not so.
THEOREM ProcessKeepsRegistrationPromise ==
  ASSUME PartsAssumption
  PROVE  Spec => RP!Promise!Spec
  <1>1. RP!Spec => RP!Promise!Spec
    BY RP!KeepsPromiseAlways DEF PartsAssumption, RP!KeepsPromise
  <1> QED
    BY <1>1, RegistrationBehaviour, PTL

\* A process whose Nest awaits the initialization keeps the endpoint's promise:
\* one life cycle, and requests reach a handler only while the endpoint is up.
THEOREM ProcessKeepsEndpointPromise ==
  ASSUME PartsAssumption
  PROVE  Spec /\ setup.awaitsInit => OP!ImplementsPromiseSteps
  <1>1. OP!Spec => OP!ImplementsPromiseSteps
    BY EndpointAssumed, OP!Implements
  <1> QED
    BY <1>1, OrderlyBehaviour, PTL
=============================================================================
