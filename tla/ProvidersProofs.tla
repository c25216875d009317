-------------------------- MODULE ProvidersProofs --------------------------
(***************************************************************************)
(* Theorems about Providers, for every set of classes and every order in   *)
(* which they and forRoot() are evaluated.  A client is made when Nest     *)
(* builds the application and used when discover() has built what is       *)
(* served; the two agree because both read metadata of classes that are    *)
(* evaluated by then, which nothing changes any more (AddressIsKept).      *)
(***************************************************************************)
EXTENDS Providers, DiscoveryProofs

\* The name of an evaluated class is final, whatever its kind.
LEMMA NameIsKept ==
    ASSUME DiscoveryInv, [Next]_vars, NEW c \in Classes, stage[c] = "closed",
           NEW k \in Kinds
    PROVE  ComponentMeta(k, c)' = ComponentMeta(k, c)
  <1> DEFINE at(own) == {i \in DOMAIN chain[c] : own[chain[c][i]] # NULL}
  <1>1. /\ chain[c] \in Seq(Classes)
        /\ \A i \in DOMAIN chain[c] : /\ chain[c][i] \in Classes
                                      /\ stage[chain[c][i]] = "closed"
    <2>1. chain[c] \in Seq(Classes)
      BY DEF DiscoveryInv, TypeOK
    <2>2. \A i \in DOMAIN chain[c] : chain[c][i] = c \/ stage[chain[c][i]] = "closed"
      BY DEF DiscoveryInv, ChainInv
    <2>3. \A i \in DOMAIN chain[c] : chain[c][i] \in Classes
      BY <2>1
    <2> QED
      BY <2>1, <2>2, <2>3
  <1>2. chain'[c] = chain[c]
    <2>1. chain \in [Classes -> Seq(Classes)]
      BY DEF DiscoveryInv, TypeOK
    <2>2. \/ UNCHANGED chain
          \/ \E d \in Classes, p \in Classes \cup {NULL} : Extend(d, p)
      BY DEF Next, vars, DecorateMethod, DecorateClass, LeaveUndecorated, Discover
    <2> QED
      BY <2>1, <2>2 DEF Extend
  <1>3. \A d \in Classes : stage[d] = "closed" => component'[k][d] = component[k][d]
    <2>1. component \in [Kinds -> [Classes -> ComponentMetas \cup {NULL}]]
      BY DEF DiscoveryInv, TypeOK
    <2>2. \/ UNCHANGED component
          \/ \E d \in Classes, j \in Kinds, n \in Names \cup {NULL}, o \in OptionsGiven :
                DecorateClass(d, j, n, o)
      BY DEF Next, vars, Extend, DecorateMethod, LeaveUndecorated, Discover, OptionsGiven
    <2> QED
      BY <2>1, <2>2 DEF DecorateClass, Evaluating
  <1>4. at(component'[k]) = at(component[k])
    BY <1>1, <1>3
  <1>5. CASE at(component[k]) = {}
    BY <1>2, <1>4, <1>5 DEF ComponentMeta, GetMetadata
  <1>6. CASE at(component[k]) # {}
    <2> DEFINE nearest == CHOOSE i \in at(component[k]) : \A j \in at(component[k]) : i <= j
    <2>1. ComponentMeta(k, c) = component[k][chain[c][nearest]]
      BY <1>6 DEF ComponentMeta, GetMetadata
    <2>2. ComponentMeta(k, c)' = component'[k][chain[c][nearest]]
      BY <1>2, <1>4, <1>6 DEF ComponentMeta, GetMetadata
    <2>3. nearest \in at(component[k])
      <3>1. at(component[k]) \subseteq Nat
        <4>1. DOMAIN chain[c] = 1..Len(chain[c]) /\ Len(chain[c]) \in Nat
          BY <1>1
        <4> QED
          BY <4>1
      <3> HIDE DEF at
      <3> QED
        BY <1>6, <3>1, LeastNatural
    <2> QED
      BY <1>1, <1>3, <2>1, <2>2, <2>3
  <1> QED
    BY <1>5, <1>6

\* What a client of an evaluated class addresses is final.
LEMMA AddressIsKept ==
    ASSUME DiscoveryInv, [Next]_vars, NEW c \in Classes, stage[c] = "closed"
    PROVE  /\ stage'[c] = "closed"
           /\ IsRestateComponent(c)' <=> IsRestateComponent(c)
           /\ GetComponentMeta(c)' = GetComponentMeta(c)
  <1>1. stage'[c] = "closed"
    BY DEF DiscoveryInv, TypeOK, Next, vars, Extend, DecorateMethod, DecorateClass,
           LeaveUndecorated, Discover, Evaluating
  <1>2. \A k \in Kinds : ComponentMeta(k, c)' = ComponentMeta(k, c)
    BY NameIsKept
  <1>3. {"service", "object", "workflow"} \subseteq Kinds
    BY DEF Kinds
  <1>4. ClientKind(c)' = ClientKind(c) /\ ClientKind(c) \in Kinds
    BY <1>2, <1>3 DEF ClientKind
  <1>5. IsRestateComponent(c)' <=> IsRestateComponent(c)
    BY <1>2 DEF IsRestateComponent
  <1> QED
    BY <1>1, <1>2, <1>4, <1>5 DEF GetComponentMeta

-----------------------------------------------------------------------------
(* The inductive invariant.                                                *)

LEMMA InitProviders == AppInit => ProvidersInv
  <1> SUFFICES ASSUME AppInit PROVE ProvidersInv
    OBVIOUS
  <1>1. DiscoveryInv
    BY InitDiscovery DEF AppInit
  <1>2. AsksInv /\ RegistryInv /\ ProvidedInv /\ ClientsInv
    BY DEF AppInit, Init, AsksInv, RegistryInv, ProvidedInv, ClientsInv
  <1> QED
    BY <1>1, <1>2 DEF ProvidersInv

\* A step of the application is a step of discovery, or leaves it alone.
LEMMA AppStepIsStep == [AppNext]_appVars => [Next]_vars
  <1> SUFFICES ASSUME [AppNext]_appVars PROVE [Next]_vars
    OBVIOUS
  <1>1. CASE EvaluateClass
    BY <1>1 DEF EvaluateClass, Next
  <1>2. ASSUME NEW c \in Classes, NEW t \in Classes \cup {NULL}, InjectClient(c, t)
        PROVE  UNCHANGED vars
    BY <1>2 DEF InjectClient, vars
  <1>3. CASE ForRoot
    BY <1>3 DEF ForRoot, vars
  <1>4. ASSUME NEW providers \in SUBSET Classes, Bootstrap(providers)
        PROVE  UNCHANGED vars
    BY <1>4 DEF Bootstrap, vars
  <1>5. CASE DiscoverApp
    <2>1. Discover(app.providers)
      BY <1>5 DEF DiscoverApp
    <2>2. app.providers \in SUBSET Classes
      BY <2>1 DEF Discover
    <2> QED
      BY <2>1, <2>2 DEF Next
  <1>6. CASE UNCHANGED appVars
    BY <1>6 DEF appVars, vars
  <1> QED
    BY <1>1, <1>2, <1>3, <1>4, <1>5, <1>6 DEF AppNext

\* What a class asks for: an import that is defined is evaluated, or the class.
LEMMA AsksStep ==
    ASSUME ProvidersInv, [AppNext]_appVars
    PROVE  AsksInv'
  <1>1. AsksInv /\ DiscoveryInv
    BY DEF ProvidersInv
  <1>2. \A c \in Classes : stage[c] = "closed" => stage'[c] = "closed"
    BY <1>1, AppStepIsStep, AddressIsKept
  <1>3. ASSUME NEW c \in Classes, NEW t \in Classes \cup {NULL}, InjectClient(c, t)
        PROVE  AsksInv'
    <2> DEFINE i == ImportOf(c, t)
               ask == [target |-> i, token |-> IF i = NULL THEN NULL ELSE ClientToken(i)]
    <2>1. i \in Classes \cup {NULL} /\ (i # NULL => i = c \/ stage[i] = "closed")
      BY DEF ImportOf
    <2>2. ask.target = i /\ ask.token = i /\ ask = [target |-> i, token |-> i]
      BY DEF ClientToken
    <2>3. \A d \in Classes : asks'[d] \subseteq asks[d] \cup {ask} /\ (d # c => asks'[d] = asks[d])
      <3>1. asks' = [asks EXCEPT ![c] = {ask}]
        BY <1>3 DEF InjectClient
      <3> HIDE DEF ask
      <3>2. \A d \in Classes : d # c => asks'[d] = asks[d]
        BY <3>1
      <3>3. asks'[c] \subseteq asks[c] \cup {ask}
        BY <3>1
      <3> QED
        BY <3>2, <3>3
    <2>4. stage' = stage
      BY <1>3 DEF InjectClient, vars
    <2> HIDE DEF i
    <2> SUFFICES ASSUME NEW d \in Classes, NEW a \in asks'[d]
                 PROVE  /\ a = [target |-> a.target, token |-> a.token]
                        /\ a.target \in Classes \cup {NULL} /\ a.token = a.target
                        /\ a.target # NULL => a.target = d \/ stage'[a.target] = "closed"
      BY DEF AsksInv
    <2>5. CASE a \in asks[d]
      BY <1>1, <2>4, <2>5 DEF AsksInv
    <2>6. CASE a = ask /\ d = c
      BY <2>1, <2>2, <2>4, <2>6
    <2> QED
      BY <2>3, <2>5, <2>6
  <1>4. ASSUME UNCHANGED asks PROVE AsksInv'
    BY <1>1, <1>2, <1>4 DEF AsksInv
  <1> QED
    BY <1>3, <1>4 DEF AppNext, EvaluateClass, ForRoot, Bootstrap, DiscoverApp, appVars

\* Every class heads its chain, and what is registered is a component.
LEMMA RegistryStep ==
    ASSUME ProvidersInv, [AppNext]_appVars
    PROVE  RegistryInv'
  <1>1. DiscoveryInv /\ RegistryInv /\ [Next]_vars /\ TypeOK
    BY AppStepIsStep DEF ProvidersInv, DiscoveryInv
  <1>2. \A c \in Classes : stage[c] = "closed" =>
            /\ stage'[c] = "closed"
            /\ IsRestateComponent(c)' <=> IsRestateComponent(c)
    BY <1>1, AddressIsKept
  <1>3. ASSUME NEW c \in Classes, stage'[c] # "unseen"
        PROVE  chain'[c] # <<>> /\ chain'[c][1] = c
    <2>1. CASE UNCHANGED chain /\ stage[c] # "unseen"
      BY <1>1, <2>1 DEF RegistryInv
    <2>2. ASSUME NEW d \in Classes, NEW p \in Classes \cup {NULL}, Extend(d, p)
          PROVE  chain'[c] # <<>> /\ chain'[c][1] = c
      <3> DEFINE tail == IF p = NULL THEN <<>> ELSE chain[p]
      <3>1. tail \in Seq(Classes)
        BY <1>1, <2>2 DEF TypeOK
      <3>2. chain' = [chain EXCEPT ![d] = <<d>> \o tail]
            /\ stage' = [stage EXCEPT ![d] = "open"]
        BY <2>2 DEF Extend
      <3> HIDE DEF tail
      <3>3. CASE c = d
        <4>1. chain'[c] = <<c>> \o tail
          BY <1>1, <3>2, <3>3 DEF TypeOK
        <4>2. Len(<<c>> \o tail) = 1 + Len(tail) /\ Len(tail) \in Nat
              /\ (<<c>> \o tail)[1] = c
          BY <3>1
        <4>3. <<c>> \o tail # <<>>
          BY <4>2
        <4> QED
          BY <4>1, <4>2, <4>3
      <3>4. CASE c # d
        BY <1>1, <1>3, <3>2, <3>4 DEF TypeOK, RegistryInv
      <3> QED
        BY <3>3, <3>4
    <2>3. \/ UNCHANGED chain /\ stage[c] # "unseen"
          \/ \E d \in Classes, p \in Classes \cup {NULL} : Extend(d, p)
      BY <1>1, <1>3 DEF Next, vars, DecorateMethod, DecorateClass, LeaveUndecorated,
                        Discover, Evaluating, TypeOK
    <2> QED
      BY <2>1, <2>2, <2>3
  <1>4. ASSUME NEW c \in registry' PROVE stage'[c] = "closed" /\ IsRestateComponent(c)'
    <2>1. CASE c \in registry
      BY <1>1, <1>2, <2>1 DEF RegistryInv, TypeOK
    <2>2. ASSUME NEW d \in Classes, NEW k \in Kinds, NEW n \in Names \cup {NULL},
                 NEW o \in OptionsGiven, DecorateClass(d, k, n, o), c = d
          PROVE  stage'[c] = "closed" /\ IsRestateComponent(c)'
      <3>1. stage'[c] = "closed" /\ chain' = chain
        BY <1>1, <2>2 DEF DecorateClass, TypeOK
      <3>2. chain[c] \in Seq(Classes) /\ chain[c] # <<>> /\ chain[c][1] = c
        BY <1>1, <2>2 DEF TypeOK, RegistryInv, DecorateClass, Evaluating
      <3>3. component'[k][c] # NULL
        <4>1. component[k] \in [Classes -> ComponentMetas \cup {NULL}]
          BY <1>1 DEF TypeOK
        <4>2. [name |-> IF n = NULL THEN c ELSE n, options |-> o] \in
                  [name : Classes \cup Names, options : Options \cup {NULL}]
          BY <2>2 DEF OptionsGiven
        <4>3. component'[k][c] = [name |-> IF n = NULL THEN c ELSE n, options |-> o]
          <5> DEFINE meta == [name |-> IF n = NULL THEN c ELSE n, options |-> o]
          <5>1. component' = [component EXCEPT ![k][c] = meta] /\ c \in Classes
            BY <2>2 DEF DecorateClass
          <5>2. k \in DOMAIN component /\ c \in DOMAIN component[k]
            BY <1>1, <4>1, <5>1 DEF TypeOK
          <5> HIDE DEF meta
          <5>3. component'[k][c] = meta
            BY <5>1, <5>2
          <5> QED
            BY <5>3 DEF meta
        <4> QED
          BY <4>2, <4>3, DiscoveryAssumption
      <3>4. 1 \in DOMAIN chain[c]
        BY <3>2
      <3>5. GetMetadata(component'[k], c) # NULL
        BY <3>2, <3>3, <3>4, MetadataIsFound
      <3>6. GetMetadata(component'[k], c) = GetMetadata(component[k], c)'
        BY <3>1 DEF GetMetadata
      <3> QED
        BY <3>1, <3>5, <3>6 DEF IsRestateComponent, ComponentMeta
    <2>3. \/ registry' = registry
          \/ \E d \in Classes, k \in Kinds, n \in Names \cup {NULL}, o \in OptionsGiven :
                DecorateClass(d, k, n, o) /\ registry' = registry \cup {d}
      BY <1>1 DEF Next, vars, Extend, DecorateMethod, DecorateClass, LeaveUndecorated,
                  Discover, OptionsGiven
    <2> QED
      BY <2>1, <2>2, <2>3
  <1> QED
    BY <1>3, <1>4 DEF RegistryInv

\* What forRoot() returned provides for components, each under its own token.
LEMMA ProvidedStep ==
    ASSUME ProvidersInv, [AppNext]_appVars
    PROVE  ProvidedInv'
  <1>1. ProvidedInv
    BY DEF ProvidersInv
  <1>2. registry \subseteq registry'
    BY AppStepIsStep DEF Next, vars, Extend, DecorateMethod, DecorateClass,
                         LeaveUndecorated, Discover
  <1>3. CASE ForRoot
    <2>1. provided' = {[provide |-> t, target |-> t] : t \in registry} /\ registry' = registry
      BY <1>3 DEF ForRoot, ClientToken, vars
    <2> QED
      BY <2>1 DEF ProvidedInv
  <1>4. CASE UNCHANGED provided
    BY <1>1, <1>2, <1>4 DEF ProvidedInv
  <1> QED
    BY <1>3, <1>4 DEF AppNext, EvaluateClass, InjectClient, Bootstrap, DiscoverApp, appVars

\* A client that Nest resolves is that of the class that was asked for.
LEMMA ClientIsOfTarget ==
    ASSUME ProvidersInv, provided # NULL, NEW c \in Classes, NEW a \in asks[c],
           a.target # NULL, Resolvable(a.token)
    PROVE  a.target \in registry /\ ClientOf(a.token) = GetComponentMeta(a.target)
  <1> DEFINE p == CHOOSE x \in provided : x.provide = a.token
  <1>1. a.token = a.target
    BY DEF ProvidersInv, AsksInv
  <1>2. p \in provided /\ p.provide = a.token
    BY <1>1 DEF Resolvable
  <1>3. p.target = a.target /\ p.target \in registry
    BY <1>1, <1>2 DEF ProvidersInv, ProvidedInv
  <1> QED
    BY <1>1, <1>3 DEF ClientOf

LEMMA ClientsStep ==
    ASSUME ProvidersInv, [AppNext]_appVars
    PROVE  ClientsInv'
  <1>1. DiscoveryInv /\ ClientsInv /\ [Next]_vars /\ RegistryInv /\ TypeOK
    BY AppStepIsStep DEF ProvidersInv, DiscoveryInv
  <1>2. /\ registry \subseteq registry' /\ registry \subseteq Classes
        /\ \A c \in registry : GetComponentMeta(c)' = GetComponentMeta(c)
    <2>1. registry \subseteq registry'
      BY <1>1 DEF Next, vars, Extend, DecorateMethod, DecorateClass, LeaveUndecorated,
                  Discover
    <2> QED
      BY <1>1, <2>1, AddressIsKept DEF RegistryInv, TypeOK
  <1>3. \A c \in Classes : stage[c] = "closed" => stage'[c] = "closed"
    BY <1>1, AddressIsKept
  <1>4. ASSUME NEW providers \in SUBSET Classes, Bootstrap(providers)
        PROVE  ClientsInv'
    <2>1. /\ result = NULL /\ result' = NULL /\ provided' # NULL
      BY <1>1, <1>4 DEF Bootstrap, ClientsInv, vars
    <2>2. /\ app'.providers = providers /\ providers \subseteq Classes
          /\ providers \subseteq {c \in Classes : stage'[c] = "closed"}
      BY <1>4 DEF Bootstrap, vars
    <2>3. ASSUME app'.resolved, NEW c \in providers, NEW x \in app'.clients[c],
                 x.target # NULL
          PROVE  x.target \in registry' /\ x.client = GetComponentMeta(x.target)'
      <3>1. /\ \A a \in asks[c] : Resolvable(a.token)
            /\ app'.clients[c] =
                 {[target |-> a.target, client |-> ClientOf(a.token)] : a \in asks[c]}
        BY <1>4, <2>3 DEF Bootstrap
      <3>2. PICK a \in asks[c] : x = [target |-> a.target, client |-> ClientOf(a.token)]
        BY <2>3, <3>1
      <3>3. x.target = a.target /\ x.client = ClientOf(a.token)
        BY <3>2
      <3>4. a.target \in registry /\ ClientOf(a.token) = GetComponentMeta(a.target)
        <4>1. provided # NULL /\ c \in Classes /\ Resolvable(a.token)
          BY <1>4, <2>2, <3>1 DEF Bootstrap
        <4> QED
          BY <2>3, <3>3, <4>1, ClientIsOfTarget
      <3> QED
        BY <1>2, <3>3, <3>4
    <2> QED
      BY <2>1, <2>2, <2>3 DEF ClientsInv
  <1>5. ASSUME UNCHANGED <<app, provided>>,
               result' = NULL \/ result' = result \/ (app # NULL /\ app.resolved)
        PROVE  ClientsInv'
    <2>1. app # NULL => app.providers \subseteq {c \in Classes : stage'[c] = "closed"}
      BY <1>1, <1>3 DEF ClientsInv
    <2> QED
      BY <1>1, <1>2, <1>5, <2>1 DEF ClientsInv
  <1>6. CASE EvaluateClass
    BY <1>5, <1>6 DEF EvaluateClass, Extend, DecorateMethod, DecorateClass, LeaveUndecorated
  <1>7. CASE DiscoverApp
    BY <1>5, <1>7 DEF DiscoverApp
  <1>8. CASE ForRoot
    <2>1. app = NULL
      BY <1>1, <1>8 DEF ForRoot, ClientsInv
    <2>2. UNCHANGED <<app, result>>
      BY <1>8 DEF ForRoot, vars
    <2> QED
      BY <1>1, <2>1, <2>2 DEF ClientsInv
  <1>9. CASE UNCHANGED appVars \/ \E c \in Classes, t \in Classes \cup {NULL} : InjectClient(c, t)
    BY <1>5, <1>9 DEF appVars, vars, InjectClient
  <1> QED
    BY <1>4, <1>6, <1>7, <1>8, <1>9 DEF AppNext

LEMMA NextProviders == ProvidersInv /\ [AppNext]_appVars => ProvidersInv'
  <1> SUFFICES ASSUME ProvidersInv, [AppNext]_appVars PROVE ProvidersInv'
    OBVIOUS
  <1>1. DiscoveryInv'
    BY AppStepIsStep, NextDiscovery DEF ProvidersInv
  <1> QED
    BY <1>1, AsksStep, RegistryStep, ProvidedStep, ClientsStep DEF ProvidersInv

\* The invariant holds whatever an application is made of and in whatever
\* order its files are evaluated.
THEOREM ProvidersInvariant == AppSpec => []ProvidersInv
  BY InitProviders, NextProviders, PTL DEF AppSpec

\* An application that starts has clients that address what it serves.
THEOREM InjectedClientsReach == AppSpec => []ClientsReachWhatIsServed
  <1>1. ProvidersInv => ClientsReachWhatIsServed
    <2> SUFFICES ASSUME ProvidersInv, result # NULL,
                        NEW c \in app.providers, NEW x \in app.clients[c],
                        NEW d \in result.definitions, x.target = d.class,
                        Cardinality(VisibleKinds(d.class)) = 1
                 PROVE  x.client = [type |-> d.kind, name |-> d.name]
      BY DEF ClientsReachWhatIsServed
    <2>1. DiscoveryInv /\ ClientsInv
      BY DEF ProvidersInv
    <2>2. d.class \in Classes
      BY <2>1, DefinitionHasAnOrigin
    <2>3. x.client = GetComponentMeta(d.class)
      BY <2>1, <2>2, DiscoveryAssumption DEF ClientsInv
    <2> QED
      BY <2>1, <2>3, AddressIsServed DEF ServedAsAddressed
  <1> QED
    BY <1>1, ProvidersInvariant, PTL

\* Evaluating a class leaves its parents' handlers alone in an application too.
THEOREM AppKeepsHandlers == AppSpec => ParentHandlersKept
  <1>1. ProvidersInv /\ [AppNext]_appVars =>
            [\A c \in Classes : stage[c] = "closed" =>
                HandlerMetadata(c)' = HandlerMetadata(c)]_vars
    <2> SUFFICES ASSUME ProvidersInv, [AppNext]_appVars, NEW c \in Classes,
                        stage[c] = "closed"
                 PROVE  HandlerMetadata(c)' = HandlerMetadata(c)
      OBVIOUS
    <2> QED
      BY AppStepIsStep, KeepsHandlers DEF ProvidersInv
  <1> QED
    BY <1>1, ProvidersInvariant, PTL DEF AppSpec, ParentHandlersKept
=============================================================================
