----------------------------- MODULE Providers -----------------------------
(***************************************************************************)
(* How an application gets its clients: @InjectClient(T) on constructor    *)
(* parameters (lib/decorators/inject.decorator.ts), the providers that     *)
(* RestateModule.forRoot() makes of the classes registered so far          *)
(* (lib/restate.module.ts, lib/registry, lib/proxy), and the application   *)
(* that Nest builds of both before discover() is called.                   *)
(*                                                                         *)
(* forRoot() is called while files are evaluated: which classes it sees    *)
(* depends on the order of imports, and so does what a decorator gets for  *)
(* an imported class, which in a cycle of imports is still undefined.      *)
(* Discovery has the classes; NULL is also RESTATE_CLIENT, the token of    *)
(* the ingress client, and an argument that is left out or undefined.      *)
(***************************************************************************)
EXTENDS Discovery

VARIABLES
    asks,      \* the argument and the token of each class's @InjectClient()
    provided,  \* the client providers that forRoot() returned, or NULL
    app        \* the application that Nest built or refused, or NULL

appVars == <<vars, asks, provided, app>>

AppInit ==
    /\ Init
    /\ asks = [c \in Classes |-> {}]
    /\ provided = NULL
    /\ app = NULL

-----------------------------------------------------------------------------

\* Slip: the name of the component is the token, if it is one already.
ClientToken_ByName(target) ==
    IF IsRestateComponent(target) THEN GetComponentMeta(target).name ELSE target

\* getClientToken(): a symbol for each class.
ClientToken(target) == target

\* A class imported in a cycle is undefined where its file is not evaluated.
ImportOf(c, target) ==
    IF target # NULL /\ (target = c \/ stage[target] = "closed") THEN target ELSE NULL

\* @InjectClient(target), or @InjectClient() for the ingress.
InjectClient(c, target) ==
    /\ Evaluating(c)
    /\ asks[c] = {}
    /\ LET t == ImportOf(c, target)
       IN  asks' = [asks EXCEPT ![c] =
              {[target |-> t, token |-> IF t = NULL THEN NULL ELSE ClientToken(t)]}]
    /\ UNCHANGED <<vars, provided, app>>

\* forRoot() and forRootAsync(): createAutoClientProviders().
ForRoot ==
    /\ provided = NULL
    /\ \A c \in Classes : ~Evaluating(c)
    /\ provided' = {[provide |-> ClientToken(t), target |-> t] : t \in registry}
    /\ UNCHANGED <<vars, asks, app>>

Resolvable(token) == token = NULL \/ \E p \in provided : p.provide = token

\* The ingress, or what the provider's factory makes: createClientProxy().
ClientOf(token) ==
    IF token = NULL THEN NULL
    ELSE GetComponentMeta((CHOOSE p \in provided : p.provide = token).target)

\* NestFactory.create(): Nest resolves every parameter of every provider, or
\* throws.
Bootstrap(providers) ==
    /\ app = NULL /\ provided # NULL
    /\ \A c \in Classes : ~Evaluating(c)
    /\ providers \subseteq {c \in Classes : stage[c] = "closed"}
    /\ app' = IF \A c \in providers : \A a \in asks[c] : Resolvable(a.token)
              THEN [resolved |-> TRUE, providers |-> providers,
                    clients |-> [c \in providers |->
                        {[target |-> a.target, client |-> ClientOf(a.token)] : a \in asks[c]}]]
              ELSE [resolved |-> FALSE, providers |-> providers, clients |-> NULL]
    /\ UNCHANGED <<vars, asks, provided>>

\* onModuleInit() calls discover(), which looks at the same providers.
DiscoverApp ==
    /\ app # NULL /\ app.resolved
    /\ Discover(app.providers)
    /\ UNCHANGED <<asks, provided, app>>

\* A class of a file that is evaluated; the application may load files lazily.
\* Parameters are decorated after methods.
EvaluateClass ==
    /\ \E c \in Classes :
          \/ \E p \in Classes \cup {NULL} : Extend(c, p)
          \/ \E o \in Options \cup {NULL} :
                \/ asks[c] = {} /\ \E t \in HandlerTypes, m \in Methods :
                      DecorateMethod(c, t, m, o)
                \/ \E k \in Kinds, n \in Names \cup {NULL} : DecorateClass(c, k, n, o)
          \/ LeaveUndecorated(c)
    /\ UNCHANGED <<asks, provided, app>>

AppNext ==
    \/ EvaluateClass
    \/ \E c \in Classes, t \in Classes \cup {NULL} : InjectClient(c, t)
    \/ ForRoot
    \/ \E providers \in SUBSET Classes : Bootstrap(providers)
    \/ DiscoverApp

AppSpec == AppInit /\ [][AppNext]_appVars

-----------------------------------------------------------------------------
(* Properties.                                                             *)

\* In an application that starts, a client injected for a class addresses the
\* component that the application serves for that class, by its kind and name,
\* whatever the order in which classes and forRoot() were evaluated; unless a
\* class and its parent are components of different kinds.
ClientsReachWhatIsServed ==
    result # NULL =>
        \A c \in app.providers : \A x \in app.clients[c] :
            \A d \in result.definitions :
                x.target = d.class /\ Cardinality(VisibleKinds(d.class)) = 1
                    => x.client = [type |-> d.kind, name |-> d.name]

\* What a parameter asks for is the class that it names.
AsksInv ==
    \A c \in Classes : \A a \in asks[c] :
        /\ a = [target |-> a.target, token |-> a.token]
        /\ a.target \in Classes \cup {NULL} /\ a.token = a.target
        /\ a.target # NULL => a.target = c \/ stage[a.target] = "closed"

\* A provider is for a component that was evaluated, under its own token.
ProvidedInv ==
    provided # NULL =>
        \A p \in provided :
            /\ p = [provide |-> p.provide, target |-> p.target]
            /\ p.provide = p.target /\ p.target \in registry

\* A class is the nearest of its chain, and registerComponent() has seen only
\* components that are evaluated: getComponentMeta() finds what each is.
RegistryInv ==
    /\ \A c \in Classes : stage[c] # "unseen" => chain[c] # <<>> /\ chain[c][1] = c
    /\ \A c \in registry : stage[c] = "closed" /\ IsRestateComponent(c)

\* A client that was injected is that of the class asked for, and what it was
\* made of is final.
ClientsInv ==
    /\ app # NULL =>
          /\ provided # NULL
          /\ app.providers \subseteq {c \in Classes : stage[c] = "closed"}
          /\ app.resolved => \A c \in app.providers : \A x \in app.clients[c] :
                x.target # NULL =>
                    /\ x.target \in registry
                    /\ x.client = GetComponentMeta(x.target)
    /\ result # NULL => app # NULL /\ app.resolved

\* The inductive invariant: that of Discovery, and what the tokens lead to.
ProvidersInv ==
    DiscoveryInv /\ AsksInv /\ RegistryInv /\ ProvidedInv /\ ClientsInv
=============================================================================
