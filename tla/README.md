# Verification of nestjs-restate

TLA+ models of the parts of nestjs-restate whose behaviour depends on order, failure or
concurrency; TLC runs that check them on small instances; and TLAPS proofs of the most
important properties for every instance. Paths are relative to the repository root.

## 1. The system

nestjs-restate lets a NestJS application serve Restate components (services, virtual
objects, workflows). `RestateModule` discovers the decorated providers, serves them from
one endpoint, and can register the deployment with Restate's admin API on every boot.

| component | source | state | operations | correct means |
|---|---|---|---|---|
| Endpoint manager | `lib/endpoint/restate.endpoint.ts` | definitions, held handler, held server, who owns it, reported port, tracked HTTP/2 sessions | `addDefinition`, `start` (server, port, lambda mode), `stop`, session events | at most one live server, only the held handler serves, `stop` stops, calls return |
| Auto-registration | `lib/restate.module.ts` (`registerDeployment`, `diffComponentMetadata`, `computeInterfaceHash`) | none of its own between boots: what it knows is what the admin API stores | GET, diff, hook, skip-check, POST | what a boot reports is what Restate holds; the hook runs before the replacement and hears all of it; production writes only what it must |
| Discovery | `lib/discovery`, `lib/decorators`, `lib/registry/component-metadata.ts` | reflection metadata on classes and their parents | decorators, `discover`, `getComponentMeta` | the handlers that are served are those that are hashed and that clients address |
| Module life cycle | `lib/restate.module.ts` (`onModuleInit`, `onModuleDestroy`) | component summary | discover, start, register; stop | registration only for what serves |
| Providers | `lib/restate.module.ts` (`forRoot`, `forRootAsync`), `lib/registry/component-registry.ts`, `lib/proxy/client-token.ts` | global set of decorated classes, token of each class | register at import, snapshot at `forRoot` | a client injected for a class reaches the component served for it |
| Invocation context | `lib/context`, `lib/proxy/client-proxy.ts` | one AsyncLocalStorage | `runWithContext`, proxies and `RestateContext` that look the context up at each call | a call is journalled by the invocation that makes it |
| Ingress | `lib/ingress` | set of targets warned about | class-based overloads, warn once | the class names the component it is |
| Logging | `lib/logging` | none | dispatch to the context's console or to Nest's, log level resolution | nothing is logged twice during replay |
| Handler pipeline | `lib/pipeline`, `wrapHandler` in `lib/discovery` | none | guards, parameter extraction, exception mapping | a guard comes first in every attempt; a client error is terminal where a filter makes it so |
| Example application | `example/src` | carts, order workflows and their signal, charges | cart handlers, `OrderWorkflow`, `PaymentService.charge`, controller | no item lost, a completed order is paid for what it read, a failed one is not paid |

How they interact. Nest calls `onModuleInit`, which calls discovery, hands each definition
to the endpoint manager, awaits its `start` and then awaits `registerDeployment`, which asks
the manager for its port and talks to the admin API over `fetch`, with a user hook awaited
in between. Nest calls `onModuleDestroy`, which awaits `stop`. Restate itself calls the
endpoint, to discover its interface (during the POST) and to run handlers, each wrapped so
that it runs in its own AsyncLocalStorage context.

What is hard. (a) `start` and `stop` assign fields on both sides of an await, and Node's
servers and sessions change state on their own. (b) Registration reads the deployment, awaits
a user hook and then acts on what it read, while other replicas may register the same URL and
any boot may die, leaving a request in flight. (c) The GET or the POST may fail, with or
without having been carried out. (d) The skip-check compares tags that an earlier boot
wrote, not what Restate discovered. (e) Reflection metadata is inherited by subclasses, and what
decorators and `forRoot` see depends on the order of imports. (f) The process may be told to close
at any point of its initialization. (g) Handlers of the example run concurrently, wait for a signal
that may come early or never, and are retried when an attempt dies.
`PROJECT.json` lists each hazard at its line with the properties that watch it.

## 2. Modules

| module | what it is |
|---|---|
| `Endpoint` | the endpoint manager: fields, calls in flight, Node's servers and sessions |
| `EndpointPromise` | the abstract life cycle that the manager promises |
| `EndpointImpl` | the refinement mapping from `Endpoint` to `EndpointPromise` |
| `EndpointProofs` | theorems about `Endpoint` and the refinement |
| `MCEndpoint` | TLC instances of the endpoint |
| `Registration` | `registerDeployment` over boots of several processes, with the admin API |
| `RegistrationPromise` | what registration promises to those who deploy, abstractly |
| `RegistrationImpl` | the refinement mapping from `Registration` to `RegistrationPromise`, and its invariant |
| `RegistrationProofs` | theorems about `Registration` and the refinement |
| `MCRegistration` | TLC instances of registration: releases, options, initial deployments |
| `Discovery` | decorators over classes that extend one another, `discover`, `getComponentMeta` |
| `DiscoveryProofs` | theorems about `Discovery` |
| `Providers` | `@InjectClient`, `forRoot` and Nest's resolution, over the classes of `Discovery` |
| `ProvidersProofs` | theorems about `Providers` |
| `MCDiscovery` | TLC instance of `Providers`, and with it of `Discovery` |
| `Lifecycle` | `onModuleInit` and `onModuleDestroy` of one process: `Endpoint` and `Registration` composed |
| `LifecycleProofs` | theorems about `Lifecycle`: it implements its parts, and so what they promise |
| `MCLifecycle` | TLC instance of a process: releases, options, setups |
| `Invocation` | handlers while they run: context store, proxies, ingress client, logger |
| `InvocationProofs` | theorems about `Invocation` |
| `MCInvocation` | TLC instance of invocations: a service and a virtual object |
| `Orders` | the example application over Restate, with the pipeline's guard and filter |
| `ShopPromise` | what the example shop promises to its clients, abstractly |
| `OrdersImpl` | the refinement mapping from `Orders` to `ShopPromise` |
| `OrdersProofs` | theorems about `Orders` and the refinement |
| `MCOrders` | TLC instances of the example: amounts and pipelines |

`Lifecycle` takes `Endpoint` and `Registration` as instances, on the same variables; `Providers`
extends `Discovery`; the others stand alone. Discovery hands `Registration` and `Lifecycle` a set of
component summaries, there called a release.

### Endpoint

One member of `Calls` is one call of `start()` or `stop()`. A call is split at its awaits:
`StartListening` is `start` up to the await of `listen`, `ListenSucceeds` and `ListenFails`
are its two continuations; `StopOwned` is `stop` up to the await of `close`, `ServerCloses`
is the server's "close" event together with the continuations it resolves (they run before
any caller's, so they are one step). Everything else in the two methods runs without an
await and is one action: `StartRefused`, `StartWithoutDefinitions`, `StartInvalid`,
`StartAttached`, `StartLambda`, `StopAttached`, `StopWithoutServer`. The server and the
handler that a call creates are named by the call. `SessionOpens`, `PeerCloses` and
`DestroyCompletes` are the events that `trackSessions` listens to. Requests are abstracted
to which handlers are attached to which servers (`Serving`).

`StopDuringListen` is the callers' discipline. FALSE: nobody calls `stop()` while a `start()`
awaits `listen`, which is what Nest does when it runs `onModuleDestroy` after `onModuleInit`.
TRUE: any order.

### Registration

One member of `Procs` is a process that deploys at the URL. It boots with some release (a set
of component summaries, what discovery found), runs `registerDeployment` and may crash at any
step; `boot` tells one boot's requests from another's. `SendGet`, `GetAnswered`, `GetFails`,
`CallHook`, `HookReturns`, `HookThrows`, `SkipUnchanged`, `PostChecked`, `PostBlindly`,
`PostReturns` and `PostFails` are the stretches of the method between its awaits. A POST lives
in `posts` until the admin API handles or loses it, also after its sender has died or given up
on it. A process may boot any release of its `fleet`: several during a roll-out, one for replicas. The
admin API is external. It answers a GET with the stored deployment. On a POST it
asks the URL for its interface and stores it next to the metadata of the POST if the URL is new or
`force` is set, and otherwise compares (200 or 409). Whatever process is up at the URL answers
(`Answers`): the sender, a peer, or a later boot of the same process, perhaps of another release, at
any point of its own registration. Only a request that comes while nobody is up is sure to fail.

`overtaken` is a history variable, for the properties only. A boot that is up, or whose request is on
its way, is overtaken when something other than its release is stored, by a peer or by a request that
outlived an earlier boot; and when its request is accepted because another release that answered for
it has the stored interface. What a boot reads, tells its hook and reports is claimed until then.

Abstracted: SHA-256 is injective; JSON text is the value it denotes, or `Malformed`; the three
shapes in which the admin API nests a deployment are one; the user's own `metadata` tags, which
no decision reads, are left out; messages are not modelled.

`RegistrationPromise` keeps what an operator of Restate can see: the deployment (its interface and
metadata), the requests on their way, and what each boot reports. A boot asks at most once; a request
takes effect once or never, with the metadata of its sender and the interface of a process that runs,
and replaces only by force, for new metadata, or for a sender that was overtaken; a report of
"registered" or "skipped" is true until the boot is overtaken, where a skip may also have trusted a
tag that was stored with the interface of another release (`mixed`). Under the mapping of
`RegistrationImpl` the GET, the diff, the hook and the tags vanish, and a boot whose POST was accepted
without force and without a look ("accepted") claims the interface only: Restate then keeps the
metadata it had, though the code logs a success. Any number of processes and releases keep this
promise. Replicas of one release get more, because they never overtake one another (`ReplicasAgree`).

### Discovery

Classes are evaluated one after the other. `Extend` begins a class and fixes its prototype chain
(`chain`), `DecorateMethod` is one of the four handler decorators, and `DecorateClass`
(`@Service()`, `@VirtualObject()`, `@Workflow()`) or `LeaveUndecorated` ends it. Metadata is what
the decorators store on the class itself, with handler arrays kept apart from the references to
them (`handlers`, `array`), so that a decorator that forgets to clone would write to its parent's.
`GetMetadata` looks along the chain. `Discover` takes some of the evaluated classes as the
application's providers and either throws or returns the definitions and the summary.
`GetComponentMeta` is how clients address a class.

A decorator may be given options, which stand for all that the explorer hands to Restate unread:
Restate's own options and, for a class, the description. They are served (`Definition`, with the last
of several entries for a method, `LastOptions`) and are in neither the summary nor the hash, so
that `HashDeterminesInterface` is about kind, name, handlers and their types (section 5).

The summary is a set here, without the `metadata` that the hash leaves out. Left out as well: the
wrapping of handlers in Nest's pipeline; `serviceClassNames`, which only the logger reads. Assumed: a
method carries at most one handler decorator and a class at most one class decorator (its ancestors
may have others); a class is registered with Nest as itself, so `metatype` is the instance's
constructor.

### Providers

`InjectClient` decorates the parameters of a class that is being evaluated. What it is given for
another class is undefined while that class is not evaluated (`ImportOf`), and undefined asks for the
ingress client, `NULL` here. `ForRoot` is `createAutoClientProviders`, called by `forRoot` and
`forRootAsync`: it takes the classes registered so far, so that its place among the evaluations of
classes is the order of imports. `Bootstrap` is Nest, external: it takes some evaluated classes as
providers and resolves every parameter, calling the factories (`ClientOf`), or refuses the
application. `DiscoverApp` is `discover` on the same providers; classes may be evaluated in between.
`ClientToken` is the token of a class, a fresh symbol for each and so the class itself.

### Lifecycle

The state is that of `Endpoint`, with one `start` and one `stop` as its calls, that of `Registration`,
with one process that boots once, and the module's own: where `onModuleInit` is (`init`), the port
that was put into the URL (`url`), and whether the process lives. `OnModuleInit` gathers its steps.
`StartEndpoint` and `ListenEnds` are Endpoint's actions for the mode in `setup`; `Register`,
`SkipWithoutPort`, `FirstRequest`, `LaterSteps` and `HookSettles` are Registration's; `Handled` is
Registration's too, but the URL answers only while something is served behind it (`Serves`).
`Destroy` is `onModuleDestroy`, `Die` the end of the process at any point.

Nest is external. Some of its versions wait for the initialization before they call
`onModuleDestroy` and some do not: `setup.awaitsInit`. `DestroyedIsQuiet` and `UsesEndpointOrderly`
say what the former get. In lambda mode the platform calls the handler that `start` created; how it
gets it is not in the code (section 5), and is taken to happen.

### Orders

The example application over Restate, which is external. An exclusive cart handler is two steps,
`BeginEdit` (it reads the items) and `EndAdd` or `EndRemove` (it writes them), with the lock of its key
held in between (`Unlocked`); `getItems` is shared and takes no lock. `ReadCart`, `ChargeReturned`,
`Shipped` and `ClearCart` are the stretches of `OrderWorkflow.run` between its awaits, each of which
is in the journal, so that the end of an attempt between two of them loses nothing.
`ConfirmShipment` is the signal, at any time. `Attempt`, `Retry`, `ProcessCharge`, `Journalled` and
`AttemptDies` are an invocation of `charge`: the guard, in each attempt (`wrapHandler`), then the
gateway inside `ctx.run`, which may be called and its result lost. `pipeline` is
`options.pipeline` and whether a `RestateExceptionFilter` is installed (`Refused`). `added` and `gone`
are for the properties only: what users ever added, and what was removed or cleared.

`ShopPromise` has no handlers, attempts or journals: a client puts an item or takes one, an order is
placed, billed for what is in its owner's cart, paid or refused once, sent, and done with an empty
cart, or fails for an empty cart or a refusal. Under the mapping of `OrdersImpl` a cart handler takes effect
when it writes, which is right only because nobody wrote since it read; a charge is paid when the
gateway is called for the first time, and no attempt that dies or is repeated changes that or refuses
it later.

Abstracted: amounts are whole cents; product names and other texts mean nothing; a tracking number is
blank or not. Left out: `refund`, which nothing calls and which keeps no state.

### Invocation

A member of `Tasks` is a chain of asynchronous work. `Dispatch` runs an attempt of an invocation
with a context of its own (`wrapHandler`, `runWithContext`); `StartOutside` is work outside of
any handler; `Spawn` is work that inherits the store of the work that started it, as
AsyncLocalStorage gives it, and may go on after `EndAttempt`. `Key`, `CallClient`, `UseContext`,
`Log` and `IngressCall` are the operations of the proxies, `RestateContext`, the logger and the
ingress client. Service proxies and the results of `key()` are shared by everyone: `keyed` is what
any code may have kept. The Restate SDK is external: `Perform` journals an operation, or replays
it if the attempt's journal is not used up; an operation of an attempt that is over comes to
nothing; and a replayed operation is the one in the journal, which is the determinism that Restate
asks of handlers.

Abstracted: a call and a send are one operation, and so are all the methods of `RestateContext`
that reach the journal; calls without a context throw and so are no step; levels, colours and
layout of log lines. A definition passed to the ingress instead of a class reaches the SDK
unchecked and unwarned, and is left out.

## 3. Runs

| run | instance | what it shows |
|---|---|---|
| `Endpoint_awaited` | 5 calls, 2 application servers, 2 sessions, no stop during a listen, fair | no orphan server, only the held handler serves, `stop` stops, `start` starts from stopped; the inductive invariant of the proof; refines `EndpointPromise`, liveness included |
| `Endpoint_any_order` | 4 calls, any order, fair | session tracking, reported port, every call returns |
| `Endpoint_overlap` | 3 calls, any order | violated: `start` admits a second server after a `stop` during `listen` |
| `Registration_solo` | 1 process, 3 boots, 6 releases, all options, requests that outlive their boots answered by later ones | registration keeps its promise, with the inductive invariant of the proof; hook before replacement, production writes only what it must |
| `Registration_rollout` | 2 processes behind one URL, 4 releases or one, fair | replicas agree on what Restate holds; a roll-out keeps the promise too; a replacement of what was read is announced in full; registration always ends |
| `Registration_keeps_interface` | 1 process, 2 boots, production | violated: a metadata change forces and replaces a changed interface |
| `Discovery_classes` | 2 classes, 2 methods, 2 handlers, 1 explicit name, 1 decorator with options, a client for each class | subclasses leave parents alone, the summary is a fingerprint of the handlers served, injected clients reach what is served, refusals are right |
| `Invocation_handlers` | 3 tasks, 2 invocations of 2 attempts, a service and an object, 1 key | operations are journalled by the attempt they belong to, retries print nothing twice, the ingress warns once |
| `Lifecycle_process` | 1 process, 3 releases, all modes and setups, 2 sessions, fair | what is registered serves, at a live port; a closed application is quiet; the endpoint is used in the order it depends on; initialization ends |
| `Orders_shared_cart` | 2 users, 2 clients, 2 orders, 1 product | no item is lost, a paid item leaves the cart, a completed order is paid for what it read |
| `Orders_ends` | 2 clients of 1 user, 1 order, 1 direct charge, attempts that die, every pipeline, fair | refines `ShopPromise`; the gateway is called again only for a dead attempt; orders end |
| `Orders_over_limit` | 1 client, 1 order, 1 direct charge, attempts that die, the example's pipeline | violated: a charge over the limit is retried for ever instead of rejected |

Bounds and why they suffice. Endpoint: a call is used once, so 5 calls give two start-stop
cycles and another start, or overlapping ones, which is more than the shortest orphan needs (two starts);
`MaxDefinitions` only separates none from some. Two application servers tell "the held one"
from another; two sessions tell "all" from "one". Registration: three boots give a first
registration, a changed release and a return to the first, with a request of either of the first two
carried out at any point of a later one; releases differ in metadata only,
in interface only, in both, have empty or no metadata, add a component and drop one. Two
processes are enough for one to act between two steps of the other. `MaxBoots` bounds the
boots and nothing else is bounded. Discovery: two classes are a parent and a child or two
strangers; two methods tell `run` from any other; `MaxHandlers` is two for all classes together, so
that one class declares both, or a child declares again what its parent did; `MaxOptions` is one, so
that of two alike one has options and the other none, and `OptionsApart` leaves clients, which know
nothing of options, out of the applications that have any.
Classes are interchangeable, and only safety is checked, so they are a symmetry set.
Invocation: two invocations tell one's own from another's, two attempts give a retry, and the third
task is work left behind by one attempt, or work outside. `MaxJournal` is two, so that an attempt can
replay a part of a journal and go on; `MaxKeyed` is one, a proxy to be shared. Objects and workflows
are treated alike by the proxies, so an object stands for both. Lifecycle: the releases have no
component, one, and two with changed metadata, and Restate holds nothing or the first; a process
starts and stops once, so the calls are not a bound. Orders: two users tell one's cart from another's,
two clients can be in one cart at a time, and two orders may be of one user; a price of 3 and a limit
of 5 put one item (3) under the limit and two (6) over it, and a direct charge may be at the limit (5),
over it or without an amount; `MaxAdded` is two for that reason, and
`MaxDeaths` is one, after which a charge is attempted again.

Deadlock is checked in the runs of `Orders`, where an order that is over still takes clients' calls.
Elsewhere calls, boots, attempts and classes are used up, and a system with nothing left to do stops.

Fairness. `Endpoint`: Node answers every `listen`, finishes every `destroy` and emits "close"
once no session is left; peers owe nothing. `Registration`: the event loop runs every
continuation and a `fetch` ends at the latest with its timeout (`Step`); the user's hook, which
has no timeout, owes nothing, and neither does the admin API's handling of a request.
`Lifecycle`: both of these; Nest calls `onModuleInit`, but nobody has to close the application.
`Orders`: Restate runs every handler on and retries a charge for as long as it takes (weak); it
serves the calls of a key in the order they came, so that clients who keep calling a cart do not
keep `clear` out (strong, on `ClearCart` only). Clients and whoever confirms a shipment owe nothing.

## 4. Proofs

`EndpointProofs`, for every number of calls, servers and sessions. `AnyOrderInv` (types, where a
call is determines its server, the fields agree with each other, tracking) is inductive with no
assumption on callers and gives `TypeOK`, `SessionsTracked`, `PortIsLive`. Orphans need more:
`NoOrphanServer` alone is not inductive, because what keeps a second `start` out during a listen
is `endpointHandler`, and what makes `stop` detach the right handler is that the held server's
handler is the held one. `AwaitedInv` adds that (`ListenInv`, `HoldInv`, `AttachInv`) and is
inductive when `~StopDuringListen`; it gives the remaining invariants, the two action properties
and, step by step, the refinement of `EndpointPromise` (safety).

`RegistrationProofs`, for every set of releases, options and initial deployments.
Nothing is assumed of who answers a request or how late it is carried out. `AnyProcsInv` is inductive
by itself: a boot sends one POST and sends it last (`PostInv`), and what it learned decides what its
hook is told and whether it forces (`KnowledgeInv`). It gives `NothingSentAfterGivingUp`,
`ReplacementIsAnnounced` and `NoUnnecessaryPost`. `DiffIsComplete` and `DiffAnnounces` are the facts
about the metadata diff they rest on. `TagIsTruthful` is a theorem for releases of one interface only:
with two, it is false (section 5).

`PromiseInv` is inductive too and says what lasts. A boot that is not overtaken finds the deployment
that it read, or its release (`ReadInv`), and its report holds (`OutcomeInv`). A request may take effect
after its sender has died, when others have booted and been heard: `ForceInv` says that a late request
which forces finds other metadata to replace, or nothing left to be done, unless its sender was
overtaken. Replicas of one release overtake nobody and store truthful tags (`ReplicaInv`), which needs
that nothing else runs or is on its way (`FleetInv`); with one process, what is stored while a boot is
up has the interface of that boot, also when an earlier boot asked for it (`SoloInv`). From these
follow `HookSeesLiveDeployment`, `ReplicasAgree`, and for one process
`InterfaceKeptUnlessMetadataChanged`, whose theorem assumes `Solo`: a peer of another release may
answer for a request and so have its own interface stored. `KeepsPromise` refines step by step from
`PromiseInv`, with no assumption on processes or releases. `ReadyIsDeployed` and `GivingUpSendsNothing`
stay theorems; what they say of a run's states the promise says of its reports, so that the runs
check `KeepsPromise` instead.

`DiscoveryProofs`, for every set of classes, methods and names, hierarchies of any depth and any
number of handlers. `DiscoveryInv` is inductive: types, an array belongs to the class whose
decorators created it (`ArrayInv`), a class extends evaluated classes only (`ChainInv`), and the
result is what the metadata says, which is final by then (`ResultInv`). It gives the properties of
`Discovery`. What counts for a class is found at the nearest class of its chain that has
metadata; that a nearest one exists (`LeastNatural`) follows from the library's theorem that the
strict subset order on finite sets is well-founded, which stands in for induction. For
`RefusesTheUnworkable`, a method that is declared once has one entry, whose type is the declared
one (`DeclaredOnce`).

`InvocationProofs`, for every number of tasks, invocations, attempts and operations. `JournalIsOwn`
and `ReplaysAreSilent` are not inductive alone. `InvocationInv` adds that a task's store is the
context given to the task it goes back to (`StoreInv`), that contexts are of attempts that were
dispatched (`AttemptInv`), and that what was journalled after an attempt began is its own or a
later one's (`JournalInv`), from which a line printed by an attempt that is not replaying precedes
operations of that attempt or later ones only. `WarnsOnce` is inductive given the types.

`ProvidersProofs`, for every application of any classes. A step of an application is one of discovery
or leaves it alone (`AppStepIsStep`), so `DiscoveryInv` holds. `ProvidersInv` adds what a decorator
may have asked for (`AsksInv`), that only evaluated components are registered (`RegistryInv`), what a
provider is for (`ProvidedInv`) and what an injected client was made of (`ClientsInv`). A client is
made before discovery and used after it; that both read the same rests on `AddressIsKept`: the
metadata of an evaluated class and of those it extends is final.

`LifecycleProofs`, for every set of releases, options and setups. Each step of the composition is a
step of `Endpoint` or leaves it alone, and likewise of `Registration` (`ImplementsEndpoint`,
`ImplementsRegistration`), so that the theorems about the parts hold of the whole; this is how
`LifecycleInvariant` gets the parts' types. `LifecycleInv` adds what `onModuleInit` has called where
(`InitInv`), what a `start` that returned leaves behind until the module is destroyed (`HeldInv`),
whose port is in the URL (`UrlInv`) and what came before a destruction that Nest delays (`DestroyInv`).
A Nest that awaits the initialization yields steps of the `Endpoint` that nobody stops during a
listen (`EndpointUsedOrderly`), so that the theorems which need that order hold of it, and with them
`DestroyedIsQuiet`. The promises of the parts hold of the process for the same reason
(`ProcessKeepsRegistrationPromise`, `ProcessKeepsEndpointPromise`).

`OrdersProofs`, for all users, clients, orders, products, prices and limits, and every pipeline.
`OrdersInv` is inductive: what a running handler read is still in the cart and nobody else is at it
(`EditsAreExclusive`), which is what `NoItemLost` needs; how far a charge is agrees with what the
gateway has seen (`GoodCharge`), and how far an order is agrees with its charge, its signal and its
cart (`GoodOrder`). Besides the properties of the runs it gives `LimitHolds`: where guards are on, the
gateway is never called for an amount over the limit. That every step is one of `ShopPromise` or
leaves it alone (`ImplementsShopAlways`) follows from the same invariant, by a lemma for each action:
a write is a whole put or take because of `EditsAreExclusive`; what is refused was never paid because
`GoodCharge` ties the gateway's calls to the guard; `Finish` finds a paid and sent order because of
`GoodOrder`. `FailedMeansUnpaid` is a theorem, and in the run a consequence of the refinement.

Assumptions: `EndpointAssumption`, `RegistrationAssumption`, `SentinelAssumption`,
`DiscoveryAssumption`, `InvocationAssumption`, `LifecycleAssumption` and `OrdersAssumption` (constants
have their types, sentinels are not data). The theorems of `LifecycleProofs` that use those about
registration name its assumptions (`PartsAssumption`).

Only model-checked: liveness (`CallsReturn`, `BootEnds`, `InitEnds`, `OrdersEnd`, and the fairness
part of `ImplementsPromise`, that the endpoint makes progress as `EndpointPromise` says), which the prover cannot reach, and what the violated runs show.

## 5. Where documentation and code disagree

`PROJECT.json` has the quotes. (1) A `stop()` during a pending `listen` lets the next `start()`
create a second server. (2) Production is documented to use `force: false`, yet a metadata change
forces and replaces a changed interface. (3) The example's guard is documented to reject payments over
its limit, yet no filter makes the refusal final, and Restate retries it for ever.

Also seen, with no run of their own. When the GET fails, the POST may replace metadata without the
hook having run, though the hook is documented to be called before registration. Work that a
handler left behind still finds a context after the handler ended, though the store's error says
that it exists within handlers only. A class that inherits a component of another kind is served
as one and addressed as the other, because `discover` and `getComponentMeta` look for kinds in
different orders (hence the condition of `ServedAsAddressed` and of
`ClientsReachWhatIsServed`). A workflow that overrides an
inherited `@Run()` with its own is refused, because entries are counted, not methods (hence the
condition of `RefusesTheUnworkable`). Handlers that a component's kind does not serve, such as a
`@Handler()` on a workflow, are part of its interface hash, so that the converse of
`HashDeterminesInterface` does not hold.

A deployment may be replaced between a boot's GET or its hook and its POST, without the hook having
heard of it (`README.md:747`, `lib/restate.module.ts:290`), and a tag of one release may be stored with
the interface of another that answered for it, after which the skip-check trusts the tag
(`lib/restate.interfaces.ts:42`, `lib/restate.module.ts:276`): production then skips, and Restate keeps
the interface of the other release. A roll-out behind one URL does both, but one process is enough: it
dies with its POST in flight (`lib/restate.module.ts:326`), boots with other code at the same URL, and
Restate asks the new code about the old request. The same late request can make the new boot's POST
unnecessary. Hence `overtaken` and `mixed` in the properties; replicas of one release have neither.

The interface hash covers kinds, names, handlers and their types only. Options and descriptions, which
Restate is served too (`lib/discovery/restate.explorer.ts:169-191`, `207-220`, `238-260`), are not in
it: a release that changes only these is skipped in production, and Restate keeps the old ones until
something else makes it ask (`lib/restate.module.ts:46`). The option's doc calls such a deployment
unchanged without saying what counts.

A subclass that overrides a `@Shared()` handler by a `@Handler()` is served shared, because the loop
over shared handlers comes last (`lib/decorators/handler.decorator.ts:28`,
`lib/discovery/restate.explorer.ts:243`). `InjectClient(T)` where a cycle of imports leaves `T`
undefined silently injects the ingress (`ImportOf`). An application without components is registered though
nothing was started for it (`lib/restate.module.ts:175-186`). In lambda mode the handler stays in a
private field that nothing exposes (`lib/endpoint/restate.endpoint.ts:98-99`).

In the example: a crash between `processCharge` and its journal entry charges twice, though
`README.md:112` calls this safe without idempotency keys (hence the bound by `deaths` in
`ChargedOnceUnlessAttemptsDie`); items added between `getItems` and `clear` are cleared unpaid; two
orders of one user may charge the same cart; `addItem` of a product that is in the cart keeps its old
price; a charge without an amount passes the guard.

## 6. Plan

Done, each with its runs and proofs: the endpoint and its promise; registration; discovery;
invocations with proxies, ingress and logger; the life cycle that composes endpoint and registration;
providers; the example application with the pipeline's guard and filter; replicas of one release, and
the roll-out of one over another.
The abstract promises of the endpoint, of registration and of the shop are implemented, and proved to
be, with `Lifecycle` inheriting the first two. What could be added: abstract specifications of
discovery (a component is what its nearest metadata says) and of invocations (a journal that only its
own attempt extends).

Not modelled, and why: the types of `lib/restate.interfaces.ts` and `lib/index.ts` that exist only for
the compiler; `lib/ingress/definition-of.ts`, which returns a class's name or throws; levels, ANSI colours and layout of log
lines; the handler pipeline's parameter extraction and execution context (stateless accessors); the
application's interceptors and pipes; resolution of options, which is done once and keeps no state;
`refund` and the module declarations of the example.
