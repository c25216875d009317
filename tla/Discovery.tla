----------------------------- MODULE Discovery -----------------------------
(***************************************************************************)
(* How decorated classes become components: the decorators, which run      *)
(* while a class is evaluated and leave reflection metadata on it; the     *)
(* explorer (lib/discovery/restate.explorer.ts), which builds from it what *)
(* is served and what is hashed; and getComponentMeta() in                 *)
(* lib/registry/component-metadata.ts, by which clients address a class.   *)
(*                                                                         *)
(* Reflect.getMetadata() walks the prototype chain, so a class that says   *)
(* nothing inherits what its parent says, and an array of handlers is read *)
(* by reference.  A name of Classes also stands for the class's name and   *)
(* for the array of handlers that its decorators create.  "object" is also *)
(* what the explorer calls "virtualObject"; of the summary only what is    *)
(* hashed is kept, so without the components' metadata.                    *)
(* The options of a decorator stand for all that it gets and the explorer  *)
(* hands on unread: Restate's options and, for a class, the description.   *)
(***************************************************************************)
EXTENDS Integers, Sequences, FiniteSets

CONSTANTS
    Classes, Methods, Names, Options, NULL,
    MaxHandlers,  \* bound on the handler decorators of all classes together
    MaxOptions    \* bound on the decorators that are given options

Kinds == {"service", "object", "workflow"}
HandlerTypes == {"run", "handler", "shared"}

ASSUME DiscoveryAssumption ==
    /\ NULL \notin Classes \cup Names
    /\ NULL \notin [name : Classes \cup Names, options : Options \cup {NULL}]
    /\ "run" \in Methods
    /\ MaxHandlers \in Nat /\ MaxOptions \in Nat

VARIABLES
    stage,      \* how far the evaluation of each class is
    chain,      \* the class and those it extends, nearest first
    component,  \* component[k][c]: c's own metadata of kind k, or NULL
    handlers,   \* the array that c's own handler metadata is, or NULL
    array,      \* the contents of the arrays
    registry,   \* the classes that registerComponent() has seen
    result      \* what discover() returned or threw

vars == <<stage, chain, component, handlers, array, registry, result>>

Init ==
    /\ stage = [c \in Classes |-> "unseen"]
    /\ chain = [c \in Classes |-> <<>>]
    /\ component = [k \in Kinds |-> [c \in Classes |-> NULL]]
    /\ handlers = [c \in Classes |-> NULL]
    /\ array = [c \in Classes |-> <<>>]
    /\ registry = {}
    /\ result = NULL

-----------------------------------------------------------------------------
(* Reflection metadata.                                                    *)

\* Reflect.getMetadata(): c's own value, or that of its nearest ancestor.
GetMetadata(own, c) ==
    LET at == {i \in DOMAIN chain[c] : own[chain[c][i]] # NULL}
    IN  IF at = {} THEN NULL
        ELSE own[chain[c][CHOOSE i \in at : \A j \in at : i <= j]]

ComponentMeta(k, c) == GetMetadata(component[k], c)

\* getHandlerMetadata()
HandlerMetadata(c) ==
    LET a == GetMetadata(handlers, c) IN IF a = NULL THEN <<>> ELSE array[a]

IsRestateComponent(c) == \E k \in Kinds : ComponentMeta(k, c) # NULL

\* getComponentMeta(): a service before an object before a workflow.
ClientKind(c) ==
    CASE ComponentMeta("service", c) # NULL -> "service"
      [] /\ ComponentMeta("service", c) = NULL
         /\ ComponentMeta("object", c) # NULL -> "object"
      [] OTHER -> "workflow"

GetComponentMeta(c) ==
    [type |-> ClientKind(c), name |-> ComponentMeta(ClientKind(c), c).name]

\* The explorer: a workflow before a service before an object.
ServedKind(c) ==
    CASE ComponentMeta("workflow", c) # NULL -> "workflow"
      [] /\ ComponentMeta("workflow", c) = NULL
         /\ ComponentMeta("service", c) # NULL -> "service"
      [] OTHER -> "object"

-----------------------------------------------------------------------------
(* The evaluation of a class: methods' decorators, then the class's.       *)

Evaluating(c) == stage[c] = "open"

Extend(c, p) ==
    /\ stage[c] = "unseen"
    /\ \A d \in Classes : ~Evaluating(d)
    /\ p # NULL => stage[p] = "closed"
    /\ result = NULL
    /\ stage' = [stage EXCEPT ![c] = "open"]
    /\ chain' = [chain EXCEPT ![c] = <<c>> \o (IF p = NULL THEN <<>> ELSE chain[p])]
    /\ UNCHANGED <<component, handlers, array, registry, result>>

\* The handlers that c's own decorators have added.
OwnHandlers(c) ==
    LET inherited == IF Len(chain[c]) = 1 THEN <<>> ELSE HandlerMetadata(chain[c][2])
    IN  SubSeq(HandlerMetadata(c), Len(inherited) + 1, Len(HandlerMetadata(c)))

\* The methods decorated so far, by class.
Decorated ==
    UNION {{<<c, m>> : m \in {OwnHandlers(c)[i].methodName : i \in DOMAIN OwnHandlers(c)}} :
              c \in {d \in Classes : stage[d] # "unseen"}}

\* The decorators that were given options so far, by class.
Given ==
    LET seen == {c \in Classes : stage[c] # "unseen"}
        own(c) == {component[k][c] : k \in Kinds} \ {NULL}
        opted(c) == {x \in own(c) : x.options # NULL} \cup
                    {i \in DOMAIN OwnHandlers(c) : OwnHandlers(c)[i].options # NULL}
    IN  UNION {{<<c, x>> : x \in opted(c)} : c \in seen}

MayDecorate(c, m, options) ==
    /\ Evaluating(c)
    /\ Cardinality(Decorated) < MaxHandlers
    /\ options # NULL => Cardinality(Given) < MaxOptions
    /\ \A i \in DOMAIN OwnHandlers(c) : OwnHandlers(c)[i].methodName # m

\* Slip: what is there is not cloned.
DecorateMethod_InPlace(c, type, m, options) ==
    /\ MayDecorate(c, m, options)
    /\ LET inherited == GetMetadata(handlers, c)
           a == IF inherited = NULL THEN c ELSE inherited
       IN  /\ array' = [array EXCEPT ![a] =
                 Append(@, [type |-> type, methodName |-> m, options |-> options])]
           /\ handlers' = [handlers EXCEPT ![c] = a]
    /\ UNCHANGED <<stage, chain, component, registry, result>>

\* Run, Handler, Shared and Signal: clone what is there, push, define.
DecorateMethod(c, type, m, options) ==
    /\ MayDecorate(c, m, options)
    /\ array' = [array EXCEPT ![c] = Append(HandlerMetadata(c),
                    [type |-> type, methodName |-> m, options |-> options])]
    /\ handlers' = [handlers EXCEPT ![c] = c]
    /\ UNCHANGED <<stage, chain, component, registry, result>>

\* Service, VirtualObject and Workflow; without a name the class's is taken.
DecorateClass(c, k, name, options) ==
    /\ Evaluating(c)
    /\ options # NULL => Cardinality(Given) < MaxOptions
    /\ component' = [component EXCEPT ![k][c] =
                        [name |-> IF name = NULL THEN c ELSE name, options |-> options]]
    /\ registry' = registry \cup {c}
    /\ stage' = [stage EXCEPT ![c] = "closed"]
    /\ UNCHANGED <<chain, handlers, array, result>>

\* A class without a class decorator.
LeaveUndecorated(c) ==
    /\ Evaluating(c)
    /\ stage' = [stage EXCEPT ![c] = "closed"]
    /\ UNCHANGED <<chain, component, handlers, array, registry, result>>

-----------------------------------------------------------------------------
(* discover().                                                             *)

MethodsOfType(c, type) ==
    {h.methodName : h \in {HandlerMetadata(c)[i] : i \in
        {j \in DOMAIN HandlerMetadata(c) : HandlerMetadata(c)[j].type = type}}}

\* runHandlers.length counts entries, not methods.
RunCount(c) ==
    Cardinality({i \in DOMAIN HandlerMetadata(c) : HandlerMetadata(c)[i].type = "run"})

\* Slip: a component needs a handler that is not shared.
Buildable_ExclusiveOnly(c) ==
    CASE ServedKind(c) = "workflow" ->
            RunCount(c) = 1 /\ MethodsOfType(c, "run") = {"run"}
      [] ServedKind(c) \in {"service", "object"} -> MethodsOfType(c, "handler") # {}

\* The checks of buildWorkflow(), buildService() and buildVirtualObject().
Buildable(c) ==
    CASE ServedKind(c) = "workflow" ->
            RunCount(c) = 1 /\ MethodsOfType(c, "run") = {"run"}
      [] ServedKind(c) = "service" -> MethodsOfType(c, "handler") # {}
      [] ServedKind(c) = "object" ->
            MethodsOfType(c, "handler") \cup MethodsOfType(c, "shared") # {}

\* The options of the last entry for a method of a type: a later one overwrites.
LastOptions(c, type, m) ==
    LET of == {i \in DOMAIN HandlerMetadata(c) :
                  HandlerMetadata(c)[i].type = type /\ HandlerMetadata(c)[i].methodName = m}
    IN  HandlerMetadata(c)[CHOOSE i \in of : \A j \in of : j <= i].options

\* handlerMap: the loop over the shared handlers runs last and overwrites.
HandlerMap(c) ==
    LET first   == IF ServedKind(c) = "workflow" THEN "run" ELSE "handler"
        shared  == IF ServedKind(c) = "service" THEN {} ELSE MethodsOfType(c, "shared")
        type(m) == IF m \in shared THEN "shared" ELSE first
    IN  [m \in MethodsOfType(c, first) \cup shared |->
            [type |-> type(m), options |-> LastOptions(c, type(m), m)]]

\* Slip: the metadata is looked up as a service's.
Definition_ServiceMeta(c) ==
    [class |-> c, kind |-> ServedKind(c), name |-> ComponentMeta("service", c),
     options |-> ComponentMeta("service", c), handlers |-> HandlerMap(c)]

\* What is served: unlike the summary, with the options that were given.
Definition(c) ==
    [class |-> c, kind |-> ServedKind(c), name |-> ComponentMeta(ServedKind(c), c).name,
     options |-> ComponentMeta(ServedKind(c), c).options, handlers |-> HandlerMap(c)]

\* Slip: the handlers' types are not part of the summary.
Summary_NamesOnly(c) ==
    [componentName |-> ComponentMeta(ServedKind(c), c).name,
     componentType |-> ServedKind(c),
     handlers |-> {[name |-> HandlerMetadata(c)[i].methodName, type |-> "handler"] :
                      i \in DOMAIN HandlerMetadata(c)}]

\* Sorted in the code, hence a set here.
Summary(c) ==
    [componentName |-> ComponentMeta(ServedKind(c), c).name,
     componentType |-> ServedKind(c),
     handlers |-> {[name |-> HandlerMetadata(c)[i].methodName,
                    type |-> HandlerMetadata(c)[i].type] :
                      i \in DOMAIN HandlerMetadata(c)}]

\* The providers of the application are some of its classes.
Discover(providers) ==
    /\ result = NULL
    /\ \A c \in Classes : ~Evaluating(c)
    /\ providers \subseteq {c \in Classes : stage[c] = "closed"}
    /\ LET found == {c \in providers : IsRestateComponent(c)}
       IN  result' = IF \A c \in found : Buildable(c)
                     THEN [providers |-> found, threw |-> FALSE,
                           definitions |-> {Definition(c) : c \in found},
                           componentSummary |-> {Summary(c) : c \in found}]
                     ELSE [providers |-> found, threw |-> TRUE,
                           definitions |-> {}, componentSummary |-> {}]
    /\ UNCHANGED <<stage, chain, component, handlers, array, registry>>

Next ==
    \/ \E c \in Classes :
          \/ \E p \in Classes \cup {NULL} : Extend(c, p)
          \/ \E o \in Options \cup {NULL} :
                \/ \E t \in HandlerTypes, m \in Methods : DecorateMethod(c, t, m, o)
                \/ \E k \in Kinds, n \in Names \cup {NULL} : DecorateClass(c, k, n, o)
          \/ LeaveUndecorated(c)
    \/ \E providers \in SUBSET Classes : Discover(providers)

Spec == Init /\ [][Next]_vars

-----------------------------------------------------------------------------
(* Properties.                                                             *)

OptionsGiven == Options \cup {NULL}
Entries == [type : HandlerTypes, methodName : Methods, options : OptionsGiven]
ComponentNames == Classes \cup Names
ComponentMetas == [name : ComponentNames, options : OptionsGiven]
ServedHandlers ==
    UNION {[ms -> [type : HandlerTypes, options : OptionsGiven]] : ms \in SUBSET Methods}
Definitions == [class : Classes, kind : Kinds, name : ComponentNames,
                options : OptionsGiven, handlers : ServedHandlers]

\* The type invariant: what reflection metadata and the result may hold.
TypeOK ==
    /\ stage \in [Classes -> {"unseen", "open", "closed"}]
    /\ chain \in [Classes -> Seq(Classes)]
    /\ component \in [Kinds -> [Classes -> ComponentMetas \cup {NULL}]]
    /\ handlers \in [Classes -> Classes \cup {NULL}]
    /\ array \in [Classes -> Seq(Entries)]
    /\ registry \subseteq Classes
    /\ result # NULL =>
          /\ result.providers \subseteq Classes
          /\ result.definitions \subseteq Definitions
          /\ result.componentSummary \subseteq
               [componentName : ComponentNames, componentType : Kinds,
                handlers : SUBSET [name : Methods, type : HandlerTypes]]

\* Decorating a subclass never changes the handlers of a class that is
\* already evaluated, though metadata arrays are inherited by reference.
ParentHandlersKept ==
    [][\A c \in Classes :
          stage[c] = "closed" => HandlerMetadata(c)' = HandlerMetadata(c)]_vars

\* The handlers that a definition serves, each with its type.
ServedTypes(d) == [m \in DOMAIN d.handlers |-> d.handlers[m].type]

\* The interface hash is a fingerprint of the handlers that are served: two
\* components with the same summary are served as the same kind under the same
\* name, with the same handlers of the same types, though what is served is
\* built apart from the summary.  It is none of the options: see Definition.
HashDeterminesInterface ==
    result # NULL =>
        \A d, e \in result.definitions :
            Summary(d.class) = Summary(e.class) =>
                /\ d.kind = e.kind /\ d.name = e.name
                /\ ServedTypes(d) = ServedTypes(e)

\* The kinds that a class and its ancestors were decorated with.
VisibleKinds(c) == {k \in Kinds : ComponentMeta(k, c) # NULL}

\* Clients address a component by the kind and the name it is served under,
\* unless a class and its parent are components of different kinds.
ServedAsAddressed ==
    result # NULL =>
        \A d \in result.definitions :
            Cardinality(VisibleKinds(d.class)) = 1 =>
                GetComponentMeta(d.class) = [type |-> d.kind, name |-> d.name]

\* The type that the most derived declaration gives to a method.
DeclaredType(c, m) ==
    LET of == {i \in DOMAIN HandlerMetadata(c) : HandlerMetadata(c)[i].methodName = m}
    IN  HandlerMetadata(c)[CHOOSE i \in of : \A j \in of : j <= i].type

DeclaredMethods(c) ==
    {HandlerMetadata(c)[i].methodName : i \in DOMAIN HandlerMetadata(c)}

OfDeclaredType(c, types) == {m \in DeclaredMethods(c) : DeclaredType(c, m) \in types}

\* c or an ancestor has handlers in the metadata twice, by overriding.
Redeclares(c) ==
    \E i, j \in DOMAIN HandlerMetadata(c) :
        i # j /\ HandlerMetadata(c)[i].methodName = HandlerMetadata(c)[j].methodName

\* What the decorators' documentation asks of a component.
Workable(c) ==
    CASE ServedKind(c) = "workflow" -> OfDeclaredType(c, {"run"}) = {"run"}
      [] ServedKind(c) = "service"  -> OfDeclaredType(c, {"handler"}) # {}
      [] ServedKind(c) = "object"   -> OfDeclaredType(c, {"handler", "shared"}) # {}

\* discover() keeps the application from starting exactly when some component
\* lacks what it needs, as long as no subclass declares a handler again.
RefusesTheUnworkable ==
    result # NULL /\ (\A c \in result.providers : ~Redeclares(c)) =>
        (result.threw <=> \E c \in result.providers : ~Workable(c))

\* An array of handlers belongs to the class whose decorators created it.
ArrayInv == \A c \in Classes : handlers[c] \in {NULL, c}

\* A class extends classes that are already evaluated.
ChainInv ==
    \A c \in Classes : stage[c] # "unseen" =>
        \A i \in DOMAIN chain[c] : chain[c][i] = c \/ stage[chain[c][i]] = "closed"

\* What discover() returned is what the metadata says, which is final by then.
ResultInv ==
    result # NULL =>
        /\ \A c \in Classes : ~Evaluating(c)
        /\ \A c \in result.providers : IsRestateComponent(c)
        /\ result.threw <=> \E c \in result.providers : ~Buildable(c)
        /\ result.definitions \subseteq {Definition(c) : c \in result.providers}

\* The inductive invariant: types, who owns which array, the order in which
\* classes are evaluated, and the origin of discover()'s result.
DiscoveryInv == TypeOK /\ ArrayInv /\ ChainInv /\ ResultInv

=============================================================================
