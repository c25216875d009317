-------------------------- MODULE DiscoveryProofs --------------------------
(***************************************************************************)
(* Theorems about Discovery, for every set of classes, methods and names   *)
(* and any number of handlers.  The metadata that counts for a class is    *)
(* found at the nearest class of its chain that has any, so the proofs     *)
(* need that a nearest one exists: LeastNatural, which follows from the    *)
(* well-foundedness of the strict subset order on finite sets.             *)
(***************************************************************************)
EXTENDS Discovery, FiniteSetTheorems, WellFoundedInduction, TLAPS

\* Every nonempty set of natural numbers has a least member.
LEMMA LeastNatural ==
    ASSUME NEW T \in SUBSET Nat, T # {}
    PROVE  \E x \in T : \A y \in T : x <= y
  <1> DEFINE Below == {1..k : k \in T}
             R == StrictSubsetOrdering(Nat)
  <1>1. Below # {} /\ Below \subseteq FiniteSubsetsOf(Nat)
    <2>1. \A k \in T : 1..k \in SUBSET Nat /\ IsFiniteSet(1..k)
      BY FS_Interval
    <2> QED
      BY <2>1 DEF FiniteSubsetsOf
  <1>2. IsWellFoundedOn(R, FiniteSubsetsOf(Nat))
    BY FS_StrictSubsetOrderingWellFounded
  <1>3. PICK m \in Below : \A b \in Below : ~(<<b, m>> \in R)
    <2> HIDE DEF Below, R
    <2> QED
      BY <1>1, <1>2, WFMin
  <1>4. PICK x \in T : m = 1..x
    BY <1>3
  <1>5. ASSUME NEW y \in T, ~(x <= y) PROVE FALSE
    <2>1. 1..y \subseteq 1..x /\ x \in 1..x /\ x \notin 1..y
      BY <1>5, <1>4
    <2>2. <<1..y, 1..x>> \in R
      BY <2>1, <1>4 DEF StrictSubsetOrdering
    <2> QED
      BY <2>2, <1>3, <1>4
  <1> QED
    BY <1>4, <1>5

-----------------------------------------------------------------------------
(* Reflection metadata.                                                    *)

\* GetMetadata() returns the own value of some class of the chain, and NULL
\* only when no class of the chain has any.
LEMMA MetadataIsFound ==
    ASSUME NEW own, NEW c \in Classes, chain[c] \in Seq(Classes)
    PROVE  \/ /\ \A i \in DOMAIN chain[c] : own[chain[c][i]] = NULL
              /\ GetMetadata(own, c) = NULL
           \/ \E i \in DOMAIN chain[c] :
                 /\ own[chain[c][i]] # NULL
                 /\ GetMetadata(own, c) = own[chain[c][i]]
  <1> DEFINE at == {i \in DOMAIN chain[c] : own[chain[c][i]] # NULL}
             nearest == CHOOSE i \in at : \A j \in at : i <= j
  <1>1. CASE at = {}
    BY <1>1 DEF GetMetadata
  <1>2. CASE at # {}
    <2>1. at \subseteq Nat
      <3>1. DOMAIN chain[c] = 1..Len(chain[c]) /\ Len(chain[c]) \in Nat
        OBVIOUS
      <3> QED
        BY <3>1
    <2>2. nearest \in at
      <3> HIDE DEF at
      <3> QED
        BY <1>2, <2>1, LeastNatural
    <2>3. GetMetadata(own, c) = own[chain[c][nearest]]
      BY <1>2 DEF GetMetadata
    <2> QED
      BY <2>2, <2>3
  <1> QED
    BY <1>1, <1>2

\* A component's metadata and its handlers have their types.
LEMMA MetadataIsTyped ==
    ASSUME TypeOK, ArrayInv, NEW c \in Classes
    PROVE  /\ \A k \in Kinds : ComponentMeta(k, c) \in ComponentMetas \cup {NULL}
           /\ GetMetadata(handlers, c) \in Classes \cup {NULL}
           /\ HandlerMetadata(c) \in Seq(Entries)
  <1>1. chain[c] \in Seq(Classes) /\ \A i \in DOMAIN chain[c] : chain[c][i] \in Classes
    BY DEF TypeOK
  <1>2. ASSUME NEW k \in Kinds
        PROVE  ComponentMeta(k, c) \in ComponentMetas \cup {NULL}
    <2>1. component[k] \in [Classes -> ComponentMetas \cup {NULL}]
      BY <1>2 DEF TypeOK
    <2> QED
      BY <1>1, <2>1, MetadataIsFound DEF ComponentMeta
  <1>3. GetMetadata(handlers, c) \in Classes \cup {NULL}
    <2>1. handlers \in [Classes -> Classes \cup {NULL}]
      BY DEF TypeOK
    <2> QED
      BY <1>1, <2>1, MetadataIsFound
  <1>4. HandlerMetadata(c) \in Seq(Entries)
    <2>1. array \in [Classes -> Seq(Entries)] /\ <<>> \in Seq(Entries)
      BY DEF TypeOK
    <2> QED
      BY <1>3, <2>1 DEF HandlerMetadata
  <1> QED
    BY <1>2, <1>3, <1>4

\* The methods that are served are methods, and so are the summary's handlers.
LEMMA EntriesAreTyped ==
    ASSUME TypeOK, ArrayInv, NEW c \in Classes
    PROVE  \A i \in DOMAIN HandlerMetadata(c) :
               /\ HandlerMetadata(c)[i].methodName \in Methods
               /\ HandlerMetadata(c)[i].type \in HandlerTypes
               /\ HandlerMetadata(c)[i].options \in OptionsGiven
  <1>1. \A i \in DOMAIN HandlerMetadata(c) : HandlerMetadata(c)[i] \in Entries
    BY MetadataIsTyped
  <1> QED
    BY <1>1 DEF Entries

\* A component is found under a kind that it or an ancestor was decorated with.
LEMMA ServedKindIsVisible ==
    ASSUME NEW c \in Classes, IsRestateComponent(c)
    PROVE  ServedKind(c) \in Kinds /\ ComponentMeta(ServedKind(c), c) # NULL
  BY DEF ServedKind, IsRestateComponent, Kinds

LEMMA ClientKindIsVisible ==
    ASSUME NEW c \in Classes, IsRestateComponent(c)
    PROVE  ClientKind(c) \in Kinds /\ ComponentMeta(ClientKind(c), c) # NULL
  BY DEF ClientKind, IsRestateComponent, Kinds

\* Every nonempty set of indices has a greatest.
LEMMA LastIndex ==
    ASSUME NEW n \in Nat, NEW T \in SUBSET (1..n), T # {}
    PROVE  \E x \in T : \A y \in T : y <= x
  <1> DEFINE U == {n - y : y \in T}
  <1>1. U \in SUBSET Nat /\ U # {}
    OBVIOUS
  <1>2. PICK u \in U : \A v \in U : u <= v
    <2> HIDE DEF U
    <2> QED
      BY <1>1, LeastNatural
  <1>3. PICK x \in T : u = n - x
    BY <1>2
  <1>4. \A y \in T : n - x <= n - y
    BY <1>2, <1>3
  <1> QED
    BY <1>3, <1>4

\* A method of a type has an entry, whose options are served.
LEMMA LastOptionsAreGiven ==
    ASSUME TypeOK, ArrayInv, NEW c \in Classes, NEW t, NEW m \in MethodsOfType(c, t)
    PROVE  LastOptions(c, t, m) \in OptionsGiven
  <1> DEFINE H == HandlerMetadata(c)
             of == {i \in DOMAIN H : H[i].type = t /\ H[i].methodName = m}
             last == CHOOSE i \in of : \A j \in of : j <= i
  <1>1. of # {}
    BY DEF MethodsOfType
  <1>2. Len(H) \in Nat /\ of \in SUBSET (1..Len(H))
    <2>1. H \in Seq(Entries)
      BY MetadataIsTyped
    <2> QED
      BY <2>1
  <1>3. last \in of
    <2> HIDE DEF of, H
    <2> QED
      BY <1>1, <1>2, LastIndex
  <1>4. LastOptions(c, t, m) = H[last].options
    BY DEF LastOptions
  <1> QED
    BY <1>3, <1>4, EntriesAreTyped

\* What discover() builds from a component has its type.
LEMMA DefinitionIsTyped ==
    ASSUME TypeOK, ArrayInv, NEW c \in Classes, IsRestateComponent(c)
    PROVE  /\ Definition(c) \in Definitions
           /\ Summary(c) \in [componentName : ComponentNames, componentType : Kinds,
                              handlers : SUBSET [name : Methods, type : HandlerTypes]]
  <1>1. /\ ServedKind(c) \in Kinds
        /\ ComponentMeta(ServedKind(c), c).name \in ComponentNames
        /\ ComponentMeta(ServedKind(c), c).options \in OptionsGiven
    <2>1. /\ ServedKind(c) \in Kinds
          /\ ComponentMeta(ServedKind(c), c) \in ComponentMetas
      BY ServedKindIsVisible, MetadataIsTyped
    <2> QED
      BY <2>1 DEF ComponentMetas
  <1>2. HandlerMap(c) \in ServedHandlers
    <2> DEFINE first == IF ServedKind(c) = "workflow" THEN "run" ELSE "handler"
               shared == IF ServedKind(c) = "service" THEN {}
                         ELSE MethodsOfType(c, "shared")
               type(m) == IF m \in shared THEN "shared" ELSE first
               ms == MethodsOfType(c, first) \cup shared
               served(m) == [type |-> type(m), options |-> LastOptions(c, type(m), m)]
    <2>1. first \in HandlerTypes /\ "shared" \in HandlerTypes
      BY DEF HandlerTypes
    <2>2. ms \in SUBSET Methods
      <3>1. \A t \in HandlerTypes : MethodsOfType(c, t) \subseteq Methods
        BY EntriesAreTyped DEF MethodsOfType
      <3> QED
        BY <2>1, <3>1
    <2>3. ASSUME NEW m \in ms
          PROVE  served(m) \in [type : HandlerTypes, options : OptionsGiven]
      <3>1. m \in MethodsOfType(c, type(m)) /\ type(m) \in HandlerTypes
        BY <2>1
      <3>2. LastOptions(c, type(m), m) \in OptionsGiven
        BY <3>1, LastOptionsAreGiven
      <3> QED
        BY <3>1, <3>2
    <2>4. HandlerMap(c) = [m \in ms |-> served(m)]
      BY DEF HandlerMap
    <2> HIDE DEF ms, served
    <2>5. HandlerMap(c) \in [ms -> [type : HandlerTypes, options : OptionsGiven]]
      BY <2>3, <2>4
    <2> QED
      BY <2>2, <2>5 DEF ServedHandlers
  <1>3. {[name |-> HandlerMetadata(c)[i].methodName, type |-> HandlerMetadata(c)[i].type] :
            i \in DOMAIN HandlerMetadata(c)} \in SUBSET [name : Methods, type : HandlerTypes]
    BY EntriesAreTyped
  <1> QED
    BY <1>1, <1>2, <1>3 DEF Definition, Definitions, Summary

-----------------------------------------------------------------------------
(* The inductive invariant.                                                *)

LEMMA InitDiscovery == Init => DiscoveryInv
  <1> SUFFICES ASSUME Init PROVE DiscoveryInv
    OBVIOUS
  <1>1. TypeOK
    BY DEF Init, TypeOK
  <1>2. ArrayInv /\ ChainInv /\ ResultInv
    BY DEF Init, ArrayInv, ChainInv, ResultInv
  <1> QED
    BY <1>1, <1>2 DEF DiscoveryInv

\* Nothing happens after discover().
LEMMA ResultIsFinal ==
    ASSUME DiscoveryInv, [Next]_vars, result # NULL
    PROVE  UNCHANGED vars
  <1>1. \A c \in Classes : ~Evaluating(c)
    BY DEF DiscoveryInv, ResultInv
  <1> QED
    BY <1>1 DEF Next, Extend, DecorateMethod, MayDecorate, DecorateClass,
                LeaveUndecorated, Discover

\* The part of the type invariant that is not about the result.
MetadataTypes ==
    /\ stage \in [Classes -> {"unseen", "open", "closed"}]
    /\ chain \in [Classes -> Seq(Classes)]
    /\ component \in [Kinds -> [Classes -> ComponentMetas \cup {NULL}]]
    /\ handlers \in [Classes -> Classes \cup {NULL}]
    /\ array \in [Classes -> Seq(Entries)]
    /\ registry \subseteq Classes

\* Evaluating classes keeps the types and the ownership of the arrays, and the
\* order in which classes are evaluated.
LEMMA EvaluationStep ==
    ASSUME DiscoveryInv, NEW c \in Classes,
           \/ \E p \in Classes \cup {NULL} : Extend(c, p)
           \/ \E o \in OptionsGiven :
                 \/ \E t \in HandlerTypes, m \in Methods : DecorateMethod(c, t, m, o)
                 \/ \E k \in Kinds, n \in Names \cup {NULL} : DecorateClass(c, k, n, o)
           \/ LeaveUndecorated(c)
    PROVE  MetadataTypes' /\ ArrayInv' /\ ChainInv'
  <1> USE DEF DiscoveryInv, MetadataTypes, ArrayInv, ChainInv
  <1> TypeOK /\ MetadataTypes
    BY DEF TypeOK
  <1>1. ASSUME NEW p \in Classes \cup {NULL}, Extend(c, p)
        PROVE  MetadataTypes' /\ ArrayInv' /\ ChainInv'
    <2> DEFINE tail == IF p = NULL THEN <<>> ELSE chain[p]
    <2>1. tail \in Seq(Classes) /\ \A i \in DOMAIN tail : stage[tail[i]] = "closed"
      <3>1. CASE p = NULL
        BY <3>1
      <3>2. CASE p # NULL
        <4>1. p \in Classes /\ stage[p] = "closed" /\ tail = chain[p]
          BY <1>1, <3>2 DEF Extend
        <4> QED
          BY <4>1
      <3> QED
        BY <3>1, <3>2
    <2>2. <<c>> \o tail \in Seq(Classes)
      BY <2>1
    <2>3. \A i \in DOMAIN (<<c>> \o tail) :
             (<<c>> \o tail)[i] = c \/ stage[(<<c>> \o tail)[i]] = "closed"
      BY <2>1
    <2>4. /\ stage' = [stage EXCEPT ![c] = "open"] /\ stage[c] = "unseen"
          /\ chain' = [chain EXCEPT ![c] = <<c>> \o tail]
          /\ UNCHANGED <<component, handlers, array, registry>>
      BY <1>1 DEF Extend
    <2> HIDE DEF tail
    <2>5. MetadataTypes' /\ ArrayInv'
      BY <2>2, <2>4
    <2>6. ASSUME NEW d \in Classes, stage'[d] # "unseen", NEW i \in DOMAIN chain'[d]
          PROVE  chain'[d][i] = d \/ stage'[chain'[d][i]] = "closed"
      <3>1. CASE d = c
        BY <3>1, <2>3, <2>4, <2>6
      <3>2. CASE d # c
        BY <3>2, <2>4, <2>6
      <3> QED
        BY <3>1, <3>2
    <2> QED
      BY <2>5, <2>6
  <1>2. ASSUME NEW t \in HandlerTypes, NEW m \in Methods, NEW o \in OptionsGiven,
               DecorateMethod(c, t, m, o)
        PROVE  MetadataTypes' /\ ArrayInv' /\ ChainInv'
    <2>1. Append(HandlerMetadata(c), [type |-> t, methodName |-> m, options |-> o])
              \in Seq(Entries)
      <3>1. [type |-> t, methodName |-> m, options |-> o] \in Entries
        BY DEF Entries
      <3> QED
        BY <3>1, MetadataIsTyped
    <2> QED
      BY <1>2, <2>1 DEF DecorateMethod
  <1>3. ASSUME NEW k \in Kinds, NEW n \in Names \cup {NULL}, NEW o \in OptionsGiven,
               DecorateClass(c, k, n, o)
        PROVE  MetadataTypes' /\ ArrayInv' /\ ChainInv'
    <2>1. [name |-> IF n = NULL THEN c ELSE n, options |-> o] \in ComponentMetas
      BY DEF ComponentMetas, ComponentNames
    <2> QED
      BY <1>3, <2>1 DEF DecorateClass, Evaluating
  <1>4. CASE LeaveUndecorated(c)
    BY <1>4 DEF LeaveUndecorated, Evaluating
  <1> QED
    BY <1>1, <1>2, <1>3, <1>4

\* What discover() returns has its type and is built from the metadata.
LEMMA DiscoverStep ==
    ASSUME DiscoveryInv, NEW providers \in SUBSET Classes, Discover(providers)
    PROVE  TypeOK' /\ ResultInv'
  <1> DEFINE found == {c \in providers : IsRestateComponent(c)}
  <1>1. TypeOK /\ ArrayInv
    BY DEF DiscoveryInv
  <1>2. /\ {Definition(c) : c \in found} \subseteq Definitions
        /\ {Summary(c) : c \in found} \subseteq
             [componentName : ComponentNames, componentType : Kinds,
              handlers : SUBSET [name : Methods, type : HandlerTypes]]
    BY <1>1, DefinitionIsTyped
  <1>3. /\ result'.providers = found
        /\ result'.threw <=> \E c \in found : ~Buildable(c)
        /\ \/ result'.definitions = {} /\ result'.componentSummary = {}
           \/ /\ result'.definitions = {Definition(c) : c \in found}
              /\ result'.componentSummary = {Summary(c) : c \in found}
    BY DEF Discover
  <1>4. UNCHANGED <<stage, chain, component, handlers, array, registry>>
    BY DEF Discover
  <1>5. TypeOK'
    BY <1>1, <1>2, <1>3, <1>4 DEF TypeOK
  <1>6. ResultInv'
    <2>1. \A c \in Classes : ~Evaluating(c)'
      BY <1>4 DEF Discover, Evaluating
    <2>2. \A c \in Classes : /\ IsRestateComponent(c)' <=> IsRestateComponent(c)
                             /\ Buildable(c)' <=> Buildable(c)
                             /\ Definition(c)' = Definition(c)
      BY <1>4 DEF IsRestateComponent, Buildable, Definition, ComponentMeta, ServedKind,
                  GetMetadata, RunCount, MethodsOfType, HandlerMetadata, HandlerMap,
                  LastOptions
    <2> QED
      BY <2>1, <2>2, <1>3 DEF ResultInv
  <1> QED
    BY <1>5, <1>6

LEMMA NextDiscovery == DiscoveryInv /\ [Next]_vars => DiscoveryInv'
  <1> SUFFICES ASSUME DiscoveryInv, [Next]_vars PROVE DiscoveryInv'
    OBVIOUS
  <1>1. CASE UNCHANGED vars
    <2>1. \A c \in Classes : /\ IsRestateComponent(c)' <=> IsRestateComponent(c)
                             /\ Buildable(c)' <=> Buildable(c)
                             /\ Definition(c)' = Definition(c)
                             /\ Evaluating(c)' <=> Evaluating(c)
      BY <1>1 DEF vars, IsRestateComponent, Buildable, Definition, ComponentMeta,
                  ServedKind, GetMetadata, RunCount, MethodsOfType, HandlerMetadata,
                  HandlerMap, LastOptions, Evaluating
    <2>2. ResultInv'
      <3>1. ResultInv /\ (result = NULL \/ result.providers \subseteq Classes)
        BY DEF DiscoveryInv, TypeOK
      <3> QED
        BY <1>1, <2>1, <3>1 DEF vars, ResultInv
    <2> QED
      BY <1>1, <2>2 DEF vars, DiscoveryInv, TypeOK, ArrayInv, ChainInv
  <1>2. ASSUME NEW providers \in SUBSET Classes, Discover(providers)
        PROVE  DiscoveryInv'
    <2>1. UNCHANGED <<stage, chain, component, handlers, array, registry>>
      BY <1>2 DEF Discover
    <2> QED
      BY <1>2, <2>1, DiscoverStep DEF DiscoveryInv, ArrayInv, ChainInv
  <1>3. ASSUME NEW c \in Classes, ~ UNCHANGED vars,
               \/ \E p \in Classes \cup {NULL} : Extend(c, p)
               \/ \E o \in OptionsGiven :
                     \/ \E t \in HandlerTypes, m \in Methods : DecorateMethod(c, t, m, o)
                     \/ \E k \in Kinds, n \in Names \cup {NULL} : DecorateClass(c, k, n, o)
               \/ LeaveUndecorated(c)
        PROVE  DiscoveryInv'
    <2>1. MetadataTypes' /\ ArrayInv' /\ ChainInv'
      BY <1>3, EvaluationStep
    <2>2. result' = NULL
      <3>1. result = NULL
        BY <1>3, ResultIsFinal
      <3> QED
        BY <1>3, <3>1 DEF Extend, DecorateMethod, DecorateClass, LeaveUndecorated
    <2> QED
      BY <2>1, <2>2 DEF DiscoveryInv, MetadataTypes, TypeOK, ResultInv
  <1> QED
    BY <1>1, <1>2, <1>3 DEF Next, OptionsGiven

\* The invariant holds for every program of decorated classes.
THEOREM DiscoveryInvariant == Spec => []DiscoveryInv
  BY InitDiscovery, NextDiscovery, PTL DEF Spec

\* The types of reflection metadata and of discover()'s result.
THEOREM DiscoveryTypeCorrect == Spec => []TypeOK
  <1>1. DiscoveryInv => TypeOK
    BY DEF DiscoveryInv
  <1> QED
    BY <1>1, DiscoveryInvariant, PTL

-----------------------------------------------------------------------------
(* Evaluating a class leaves the handlers of evaluated classes alone.      *)

LEMMA KeepsHandlers ==
    ASSUME DiscoveryInv, [Next]_vars, NEW c \in Classes, stage[c] = "closed"
    PROVE  HandlerMetadata(c)' = HandlerMetadata(c)
  <1>1. /\ chain[c] \in Seq(Classes)
        /\ \A i \in DOMAIN chain[c] : /\ chain[c][i] \in Classes
                                      /\ stage[chain[c][i]] = "closed"
    <2>1. chain[c] \in Seq(Classes)
      BY DEF DiscoveryInv, TypeOK
    <2>2. \A i \in DOMAIN chain[c] : chain[c][i] = c \/ stage[chain[c][i]] = "closed"
      BY DEF DiscoveryInv, ChainInv
    <2>3. \A i \in DOMAIN chain[c] : chain[c][i] \in Classes
      BY <2>1
    <2> QED
      BY <2>1, <2>2, <2>3
  <1>2. chain'[c] = chain[c]
    <2>1. chain \in [Classes -> Seq(Classes)]
      BY DEF DiscoveryInv, TypeOK
    <2>2. \/ UNCHANGED chain
          \/ \E d \in Classes, p \in Classes \cup {NULL} : Extend(d, p)
      BY DEF Next, vars, DecorateMethod, DecorateClass, LeaveUndecorated, Discover
    <2> QED
      BY <2>1, <2>2 DEF Extend
  <1>3. \A d \in Classes : stage[d] = "closed" =>
            handlers'[d] = handlers[d] /\ array'[d] = array[d]
    BY DEF DiscoveryInv, TypeOK, Next, vars, Extend, DecorateMethod, MayDecorate,
           Evaluating, DecorateClass, LeaveUndecorated, Discover
  <1>4. GetMetadata(handlers, c)' = GetMetadata(handlers, c)
    <2> DEFINE at(own) == {i \in DOMAIN chain[c] : own[chain[c][i]] # NULL}
    <2>1. \A i \in DOMAIN chain[c] : handlers'[chain[c][i]] = handlers[chain[c][i]]
      BY <1>1, <1>3
    <2>2. \/ /\ \A i \in DOMAIN chain[c] : handlers[chain[c][i]] = NULL
             /\ GetMetadata(handlers, c) = NULL
          \/ \E i \in DOMAIN chain[c] : handlers[chain[c][i]] # NULL
      BY <1>1, MetadataIsFound
    <2>3. at(handlers') = at(handlers)
      BY <2>1
    <2>4. CASE at(handlers) = {}
      BY <2>3, <2>4, <1>2 DEF GetMetadata
    <2>5. CASE at(handlers) # {}
      <3> DEFINE nearest == CHOOSE i \in at(handlers) : \A j \in at(handlers) : i <= j
      <3>1. GetMetadata(handlers, c) = handlers[chain[c][nearest]]
        BY <2>5 DEF GetMetadata
      <3>2. GetMetadata(handlers, c)' = handlers'[chain[c][nearest]]
        BY <2>5, <2>3, <1>2 DEF GetMetadata
      <3>3. nearest \in at(handlers)
        <4>1. at(handlers) \subseteq Nat
          <5>1. DOMAIN chain[c] = 1..Len(chain[c]) /\ Len(chain[c]) \in Nat
            BY <1>1
          <5> QED
            BY <5>1
        <4> HIDE DEF at
        <4> QED
          BY <2>5, <4>1, LeastNatural
      <3> QED
        BY <3>1, <3>2, <3>3, <2>1
    <2> QED
      BY <2>4, <2>5
  <1>5. CASE GetMetadata(handlers, c) = NULL
    BY <1>4, <1>5 DEF HandlerMetadata
  <1>6. CASE GetMetadata(handlers, c) # NULL
    <2>1. PICK i \in DOMAIN chain[c] :
             /\ handlers[chain[c][i]] # NULL
             /\ GetMetadata(handlers, c) = handlers[chain[c][i]]
      BY <1>1, <1>6, MetadataIsFound
    <2>2. handlers[chain[c][i]] = chain[c][i]
      BY <1>1, <2>1 DEF DiscoveryInv, ArrayInv
    <2>3. array'[chain[c][i]] = array[chain[c][i]]
      BY <1>1, <1>3
    <2> QED
      BY <1>4, <2>1, <2>2, <2>3 DEF HandlerMetadata
  <1> QED
    BY <1>5, <1>6

\* However classes extend one another and whatever a subclass declares, the
\* handlers of a class that is already evaluated stay what they were.
THEOREM ParentHandlersAreKept == Spec => ParentHandlersKept
  <1>1. DiscoveryInv /\ [Next]_vars =>
            [\A c \in Classes :
                stage[c] = "closed" => HandlerMetadata(c)' = HandlerMetadata(c)]_vars
    BY KeepsHandlers
  <1> QED
    BY <1>1, DiscoveryInvariant, PTL DEF Spec, ParentHandlersKept

-----------------------------------------------------------------------------
(* What discover() returns.                                                *)

\* A definition stems from a class that is a component.
LEMMA DefinitionHasAnOrigin ==
    ASSUME DiscoveryInv, result # NULL, NEW d \in result.definitions
    PROVE  /\ d.class \in Classes
           /\ IsRestateComponent(d.class)
           /\ d.kind = ServedKind(d.class)
           /\ d.name = ComponentMeta(ServedKind(d.class), d.class).name
           /\ d.handlers = HandlerMap(d.class)
  <1>1. PICK c \in result.providers : d = Definition(c)
    BY DEF DiscoveryInv, ResultInv
  <1>2. c \in Classes /\ IsRestateComponent(c)
    BY DEF DiscoveryInv, ResultInv, TypeOK
  <1> QED
    BY <1>1, <1>2 DEF Definition

\* The methods of a type are those that the summary says have the type.
LEMMA SummaryHasMethodsOfType ==
    ASSUME NEW c \in Classes, NEW t
    PROVE  MethodsOfType(c, t) =
               {h.name : h \in {x \in Summary(c).handlers : x.type = t}}
  <1> DEFINE H == HandlerMetadata(c)
             S == {[name |-> H[i].methodName, type |-> H[i].type] : i \in DOMAIN H}
  <1>1. Summary(c).handlers = S
    BY DEF Summary
  <1>2. MethodsOfType(c, t) = {H[i].methodName : i \in {j \in DOMAIN H : H[j].type = t}}
    BY DEF MethodsOfType
  <1>3. {h.name : h \in {x \in S : x.type = t}} =
            {H[i].methodName : i \in {j \in DOMAIN H : H[j].type = t}}
    <2> HIDE DEF H
    <2>1. ASSUME NEW i \in DOMAIN H, H[i].type = t
          PROVE  H[i].methodName \in {h.name : h \in {x \in S : x.type = t}}
      <3>1. [name |-> H[i].methodName, type |-> H[i].type] \in {x \in S : x.type = t}
        BY <2>1
      <3> QED
        BY <3>1
    <2>2. ASSUME NEW x \in S, x.type = t
          PROVE  x.name \in {H[i].methodName : i \in {j \in DOMAIN H : H[j].type = t}}
      BY <2>2
    <2> QED
      BY <2>1, <2>2
  <1> QED
    BY <1>1, <1>2, <1>3

\* Whatever an application is made of, components with the same summary, and
\* so with the same hash, are served as the same kind under the same name, with
\* the same handlers of the same types; with which options is another matter.
THEOREM HashIsAFingerprint == Spec => []HashDeterminesInterface
  <1>1. DiscoveryInv => HashDeterminesInterface
    <2> SUFFICES ASSUME DiscoveryInv, result # NULL,
                        NEW d \in result.definitions, NEW e \in result.definitions,
                        Summary(d.class) = Summary(e.class)
                 PROVE  /\ d.kind = e.kind /\ d.name = e.name
                        /\ ServedTypes(d) = ServedTypes(e)
      BY DEF HashDeterminesInterface
    <2>1. d.class \in Classes /\ e.class \in Classes
      BY DefinitionHasAnOrigin
    <2>2. /\ ServedKind(d.class) = ServedKind(e.class)
          /\ ComponentMeta(ServedKind(d.class), d.class).name =
                ComponentMeta(ServedKind(e.class), e.class).name
      BY DEF Summary
    <2>3. \A t : MethodsOfType(d.class, t) = MethodsOfType(e.class, t)
      BY <2>1, SummaryHasMethodsOfType
    <2>4. /\ DOMAIN HandlerMap(d.class) = DOMAIN HandlerMap(e.class)
          /\ \A m \in DOMAIN HandlerMap(d.class) :
                HandlerMap(d.class)[m].type = HandlerMap(e.class)[m].type
      BY <2>2, <2>3 DEF HandlerMap
    <2>5. d.handlers = HandlerMap(d.class) /\ e.handlers = HandlerMap(e.class)
      BY DefinitionHasAnOrigin
    <2>6. ServedTypes(d) = ServedTypes(e)
      BY <2>4, <2>5 DEF ServedTypes
    <2> QED
      BY <2>2, <2>6, DefinitionHasAnOrigin
  <1> QED
    BY <1>1, DiscoveryInvariant, PTL

\* A class that sees one kind is found under it by the explorer and by clients.
LEMMA AddressIsServed == DiscoveryInv => ServedAsAddressed
  <1> SUFFICES ASSUME DiscoveryInv, result # NULL, NEW d \in result.definitions,
                      Cardinality(VisibleKinds(d.class)) = 1
               PROVE  GetComponentMeta(d.class) = [type |-> d.kind, name |-> d.name]
    BY DEF ServedAsAddressed
  <1>1. d.class \in Classes /\ IsRestateComponent(d.class)
    BY DefinitionHasAnOrigin
  <1>2. IsFiniteSet(VisibleKinds(d.class))
    <2>1. IsFiniteSet({"service"} \cup {"object"} \cup {"workflow"})
      BY FS_Singleton, FS_Union
    <2>2. Kinds = {"service"} \cup {"object"} \cup {"workflow"}
      BY DEF Kinds
    <2> QED
      BY <2>1, <2>2, FS_Subset DEF VisibleKinds
  <1>3. PICK k : VisibleKinds(d.class) = {k}
    BY <1>2, FS_Singleton
  <1>4. ServedKind(d.class) = k /\ ClientKind(d.class) = k
    BY <1>1, <1>3, ServedKindIsVisible, ClientKindIsVisible DEF VisibleKinds
  <1> QED
    BY <1>4, DefinitionHasAnOrigin DEF GetComponentMeta

\* Clients address what is served, unless a class inherits another kind.
THEOREM ClientsAddressWhatIsServed == Spec => []ServedAsAddressed
  BY AddressIsServed, DiscoveryInvariant, PTL

\* Without a handler declared again, a method's declared type is that of its
\* only entry.
LEMMA DeclaredOnce ==
    ASSUME TypeOK, ArrayInv, NEW c \in Classes, ~Redeclares(c),
           NEW i \in DOMAIN HandlerMetadata(c)
    PROVE  DeclaredType(c, HandlerMetadata(c)[i].methodName) = HandlerMetadata(c)[i].type
  <1> DEFINE H == HandlerMetadata(c)
             of == {j \in DOMAIN H : H[j].methodName = H[i].methodName}
             last == CHOOSE x \in of : \A j \in of : j <= x
  <1>1. of = {i}
    BY DEF Redeclares
  <1>2. i <= i
    <2>1. DOMAIN H = 1..Len(H) /\ Len(H) \in Nat
      <3>1. H \in Seq(Entries)
        BY MetadataIsTyped
      <3> QED
        BY <3>1
    <2> HIDE DEF H
    <2> QED
      BY <2>1
  <1>3. last = i
    BY <1>1, <1>2
  <1> QED
    BY <1>3 DEF DeclaredType

LEMMA DeclaredTypesAreTypes ==
    ASSUME TypeOK, ArrayInv, NEW c \in Classes, ~Redeclares(c), NEW types
    PROVE  OfDeclaredType(c, types) = UNION {MethodsOfType(c, t) : t \in types}
  <1> DEFINE H == HandlerMetadata(c)
  <1>1. OfDeclaredType(c, types) =
            {m \in {H[i].methodName : i \in DOMAIN H} : DeclaredType(c, m) \in types}
    BY DEF OfDeclaredType, DeclaredMethods
  <1>2. \A t : MethodsOfType(c, t) =
                  {H[i].methodName : i \in {j \in DOMAIN H : H[j].type = t}}
    BY DEF MethodsOfType
  <1>3. \A i \in DOMAIN H : DeclaredType(c, H[i].methodName) = H[i].type
    BY DeclaredOnce
  <1> HIDE DEF H
  <1>4. ASSUME NEW m \in OfDeclaredType(c, types)
        PROVE  m \in UNION {MethodsOfType(c, t) : t \in types}
    <2>1. PICK i \in DOMAIN H : m = H[i].methodName /\ H[i].type \in types
      BY <1>1, <1>3, <1>4
    <2>2. m \in MethodsOfType(c, H[i].type)
      BY <1>2, <2>1
    <2> QED
      BY <2>1, <2>2
  <1>5. ASSUME NEW t \in types, NEW m \in MethodsOfType(c, t)
        PROVE  m \in OfDeclaredType(c, types)
    <2>1. PICK i \in DOMAIN H : m = H[i].methodName /\ H[i].type = t
      BY <1>2, <1>5
    <2> QED
      BY <1>1, <1>3, <1>5, <2>1
  <1> QED
    BY <1>4, <1>5

\* Without a handler declared again, the explorer's checks are the right ones.
LEMMA BuildableIsWorkable ==
    ASSUME TypeOK, ArrayInv, NEW c \in Classes, IsRestateComponent(c), ~Redeclares(c)
    PROVE  Buildable(c) <=> Workable(c)
  <1> DEFINE H == HandlerMetadata(c)
             runs == {i \in DOMAIN H : H[i].type = "run"}
  <1>1. /\ OfDeclaredType(c, {"run"}) = MethodsOfType(c, "run")
        /\ OfDeclaredType(c, {"handler"}) = MethodsOfType(c, "handler")
        /\ OfDeclaredType(c, {"handler", "shared"}) =
              MethodsOfType(c, "handler") \cup MethodsOfType(c, "shared")
    <2>1. \A types : OfDeclaredType(c, types) = UNION {MethodsOfType(c, t) : t \in types}
      BY DeclaredTypesAreTypes
    <2>2. /\ UNION {MethodsOfType(c, t) : t \in {"run"}} = MethodsOfType(c, "run")
          /\ UNION {MethodsOfType(c, t) : t \in {"handler"}} = MethodsOfType(c, "handler")
          /\ UNION {MethodsOfType(c, t) : t \in {"handler", "shared"}} =
                MethodsOfType(c, "handler") \cup MethodsOfType(c, "shared")
      OBVIOUS
    <2> QED
      BY <2>1, <2>2
  <1>2. MethodsOfType(c, "run") = {"run"} => RunCount(c) = 1
    <2>1. MethodsOfType(c, "run") = {H[i].methodName : i \in runs}
      BY DEF MethodsOfType
    <2>2. RunCount(c) = Cardinality(runs)
      BY DEF RunCount
    <2>3. \A i, j \in runs : H[i].methodName = H[j].methodName => i = j
      BY DEF Redeclares
    <2> HIDE DEF runs, H
    <2>4. ASSUME MethodsOfType(c, "run") = {"run"} PROVE \E i : runs = {i}
      <3>1. \A i \in runs : H[i].methodName = "run"
        BY <2>1, <2>4
      <3>2. runs # {}
        BY <2>1, <2>4
      <3> QED
        BY <2>3, <3>1, <3>2
    <2> QED
      BY <2>2, <2>4, FS_Singleton
  <1>3. ServedKind(c) \in {"workflow", "service", "object"}
    BY DEF ServedKind
  <1>4. CASE ServedKind(c) = "workflow"
    BY <1>1, <1>2, <1>4 DEF Buildable, Workable
  <1>5. CASE ServedKind(c) = "service"
    BY <1>1, <1>5 DEF Buildable, Workable
  <1>6. CASE ServedKind(c) = "object"
    BY <1>1, <1>6 DEF Buildable, Workable
  <1> QED
    BY <1>3, <1>4, <1>5, <1>6

\* The application is kept from starting exactly when a component lacks what
\* it needs, whatever it is made of, if no subclass declares a handler again.
THEOREM RefusalsAreRight == Spec => []RefusesTheUnworkable
  <1>1. DiscoveryInv => RefusesTheUnworkable
    <2> SUFFICES ASSUME DiscoveryInv, result # NULL,
                        \A c \in result.providers : ~Redeclares(c)
                 PROVE  result.threw <=> \E c \in result.providers : ~Workable(c)
      BY DEF RefusesTheUnworkable
    <2>1. TypeOK /\ ArrayInv /\ ResultInv /\ result.providers \subseteq Classes
      BY DEF DiscoveryInv, TypeOK
    <2>2. \A c \in result.providers : Buildable(c) <=> Workable(c)
      BY <2>1, BuildableIsWorkable DEF ResultInv
    <2> QED
      BY <2>1, <2>2 DEF ResultInv
  <1> QED
    BY <1>1, DiscoveryInvariant, PTL
=============================================================================
