-------------------------- MODULE InvocationProofs --------------------------
(* Theorems about Invocation, for every number of tasks, invocations,      *)
(* attempts and operations and every set of components.                    *)
EXTENDS Invocation, TLAPS

-----------------------------------------------------------------------------
(* What the operations do to the parts of the state that matter here.      *)

\* The state that every part of InvocationInv but the types depends on.
core == <<store, root, handles, attempts, journal, known, printed>>

\* A call of a proxy and a use of the context are the same to the journal.
Operation(t, op) ==
    /\ Started(t) /\ CurrentContext(t) # NULL /\ Perform(CurrentContext(t), op, t)
    /\ UNCHANGED <<tasks, keyed, attempts, live, completed, known, printed,
                   warnings, bypasses>>

\* A context is a pair of an invocation and an attempt (Contexts).
LEMMA ContextParts ==
    ASSUME NEW x \in Contexts
    PROVE  x[1] \in Invocations /\ x[2] \in 1..MaxAttempts /\ x = <<x[1], x[2]>>
BY DEF Contexts

\* What clients ask the context for is an operation (ClientOp, ContextOp).
LEMMA ClientOps ==
    ASSUME TypeOK, NEW client \in Clients
    PROVE  ClientOp(client) \in Ops
<1>1. CASE client \in ServiceClients
  <2>1. PICK c \in Classes : client = [class |-> c, key |-> NULL, madeBy |-> NULL]
        BY <1>1 DEF ServiceClients
  <2> QED BY <2>1, InvocationAssumption DEF InvocationAssumption, ClientOp, Ops, Names
<1>2. CASE client \in keyed
  <2>1. client.class \in Classes /\ client.key \in Keys BY <1>2 DEF TypeOK
  <2> QED BY <2>1, InvocationAssumption DEF InvocationAssumption, ClientOp, Ops, Names
<1> QED BY <1>1, <1>2 DEF Clients

\* Every step is one of these (Next).
LEMMA Steps ==
    ASSUME TypeOK, Next
    PROVE  \/ \E t \in Tasks, i \in Invocations : Dispatch(t, i)
           \/ \E t \in Tasks : StartOutside(t)
           \/ \E t \in Tasks : Log(t)
           \/ \E t, u \in Tasks : Spawn(t, u)
           \/ \E t \in Tasks, op \in Ops : Operation(t, op)
           \/ \E i \in Invocations : EndAttempt(i)
           \/ \E t \in Tasks, c \in Classes, k \in Keys : Key(t, c, k)
           \/ \E t \in Tasks, m \in IngressMethods, c \in Classes : IngressCall(t, m, c)
<1>1. ASSUME NEW t \in Tasks, NEW client \in Clients, CallClient(t, client)
      PROVE  \E op \in Ops : Operation(t, op)
  <2>1. ClientOp(client) \in Ops BY ClientOps
  <2>2. Operation(t, ClientOp(client)) BY <1>1 DEF CallClient, Operation
  <2> QED BY <2>1, <2>2
<1>2. ASSUME NEW t \in Tasks, UseContext(t)
      PROVE  \E op \in Ops : Operation(t, op)
  <2>1. ContextOp \in Ops BY DEF Ops
  <2>2. Operation(t, ContextOp) BY <1>2 DEF UseContext, Operation
  <2> QED BY <2>1, <2>2
<1> QED BY <1>1, <1>2 DEF Next

\* The journal entry of an operation.
Entry(x, op, t) == [op |-> op, attempt |-> x[2], by |-> t]

\* An operation leaves the journals alone, or appends an entry of the current
\* attempt to that of its invocation (Perform).
LEMMA OperationJournal ==
    ASSUME TypeOK, NEW t \in Tasks, NEW op \in Ops, Operation(t, op)
    PROVE  LET x == store[t]
               i == store[t][1]
           IN  /\ x \in Contexts
               /\ passed' \in [Contexts -> Nat]
               /\ \/ journal' = journal
                  \/ /\ journal' = [journal EXCEPT ![i] = Append(@, Entry(x, op, t))]
                     /\ x[2] = attempts[i]
<1> DEFINE x == store[t]
           i == store[t][1]
<1>1. x \in Contexts BY DEF TypeOK, Operation, CurrentContext
<1>2. Perform(x, op, t) BY DEF Operation, CurrentContext
<1>3. passed' \in [Contexts -> Nat]
  <2>1. passed \in [Contexts -> Nat] BY DEF TypeOK
  <2>2. passed' = passed \/ passed' = [passed EXCEPT ![x] = @ + 1]
        BY <1>2 DEF Perform
  <2>3. passed[x] + 1 \in Nat BY <1>1, <2>1
  <2> QED BY <2>1, <2>2, <2>3
<1>4. CASE ~Current(x)  BY <1>1, <1>2, <1>3, <1>4 DEF Perform
<1>5. CASE Current(x)
  <2>1. x[2] = attempts[i] BY <1>5 DEF Current
  <2>2. \/ journal' = journal
        \/ journal' = [journal EXCEPT ![i] = Append(@, Entry(x, op, t))]
        BY <1>2, <1>5 DEF Perform, Entry
  <2> QED BY <1>1, <1>3, <2>1, <2>2
<1> QED BY <1>4, <1>5

\* What that means for the entries of the journals.
LEMMA OperationEntries ==
    ASSUME TypeOK, NEW t \in Tasks, NEW op \in Ops, Operation(t, op)
    PROVE  /\ journal' \in [Invocations -> Seq(Entries)]
           /\ \A i \in Invocations : \A n \in DOMAIN journal'[i] :
                 \/ n \in DOMAIN journal[i] /\ journal'[i][n] = journal[i][n]
                 \/ /\ journal'[i][n].by = t
                    /\ store[t] = <<i, journal'[i][n].attempt>>
                    /\ journal'[i][n].attempt = attempts[i]
<1> DEFINE x == store[t]
           j == store[t][1]
           e == Entry(x, op, t)
<1>1. /\ x \in Contexts
      /\ \/ journal' = journal
         \/ journal' = [journal EXCEPT ![j] = Append(@, e)] /\ x[2] = attempts[j]
      BY OperationJournal
<1>2. j \in Invocations /\ x[2] \in 1..MaxAttempts /\ x = <<j, x[2]>>
      BY <1>1, ContextParts
<1>3. e \in Entries /\ e.by = t /\ e.attempt = x[2]
      BY <1>2 DEF Entry, Entries
<1>4. journal \in [Invocations -> Seq(Entries)] BY DEF TypeOK
<1>5. CASE journal' = journal BY <1>4, <1>5
<1>6. CASE journal' = [journal EXCEPT ![j] = Append(@, e)] /\ x[2] = attempts[j]
  <2> HIDE DEF e, x, j
  <2>1. journal[j] \in Seq(Entries) BY <1>2, <1>4
  <2>2. Append(journal[j], e) \in Seq(Entries) BY <2>1, <1>3
  <2>3. journal' \in [Invocations -> Seq(Entries)] BY <1>4, <1>6, <2>2
  <2>4. ASSUME NEW i \in Invocations, NEW n \in DOMAIN journal'[i]
        PROVE  \/ n \in DOMAIN journal[i] /\ journal'[i][n] = journal[i][n]
               \/ i = j /\ journal'[i][n] = e
    <3>1. CASE i # j
      <4>1. journal'[i] = journal[i] BY <1>4, <1>6, <3>1
      <4> QED BY <4>1, <2>4
    <3>2. CASE i = j
      <4>1. journal'[i] = Append(journal[i], e) BY <1>4, <1>6, <3>2
      <4>2. journal[i] \in Seq(Entries) BY <1>4
      <4>3. DOMAIN journal'[i] = 1..(Len(journal[i]) + 1) BY <4>1, <4>2
      <4>4. DOMAIN journal[i] = 1..Len(journal[i]) BY <4>2
      <4>5. CASE n = Len(journal[i]) + 1 BY <3>2, <4>1, <4>2, <4>5
      <4>6. CASE n # Len(journal[i]) + 1
        <5>1. Len(journal[i]) \in Nat BY <4>2
        <5>2. n \in 1..Len(journal[i]) BY <2>4, <4>3, <4>6, <5>1
        <5> QED BY <4>1, <4>2, <4>4, <5>2
      <4> QED BY <4>5, <4>6
    <3> QED BY <3>1, <3>2
  <2> QED BY <2>3, <2>4, <1>2, <1>3, <1>6 DEF x
<1> QED BY <1>1, <1>5, <1>6

-----------------------------------------------------------------------------
(* Initial states.                                                         *)

\* Before anything runs the invariant holds (Init).
LEMMA InitInv == Init => InvocationInv
<1> SUFFICES ASSUME Init PROVE InvocationInv
    OBVIOUS
<1>1. TypeOK
  <2>1. journal \in [Invocations -> Seq(Entries)]
    <3>1. <<>> \in Seq(Entries) OBVIOUS
    <3> QED BY <3>1 DEF Init
  <2>2. warnings \in Seq(Names) BY DEF Init
  <2>3. attempts \in [Invocations -> 0..MaxAttempts]
        BY InvocationAssumption DEF InvocationAssumption, Init
  <2> QED BY <2>1, <2>2, <2>3 DEF Init, TypeOK
<1>2. StoreInv BY DEF Init, StoreInv, Started
<1>3. AttemptInv BY DEF Init, AttemptInv
<1>4. \A i \in Invocations : DOMAIN journal[i] = {} BY DEF Init
<1>5. JournalIsOwn BY <1>4 DEF JournalIsOwn
<1>6. JournalInv BY <1>4, ContextParts DEF JournalInv
<1>7. ReplaysAreSilent BY DEF Init, ReplaysAreSilent
<1> QED BY <1>1, <1>2, <1>3, <1>5, <1>6, <1>7 DEF InvocationInv

-----------------------------------------------------------------------------
(* Types.                                                                  *)

\* Every step keeps the types.
LEMMA TypeStep ==
    ASSUME TypeOK, Next
    PROVE  TypeOK'
<1>1. ASSUME NEW t \in Tasks, NEW i \in Invocations, Dispatch(t, i)
      PROVE  TypeOK'
  <2>1. attempts[i] \in 0..MaxAttempts /\ journal[i] \in Seq(Entries) BY DEF TypeOK
  <2>2. attempts[i] + 1 \in 1..MaxAttempts
        BY <1>1, <2>1, InvocationAssumption DEF InvocationAssumption, Dispatch
  <2>3. <<i, attempts[i] + 1>> \in Contexts BY <2>2 DEF Contexts
  <2>4. Len(journal[i]) \in Nat BY <2>1
  <2>5. attempts' \in [Invocations -> 0..MaxAttempts]
        BY <1>1, <2>2 DEF Dispatch, TypeOK
  <2>6. /\ store' \in [Tasks -> Contexts \cup {NULL}]
        /\ handles' \in [Tasks -> Contexts \cup {NULL}]
        /\ root' \in [Tasks -> Tasks \cup {NULL}]
        BY <1>1, <2>3 DEF Dispatch, TypeOK
  <2>7. known' \in [Contexts -> Nat] BY <1>1, <2>3, <2>4 DEF Dispatch, TypeOK
  <2> QED BY <1>1, <2>5, <2>6, <2>7 DEF Dispatch, TypeOK
<1>2. ASSUME NEW t \in Tasks, StartOutside(t)
      PROVE  TypeOK'
  BY <1>2 DEF StartOutside, TypeOK, restate
<1>3. ASSUME NEW t \in Tasks, Log(t)
      PROVE  TypeOK'
  <2>1. CASE printed' = printed
        BY <1>3, <2>1 DEF Log, TypeOK, tasks, restate
  <2>2. CASE CurrentContext(t) # NULL /\ printed' = Line(CurrentContext(t))
    <3>1. CurrentContext(t) \in Contexts BY <2>2 DEF TypeOK, CurrentContext
    <3>2. passed[CurrentContext(t)] \in Nat BY <3>1 DEF TypeOK
    <3>3. Line(CurrentContext(t)) \in Lines BY <3>1, <3>2, ContextParts DEF Line, Lines
    <3> QED BY <1>3, <2>2, <3>3 DEF Log, TypeOK, tasks, restate
  <2> QED BY <1>3, <2>1, <2>2 DEF Log, Transport
<1>4. ASSUME NEW t \in Tasks, NEW u \in Tasks, Spawn(t, u)
      PROVE  TypeOK'
  BY <1>4 DEF Spawn, TypeOK, restate
<1>5. ASSUME NEW t \in Tasks, NEW op \in Ops, Operation(t, op)
      PROVE  TypeOK'
  <2>1. journal' \in [Invocations -> Seq(Entries)] BY <1>5, OperationEntries
  <2>2. passed' \in [Contexts -> Nat] BY <1>5, OperationJournal
  <2> QED BY <1>5, <2>1, <2>2 DEF Operation, TypeOK, tasks
<1>6. ASSUME NEW i \in Invocations, EndAttempt(i)
      PROVE  TypeOK'
  BY <1>6 DEF EndAttempt, TypeOK, tasks
<1>7. ASSUME NEW t \in Tasks, NEW c \in Classes, NEW k \in Keys, Key(t, c, k)
      PROVE  TypeOK'
  <2>1. keyed' \subseteq [class : Classes, key : Keys, madeBy : Tasks]
        BY <1>7 DEF Key, TypeOK
  <2> QED BY <1>7, <2>1 DEF Key, TypeOK, tasks, restate
<1>8. ASSUME NEW t \in Tasks, NEW m \in IngressMethods, NEW c \in Classes,
             IngressCall(t, m, c)
      PROVE  TypeOK'
  <2>1. Meta[c].name \in Names BY DEF Names
  <2>3. warnings' \in Seq(Names)
        BY <1>8, <2>1 DEF IngressCall, WarnIfInsideHandler, TypeOK
  <2>4. bypasses' \subseteq Names BY <1>8, <2>1 DEF IngressCall, Bypass, TypeOK
  <2> QED BY <1>8, <2>3, <2>4 DEF IngressCall, TypeOK, tasks, restate
<1> QED BY <1>1, <1>2, <1>3, <1>4, <1>5, <1>6, <1>7, <1>8, Steps

-----------------------------------------------------------------------------
(* Where stores come from, and who journals.                               *)

\* Steps of other kinds than these leave what follows alone (Next).
LEMMA CoreSteps ==
    ASSUME TypeOK, Next
    PROVE  \/ \E t \in Tasks, i \in Invocations : Dispatch(t, i)
           \/ \E t \in Tasks : StartOutside(t)
           \/ \E t \in Tasks : Log(t)
           \/ \E t, u \in Tasks : Spawn(t, u)
           \/ \E t \in Tasks, op \in Ops : Operation(t, op)
           \/ UNCHANGED core
<1>1. ASSUME NEW i \in Invocations, EndAttempt(i) PROVE UNCHANGED core
      BY <1>1 DEF EndAttempt, tasks, core
<1>2. ASSUME NEW t \in Tasks, NEW c \in Classes, NEW k \in Keys, Key(t, c, k)
      PROVE  UNCHANGED core
      BY <1>2 DEF Key, tasks, restate, core
<1>3. ASSUME NEW t \in Tasks, NEW m \in IngressMethods, NEW c \in Classes,
             IngressCall(t, m, c)
      PROVE  UNCHANGED core
      BY <1>3 DEF IngressCall, tasks, restate, core
<1> QED BY <1>1, <1>2, <1>3, Steps

\* A task's store stays the context of its root (Dispatch, Spawn).
LEMMA StoreStep ==
    ASSUME TypeOK, StoreInv, Next
    PROVE  StoreInv'
<1> USE InvocationAssumption DEF InvocationAssumption
<1>1. ASSUME NEW t \in Tasks, NEW i \in Invocations, Dispatch(t, i)
      PROVE  StoreInv'
  <2>1. /\ root' = [root EXCEPT ![t] = t]
        /\ store' = [store EXCEPT ![t] = <<i, attempts[i] + 1>>]
        /\ handles' = [handles EXCEPT ![t] = <<i, attempts[i] + 1>>]
        /\ root[t] = NULL
        BY <1>1 DEF Dispatch, Started
  <2> QED BY <2>1 DEF StoreInv, Started, TypeOK
<1>2. ASSUME NEW t \in Tasks, StartOutside(t)
      PROVE  StoreInv'
  BY <1>2 DEF StartOutside, StoreInv, Started, TypeOK
<1>3. ASSUME NEW t \in Tasks, Log(t)
      PROVE  StoreInv'
  BY <1>3 DEF Log, tasks, StoreInv, Started
<1>4. ASSUME NEW t \in Tasks, NEW u \in Tasks, Spawn(t, u)
      PROVE  StoreInv'
  BY <1>4 DEF Spawn, StoreInv, Started, TypeOK
<1>5. ASSUME NEW t \in Tasks, NEW op \in Ops, Operation(t, op)
      PROVE  StoreInv'
  BY <1>5 DEF Operation, tasks, StoreInv, Started
<1>6. CASE UNCHANGED core BY <1>6 DEF core, StoreInv, Started
<1> QED BY <1>1, <1>2, <1>3, <1>4, <1>5, <1>6, CoreSteps

\* Contexts stay those of attempts that were dispatched (Dispatch, Log).
LEMMA AttemptStep ==
    ASSUME TypeOK, AttemptInv, Next
    PROVE  AttemptInv'
<1>1. ASSUME NEW t \in Tasks, NEW i \in Invocations, Dispatch(t, i)
      PROVE  AttemptInv'
  <2>1. /\ store' = [store EXCEPT ![t] = <<i, attempts[i] + 1>>]
        /\ attempts' = [attempts EXCEPT ![i] = @ + 1]
        /\ printed' = printed
        BY <1>1 DEF Dispatch
  <2>2. \A j \in Invocations :
            attempts[j] \in Nat /\ attempts'[j] \in Nat /\ attempts[j] <= attempts'[j]
        BY <2>1, InvocationAssumption DEF InvocationAssumption, TypeOK
  <2>3. attempts'[i] = attempts[i] + 1 BY <2>1 DEF TypeOK
  <2>4. ASSUME NEW u \in Tasks, store'[u] # NULL
        PROVE  store'[u][2] <= attempts'[store'[u][1]]
    <3>1. CASE u = t
      <4>1. store'[u] = <<i, attempts[i] + 1>> BY <2>1, <3>1 DEF TypeOK
      <4> QED BY <4>1, <2>2, <2>3
    <3>2. CASE u # t
      <4>1. store'[u] = store[u] BY <2>1, <3>2 DEF TypeOK
      <4>2. store[u] \in Contexts BY <4>1, <2>4 DEF TypeOK
      <4>3. /\ store[u][1] \in Invocations /\ store[u][2] \in Nat
            /\ store[u][2] <= attempts[store[u][1]]
            BY <4>1, <4>2, <2>4, ContextParts DEF AttemptInv
      <4> QED BY <4>1, <4>3, <2>2
    <3> QED BY <3>1, <3>2
  <2>5. ASSUME printed # NULL
        PROVE  printed.attempt <= attempts'[printed.invocation]
    <3>1. printed.invocation \in Invocations /\ printed.attempt \in Nat
          BY <2>5 DEF TypeOK, Lines
    <3> QED BY <3>1, <2>2, <2>5 DEF AttemptInv
  <2> QED BY <2>1, <2>4, <2>5 DEF AttemptInv
<1>2. ASSUME NEW t \in Tasks, StartOutside(t)
      PROVE  AttemptInv'
  BY <1>2 DEF StartOutside, restate, AttemptInv
<1>3. ASSUME NEW t \in Tasks, Log(t)
      PROVE  AttemptInv'
  <2>1. UNCHANGED <<store, attempts>> BY <1>3 DEF Log, tasks, restate
  <2>2. CASE printed' = printed BY <2>1, <2>2 DEF AttemptInv
  <2>3. CASE CurrentContext(t) # NULL /\ printed' = Line(CurrentContext(t))
    <3>1. store[t] # NULL /\ printed'.invocation = store[t][1] /\ printed'.attempt = store[t][2]
          BY <2>3 DEF CurrentContext, Line
    <3> QED BY <2>1, <3>1 DEF AttemptInv
  <2> QED BY <1>3, <2>2, <2>3 DEF Log, Transport
<1>4. ASSUME NEW t \in Tasks, NEW u \in Tasks, Spawn(t, u)
      PROVE  AttemptInv'
  BY <1>4 DEF Spawn, restate, AttemptInv, TypeOK
<1>5. ASSUME NEW t \in Tasks, NEW op \in Ops, Operation(t, op)
      PROVE  AttemptInv'
  BY <1>5 DEF Operation, tasks, AttemptInv
<1>6. CASE UNCHANGED core BY <1>6 DEF core, AttemptInv
<1> QED BY <1>1, <1>2, <1>3, <1>4, <1>5, <1>6, CoreSteps

\* What tasks have does not change once they started (Dispatch, Spawn).
LEMMA TasksKept ==
    ASSUME TypeOK, StoreInv, Next
    PROVE  \A u \in Tasks : Started(u) =>
              Started(u)' /\ root'[u] = root[u] /\ handles'[root'[u]] = handles[root[u]]
<1> USE InvocationAssumption DEF InvocationAssumption
<1>1. ASSUME NEW t \in Tasks, NEW i \in Invocations, Dispatch(t, i),
             NEW u \in Tasks, Started(u)
      PROVE  Started(u)' /\ root'[u] = root[u] /\ handles'[root'[u]] = handles[root[u]]
  <2>1. /\ root' = [root EXCEPT ![t] = t]
        /\ handles' = [handles EXCEPT ![t] = <<i, attempts[i] + 1>>]
        /\ root[t] = NULL
        BY <1>1 DEF Dispatch, Started
  <2> QED BY <1>1, <2>1 DEF StoreInv, Started, TypeOK
<1>2. ASSUME NEW t \in Tasks, StartOutside(t), NEW u \in Tasks, Started(u)
      PROVE  Started(u)' /\ root'[u] = root[u] /\ handles'[root'[u]] = handles[root[u]]
  BY <1>2 DEF StartOutside, Started, TypeOK
<1>3. ASSUME NEW t \in Tasks, NEW v \in Tasks, Spawn(t, v), NEW u \in Tasks, Started(u)
      PROVE  Started(u)' /\ root'[u] = root[u] /\ handles'[root'[u]] = handles[root[u]]
  BY <1>3 DEF Spawn, Started, TypeOK
<1>4. ASSUME UNCHANGED tasks, NEW u \in Tasks, Started(u)
      PROVE  Started(u)' /\ root'[u] = root[u] /\ handles'[root'[u]] = handles[root[u]]
  BY <1>4 DEF tasks, Started
<1>5. ASSUME NEW t \in Tasks, Log(t) PROVE UNCHANGED tasks
  BY <1>5 DEF Log
<1>6. ASSUME NEW t \in Tasks, NEW op \in Ops, Operation(t, op) PROVE UNCHANGED tasks
  BY <1>6 DEF Operation
<1>7. ASSUME UNCHANGED core PROVE UNCHANGED tasks
  BY <1>7 DEF core, tasks
<1> QED BY <1>1, <1>2, <1>3, <1>4, <1>5, <1>6, <1>7, CoreSteps

\* An entry is old, or the current attempt's own, by a task that is started.
LEMMA JournalEntries ==
    ASSUME TypeOK, StoreInv, Next,
           NEW i \in Invocations, NEW n \in DOMAIN journal'[i]
    PROVE  \/ n \in DOMAIN journal[i] /\ journal'[i][n] = journal[i][n]
           \/ /\ journal'[i][n].by \in Tasks /\ Started(journal'[i][n].by)
              /\ handles[root[journal'[i][n].by]] = <<i, journal'[i][n].attempt>>
              /\ journal'[i][n].attempt = attempts[i]
              /\ UNCHANGED <<attempts, known, printed>>
<1>1. ASSUME NEW t \in Tasks, NEW op \in Ops, Operation(t, op)
      PROVE  \/ n \in DOMAIN journal[i] /\ journal'[i][n] = journal[i][n]
             \/ /\ journal'[i][n].by \in Tasks /\ Started(journal'[i][n].by)
                /\ handles[root[journal'[i][n].by]] = <<i, journal'[i][n].attempt>>
                /\ journal'[i][n].attempt = attempts[i]
                /\ UNCHANGED <<attempts, known, printed>>
  <2>1. Started(t) /\ UNCHANGED <<attempts, known, printed>>
        BY <1>1 DEF Operation
  <2>2. store[t] = handles[root[t]] BY <2>1 DEF StoreInv
  <2>3. \/ n \in DOMAIN journal[i] /\ journal'[i][n] = journal[i][n]
        \/ /\ journal'[i][n].by = t
           /\ store[t] = <<i, journal'[i][n].attempt>>
           /\ journal'[i][n].attempt = attempts[i]
        BY <1>1, OperationEntries
  <2> QED BY <2>1, <2>2, <2>3
<1>2. ASSUME journal' = journal
      PROVE  n \in DOMAIN journal[i] /\ journal'[i][n] = journal[i][n]
  BY <1>2
<1>3. \/ journal' = journal
      \/ \E t \in Tasks, op \in Ops : Operation(t, op)
  BY CoreSteps DEF Dispatch, StartOutside, Log, Spawn, core, restate
<1> QED BY <1>1, <1>2, <1>3

\* Journals stay those of their invocations (CallClient, UseContext).
LEMMA OwnStep ==
    ASSUME TypeOK, StoreInv, JournalInv, JournalIsOwn, Next
    PROVE  JournalIsOwn'
<1> SUFFICES ASSUME NEW i \in Invocations, NEW n \in DOMAIN journal'[i]
             PROVE  handles'[root'[journal'[i][n].by]] = <<i, journal'[i][n].attempt>>
    BY DEF JournalIsOwn
<1>1. CASE n \in DOMAIN journal[i] /\ journal'[i][n] = journal[i][n]
  <2>1. journal[i] \in Seq(Entries) BY DEF TypeOK
  <2>2. journal[i][n] \in Entries BY <1>1, <2>1
  <2>3. journal[i][n].by \in Tasks BY <2>2 DEF Entries
  <2>4. Started(journal[i][n].by) BY <1>1 DEF JournalInv
  <2>5. handles[root[journal[i][n].by]] = <<i, journal[i][n].attempt>>
        BY <1>1 DEF JournalIsOwn
  <2> QED BY <1>1, <2>3, <2>4, <2>5, TasksKept
<1>2. CASE /\ journal'[i][n].by \in Tasks /\ Started(journal'[i][n].by)
           /\ handles[root[journal'[i][n].by]] = <<i, journal'[i][n].attempt>>
      BY <1>2, TasksKept
<1> QED BY <1>1, <1>2, JournalEntries

\* What follows an attempt's beginning stays its own or later (Dispatch).
LEMMA JournalStep ==
    ASSUME TypeOK, StoreInv, AttemptInv, JournalInv, Next
    PROVE  JournalInv'
<1>1. ASSUME NEW i \in Invocations, NEW n \in DOMAIN journal'[i]
      PROVE  root'[journal'[i][n].by] # NULL
  <2>1. CASE n \in DOMAIN journal[i] /\ journal'[i][n] = journal[i][n]
    <3>1. journal[i] \in Seq(Entries) BY DEF TypeOK
    <3>2. journal[i][n] \in Entries BY <2>1, <3>1
    <3>3. journal[i][n].by \in Tasks BY <3>2 DEF Entries
    <3>4. Started(journal[i][n].by) BY <2>1 DEF JournalInv
    <3>5. root'[journal[i][n].by] # NULL BY <3>3, <3>4, TasksKept DEF Started
    <3> QED BY <2>1, <3>5
  <2>2. CASE journal'[i][n].by \in Tasks /\ Started(journal'[i][n].by)
    <3>1. root[journal'[i][n].by] # NULL BY <2>2 DEF Started
    <3> QED BY <2>2, <3>1, TasksKept DEF Started
  <2> QED BY <2>1, <2>2, <1>1, JournalEntries
<1>2. ASSUME NEW x \in Contexts, x[2] <= attempts'[x[1]],
             NEW n \in DOMAIN journal'[x[1]], n > known'[x]
      PROVE  journal'[x[1]][n].attempt >= x[2]
  <2>1. /\ x[1] \in Invocations /\ x[2] \in Nat /\ x = <<x[1], x[2]>>
        /\ attempts[x[1]] \in Nat
        BY ContextParts, InvocationAssumption DEF InvocationAssumption, TypeOK
  <2>2. ASSUME NEW t \in Tasks, NEW i \in Invocations, Dispatch(t, i)
        PROVE  journal'[x[1]][n].attempt >= x[2]
    <3>1. /\ journal' = journal
          /\ attempts' = [attempts EXCEPT ![i] = @ + 1]
          /\ known' = [known EXCEPT ![<<i, attempts[i] + 1>>] = Len(journal[i])]
          BY <2>2 DEF Dispatch
    <3>2. journal[x[1]] \in Seq(Entries) BY <2>1 DEF TypeOK
    <3>3. n \in 1..Len(journal[x[1]]) BY <1>2, <3>1, <3>2
    <3>4. CASE x = <<i, attempts[i] + 1>>
      <4>1. known'[x] = Len(journal[x[1]]) BY <3>1, <3>4 DEF TypeOK
      <4> QED BY <4>1, <1>2, <3>3
    <3>5. CASE x # <<i, attempts[i] + 1>>
      <4>1. known'[x] = known[x] BY <3>1, <3>5 DEF TypeOK
      <4>2. x[2] <= attempts[x[1]]
        <5>1. CASE x[1] = i
          <6>1. attempts'[i] = attempts[i] + 1 BY <3>1 DEF TypeOK
          <6>2. x[2] # attempts[i] + 1 BY <2>1, <3>5, <5>1
          <6> QED BY <1>2, <2>1, <5>1, <6>1, <6>2
        <5>2. CASE x[1] # i
          <6>1. attempts'[x[1]] = attempts[x[1]] BY <2>1, <3>1, <5>2 DEF TypeOK
          <6> QED BY <1>2, <6>1
        <5> QED BY <5>1, <5>2
      <4> QED BY <1>2, <3>1, <4>1, <4>2 DEF JournalInv
    <3> QED BY <3>4, <3>5
  <2>3. CASE UNCHANGED <<attempts, known>>
    <3>1. CASE n \in DOMAIN journal[x[1]] /\ journal'[x[1]][n] = journal[x[1]][n]
          BY <1>2, <2>3, <3>1 DEF JournalInv
    <3>2. CASE journal'[x[1]][n].attempt = attempts[x[1]]
          BY <1>2, <2>1, <2>3, <3>2
    <3> QED BY <1>2, <2>1, <3>1, <3>2, JournalEntries
  <2>4. \/ UNCHANGED <<attempts, known>>
        \/ \E t \in Tasks, i \in Invocations : Dispatch(t, i)
        BY CoreSteps, Steps DEF StartOutside, Log, Spawn, Operation, EndAttempt, Key,
           IngressCall, restate
  <2> QED BY <2>2, <2>3, <2>4
<1> QED BY <1>1, <1>2 DEF JournalInv, Started

\* What was printed is not printed again (Transport, Perform).
LEMMA ReplayStep ==
    ASSUME TypeOK, StoreInv, AttemptInv, JournalInv, ReplaysAreSilent, Next
    PROVE  ReplaysAreSilent'
<1>1. ASSUME NEW t \in Tasks, Log(t), printed' # printed
      PROVE  ReplaysAreSilent'
  <2> DEFINE x == store[t]
  <2>1. /\ x # NULL /\ ~Replaying(x) /\ printed' = Line(x) /\ journal' = journal
        BY <1>1 DEF Log, Transport, CurrentContext, restate
  <2>2. x \in Contexts BY <2>1 DEF TypeOK
  <2>3. /\ x[1] \in Invocations
        /\ passed[x] \in Nat /\ known[x] \in Nat /\ passed[x] >= known[x]
        BY <2>1, <2>2, ContextParts DEF Replaying, TypeOK
  <2>4. x[2] <= attempts[x[1]] BY <2>1 DEF AttemptInv
  <2>5. \A n \in DOMAIN journal[x[1]] :
            n > known[x] => journal[x[1]][n].attempt >= x[2]
        BY <2>2, <2>4 DEF JournalInv
  <2>6. /\ printed'.invocation = x[1] /\ printed'.attempt = x[2]
        /\ printed'.after = passed[x]
        BY <2>1 DEF Line
  <2> QED BY <2>1, <2>3, <2>5, <2>6 DEF ReplaysAreSilent
<1>2. CASE printed' = printed
  <2> SUFFICES ASSUME printed # NULL,
                      printed.after + 1 \in DOMAIN journal'[printed.invocation]
               PROVE  journal'[printed.invocation][printed.after + 1].attempt
                          >= printed.attempt
      BY <1>2 DEF ReplaysAreSilent
  <2> DEFINE i == printed.invocation
             n == printed.after + 1
  <2>1. i \in Invocations /\ printed.attempt \in Nat BY DEF TypeOK, Lines
  <2>2. CASE n \in DOMAIN journal[i] /\ journal'[i][n] = journal[i][n]
        BY <2>2 DEF ReplaysAreSilent
  <2>3. CASE journal'[i][n].attempt = attempts[i]
    <3>1. printed.attempt <= attempts[i] BY DEF AttemptInv
    <3>2. attempts[i] \in Nat
          BY <2>1, InvocationAssumption DEF InvocationAssumption, TypeOK
    <3> QED BY <2>1, <2>3, <3>1, <3>2
  <2> QED BY <2>1, <2>2, <2>3, JournalEntries
<1> QED BY <1>1, <1>2, CoreSteps DEF Dispatch, StartOutside, Spawn, Operation, core

-----------------------------------------------------------------------------
(* Theorems.                                                               *)

\* The inductive invariant: types, a task's store is the context of the
\* attempt it goes back to, and a journal is its invocation's own.
THEOREM InvocationInvariant == Spec => []InvocationInv
<1>1. Init => InvocationInv BY InitInv
<1>2. InvocationInv /\ [Next]_vars => InvocationInv'
  <2> SUFFICES ASSUME InvocationInv, [Next]_vars PROVE InvocationInv'
      OBVIOUS
  <2>1. CASE Next
    <3>1. /\ TypeOK /\ StoreInv /\ AttemptInv /\ JournalInv
          /\ JournalIsOwn /\ ReplaysAreSilent
          BY DEF InvocationInv
    <3>2. TypeOK' /\ StoreInv' /\ AttemptInv' /\ JournalInv'
          BY <2>1, <3>1, TypeStep, StoreStep, AttemptStep, JournalStep
    <3>3. JournalIsOwn' /\ ReplaysAreSilent' BY <2>1, <3>1, OwnStep, ReplayStep
    <3> QED BY <3>2, <3>3 DEF InvocationInv
  <2>2. CASE UNCHANGED vars
        BY <2>2 DEF vars, tasks, restate, InvocationInv, TypeOK, StoreInv, Started,
           AttemptInv, JournalInv, JournalIsOwn, ReplaysAreSilent
  <2> QED BY <2>1, <2>2
<1> QED BY <1>1, <1>2, PTL DEF Spec

\* Contexts, clients, journals and what was sent keep their types.
THEOREM InvocationTypeCorrect == Spec => []TypeOK
<1>1. InvocationInv => TypeOK BY DEF InvocationInv
<1> QED BY <1>1, InvocationInvariant, PTL

\* However tasks spawn each other, and whoever made the proxies they share, an
\* operation is journalled by the attempt that the calling task goes back to.
THEOREM JournalsAreOwn == Spec => []JournalIsOwn
<1>1. InvocationInv => JournalIsOwn BY DEF InvocationInv
<1> QED BY <1>1, InvocationInvariant, PTL

\* No replay prints again what an earlier attempt printed before an operation
\* that it journalled.
THEOREM NoLineIsRepeated == Spec => []ReplaysAreSilent
<1>1. InvocationInv => ReplaysAreSilent BY DEF InvocationInv
<1> QED BY <1>1, InvocationInvariant, PTL

-----------------------------------------------------------------------------
(* The ingress.                                                            *)

\* Only ingress calls change what the ingress keeps (IngressCall).
LEMMA IngressSteps ==
    ASSUME TypeOK, Next
    PROVE  \/ \E t \in Tasks, m \in IngressMethods, c \in Classes : IngressCall(t, m, c)
           \/ UNCHANGED <<warnings, bypasses>>
BY Steps DEF Dispatch, StartOutside, Log, Spawn, Operation, EndAttempt, Key

\* The ingress warns once of each component, however many handlers use it.
THEOREM IngressWarnsOnce == Spec => []WarnsOnce
<1>1. Init => WarnsOnce BY DEF Init, WarnsOnce
<1>2. TypeOK /\ WarnsOnce /\ [Next]_vars => WarnsOnce'
  <2> SUFFICES ASSUME TypeOK, WarnsOnce, [Next]_vars PROVE WarnsOnce'
      OBVIOUS
  <2>1. ASSUME NEW t \in Tasks, NEW m \in IngressMethods, NEW c \in Classes,
               IngressCall(t, m, c)
        PROVE  WarnsOnce'
    <3> DEFINE name == Meta[c].name
    <3>1. WarnIfInsideHandler(t, name) /\ Bypass(t, name) BY <2>1 DEF IngressCall
    <3>2. warnings \in Seq(Names) BY DEF TypeOK
    <3>3. CASE CurrentContext(t) = NULL
          BY <3>1, <3>3 DEF WarnIfInsideHandler, Bypass, WarnsOnce
    <3>4. CASE CurrentContext(t) # NULL
      <4>1. bypasses' = bypasses \cup {name} BY <3>1, <3>4 DEF Bypass
      <4>2. CASE Warned(name)
        <5>1. warnings' = warnings BY <3>1, <4>2 DEF WarnIfInsideHandler
        <5>2. name \in {warnings[n] : n \in DOMAIN warnings} BY <4>2 DEF Warned
        <5> QED BY <4>1, <5>1, <5>2 DEF WarnsOnce
      <4>3. CASE ~Warned(name)
        <5>1. warnings' = Append(warnings, name)
              BY <3>1, <3>4, <4>3 DEF WarnIfInsideHandler
        <5>2. /\ DOMAIN warnings = 1..Len(warnings) /\ Len(warnings) \in Nat
              /\ DOMAIN warnings' = 1..(Len(warnings) + 1)
              /\ warnings'[Len(warnings) + 1] = name
              /\ \A n \in DOMAIN warnings : warnings'[n] = warnings[n]
              BY <3>2, <5>1
        <5>3. DOMAIN warnings' = DOMAIN warnings \cup {Len(warnings) + 1}
              BY <5>2
        <5>4. {warnings'[n] : n \in DOMAIN warnings'}
                  = {warnings[n] : n \in DOMAIN warnings} \cup {name}
              BY <5>2, <5>3
        <5>5. \A k, n \in DOMAIN warnings' : warnings'[k] = warnings'[n] => k = n
              BY <4>3, <5>2, <5>3 DEF Warned, WarnsOnce
        <5> QED BY <4>1, <5>4, <5>5 DEF WarnsOnce
      <4> QED BY <4>2, <4>3
    <3> QED BY <3>3, <3>4
  <2>2. CASE UNCHANGED <<warnings, bypasses>> BY <2>2 DEF WarnsOnce
  <2> QED BY <2>1, <2>2, IngressSteps DEF vars
<1> QED BY <1>1, <1>2, InvocationTypeCorrect, PTL DEF Spec

=============================================================================
