----------------------------- MODULE Invocation -----------------------------
(***************************************************************************)
(* Handlers while they run: the context of an invocation, which            *)
(* AsyncLocalStorage keeps for the handler and all work that it starts     *)
(* (lib/context); the client proxies, which belong to the application and  *)
(* look the context up at each call (lib/proxy/client-proxy.ts); the       *)
(* ingress client, which warns when it is used inside a handler            *)
(* (lib/ingress); and the logger (lib/logging).                            *)
(*                                                                         *)
(* Restate runs a handler in attempts.  Each has a context of its own and  *)
(* replays the operations that are in the invocation's journal.  An        *)
(* attempt that is over may leave work behind that knows nothing of it.    *)
(***************************************************************************)
EXTENDS Integers, Sequences, FiniteSets

CONSTANTS
    Tasks,        \* chains of asynchronous work; each is used once
    Invocations,
    Classes,      \* decorated classes
    Meta,         \* what getComponentMeta() says of each class
    Keys,         \* keys of virtual objects and workflows
    NULL,
    MaxAttempts,  \* bound on the attempts of an invocation
    MaxJournal,   \* bound on the operations of an invocation
    MaxKeyed      \* bound on the proxies that key() returned

Kinds == {"service", "object", "workflow"}

ASSUME InvocationAssumption ==
    /\ NULL \notin Tasks \cup Keys
    /\ \A i \in Invocations, n \in 1..MaxAttempts : NULL # <<i, n>>
    /\ MaxAttempts \in Nat /\ MaxJournal \in Nat /\ MaxKeyed \in Nat
    /\ \A c \in Classes : /\ Meta[c] = [type |-> Meta[c].type, name |-> Meta[c].name]
                          /\ Meta[c].type \in Kinds

Contexts == Invocations \X (1..MaxAttempts)

VARIABLES
    store,      \* what contextStore.getStore() returns in each task
    root,       \* the task that a task goes back to, NULL before it starts
    handles,    \* the context that a task was dispatched with, or NULL
    keyed,      \* the proxies that key() returned
    attempts,   \* how often each invocation was dispatched
    live,       \* the invocations with an attempt that is not over
    completed,
    journal,    \* the journal of each invocation
    known,      \* the length of the journal that each attempt began with
    passed,     \* how many operations each attempt has performed
    printed,    \* the last line of a handler that reached the log
    warnings,   \* the warnings of the ingress, whose names are warnedTargets
    bypasses    \* components that handlers made ingress clients of, by name

tasks == <<store, root, handles>>
restate == <<attempts, live, completed, journal, known, passed>>
vars == <<tasks, keyed, restate, printed, warnings, bypasses>>

Init ==
    /\ store = [t \in Tasks |-> NULL]
    /\ root = [t \in Tasks |-> NULL]
    /\ handles = [t \in Tasks |-> NULL]
    /\ keyed = {}
    /\ attempts = [i \in Invocations |-> 0]
    /\ live = {}
    /\ completed = {}
    /\ journal = [i \in Invocations |-> <<>>]
    /\ known = [x \in Contexts |-> 0]
    /\ passed = [x \in Contexts |-> 0]
    /\ printed = NULL
    /\ warnings = <<>>
    /\ bypasses = {}

-----------------------------------------------------------------------------
(* Tasks.                                                                  *)

Started(t) == root[t] # NULL

\* Restate dispatches an attempt: wrapHandler() runs the handler with its context.
Dispatch(t, i) ==
    /\ ~Started(t)
    /\ i \notin live \cup completed
    /\ attempts[i] < MaxAttempts
    /\ LET x == <<i, attempts[i] + 1>>
       IN  /\ store' = [store EXCEPT ![t] = x]
           /\ handles' = [handles EXCEPT ![t] = x]
           /\ known' = [known EXCEPT ![x] = Len(journal[i])]
    /\ root' = [root EXCEPT ![t] = t]
    /\ attempts' = [attempts EXCEPT ![i] = @ + 1]
    /\ live' = live \cup {i}
    /\ UNCHANGED <<keyed, completed, journal, passed, printed, warnings, bypasses>>

\* Work outside of any handler, such as that of a REST controller.
StartOutside(t) ==
    /\ ~Started(t)
    /\ root' = [root EXCEPT ![t] = t]
    /\ UNCHANGED <<store, handles, keyed, restate, printed, warnings, bypasses>>

\* A promise that is not awaited, a timer: new work with the store of the old.
Spawn(t, u) ==
    /\ Started(t)
    /\ ~Started(u)
    /\ store' = [store EXCEPT ![u] = store[t]]
    /\ root' = [root EXCEPT ![u] = root[t]]
    /\ UNCHANGED <<handles, keyed, restate, printed, warnings, bypasses>>

\* The attempt fails, is suspended or is aborted, or the invocation completes.
EndAttempt(i) ==
    /\ i \in live
    /\ live' = live \ {i}
    /\ \/ completed' = completed
       \/ completed' = completed \cup {i}
    /\ UNCHANGED <<tasks, keyed, attempts, journal, known, passed, printed,
                   warnings, bypasses>>

-----------------------------------------------------------------------------
(* Operations on the context.                                              *)

\* getContextIfAvailable(); getCurrentContext() is the same but throws for NULL,
\* in which case the operation that asked for it does not happen.
CurrentContext(t) == store[t]

Current(x) == x[1] \in live /\ attempts[x[1]] = x[2]

Replaying(x) == passed[x] < known[x]

\* The SDK performs an operation: one of an attempt that is over comes to
\* nothing, a replayed one is read from the journal, a new one is journalled.
Perform(x, op, t) ==
    LET i == x[1]
    IN  IF ~Current(x) THEN UNCHANGED <<journal, passed>>
        ELSE /\ passed' = [passed EXCEPT ![x] = @ + 1]
             /\ IF Replaying(x)
                THEN /\ journal[i][passed[x] + 1].op = op
                     /\ UNCHANGED journal
                ELSE /\ Len(journal[i]) < MaxJournal
                     /\ journal' = [journal EXCEPT ![i] =
                                       Append(@, [op |-> op, attempt |-> x[2], by |-> t])]

\* The proxies of services, which the application's injector makes.
ServiceClients ==
    {[class |-> c, key |-> NULL, madeBy |-> NULL] :
        c \in {d \in Classes : Meta[d].type = "service"}}

Clients == ServiceClients \cup keyed

\* Slip: the key is not passed on.
Key_Dropped(t, c, k) ==
    /\ Started(t)
    /\ Meta[c].type # "service"
    /\ Cardinality(keyed) < MaxKeyed
    /\ keyed' = keyed \cup {[class |-> c, key |-> NULL, madeBy |-> t]}
    /\ UNCHANGED <<tasks, restate, printed, warnings, bypasses>>

\* key() of the proxy of an object or a workflow.  The result may be kept.
Key(t, c, k) ==
    /\ Started(t)
    /\ Meta[c].type # "service"
    /\ Cardinality(keyed) < MaxKeyed
    /\ keyed' = keyed \cup {[class |-> c, key |-> k, madeBy |-> t]}
    /\ UNCHANGED <<tasks, restate, printed, warnings, bypasses>>

\* The client that a proxy asks the context for.
ClientOp(client) ==
    [kind |-> Meta[client.class].type, name |-> Meta[client.class].name,
     key |-> client.key]

\* Slip: the context is that of the invocation in which the proxy was made.
CallClient_Captured(t, client) ==
    /\ Started(t)
    /\ client \in Clients
    /\ LET x == IF client.madeBy = NULL THEN CurrentContext(t) ELSE store[client.madeBy]
       IN  /\ x # NULL
           /\ Perform(x, ClientOp(client), t)
    /\ UNCHANGED <<tasks, keyed, attempts, live, completed, known, printed,
                   warnings, bypasses>>

\* A method of a proxy, or of its send proxy.
CallClient(t, client) ==
    /\ Started(t)
    /\ client \in Clients
    /\ CurrentContext(t) # NULL
    /\ Perform(CurrentContext(t), ClientOp(client), t)
    /\ UNCHANGED <<tasks, keyed, attempts, live, completed, known, printed,
                   warnings, bypasses>>

\* RestateContext: every method and getter passes on to the current context.
ContextOp == [kind |-> "context"]

UseContext(t) ==
    /\ Started(t)
    /\ CurrentContext(t) # NULL
    /\ Perform(CurrentContext(t), ContextOp, t)
    /\ UNCHANGED <<tasks, keyed, attempts, live, completed, known, printed,
                   warnings, bypasses>>

-----------------------------------------------------------------------------
(* Logging.                                                                *)

\* A line of the handler is known by the operations that precede it.
Line(x) == [invocation |-> x[1], attempt |-> x[2], after |-> passed[x]]

\* Slip: the replaying flag is not looked at.
Transport_Always(x) == printed' = Line(x)

\* createRestateLoggerTransport(): where the context's console writes to.
Transport(x) ==
    printed' = IF Replaying(x) THEN printed ELSE Line(x)

\* RestateLoggerService.dispatch(): to the context's console, or to Nest's.
Log(t) ==
    /\ Started(t)
    /\ IF CurrentContext(t) # NULL
       THEN Transport(CurrentContext(t))
       ELSE UNCHANGED printed   \* Nest's console logger prints it
    /\ UNCHANGED <<tasks, keyed, restate, warnings, bypasses>>

-----------------------------------------------------------------------------
(* The ingress client.                                                     *)

\* INTERCEPTED_METHODS and EXPECTED_COMPONENT_TYPE.
ExpectedComponentType ==
    [m \in {"serviceClient", "serviceSendClient", "objectClient",
            "objectSendClient", "workflowClient"} |->
        CASE m \in {"serviceClient", "serviceSendClient"} -> "service"
          [] m \in {"objectClient", "objectSendClient"} -> "object"
          [] m = "workflowClient" -> "workflow"]

IngressMethods == DOMAIN ExpectedComponentType

Warned(name) == \E n \in DOMAIN warnings : warnings[n] = name

\* Slip: warnedTargets is not looked at.
WarnIfInsideHandler_Always(t, name) ==
    warnings' = IF CurrentContext(t) # NULL THEN Append(warnings, name) ELSE warnings

WarnIfInsideHandler(t, name) ==
    warnings' = IF CurrentContext(t) # NULL /\ ~Warned(name)
                THEN Append(warnings, name) ELSE warnings

\* The SDK makes the client that was asked for; recorded if a handler asked.
Bypass(t, name) ==
    bypasses' = IF CurrentContext(t) # NULL THEN bypasses \cup {name} ELSE bypasses

\* An ingress method with a decorated class; with another class it throws, and
\* so it does for a component of the wrong kind.  A definition instead of a
\* class goes straight to the SDK, unchecked and without a warning.
IngressCall(t, method, c) ==
    /\ Started(t)
    /\ Meta[c].type = ExpectedComponentType[method]
    /\ WarnIfInsideHandler(t, Meta[c].name)
    /\ Bypass(t, Meta[c].name)
    /\ UNCHANGED <<tasks, keyed, restate, printed>>

Next ==
    \/ \E t \in Tasks, i \in Invocations : Dispatch(t, i)
    \/ \E t \in Tasks : StartOutside(t) \/ UseContext(t) \/ Log(t)
    \/ \E t, u \in Tasks : Spawn(t, u)
    \/ \E i \in Invocations : EndAttempt(i)
    \/ \E t \in Tasks, c \in Classes, k \in Keys : Key(t, c, k)
    \/ \E t \in Tasks, client \in Clients : CallClient(t, client)
    \/ \E t \in Tasks, m \in IngressMethods, c \in Classes : IngressCall(t, m, c)

Spec == Init /\ [][Next]_vars

-----------------------------------------------------------------------------
(* Properties.                                                             *)

Names == {Meta[c].name : c \in Classes}
Ops == [kind : Kinds, name : Names, key : Keys \cup {NULL}] \cup {ContextOp}
Entries == [op : Ops, attempt : 1..MaxAttempts, by : Tasks]
Lines == [invocation : Invocations, attempt : 1..MaxAttempts, after : Nat]

\* The type invariant: contexts, clients, journals and what was last sent.
TypeOK ==
    /\ store \in [Tasks -> Contexts \cup {NULL}]
    /\ root \in [Tasks -> Tasks \cup {NULL}]
    /\ handles \in [Tasks -> Contexts \cup {NULL}]
    /\ keyed \subseteq [class : Classes, key : Keys, madeBy : Tasks]
    /\ attempts \in [Invocations -> 0..MaxAttempts]
    /\ live \subseteq Invocations /\ completed \subseteq Invocations
    /\ journal \in [Invocations -> Seq(Entries)]
    /\ known \in [Contexts -> Nat] /\ passed \in [Contexts -> Nat]
    /\ printed \in Lines \cup {NULL}
    /\ warnings \in Seq(Names)
    /\ bypasses \subseteq Names

\* A client call or a RestateContext operation is journalled by the invocation
\* whose handler, or work that the handler started, makes it, though proxies
\* are shared by all handlers and keyed ones may have been made in another.
JournalIsOwn ==
    \A i \in Invocations : \A n \in DOMAIN journal[i] :
        LET e == journal[i][n] IN handles[root[e.by]] = <<i, e.attempt>>

\* No line is printed again by a retry once the operation that follows it is in
\* the journal: replays are silent.
ReplaysAreSilent ==
    printed # NULL =>
        LET j == journal[printed.invocation]
            next == printed.after + 1
        IN  next \in DOMAIN j => j[next].attempt >= printed.attempt

\* The ingress warns once of each component that a handler bypasses durable
\* execution for by giving its class, and of no other, whichever of several
\* handlers comes first.  (Calls that give a definition pass by unwarned.)
WarnsOnce ==
    /\ \A m, n \in DOMAIN warnings : warnings[m] = warnings[n] => m = n
    /\ {warnings[n] : n \in DOMAIN warnings} = bypasses

-----------------------------------------------------------------------------
(* The inductive invariant that InvocationProofs uses.                     *)

\* A task's store is the context that the task it goes back to was given.
StoreInv ==
    \A t \in Tasks :
        /\ ~Started(t) => store[t] = NULL /\ handles[t] = NULL
        /\ Started(t) => root[root[t]] = root[t] /\ store[t] = handles[root[t]]

\* Contexts are those of attempts that were dispatched.
AttemptInv ==
    /\ \A t \in Tasks : store[t] # NULL => store[t][2] <= attempts[store[t][1]]
    /\ printed # NULL => printed.attempt <= attempts[printed.invocation]

\* What was journalled after an attempt began is its own or a later one's.
JournalInv ==
    /\ \A i \in Invocations : \A n \in DOMAIN journal[i] : Started(journal[i][n].by)
    /\ \A x \in Contexts : x[2] <= attempts[x[1]] =>
          \A n \in DOMAIN journal[x[1]] :
              n > known[x] => journal[x[1]][n].attempt >= x[2]

\* The inductive invariant: types, where stores come from, and who journals.
InvocationInv ==
    /\ TypeOK /\ StoreInv /\ AttemptInv /\ JournalInv
    /\ JournalIsOwn /\ ReplaysAreSilent
=============================================================================
