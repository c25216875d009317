------------------------------- MODULE Orders -------------------------------
(***************************************************************************)
(* The example application (example/src): carts, one virtual object per    *)
(* user; the order workflow, which reads a cart, charges it, waits for the *)
(* shipment and clears the cart; the payment service, whose charge handler *)
(* calls a gateway inside ctx.run(); and the pipeline that the library     *)
(* wraps each handler in, where a guard can refuse a charge                *)
(* (lib/discovery/restate.explorer.ts, lib/pipeline).                      *)
(*                                                                         *)
(* Restate runs one exclusive handler of an object at a time, keeps the    *)
(* steps of a workflow in a journal, so that the end of an attempt between *)
(* two of them loses nothing, and retries an attempt that failed with      *)
(* anything but a TerminalError.  Amounts are whole cents.                 *)
(***************************************************************************)
EXTENDS Integers, FiniteSets, FiniteSetsExt

CONSTANTS
    Users,
    Shoppers,     \* clients of the controller, each with one call at a time
    Orders,
    Requests,     \* direct calls of POST payments/charge
    Products, Prices, Quantities,
    Amounts,      \* amounts of direct charges
    Limit,        \* 10_000 dollars
    Trackings,    \* tracking numbers
    Blank,        \* an absent or blank tracking number
    NULL,
    Pipelines,    \* options.pipeline and filters: see Pipeline
    MaxAdded,     \* bound on the items of a product a user ever adds
    MaxDeaths     \* bound on the attempts of a charge that die

\* guards: pipeline.guards is not false.  terminal: a RestateExceptionFilter
\* is installed and pipeline.filters is not false.
Pipeline == [guards: BOOLEAN, terminal: BOOLEAN]
Callers == Orders \cup Requests

ASSUME OrdersAssumption ==
    /\ Prices \subseteq Nat /\ Quantities \subseteq Nat \ {0}
    /\ Amounts \subseteq Nat \cup {NULL} /\ NULL \notin Nat /\ Limit \in Nat
    /\ Blank \notin Trackings /\ NULL \notin Trackings \cup Users
    /\ Orders \cap Requests = {}
    /\ Pipelines \subseteq Pipeline
    /\ MaxAdded \in Nat /\ MaxDeaths \in Nat

\* What addItem is called with, and removeItem: a change of quantity 0
Items == [productId: Products, price: Prices, quantity: Quantities]
Removals == [productId: Products, price: {0}, quantity: {0}]
\* CartItem, without the productId that the cart has it under
Lines == [price: Prices, quantity: Nat \ {0}]
IsCart(items) ==
    /\ DOMAIN items \subseteq Products
    /\ items = [p \in DOMAIN items |-> items[p]]
    /\ \A p \in DOMAIN items : items[p] \in Lines
\* A handler that runs: its cart, its argument and the items that it read
IsEdit(e) ==
    /\ e = [user |-> e.user, change |-> e.change, items |-> e.items]
    /\ e.user \in Users /\ e.change \in Items \cup Removals /\ IsCart(e.items)

VARIABLES
    cart,       \* the state "items" of each user's cart, by productId
    edit,       \* the exclusive cart handler that runs for each shopper
    added,      \* how many of each product each user ever added
    gone,       \* how many of them were removed, or cleared by an order
    order,      \* the run of each workflow
    promise,    \* the durable promise "shipment-confirmed" of each workflow
    charge,     \* each call of the charge handler
    pipeline    \* options.pipeline, which does not change

cartVars == <<cart, edit, added, gone>>
vars == <<cartVars, order, promise, charge, pipeline>>

EmptyCart == [p \in {} |-> NULL]
Quantity(items, p) == IF p \in DOMAIN items THEN items[p].quantity ELSE 0
Total(items) ==
    MapThenSumSet(LAMBDA p : items[p].price * items[p].quantity, DOMAIN items)
\* A charge without an amount is not refused.
OverLimit(amount) == amount # NULL /\ amount > Limit

Init ==
    /\ cart = [u \in Users |-> EmptyCart]
    /\ edit = [s \in Shoppers |-> NULL]
    /\ added = [u \in Users |-> [p \in Products |-> 0]]
    /\ gone = [u \in Users |-> [p \in Products |-> 0]]
    /\ order = [o \in Orders |-> [at |-> "none", user |-> NULL, items |-> EmptyCart,
                                  before |-> [p \in Products |-> 0], tracking |-> NULL]]
    /\ promise = [o \in Orders |-> NULL]
    /\ charge = [c \in Callers |-> [at |-> "none", amount |-> NULL, calls |-> 0, deaths |-> 0]]
    /\ pipeline \in Pipelines

-----------------------------------------------------------------------------
(* The cart.  An exclusive handler reads its items, then writes them.      *)

\* Slip: the handlers are @Shared.
Unlocked_Shared(u) == TRUE

\* No exclusive handler of the user's cart is running.
Unlocked(u) == \A s \in Shoppers : edit[s] # NULL => edit[s].user # u

\* ctx.get("items") of addItem and removeItem.
BeginEdit(s, u, change) ==
    /\ edit[s] = NULL
    /\ Unlocked(u)
    /\ edit' = [edit EXCEPT ![s] = [user |-> u, change |-> change, items |-> cart[u]]]
    /\ UNCHANGED <<cart, added, gone, order, promise, charge, pipeline>>

AddItem(s, u, item) ==
    /\ added[u][item.productId] + item.quantity =< MaxAdded
    /\ BeginEdit(s, u, item)

RemoveItem(s, u, p) ==
    BeginEdit(s, u, [productId |-> p, price |-> 0, quantity |-> 0])

\* An item that is in the cart keeps the price it has.
WithItem(items, item) ==
    [p \in DOMAIN items \cup {item.productId} |->
        [price |-> IF p \in DOMAIN items THEN items[p].price ELSE item.price,
         quantity |-> Quantity(items, p)
                        + IF p = item.productId THEN item.quantity ELSE 0]]

WithoutItem(items, p) == [q \in DOMAIN items \ {p} |-> items[q]]

\* ctx.set("items", ...) of addItem
EndAdd(s) ==
    /\ edit[s] # NULL /\ edit[s].change.quantity > 0
    /\ LET u == edit[s].user
           i == edit[s].change
       IN  /\ cart' = [cart EXCEPT ![u] = WithItem(edit[s].items, i)]
           /\ added' = [added EXCEPT ![u][i.productId] = @ + i.quantity]
    /\ edit' = [edit EXCEPT ![s] = NULL]
    /\ UNCHANGED <<gone, order, promise, charge, pipeline>>

\* ctx.set("items", ...) of removeItem
EndRemove(s) ==
    /\ edit[s] # NULL /\ edit[s].change.quantity = 0
    /\ LET u == edit[s].user
           p == edit[s].change.productId
       IN  /\ cart' = [cart EXCEPT ![u] = WithoutItem(edit[s].items, p)]
           /\ gone' = [gone EXCEPT ![u][p] = @ + Quantity(cart[u], p)]
    /\ edit' = [edit EXCEPT ![s] = NULL]
    /\ UNCHANGED <<added, order, promise, charge, pipeline>>

-----------------------------------------------------------------------------
(* The workflow                                                            *)

\* POST orders: a workflow is submitted once.
CreateOrder(o, u) ==
    /\ order[o].at = "none"
    /\ order' = [order EXCEPT ![o].at = "submitted", ![o].user = u]
    /\ UNCHANGED <<cartVars, promise, charge, pipeline>>

\* getItems() is shared: it runs beside an exclusive handler.  An empty cart
\* ends the order with a TerminalError, any other is charged.
ReadCart(o) ==
    /\ order[o].at = "submitted"
    /\ LET u == order[o].user
           items == cart[u]
       IN  IF DOMAIN items = {}
           THEN /\ order' = [order EXCEPT ![o].at = "failed"]
                /\ UNCHANGED charge
           ELSE /\ order' = [order EXCEPT ![o].at = "charging", ![o].items = items,
                                          ![o].before = added[u]]
                /\ charge' = [charge EXCEPT ![o].at = "invoked", ![o].amount = Total(items)]
    /\ UNCHANGED <<cartVars, promise, pipeline>>

\* Slip: the call is not awaited.
ChargeReturned_NotAwaited(o) ==
    /\ order[o].at = "charging"
    /\ order' = [order EXCEPT ![o].at = "paid"]
    /\ UNCHANGED <<cartVars, promise, charge, pipeline>>

\* The call of charge() returns, or throws the TerminalError it ended with.
ChargeReturned(o) ==
    /\ order[o].at = "charging"
    /\ \/ /\ charge[o].at = "charged"
          /\ order' = [order EXCEPT ![o].at = "paid"]
       \/ /\ charge[o].at = "rejected"
          /\ order' = [order EXCEPT ![o].at = "failed"]
    /\ UNCHANGED <<cartVars, promise, charge, pipeline>>

\* await ctx.promise("shipment-confirmed")
Shipped(o) ==
    /\ order[o].at = "paid"
    /\ promise[o] # NULL
    /\ order' = [order EXCEPT ![o].at = "shipped", ![o].tracking = promise[o]]
    /\ UNCHANGED <<cartVars, promise, charge, pipeline>>

\* Slip: clear() is @Shared.
ClearCart_Shared(o) ==
    /\ order[o].at = "shipped"
    /\ cart' = [cart EXCEPT ![order[o].user] = EmptyCart]
    /\ gone' = [gone EXCEPT ![order[o].user] =
                [p \in Products |-> @[p] + Quantity(cart[order[o].user], p)]]
    /\ order' = [order EXCEPT ![o].at = "done"]
    /\ UNCHANGED <<edit, added, promise, charge, pipeline>>

\* clear() is exclusive: ctx.clearAll().
ClearCart(o) ==
    /\ order[o].at = "shipped"
    /\ LET u == order[o].user
       IN  /\ Unlocked(u)
           /\ cart' = [cart EXCEPT ![u] = EmptyCart]
           /\ gone' = [gone EXCEPT ![u] =
                [p \in Products |-> @[p] + Quantity(cart[u], p)]]
    /\ order' = [order EXCEPT ![o].at = "done"]
    /\ UNCHANGED <<edit, added, promise, charge, pipeline>>

\* The signal may come before the order does.  A blank number is refused
\* with a TerminalError, and a promise is resolved once.
ConfirmShipment(o, number) ==
    /\ number # Blank
    /\ promise[o] = NULL
    /\ promise' = [promise EXCEPT ![o] = number]
    /\ UNCHANGED <<cartVars, order, charge, pipeline>>

-----------------------------------------------------------------------------
(* The payment service                                                     *)

\* POST payments/charge: the body is passed on as it is.
RequestCharge(c, amount) ==
    /\ charge[c].at = "none"
    /\ charge' = [charge EXCEPT ![c].at = "invoked", ![c].amount = amount]
    /\ UNCHANGED <<cartVars, order, promise, pipeline>>

\* Slip: one over the limit is allowed.
GuardAllows_OffByOne(amount) == amount = NULL \/ amount =< Limit + 1

\* AmountLimitGuard.canActivate, which the context of a handler reaches
GuardAllows(amount) == ~OverLimit(amount)

\* Slip: a 403 is rethrown like a 5xx.
Refused_Retried == "backoff"

\* RestateExceptionFilter.catch for the ForbiddenException of a guard that
\* returned false: a TerminalError.  Without it the exception is rethrown
\* and Restate retries the attempt.
Refused == IF pipeline.terminal THEN "rejected" ELSE "backoff"

\* An attempt: the handler that wrapHandler() returned runs the guards first.
Attempt(c) ==
    /\ charge[c].at = "invoked"
    /\ charge' = [charge EXCEPT ![c].at =
            IF pipeline.guards /\ ~GuardAllows(charge[c].amount) THEN Refused ELSE "admitted"]
    /\ UNCHANGED <<cartVars, order, promise, pipeline>>

Retry(c) ==
    /\ charge[c].at = "backoff"
    /\ charge' = [charge EXCEPT ![c].at = "invoked"]
    /\ UNCHANGED <<cartVars, order, promise, pipeline>>

\* processCharge() inside of ctx.run("process-charge", ...)
ProcessCharge(c) ==
    /\ charge[c].at = "admitted"
    /\ charge' = [charge EXCEPT ![c].at = "processed", ![c].calls = @ + 1]
    /\ UNCHANGED <<cartVars, order, promise, pipeline>>

\* Slip: the gateway is called outside of ctx.run().
Journalled_NotRun(c) ==
    /\ charge[c].at = "processed"
    /\ charge' = [charge EXCEPT ![c].at = "invoked"]
    /\ UNCHANGED <<cartVars, order, promise, pipeline>>

\* The result of ctx.run() is in the journal: the handler returns it.
Journalled(c) ==
    /\ charge[c].at = "processed"
    /\ charge' = [charge EXCEPT ![c].at = "charged"]
    /\ UNCHANGED <<cartVars, order, promise, pipeline>>

\* Slip: every error becomes a TerminalError.
AttemptDies_Terminal(c) ==
    /\ charge[c].at \in {"admitted", "processed"}
    /\ charge[c].deaths < MaxDeaths
    /\ charge' = [charge EXCEPT ![c].at = "rejected", ![c].deaths = @ + 1]
    /\ UNCHANGED <<cartVars, order, promise, pipeline>>

\* The process ends, or the gateway throws, before the result is journalled.
AttemptDies(c) ==
    /\ charge[c].at \in {"admitted", "processed"}
    /\ charge[c].deaths < MaxDeaths
    /\ charge' = [charge EXCEPT ![c].at = "backoff", ![c].deaths = @ + 1]
    /\ UNCHANGED <<cartVars, order, promise, pipeline>>

-----------------------------------------------------------------------------
EndEdit(s) == EndAdd(s) \/ EndRemove(s)
OrderStep(o) == ReadCart(o) \/ ChargeReturned(o) \/ Shipped(o)
ChargeStep(c) == Attempt(c) \/ Retry(c) \/ ProcessCharge(c) \/ Journalled(c)

Next ==
    \/ \E s \in Shoppers, u \in Users :
          \E p \in Products :
             \/ \E price \in Prices, n \in Quantities :
                   AddItem(s, u, [productId |-> p, price |-> price, quantity |-> n])
             \/ RemoveItem(s, u, p)
    \/ \E s \in Shoppers : EndEdit(s)
    \/ \E o \in Orders :
          \/ \E u \in Users : CreateOrder(o, u)
          \/ \E n \in Trackings \cup {Blank} : ConfirmShipment(o, n)
          \/ OrderStep(o)
          \/ ClearCart(o)
    \/ \E c \in Requests, a \in Amounts : RequestCharge(c, a)
    \/ \E c \in Callers : ChargeStep(c) \/ AttemptDies(c)

Spec == Init /\ [][Next]_vars

\* Restate runs every handler on, retries for as long as it takes, and serves
\* the calls of a key in the order they came, so that no stream of other
\* calls keeps clear() out.
FairSpec ==
    /\ Spec
    /\ \A s \in Shoppers : WF_vars(EndEdit(s))
    /\ \A o \in Orders : WF_vars(OrderStep(o)) /\ SF_vars(ClearCart(o))
    /\ \A c \in Callers : WF_vars(ChargeStep(c))

-----------------------------------------------------------------------------
OrderStates == {"none", "submitted", "charging", "paid", "shipped", "done", "failed"}
ChargeStates == {"none", "invoked", "admitted", "processed", "backoff", "charged", "rejected"}
IsOrder(r) ==
    /\ r = [at |-> r.at, user |-> r.user, items |-> r.items,
            before |-> r.before, tracking |-> r.tracking]
    /\ r.at \in OrderStates /\ IsCart(r.items) /\ r.before \in [Products -> Nat]
    /\ r.tracking \in Trackings \cup {NULL}
    /\ r.user \in Users \/ (r.user = NULL /\ r.at = "none")
IsCharge(r) ==
    /\ r = [at |-> r.at, amount |-> r.amount, calls |-> r.calls, deaths |-> r.deaths]
    /\ r.at \in ChargeStates /\ r.calls \in Nat /\ r.deaths \in Nat

\* Types: carts, edits, orders, promises and charges keep their shape.
TypeOK ==
    /\ DOMAIN cart = Users /\ \A u \in Users : IsCart(cart[u])
    /\ DOMAIN edit = Shoppers
    /\ \A s \in Shoppers : edit[s] # NULL => IsEdit(edit[s])
    /\ added \in [Users -> [Products -> Nat]] /\ gone \in [Users -> [Products -> Nat]]
    /\ DOMAIN order = Orders /\ \A o \in Orders : IsOrder(order[o])
    /\ promise \in [Orders -> Trackings \cup {NULL}]
    /\ DOMAIN charge = Callers /\ \A c \in Callers : IsCharge(charge[c])
    /\ pipeline \in Pipelines

\* A handler has seen all that other handlers wrote to its user's cart, and
\* no two handlers change one cart at a time.
EditsAreExclusive ==
    \A s \in Shoppers : edit[s] # NULL =>
        /\ edit[s].items = cart[edit[s].user]
        /\ \A t \in Shoppers \ {s} : edit[t] # NULL => edit[t].user # edit[s].user

\* Whatever calls a user's clients make at a time, an item that was added is
\* in the cart unless it was removed or cleared: no addItem undoes another,
\* and no removeItem brings back what it did not read.
NoItemLost ==
    \A u \in Users, p \in Products : added[u][p] = Quantity(cart[u], p) + gone[u][p]

\* When an order is done, whatever its user had added by the time the order
\* read the cart has left it: a next order does not charge it again.
PaidItemsLeaveTheCart ==
    \A o \in Orders, p \in Products : order[o].at = "done" =>
        Quantity(cart[order[o].user], p) =< added[order[o].user][p] - order[o].before[p]

\* A completed order has been charged, for what it read and no less or more,
\* and holds a tracking number that its signal gave.
CompletedMeansPaid ==
    \A o \in Orders : order[o].at = "done" =>
        /\ charge[o].at = "charged" /\ charge[o].calls > 0
        /\ DOMAIN order[o].items # {} /\ charge[o].amount = Total(order[o].items)
        /\ order[o].tracking = promise[o] /\ promise[o] \in Trackings

\* An order that ended with an error never had the gateway called.
FailedMeansUnpaid ==
    \A o \in Orders : order[o].at = "failed" => charge[o].calls = 0

\* The gateway is not called for an amount over the limit, in no attempt,
\* whichever way the charge came.
LimitHolds ==
    \A c \in Callers : pipeline.guards /\ charge[c].calls > 0 => ~OverLimit(charge[c].amount)

\* The gateway is called a second time only for an attempt that died before
\* its result was journalled: ctx.run() does not repeat what it recorded.
ChargedOnceUnlessAttemptsDie ==
    \A c \in Callers : charge[c].calls =< 1 + charge[c].deaths

\* Where a charge is, and what the gateway has seen of it.
GoodCharge(c) ==
    /\ charge[c].at = "none" => charge[c].calls = 0
    /\ charge[c].at \in {"admitted", "processed", "charged"} \/ charge[c].calls > 0
          => ~(pipeline.guards /\ OverLimit(charge[c].amount))
    /\ charge[c].at = "rejected" => pipeline.guards /\ OverLimit(charge[c].amount)
    /\ charge[c].calls =< charge[c].deaths
            + (IF charge[c].at \in {"processed", "charged"} THEN 1 ELSE 0)
    /\ charge[c].at \in {"processed", "charged"} => charge[c].calls > 0

\* How far an order is agrees with its charge, its signal and its cart.
GoodOrder(o) ==
    /\ order[o].at \in {"none", "submitted"} => charge[o].at = "none"
    /\ order[o].at \in {"charging", "paid", "shipped", "done"} =>
          /\ DOMAIN order[o].items # {} /\ charge[o].amount = Total(order[o].items)
          /\ charge[o].at # "none"
          /\ \A p \in Products : order[o].before[p] =< added[order[o].user][p]
    /\ order[o].at \in {"paid", "shipped", "done"} => charge[o].at = "charged"
    /\ order[o].at \in {"shipped", "done"} =>
          order[o].tracking = promise[o] /\ promise[o] # NULL
    /\ order[o].at = "failed" => charge[o].at \in {"none", "rejected"}

\* The promises of carts, charges and orders, and what they follow from.
OrdersInv ==
    /\ TypeOK /\ EditsAreExclusive /\ NoItemLost /\ PaidItemsLeaveTheCart
    /\ \A c \in Callers : GoodCharge(c)
    /\ \A o \in Orders : GoodOrder(o)

\* A charge that retries forever: refused with no filter to make it final.
RefusedForever(c) ==
    pipeline.guards /\ ~pipeline.terminal /\ OverLimit(charge[c].amount)

\* An order that was submitted and whose shipment was confirmed ends, unless
\* its charge is refused and no filter makes that final.
OrdersEnd ==
    \A o \in Orders :
        order[o].at # "none" /\ promise[o] # NULL
            ~> order[o].at \in {"done", "failed"} \/ RefusedForever(o)

\* amount-limit.guard.ts says that it "Rejects payments over $10,000.": the
\* caller of such a charge is answered with the rejection.
RejectsOverLimit ==
    \A c \in Callers :
        charge[c].at = "invoked" /\ OverLimit(charge[c].amount) ~> charge[c].at = "rejected"
=============================================================================
