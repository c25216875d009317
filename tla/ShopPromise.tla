---------------------------- MODULE ShopPromise ----------------------------
(***************************************************************************)
(* What the example shop promises to those who use it: what a client puts  *)
(* into a cart or takes out of it is put or taken at once; an order is     *)
(* billed for what is in the cart, is paid or refused once, and empties    *)
(* the cart when it is done.  Handlers that read and write, attempts that  *)
(* die, retries and journals are not part of the promise.  Orders          *)
(* implements it (see OrdersImpl).                                         *)
(***************************************************************************)
EXTENDS Integers

CONSTANTS
    Users, Orders, Callers, Products, Trackings, NULL,
    Items,     \* what clients put into carts: records [productId, price, quantity]
    Amounts,   \* amounts of charges that belong to no order
    Cost(_),   \* what the content of a cart costs
    Limit      \* what a charge may amount to, where charges are checked

VARIABLES
    checked,   \* are charges checked against the limit?
    cart,      \* what each user's cart has of each product in it
    stage,     \* "none", "placed", "billed", "done" or "failed", for each order
    owner,     \* the user who placed the order
    bill,      \* the amount of each charge
    due,       \* "none", "due", "paid" or "refused", for each charge
    sent       \* the tracking number of each order, or NULL

vars == <<checked, cart, stage, owner, bill, due, sent>>

Nothing == [p \in {} |-> NULL]

Init ==
    /\ checked \in BOOLEAN
    /\ cart = [u \in Users |-> Nothing]
    /\ stage = [o \in Orders |-> "none"]
    /\ owner = [o \in Orders |-> NULL]
    /\ bill = [c \in Callers |-> NULL]
    /\ due = [c \in Callers |-> "none"]
    /\ sent = [o \in Orders |-> NULL]

\* More of a product that is there, at the price it has; or a new product.
With(items, i) ==
    IF i.productId \in DOMAIN items
    THEN [items EXCEPT ![i.productId].quantity = @ + i.quantity]
    ELSE [p \in DOMAIN items \cup {i.productId} |->
             IF p \in DOMAIN items THEN items[p]
             ELSE [price |-> i.price, quantity |-> i.quantity]]

Put(u, i) ==
    /\ cart' = [cart EXCEPT ![u] = With(@, i)]
    /\ UNCHANGED <<checked, stage, owner, bill, due, sent>>

Take(u, p) ==
    /\ cart' = [cart EXCEPT ![u] = [q \in DOMAIN @ \ {p} |-> @[q]]]
    /\ UNCHANGED <<checked, stage, owner, bill, due, sent>>

Place(o, u) ==
    /\ stage[o] = "none"
    /\ stage' = [stage EXCEPT ![o] = "placed"]
    /\ owner' = [owner EXCEPT ![o] = u]
    /\ UNCHANGED <<checked, cart, bill, due, sent>>

\* An order is billed for what its owner's cart has in it at that moment.
Bill(o) ==
    /\ stage[o] = "placed"
    /\ cart[owner[o]] # Nothing
    /\ stage' = [stage EXCEPT ![o] = "billed"]
    /\ bill' = [bill EXCEPT ![o] = Cost(cart[owner[o]])]
    /\ due' = [due EXCEPT ![o] = "due"]
    /\ UNCHANGED <<checked, cart, owner, sent>>

\* A charge that belongs to no order.
Ask(c, amount) ==
    /\ due[c] = "none"
    /\ bill' = [bill EXCEPT ![c] = amount]
    /\ due' = [due EXCEPT ![c] = "due"]
    /\ UNCHANGED <<checked, cart, stage, owner, sent>>

Acceptable(c) == ~(checked /\ bill[c] # NULL /\ bill[c] > Limit)

\* What is acceptable is paid and is never refused ...
Pay(c) ==
    /\ due[c] = "due" /\ Acceptable(c)
    /\ due' = [due EXCEPT ![c] = "paid"]
    /\ UNCHANGED <<checked, cart, stage, owner, bill, sent>>

\* ... and what is not acceptable is never paid.
Refuse(c) ==
    /\ due[c] = "due" /\ ~Acceptable(c)
    /\ due' = [due EXCEPT ![c] = "refused"]
    /\ UNCHANGED <<checked, cart, stage, owner, bill, sent>>

\* An order fails for an empty cart, or for a charge that was refused.
Fail(o) ==
    /\ \/ stage[o] = "placed" /\ cart[owner[o]] = Nothing
       \/ stage[o] = "billed" /\ due[o] = "refused"
    /\ stage' = [stage EXCEPT ![o] = "failed"]
    /\ UNCHANGED <<checked, cart, owner, bill, due, sent>>

Send(o, n) ==
    /\ sent[o] = NULL
    /\ sent' = [sent EXCEPT ![o] = n]
    /\ UNCHANGED <<checked, cart, stage, owner, bill, due>>

\* An order that was paid and sent is done, and its owner's cart is empty.
Finish(o) ==
    /\ stage[o] = "billed" /\ due[o] = "paid" /\ sent[o] # NULL
    /\ stage' = [stage EXCEPT ![o] = "done"]
    /\ cart' = [cart EXCEPT ![owner[o]] = Nothing]
    /\ UNCHANGED <<checked, owner, bill, due, sent>>

Next ==
    \/ \E u \in Users : (\E i \in Items : Put(u, i)) \/ (\E p \in Products : Take(u, p))
    \/ \E o \in Orders :
          \/ \E u \in Users : Place(o, u)
          \/ \E n \in Trackings : Send(o, n)
          \/ Bill(o) \/ Fail(o) \/ Finish(o)
    \/ \E c \in Callers \ Orders, a \in Amounts : Ask(c, a)
    \/ \E c \in Callers : Pay(c) \/ Refuse(c)

Spec == Init /\ [][Next]_vars
=============================================================================
