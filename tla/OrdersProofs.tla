---------------------------- MODULE OrdersProofs ----------------------------
(* Theorems about Orders, for all users, shoppers, orders, requests,       *)
(* products, prices, quantities and limits, and for every pipeline.        *)
EXTENDS OrdersImpl, TLAPS

-----------------------------------------------------------------------------
(* Carts                                                                   *)

LEMMA QuantityType ==
    ASSUME NEW items, IsCart(items), NEW p
    PROVE  Quantity(items, p) \in Nat
BY DEF IsCart, Lines, Quantity

LEMMA EmptyCartType ==
    IsCart(EmptyCart) /\ \A p : Quantity(EmptyCart, p) = 0
BY DEF IsCart, EmptyCart, Quantity

\* addItem: a cart stays a cart, with the item's quantity more of it.
LEMMA WithItemEffect ==
    ASSUME NEW items, IsCart(items), NEW item \in Items
    PROVE  /\ IsCart(WithItem(items, item))
           /\ \A p \in Products : Quantity(WithItem(items, item), p) =
                 Quantity(items, p) + IF p = item.productId THEN item.quantity ELSE 0
<1> DEFINE new == WithItem(items, item)
<1>1. item.productId \in Products /\ item.quantity \in Nat \ {0}
      BY OrdersAssumption DEF OrdersAssumption, Items
<1>2. DOMAIN new = DOMAIN items \cup {item.productId} /\ DOMAIN new \subseteq Products
      BY <1>1 DEF WithItem, IsCart
<1>3. new = [p \in DOMAIN new |-> new[p]] BY DEF WithItem
<1>4. ASSUME NEW p \in DOMAIN new
      PROVE  /\ new[p] = [price |-> new[p].price, quantity |-> new[p].quantity]
             /\ new[p].quantity = Quantity(items, p)
                    + IF p = item.productId THEN item.quantity ELSE 0
             /\ new[p].price = IF p \in DOMAIN items THEN items[p].price ELSE item.price
      BY <1>2, <1>4 DEF WithItem
<1>5. ASSUME NEW p \in DOMAIN new PROVE new[p] \in Lines
  <2>1. new[p].price \in Prices
    <3>1. CASE p \in DOMAIN items BY <1>4, <3>1 DEF IsCart, Lines
    <3>2. CASE p \notin DOMAIN items BY <1>4, <3>2 DEF Items
    <3> QED BY <3>1, <3>2
  <2>2. new[p].quantity \in Nat \ {0}
    <3>1. CASE p \in DOMAIN items
      <4>1. Quantity(items, p) \in Nat \ {0} BY <3>1 DEF Quantity, IsCart, Lines
      <4> QED BY <1>1, <1>4, <4>1
    <3>2. CASE p \notin DOMAIN items
      <4>1. p = item.productId /\ Quantity(items, p) = 0
            BY <1>2, <3>2 DEF Quantity
      <4> QED BY <1>1, <1>4, <4>1
    <3> QED BY <3>1, <3>2
  <2> QED BY <1>4, <2>1, <2>2 DEF Lines
<1>6. ASSUME NEW p \in Products
      PROVE  Quantity(new, p) = Quantity(items, p)
                 + IF p = item.productId THEN item.quantity ELSE 0
  <2>1. CASE p \in DOMAIN new BY <1>4, <2>1 DEF Quantity
  <2>2. CASE p \notin DOMAIN new BY <1>2, <2>2 DEF Quantity
  <2> QED BY <2>1, <2>2
<1> QED BY <1>2, <1>3, <1>5, <1>6 DEF IsCart

\* removeItem: a cart stays a cart, without the product.
LEMMA WithoutItemEffect ==
    ASSUME NEW items, IsCart(items), NEW p
    PROVE  /\ IsCart(WithoutItem(items, p))
           /\ \A q : Quantity(WithoutItem(items, p), q) =
                        IF q = p THEN 0 ELSE Quantity(items, q)
BY DEF WithoutItem, IsCart, Quantity

-----------------------------------------------------------------------------
(* Steps on carts                                                          *)

\* What the handlers of carts change and rely on
CartTypes ==
    /\ DOMAIN cart = Users /\ \A u \in Users : IsCart(cart[u])
    /\ DOMAIN edit = Shoppers
    /\ \A s \in Shoppers : edit[s] # NULL => IsEdit(edit[s])
    /\ added \in [Users -> [Products -> Nat]] /\ gone \in [Users -> [Products -> Nat]]
CartInv == CartTypes /\ EditsAreExclusive /\ NoItemLost

\* What a cart step may do to what orders rely on: nothing is taken from
\* what was added, and what is in a cart grows by what is added at most.
Shopping ==
    /\ UNCHANGED <<order, promise, charge, pipeline>>
    /\ \A u \in Users, p \in Products :
          /\ added[u][p] =< added'[u][p]
          /\ Quantity(cart'[u], p) - Quantity(cart[u], p) =< added'[u][p] - added[u][p]

\* A handler begins: nobody else edits its cart.
LEMMA BeginEditPreserves ==
    ASSUME CartInv, NEW s \in Shoppers, NEW u \in Users, NEW change \in Items \cup Removals,
           BeginEdit(s, u, change)
    PROVE  CartInv' /\ Shopping
<1> DEFINE e == [user |-> u, change |-> change, items |-> cart[u]]
<1>1. /\ edit' = [edit EXCEPT ![s] = e] /\ Unlocked(u)
      /\ UNCHANGED <<cart, added, gone, order, promise, charge, pipeline>>
      BY DEF BeginEdit
<1>2. IsCart(cart[u]) BY DEF CartInv, CartTypes
<1>3. e.user = u /\ e.items = cart[u] /\ e.change = change OBVIOUS
<1>4. IsEdit(e) BY <1>2, <1>3 DEF IsEdit
<1> HIDE DEF e
<1>5. /\ DOMAIN edit' = Shoppers /\ edit'[s] = e
      /\ \A t \in Shoppers \ {s} : edit'[t] = edit[t]
      BY <1>1 DEF CartInv, CartTypes
<1>6. CartTypes' BY <1>1, <1>4, <1>5 DEF CartInv, CartTypes
<1>7. EditsAreExclusive'
  <2>1. \A t \in Shoppers : edit[t] # NULL => edit[t].user # u BY <1>1 DEF Unlocked
  <2> QED BY <2>1, <1>1, <1>3, <1>5 DEF CartInv, EditsAreExclusive
<1>8. NoItemLost' BY <1>1 DEF CartInv, NoItemLost
<1>9. \A v \in Users, p \in Products :
         added[v][p] \in Nat /\ Quantity(cart[v], p) \in Nat
      BY QuantityType DEF CartInv, CartTypes
<1> QED BY <1>1, <1>6, <1>7, <1>8, <1>9 DEF CartInv, Shopping

\* Handlers that are not this cart's go on: they still hold what is in theirs.
LEMMA OthersStayExclusive ==
    ASSUME CartInv, NEW u \in Users, DOMAIN edit' = Shoppers,
           \A v \in Users \ {u} : cart'[v] = cart[v],
           \A t \in Shoppers : edit'[t] # NULL => edit'[t] = edit[t] /\ edit[t].user # u
    PROVE  EditsAreExclusive'
<1>1. ASSUME NEW t \in Shoppers, edit'[t] # NULL
      PROVE  /\ edit'[t] = edit[t] /\ edit[t] # NULL
             /\ edit[t].user \in Users \ {u} /\ edit[t].items = cart[edit[t].user]
      BY <1>1 DEF CartInv, CartTypes, IsEdit, EditsAreExclusive
<1> QED BY <1>1 DEF CartInv, EditsAreExclusive

\* A handler that writes what it read, changed, undoes no other handler: it
\* is alone, so that what it read is what is there.
LEMMA EndAddPreserves ==
    ASSUME CartInv, NEW s \in Shoppers, EndAdd(s)
    PROVE  CartInv' /\ Shopping
<1> DEFINE u == edit[s].user
           i == edit[s].change
<1>1. /\ edit[s] # NULL /\ i.quantity > 0
      /\ cart' = [cart EXCEPT ![u] = WithItem(edit[s].items, i)]
      /\ added' = [added EXCEPT ![u][i.productId] = @ + i.quantity]
      /\ edit' = [edit EXCEPT ![s] = NULL]
      /\ UNCHANGED <<gone, order, promise, charge, pipeline>>
      BY DEF EndAdd
<1>2. u \in Users /\ i \in Items \cup Removals /\ edit[s].items = cart[u]
      BY <1>1 DEF CartInv, CartTypes, IsEdit, EditsAreExclusive
<1>3. i \in Items BY <1>1, <1>2 DEF Removals
<1>4. i.productId \in Products /\ i.quantity \in Nat \ {0}
      BY <1>3, OrdersAssumption DEF OrdersAssumption, Items
<1>5. \A v \in Users : IsCart(cart[v]) BY DEF CartInv, CartTypes
<1>6. /\ IsCart(WithItem(cart[u], i))
      /\ \A p \in Products : Quantity(WithItem(cart[u], i), p) =
            Quantity(cart[u], p) + IF p = i.productId THEN i.quantity ELSE 0
      BY <1>2, <1>3, <1>5, WithItemEffect
<1>7. /\ DOMAIN cart' = Users /\ cart'[u] = WithItem(cart[u], i)
      /\ \A v \in Users \ {u} : cart'[v] = cart[v]
      BY <1>1, <1>2 DEF CartInv, CartTypes
<1>8. /\ DOMAIN edit' = Shoppers /\ edit'[s] = NULL
      /\ \A t \in Shoppers \ {s} : edit'[t] = edit[t]
      BY <1>1 DEF CartInv, CartTypes
<1>9. /\ added \in [Users -> [Products -> Nat]] /\ gone \in [Users -> [Products -> Nat]]
      /\ \A v \in Users, p \in Products : added[v][p] \in Nat /\ gone[v][p] \in Nat
      BY DEF CartInv, CartTypes
<1>10. \A t \in Shoppers \ {s} : edit[t] # NULL => edit[t].user # u
       BY <1>1 DEF CartInv, EditsAreExclusive
<1>11. \A v \in Users, p \in Products : Quantity(cart[v], p) \in Nat
       BY <1>5, QuantityType
<1> HIDE DEF u, i
<1>12. /\ added' \in [Users -> [Products -> Nat]]
       /\ \A v \in Users, p \in Products : added'[v][p] = added[v][p]
             + IF v = u /\ p = i.productId THEN i.quantity ELSE 0
  <2>1. added[u][i.productId] + i.quantity \in Nat BY <1>2, <1>4, <1>9
  <2> DEFINE row == [added[u] EXCEPT ![i.productId] = added[u][i.productId] + i.quantity]
  <2>2. row \in [Products -> Nat] BY <1>2, <1>4, <1>9, <2>1
  <2>3. \A p \in Products : row[p] = added[u][p] + IF p = i.productId THEN i.quantity ELSE 0
        BY <1>2, <1>4, <1>9
  <2>4. added' = [added EXCEPT ![u] = row] BY <1>1
  <2> HIDE DEF row
  <2>5. \A v \in Users : added'[v] = IF v = u THEN row ELSE added[v] BY <1>2, <1>9, <2>4
  <2>6. added' \in [Users -> [Products -> Nat]] BY <1>2, <1>9, <2>2, <2>4
  <2> QED BY <1>4, <1>9, <2>3, <2>5, <2>6
<1>13. CartTypes'
  <2>1. \A v \in Users : IsCart(cart'[v]) BY <1>5, <1>6, <1>7
  <2>2. \A t \in Shoppers : edit'[t] # NULL => IsEdit(edit'[t])
        BY <1>8 DEF CartInv, CartTypes
  <2> QED BY <1>1, <1>7, <1>8, <1>9, <1>12, <2>1, <2>2 DEF CartTypes
<1>14. EditsAreExclusive' BY <1>2, <1>7, <1>8, <1>10, OthersStayExclusive
<1>15. \A v \in Users, p \in Products : Quantity(cart'[v], p) = Quantity(cart[v], p)
             + IF v = u /\ p = i.productId THEN i.quantity ELSE 0
  <2>1. ASSUME NEW v \in Users, NEW p \in Products, v # u
        PROVE  Quantity(cart'[v], p) = Quantity(cart[v], p)
        BY <1>7, <2>1
  <2> QED BY <2>1, <1>6, <1>7, <1>11
<1>16. NoItemLost' BY <1>1, <1>4, <1>9, <1>11, <1>12, <1>15 DEF CartInv, NoItemLost
<1> QED BY <1>1, <1>4, <1>9, <1>11, <1>12, <1>13, <1>14, <1>15, <1>16 DEF CartInv, Shopping

\* removeItem takes its product out of the cart, and nothing else.
LEMMA EndRemovePreserves ==
    ASSUME CartInv, NEW s \in Shoppers, EndRemove(s)
    PROVE  CartInv' /\ Shopping
<1> DEFINE u == edit[s].user
           r == edit[s].change.productId
<1>1. /\ edit[s] # NULL /\ edit[s].change.quantity = 0
      /\ cart' = [cart EXCEPT ![u] = WithoutItem(edit[s].items, r)]
      /\ gone' = [gone EXCEPT ![u][r] = @ + Quantity(cart[u], r)]
      /\ edit' = [edit EXCEPT ![s] = NULL]
      /\ UNCHANGED <<added, order, promise, charge, pipeline>>
      BY DEF EndRemove
<1>2. /\ u \in Users /\ edit[s].change \in Items \cup Removals
      /\ edit[s].items = cart[u]
      BY <1>1 DEF CartInv, CartTypes, IsEdit, EditsAreExclusive
<1>3. r \in Products BY <1>2 DEF Removals, Items
<1>4. \A v \in Users : IsCart(cart[v]) BY DEF CartInv, CartTypes
<1>5. /\ added \in [Users -> [Products -> Nat]] /\ gone \in [Users -> [Products -> Nat]]
      /\ \A v \in Users, p \in Products : added[v][p] \in Nat /\ gone[v][p] \in Nat
      BY DEF CartInv, CartTypes
<1>6. \A v \in Users, p \in Products : Quantity(cart[v], p) \in Nat
      BY <1>4, QuantityType
<1>7. /\ IsCart(WithoutItem(cart[u], r))
      /\ \A p : Quantity(WithoutItem(cart[u], r), p) =
                    IF p = r THEN 0 ELSE Quantity(cart[u], p)
      BY <1>2, <1>4, WithoutItemEffect
<1>8. /\ DOMAIN cart' = Users /\ cart'[u] = WithoutItem(cart[u], r)
      /\ \A v \in Users \ {u} : cart'[v] = cart[v]
      BY <1>1, <1>2 DEF CartInv, CartTypes
<1>9. /\ DOMAIN edit' = Shoppers /\ edit'[s] = NULL
      /\ \A t \in Shoppers \ {s} : edit'[t] = edit[t]
      BY <1>1 DEF CartInv, CartTypes
<1>10. \A t \in Shoppers \ {s} : edit[t] # NULL => edit[t].user # u
       BY <1>1 DEF CartInv, EditsAreExclusive
<1> DEFINE q == Quantity(cart[u], r)
<1>11. q \in Nat BY <1>2, <1>3, <1>6
<1> HIDE DEF u, r, q
<1>12. /\ gone' \in [Users -> [Products -> Nat]]
       /\ \A v \in Users, p \in Products :
             gone'[v][p] = gone[v][p] + IF v = u /\ p = r THEN q ELSE 0
  <2> DEFINE row == [gone[u] EXCEPT ![r] = gone[u][r] + q]
  <2>1. gone[u][r] + q \in Nat BY <1>2, <1>3, <1>5, <1>11
  <2>2. row \in [Products -> Nat] BY <1>2, <1>3, <1>5, <2>1
  <2>3. \A p \in Products : row[p] = gone[u][p] + IF p = r THEN q ELSE 0
        BY <1>2, <1>3, <1>5, <1>11
  <2>4. gone' = [gone EXCEPT ![u] = row] BY <1>1 DEF q
  <2> HIDE DEF row
  <2>5. \A v \in Users : gone'[v] = IF v = u THEN row ELSE gone[v] BY <1>2, <1>5, <2>4
  <2>6. gone' \in [Users -> [Products -> Nat]] BY <1>2, <1>5, <2>2, <2>4
  <2> QED BY <1>5, <1>11, <2>3, <2>5, <2>6
<1>13. CartTypes'
  <2>1. \A v \in Users : IsCart(cart'[v]) BY <1>4, <1>7, <1>8
  <2>2. \A t \in Shoppers : edit'[t] # NULL => IsEdit(edit'[t])
        BY <1>9 DEF CartInv, CartTypes
  <2> QED BY <1>1, <1>5, <1>8, <1>9, <1>12, <2>1, <2>2 DEF CartTypes
<1>14. EditsAreExclusive' BY <1>2, <1>8, <1>9, <1>10, OthersStayExclusive
<1>15. \A v \in Users, p \in Products : Quantity(cart'[v], p) =
             Quantity(cart[v], p) - IF v = u /\ p = r THEN q ELSE 0
  <2>1. ASSUME NEW v \in Users, NEW p \in Products, v # u
        PROVE  Quantity(cart'[v], p) = Quantity(cart[v], p)
        BY <1>8, <2>1
  <2>2. ASSUME NEW p \in Products
        PROVE  Quantity(cart'[u], p) = Quantity(cart[u], p) - IF p = r THEN q ELSE 0
        BY <1>2, <1>6, <1>7, <1>8 DEF q
  <2> QED BY <2>1, <2>2, <1>6
<1>16. NoItemLost' BY <1>1, <1>5, <1>6, <1>11, <1>12, <1>15 DEF CartInv, NoItemLost
<1>17. Shopping BY <1>1, <1>5, <1>6, <1>11, <1>15 DEF Shopping
<1> QED BY <1>13, <1>14, <1>16, <1>17 DEF CartInv

\* clear() empties the cart of the order's user, and no handler that read it
\* before can write back what it read.
LEMMA ClearCartPreserves ==
    ASSUME CartInv, NEW u \in Users, Unlocked(u),
           cart' = [cart EXCEPT ![u] = EmptyCart],
           gone' = [gone EXCEPT ![u] = [p \in Products |-> gone[u][p] + Quantity(cart[u], p)]],
           UNCHANGED <<edit, added>>
    PROVE  /\ CartInv'
           /\ \A p \in Products : Quantity(cart'[u], p) = 0
           /\ \A v \in Users \ {u} : cart'[v] = cart[v]
<1>1. \A v \in Users : IsCart(cart[v]) BY DEF CartInv, CartTypes
<1>2. /\ added \in [Users -> [Products -> Nat]] /\ gone \in [Users -> [Products -> Nat]]
      /\ \A v \in Users, p \in Products : added[v][p] \in Nat /\ gone[v][p] \in Nat
      BY DEF CartInv, CartTypes
<1>3. \A v \in Users, p \in Products : Quantity(cart[v], p) \in Nat
      BY <1>1, QuantityType
<1>4. /\ DOMAIN cart' = Users /\ cart'[u] = EmptyCart
      /\ \A v \in Users \ {u} : cart'[v] = cart[v]
      BY DEF CartInv, CartTypes
<1> DEFINE row == [p \in Products |-> gone[u][p] + Quantity(cart[u], p)]
<1>5. row \in [Products -> Nat] BY <1>2, <1>3
<1>6. \A p \in Products : row[p] = gone[u][p] + Quantity(cart[u], p) OBVIOUS
<1> HIDE DEF row
<1>7. \A v \in Users : gone'[v] = IF v = u THEN row ELSE gone[v]
      BY <1>2 DEF row
<1>8. gone' \in [Users -> [Products -> Nat]] BY <1>2, <1>5 DEF row
<1>9. CartTypes' BY <1>1, <1>2, <1>4, <1>8, EmptyCartType DEF CartInv, CartTypes
<1>10. EditsAreExclusive'
       BY <1>4, OthersStayExclusive DEF Unlocked, CartInv, CartTypes
<1>11. \A p \in Products : Quantity(cart'[u], p) = 0 BY <1>4, EmptyCartType
<1>12. NoItemLost'
  <2> SUFFICES ASSUME NEW v \in Users, NEW p \in Products
               PROVE  added[v][p] = Quantity(cart'[v], p) + gone'[v][p]
      BY DEF NoItemLost
  <2>1. CASE v = u BY <1>2, <1>3, <1>6, <1>7, <1>11, <2>1 DEF CartInv, NoItemLost
  <2>2. CASE v # u BY <1>4, <1>7, <2>2 DEF CartInv, NoItemLost
  <2> QED BY <2>1, <2>2
<1> QED BY <1>4, <1>9, <1>10, <1>11, <1>12 DEF CartInv

-----------------------------------------------------------------------------
(* Steps on charges                                                        *)

\* What a step of a charge does to it: the amount stays, and what was called
\* or refused agrees with the guard.
LEMMA ChargeEffect ==
    ASSUME OrdersInv, NEW c \in Callers, ChargeStep(c) \/ AttemptDies(c)
    PROVE  /\ UNCHANGED <<cartVars, order, promise, pipeline>>
           /\ DOMAIN charge' = Callers
           /\ \A d \in Callers \ {c} : charge'[d] = charge[d]
           /\ charge[c].at \in {"invoked", "admitted", "processed", "backoff"}
           /\ IsCharge(charge'[c]) /\ charge'[c].amount = charge[c].amount
           /\ charge'[c].at # "none" /\ charge[c].calls =< charge'[c].calls
           /\ GoodCharge(c)'
<1> DEFINE r == charge[c]
<1>1. IsCharge(r) /\ DOMAIN charge = Callers /\ GoodCharge(c)
      BY DEF OrdersInv, TypeOK
<1>2. r.calls \in Nat /\ r.deaths \in Nat BY <1>1 DEF IsCharge
<1>3. CASE Attempt(c)
  <2> DEFINE at == IF pipeline.guards /\ ~GuardAllows(r.amount) THEN Refused ELSE "admitted"
  <2>1. at \in {"rejected", "backoff", "admitted"} BY DEF Refused
  <2>2. at = "admitted" => ~(pipeline.guards /\ OverLimit(r.amount))
        BY DEF Refused, GuardAllows
  <2>3. at = "rejected" => pipeline.guards /\ OverLimit(r.amount)
        BY DEF Refused, GuardAllows
  <2>4. r.at = "invoked" /\ charge' = [charge EXCEPT ![c].at = at]
        /\ UNCHANGED <<cartVars, order, promise, pipeline>>
        BY <1>3 DEF Attempt
  <2> HIDE DEF at
  <2>5. charge'[c] = [r EXCEPT !.at = at] /\ DOMAIN charge' = Callers
        /\ \A d \in Callers \ {c} : charge'[d] = charge[d]
        BY <1>1, <2>4
  <2> HIDE DEF r
  <2>6. charge'[c] = [at |-> at, amount |-> r.amount, calls |-> r.calls, deaths |-> r.deaths]
        BY <1>1, <2>5 DEF IsCharge
  <2> QED BY <1>1, <1>2, <2>1, <2>2, <2>3, <2>4, <2>5, <2>6
          DEF r, IsCharge, ChargeStates, GoodCharge
<1>4. CASE Retry(c)
  <2>1. r.at = "backoff" /\ charge' = [charge EXCEPT ![c].at = "invoked"]
        /\ UNCHANGED <<cartVars, order, promise, pipeline>>
        BY <1>4 DEF Retry
  <2>2. charge'[c] = [r EXCEPT !.at = "invoked"] /\ DOMAIN charge' = Callers
        /\ \A d \in Callers \ {c} : charge'[d] = charge[d]
        BY <1>1, <2>1
  <2> HIDE DEF r
  <2>3. charge'[c] = [at |-> "invoked", amount |-> r.amount,
                      calls |-> r.calls, deaths |-> r.deaths]
        BY <1>1, <2>2 DEF IsCharge
  <2> QED BY <1>1, <1>2, <2>1, <2>2, <2>3 DEF r, IsCharge, ChargeStates, GoodCharge
<1>5. CASE ProcessCharge(c)
  <2>1. r.at = "admitted"
        /\ charge' = [charge EXCEPT ![c].at = "processed", ![c].calls = @ + 1]
        /\ UNCHANGED <<cartVars, order, promise, pipeline>>
        BY <1>5 DEF ProcessCharge
  <2>2. charge'[c] = [r EXCEPT !.at = "processed", !.calls = r.calls + 1]
        /\ DOMAIN charge' = Callers
        /\ \A d \in Callers \ {c} : charge'[d] = charge[d]
        BY <1>1, <2>1
  <2> HIDE DEF r
  <2>3. charge'[c] = [at |-> "processed", amount |-> r.amount,
                      calls |-> r.calls + 1, deaths |-> r.deaths]
        BY <1>1, <2>2 DEF IsCharge
  <2> QED BY <1>1, <1>2, <2>1, <2>2, <2>3 DEF r, IsCharge, ChargeStates, GoodCharge
<1>6. CASE Journalled(c)
  <2>1. r.at = "processed" /\ charge' = [charge EXCEPT ![c].at = "charged"]
        /\ UNCHANGED <<cartVars, order, promise, pipeline>>
        BY <1>6 DEF Journalled
  <2>2. charge'[c] = [r EXCEPT !.at = "charged"] /\ DOMAIN charge' = Callers
        /\ \A d \in Callers \ {c} : charge'[d] = charge[d]
        BY <1>1, <2>1
  <2> HIDE DEF r
  <2>3. charge'[c] = [at |-> "charged", amount |-> r.amount,
                      calls |-> r.calls, deaths |-> r.deaths]
        BY <1>1, <2>2 DEF IsCharge
  <2> QED BY <1>1, <1>2, <2>1, <2>2, <2>3 DEF r, IsCharge, ChargeStates, GoodCharge
<1>7. CASE AttemptDies(c)
  <2>1. r.at \in {"admitted", "processed"}
        /\ charge' = [charge EXCEPT ![c].at = "backoff", ![c].deaths = @ + 1]
        /\ UNCHANGED <<cartVars, order, promise, pipeline>>
        BY <1>7 DEF AttemptDies
  <2>2. charge'[c] = [r EXCEPT !.at = "backoff", !.deaths = r.deaths + 1]
        /\ DOMAIN charge' = Callers
        /\ \A d \in Callers \ {c} : charge'[d] = charge[d]
        BY <1>1, <2>1
  <2> HIDE DEF r
  <2>3. charge'[c] = [at |-> "backoff", amount |-> r.amount,
                      calls |-> r.calls, deaths |-> r.deaths + 1]
        BY <1>1, <2>2 DEF IsCharge
  <2> QED BY <1>1, <1>2, <2>1, <2>2, <2>3 DEF r, IsCharge, ChargeStates, GoodCharge
<1> QED BY <1>3, <1>4, <1>5, <1>6, <1>7 DEF ChargeStep

-----------------------------------------------------------------------------
(* The inductive invariant                                                 *)

\* The rest of the types
OrderTypes ==
    /\ DOMAIN order = Orders /\ \A o \in Orders : IsOrder(order[o])
    /\ promise \in [Orders -> Trackings \cup {NULL}]
ChargeTypes ==
    /\ DOMAIN charge = Callers /\ \A c \in Callers : IsCharge(charge[c])
    /\ pipeline \in Pipelines

LEMMA Parts ==
    OrdersInv <=> /\ CartInv /\ OrderTypes /\ ChargeTypes /\ PaidItemsLeaveTheCart
                  /\ \A c \in Callers : GoodCharge(c)
                  /\ \A o \in Orders : GoodOrder(o)
BY DEF OrdersInv, TypeOK, CartInv, CartTypes, OrderTypes, ChargeTypes

LEMMA InitOrdersInv == Init => OrdersInv
<1> SUFFICES ASSUME Init PROVE OrdersInv OBVIOUS
<1>1. CartInv
  <2>1. CartTypes BY EmptyCartType DEF Init, CartTypes
  <2>2. EditsAreExclusive BY DEF Init, EditsAreExclusive
  <2>3. NoItemLost BY EmptyCartType DEF Init, NoItemLost
  <2> QED BY <2>1, <2>2, <2>3 DEF CartInv
<1>2. OrderTypes
  <2>1. \A o \in Orders : order[o] = [at |-> "none", user |-> NULL, items |-> EmptyCart,
                           before |-> [p \in Products |-> 0], tracking |-> NULL]
        BY DEF Init
  <2>2. [p \in Products |-> 0] \in [Products -> Nat] OBVIOUS
  <2> QED BY <2>1, <2>2, EmptyCartType DEF Init, OrderTypes, IsOrder, OrderStates
<1>3. ChargeTypes BY DEF Init, ChargeTypes, IsCharge, ChargeStates
<1>4. PaidItemsLeaveTheCart BY DEF Init, PaidItemsLeaveTheCart
<1>5. \A c \in Callers : GoodCharge(c) BY DEF Init, GoodCharge
<1>6. \A o \in Orders : GoodOrder(o) BY DEF Init, GoodOrder, Callers
<1> QED BY <1>1, <1>2, <1>3, <1>4, <1>5, <1>6, Parts

\* Whoever shops, what orders and charges rely on stays.
LEMMA ShoppingPreserves ==
    ASSUME OrdersInv, CartInv', Shopping
    PROVE  OrdersInv'
<1>1. CartInv /\ OrderTypes /\ ChargeTypes BY Parts
<1>2. UNCHANGED <<order, promise, charge, pipeline>> BY DEF Shopping
<1>3. OrderTypes' /\ ChargeTypes' BY <1>1, <1>2 DEF OrderTypes, ChargeTypes
<1>4. \A u \in Users, p \in Products :
         /\ added[u][p] \in Nat /\ added'[u][p] \in Nat
         /\ Quantity(cart[u], p) \in Nat /\ Quantity(cart'[u], p) \in Nat
      BY <1>1, QuantityType DEF CartInv, CartTypes
<1>5. \A o \in Orders : order[o].at # "none" =>
         order[o].user \in Users /\ \A p \in Products : order[o].before[p] \in Nat
      BY <1>1 DEF OrderTypes, IsOrder
<1>6. PaidItemsLeaveTheCart'
  <2> SUFFICES ASSUME NEW o \in Orders, NEW p \in Products, order[o].at = "done"
               PROVE  Quantity(cart'[order[o].user], p)
                         =< added'[order[o].user][p] - order[o].before[p]
      BY <1>2 DEF PaidItemsLeaveTheCart
  <2>1. Quantity(cart[order[o].user], p) =< added[order[o].user][p] - order[o].before[p]
        BY DEF OrdersInv, PaidItemsLeaveTheCart
  <2> DEFINE u == order[o].user
  <2>2. u \in Users /\ order[o].before[p] \in Nat BY <1>5
  <2>3. Quantity(cart'[u], p) - Quantity(cart[u], p) =< added'[u][p] - added[u][p]
        BY <2>2 DEF Shopping
  <2> QED BY <1>4, <2>1, <2>2, <2>3
<1>7. \A c \in Callers : GoodCharge(c)'
      BY <1>2 DEF OrdersInv, GoodCharge
<1>8. ASSUME NEW o \in Orders PROVE GoodOrder(o)'
  <2>1. GoodOrder(o) BY DEF OrdersInv
  <2>2. ASSUME order[o].at \in {"charging", "paid", "shipped", "done"}, NEW p \in Products
        PROVE  order[o].before[p] =< added'[order[o].user][p]
    <3>1. order[o].before[p] =< added[order[o].user][p] BY <2>1, <2>2 DEF GoodOrder
    <3>2. order[o].user \in Users /\ order[o].before[p] \in Nat BY <1>5, <2>2
    <3>3. added[order[o].user][p] =< added'[order[o].user][p] BY <3>2 DEF Shopping
    <3> QED BY <1>4, <3>1, <3>2, <3>3
  <2> QED BY <1>2, <2>1, <2>2 DEF GoodOrder
<1> QED
      BY <1>3, <1>6, <1>7, <1>8
      DEF OrdersInv, TypeOK, CartInv, CartTypes, OrderTypes, ChargeTypes

\* A step of a charge finds its order waiting for it.
LEMMA ChargePreserves ==
    ASSUME OrdersInv, NEW c \in Callers, ChargeStep(c) \/ AttemptDies(c)
    PROVE  OrdersInv'
<1>1. /\ UNCHANGED <<cartVars, order, promise, pipeline>>
      /\ DOMAIN charge' = Callers
      /\ \A d \in Callers \ {c} : charge'[d] = charge[d]
      /\ charge[c].at \in {"invoked", "admitted", "processed", "backoff"}
      /\ IsCharge(charge'[c]) /\ charge'[c].amount = charge[c].amount
      /\ charge'[c].at # "none"
      /\ GoodCharge(c)'
      BY ChargeEffect
<1>2. CartInv /\ OrderTypes /\ ChargeTypes BY Parts
<1>3. CartInv'
      BY <1>1, <1>2 DEF cartVars, CartInv, CartTypes, EditsAreExclusive, NoItemLost
<1>4. OrderTypes' BY <1>1, <1>2 DEF OrderTypes
<1>5. ChargeTypes' BY <1>1, <1>2 DEF ChargeTypes
<1>6. PaidItemsLeaveTheCart'
      BY <1>1 DEF cartVars, OrdersInv, PaidItemsLeaveTheCart
<1>7. ASSUME NEW d \in Callers PROVE GoodCharge(d)'
  <2>1. CASE d = c BY <1>1, <2>1
  <2>2. CASE d # c BY <1>1, <2>2 DEF OrdersInv, GoodCharge
  <2> QED BY <2>1, <2>2
<1>8. ASSUME NEW o \in Orders PROVE GoodOrder(o)'
  <2>1. GoodOrder(o) /\ o \in Callers BY DEF OrdersInv, Callers
  <2>2. CASE o # c BY <1>1, <2>1, <2>2 DEF cartVars, GoodOrder
  <2>3. CASE o = c
    <3>1. order[o].at \in OrderStates BY <1>2 DEF OrderTypes, IsOrder
    <3>2. order[o].at = "charging"
          BY <1>1, <2>1, <2>3, <3>1 DEF GoodOrder, OrderStates
    <3> QED BY <1>1, <2>1, <2>3, <3>2 DEF cartVars, GoodOrder
  <2> QED BY <2>2, <2>3
<1> QED
      BY <1>3, <1>4, <1>5, <1>6, <1>7, <1>8
      DEF OrdersInv, TypeOK, CartInv, CartTypes, OrderTypes, ChargeTypes

\* A direct charge is nobody's order.
LEMMA RequestPreserves ==
    ASSUME OrdersInv, NEW c \in Requests, NEW a \in Amounts, RequestCharge(c, a)
    PROVE  OrdersInv'
<1>1. CartInv /\ OrderTypes /\ ChargeTypes BY Parts
<1>2. c \in Callers /\ c \notin Orders
      BY OrdersAssumption DEF OrdersAssumption, Callers
<1>3. /\ charge[c].at = "none"
      /\ charge' = [charge EXCEPT ![c].at = "invoked", ![c].amount = a]
      /\ UNCHANGED <<cartVars, order, promise, pipeline>>
      BY DEF RequestCharge
<1> DEFINE r == charge[c]
<1>4. IsCharge(r) /\ GoodCharge(c) BY <1>1, <1>2 DEF ChargeTypes, OrdersInv
<1>5. /\ DOMAIN charge' = Callers /\ charge'[c] = [r EXCEPT !.at = "invoked", !.amount = a]
      /\ \A d \in Callers \ {c} : charge'[d] = charge[d]
      BY <1>1, <1>2, <1>3 DEF ChargeTypes
<1> HIDE DEF r
<1>6. charge'[c] = [at |-> "invoked", amount |-> a, calls |-> r.calls, deaths |-> r.deaths]
      BY <1>4, <1>5 DEF IsCharge
<1>7. IsCharge(charge'[c]) /\ GoodCharge(c)'
  <2>1. r.calls = 0 /\ r.deaths \in Nat BY <1>3, <1>4 DEF r, IsCharge, GoodCharge
  <2>2. IsCharge(charge'[c]) BY <1>6, <2>1 DEF IsCharge, ChargeStates
  <2>3. charge'[c].at = "invoked" /\ charge'[c].calls = 0 /\ charge'[c].deaths \in Nat
        BY <1>6, <2>1
  <2> QED BY <2>2, <2>3 DEF GoodCharge
<1>8. CartInv'
      BY <1>1, <1>3 DEF cartVars, CartInv, CartTypes, EditsAreExclusive, NoItemLost
<1>9. OrderTypes' BY <1>1, <1>3 DEF OrderTypes
<1>10. ChargeTypes' BY <1>1, <1>3, <1>5, <1>7 DEF ChargeTypes
<1>11. PaidItemsLeaveTheCart'
       BY <1>3 DEF cartVars, OrdersInv, PaidItemsLeaveTheCart
<1>12. ASSUME NEW d \in Callers PROVE GoodCharge(d)'
  <2>1. CASE d = c BY <1>7, <2>1
  <2>2. CASE d # c BY <1>3, <1>5, <2>2 DEF OrdersInv, GoodCharge
  <2> QED BY <2>1, <2>2
<1>13. ASSUME NEW o \in Orders PROVE GoodOrder(o)'
  <2>1. o # c /\ o \in Callers /\ GoodOrder(o) BY <1>2 DEF Callers, OrdersInv
  <2> QED BY <1>3, <1>5, <2>1 DEF cartVars, GoodOrder
<1> QED
      BY <1>8, <1>9, <1>10, <1>11, <1>12, <1>13
      DEF OrdersInv, TypeOK, CartInv, CartTypes, OrderTypes, ChargeTypes

-----------------------------------------------------------------------------
(* Steps of orders                                                         *)

\* A step that changes one order, and its charge at most when it invokes it,
\* keeps the others good.
LEMMA OneOrderChanges ==
    ASSUME OrdersInv, NEW o \in Orders, IsOrder(order'[o]), CartInv',
           DOMAIN order' = Orders, \A w \in Orders \ {o} : order'[w] = order[w],
           DOMAIN charge' = Callers, \A d \in Callers \ {o} : charge'[d] = charge[d],
           \A w \in Orders \ {o} : promise'[w] = promise[w],
           promise' \in [Orders -> Trackings \cup {NULL}],
           pipeline' = pipeline, added' = added, IsCharge(charge'[o]),
           GoodCharge(o)', GoodOrder(o)',
           PaidItemsLeaveTheCart'
    PROVE  OrdersInv'
<1>1. o \in Callers /\ OrderTypes /\ ChargeTypes BY Parts DEF Callers
<1>2. OrderTypes' BY <1>1 DEF OrderTypes
<1>3. ChargeTypes' BY <1>1 DEF ChargeTypes
<1>4. ASSUME NEW d \in Callers PROVE GoodCharge(d)'
  <2>1. CASE d = o BY <2>1
  <2>2. CASE d # o BY <2>2 DEF OrdersInv, GoodCharge
  <2> QED BY <2>1, <2>2
<1>5. ASSUME NEW w \in Orders PROVE GoodOrder(w)'
  <2>1. CASE w = o BY <2>1
  <2>2. CASE w # o
    <3>1. w \in Callers /\ GoodOrder(w) BY DEF Callers, OrdersInv
    <3> QED BY <2>2, <3>1 DEF GoodOrder
  <2> QED BY <2>1, <2>2
<1> QED
      BY <1>2, <1>3, <1>4, <1>5
      DEF OrdersInv, TypeOK, CartInv, CartTypes, OrderTypes, ChargeTypes

\* Carts do not change with an order that is not done by its step, and
\* orders that were done stay so.
LEMMA StillPaid ==
    ASSUME OrdersInv, NEW o \in Orders, UNCHANGED cartVars,
           \A w \in Orders \ {o} : order'[w] = order[w], order'[o].at # "done"
    PROVE  CartInv' /\ PaidItemsLeaveTheCart'
<1>1. CartInv BY Parts
<1>2. CartInv'
      BY <1>1 DEF cartVars, CartInv, CartTypes, EditsAreExclusive, NoItemLost
<1>3. PaidItemsLeaveTheCart' BY DEF cartVars, OrdersInv, PaidItemsLeaveTheCart
<1> QED BY <1>2, <1>3

\* What is known of an order before its step
LEMMA OrderFacts ==
    ASSUME OrdersInv, NEW o \in Orders
    PROVE  /\ o \in Callers /\ DOMAIN order = Orders /\ DOMAIN charge = Callers
           /\ IsOrder(order[o]) /\ IsCharge(charge[o])
           /\ promise \in [Orders -> Trackings \cup {NULL}]
           /\ GoodCharge(o) /\ GoodOrder(o) /\ CartInv
           /\ order[o] = [at |-> order[o].at, user |-> order[o].user, items |-> order[o].items,
                          before |-> order[o].before, tracking |-> order[o].tracking]
BY Parts DEF Callers, OrderTypes, ChargeTypes, IsOrder

LEMMA CreatePreserves ==
    ASSUME OrdersInv, NEW o \in Orders, NEW u \in Users, CreateOrder(o, u)
    PROVE  OrdersInv'
<1> DEFINE r == order[o]
<1>1. /\ r.at = "none"
      /\ order' = [order EXCEPT ![o].at = "submitted", ![o].user = u]
      /\ UNCHANGED <<cartVars, promise, charge, pipeline>>
      BY DEF CreateOrder
<1>2. /\ DOMAIN order' = Orders /\ order'[o] = [r EXCEPT !.at = "submitted", !.user = u]
      /\ \A w \in Orders \ {o} : order'[w] = order[w]
      BY <1>1, OrderFacts
<1>3. r = [at |-> r.at, user |-> r.user, items |-> r.items,
           before |-> r.before, tracking |-> r.tracking] /\ IsOrder(r)
      BY OrderFacts
<1> HIDE DEF r
<1>4. order'[o] = [at |-> "submitted", user |-> u, items |-> r.items,
                   before |-> r.before, tracking |-> r.tracking]
      BY <1>2, <1>3
<1>5. IsOrder(order'[o]) BY <1>3, <1>4 DEF IsOrder, OrderStates
<1>6. order'[o].at = "submitted" BY <1>4
<1>7. CartInv' /\ PaidItemsLeaveTheCart' BY <1>1, <1>2, <1>6, StillPaid
<1>8. GoodCharge(o)' BY <1>1, OrderFacts DEF GoodCharge
<1>9. GoodOrder(o)' BY <1>1, <1>6, OrderFacts DEF r, GoodOrder
<1> QED BY <1>1, <1>2, <1>5, <1>7, <1>8, <1>9, OrderFacts, OneOrderChanges DEF cartVars

\* An order charges what it read, or ends without having called anything.
LEMMA ReadCartPreserves ==
    ASSUME OrdersInv, NEW o \in Orders, ReadCart(o)
    PROVE  OrdersInv'
<1> DEFINE r == order[o]
           items == cart[r.user]
<1>1. r.at = "submitted" /\ UNCHANGED <<cartVars, promise, pipeline>> BY DEF ReadCart
<1>2. /\ r = [at |-> r.at, user |-> r.user, items |-> r.items,
              before |-> r.before, tracking |-> r.tracking]
      /\ IsOrder(r) /\ charge[o].at = "none"
      BY <1>1, OrderFacts DEF GoodOrder
<1>3. r.user \in Users /\ IsCart(items) /\ added[r.user] \in [Products -> Nat]
      BY <1>1, <1>2, OrderFacts DEF IsOrder, CartInv, CartTypes
<1>4. CASE DOMAIN items = {}
  <2>1. order' = [order EXCEPT ![o].at = "failed"] /\ charge' = charge
        BY <1>4 DEF ReadCart
  <2>2. /\ DOMAIN order' = Orders /\ order'[o] = [r EXCEPT !.at = "failed"]
        /\ \A w \in Orders \ {o} : order'[w] = order[w]
        BY <2>1, OrderFacts
  <2> HIDE DEF r
  <2>3. order'[o] = [at |-> "failed", user |-> r.user, items |-> r.items,
                     before |-> r.before, tracking |-> r.tracking]
        BY <1>2, <2>2
  <2>4. IsOrder(order'[o]) /\ order'[o].at = "failed"
        BY <1>2, <1>3, <2>3 DEF IsOrder, OrderStates
  <2>5. CartInv' /\ PaidItemsLeaveTheCart' BY <1>1, <2>2, <2>4, StillPaid
  <2>6. GoodCharge(o)' BY <1>1, <2>1, OrderFacts DEF GoodCharge
  <2>7. GoodOrder(o)' BY <1>2, <2>1, <2>4 DEF GoodOrder
  <2> QED BY <1>1, <2>1, <2>2, <2>4, <2>5, <2>6, <2>7, OrderFacts, OneOrderChanges
          DEF cartVars
<1>5. CASE DOMAIN items # {}
  <2> DEFINE sum == Total(items)
             c == charge[o]
  <2>1. /\ order' = [order EXCEPT ![o].at = "charging", ![o].items = items,
                                  ![o].before = added[r.user]]
        /\ charge' = [charge EXCEPT ![o].at = "invoked", ![o].amount = sum]
        BY <1>5 DEF ReadCart
  <2>2. /\ DOMAIN order' = Orders
        /\ order'[o] = [r EXCEPT !.at = "charging", !.items = items, !.before = added[r.user]]
        /\ \A w \in Orders \ {o} : order'[w] = order[w]
        BY <2>1, OrderFacts
  <2>3. /\ DOMAIN charge' = Callers /\ charge'[o] = [c EXCEPT !.at = "invoked", !.amount = sum]
        /\ \A d \in Callers \ {o} : charge'[d] = charge[d]
        BY <2>1, OrderFacts
  <2>4. IsCharge(c) /\ GoodCharge(o) BY OrderFacts
  <2>5. c.calls = 0 /\ c.deaths \in Nat BY <1>2, <2>4 DEF IsCharge, GoodCharge
  <2>6. sum = Total(items) OBVIOUS
  <2> HIDE DEF c, sum
  <2>7. charge'[o] = [at |-> "invoked", amount |-> sum, calls |-> 0, deaths |-> c.deaths]
        BY <2>3, <2>4, <2>5 DEF IsCharge
  <2> HIDE DEF r, items
  <2>8. order'[o] = [at |-> "charging", user |-> r.user, items |-> items,
                     before |-> added[r.user], tracking |-> r.tracking]
        BY <1>2, <2>2
  <2>9. IsCharge(charge'[o]) BY <2>5, <2>7 DEF IsCharge, ChargeStates
  <2>10. /\ charge'[o].at = "invoked" /\ charge'[o].calls = 0
         /\ charge'[o].deaths \in Nat /\ charge'[o].amount = sum
         BY <2>5, <2>7
  <2>11. GoodCharge(o)' BY <2>10 DEF GoodCharge
  <2>12. /\ order'[o].at = "charging" /\ order'[o].user = r.user
         /\ order'[o].items = items /\ order'[o].before = added[r.user]
         BY <2>8
  <2>13. IsOrder(order'[o]) BY <1>2, <1>3, <2>8 DEF IsOrder, OrderStates
  <2>14. CartInv' /\ PaidItemsLeaveTheCart' BY <1>1, <2>2, <2>12, StillPaid
  <2>15. \A p \in Products : order'[o].before[p] =< added'[order'[o].user][p]
         BY <1>1, <1>3, <2>12 DEF cartVars
  <2>16. GoodOrder(o)' BY <1>5, <2>6, <2>10, <2>12, <2>15 DEF GoodOrder
  <2> QED BY <1>1, <2>2, <2>3, <2>9, <2>11, <2>13, <2>14, <2>16, OrderFacts, OneOrderChanges
          DEF cartVars
<1> QED BY <1>4, <1>5

LEMMA ChargeReturnedPreserves ==
    ASSUME OrdersInv, NEW o \in Orders, ChargeReturned(o)
    PROVE  OrdersInv'
<1> DEFINE r == order[o]
           at == IF charge[o].at = "charged" THEN "paid" ELSE "failed"
<1>1. /\ r.at = "charging" /\ charge[o].at \in {"charged", "rejected"}
      /\ order' = [order EXCEPT ![o].at = at]
      /\ UNCHANGED <<cartVars, promise, charge, pipeline>>
      BY DEF ChargeReturned
<1>2. /\ DOMAIN order' = Orders /\ order'[o] = [r EXCEPT !.at = at]
      /\ \A w \in Orders \ {o} : order'[w] = order[w]
      BY <1>1, OrderFacts
<1>3. r = [at |-> r.at, user |-> r.user, items |-> r.items,
           before |-> r.before, tracking |-> r.tracking] /\ IsOrder(r) /\ GoodOrder(o)
      BY OrderFacts
<1>4. /\ at \in {"paid", "failed"}
      /\ at = "paid" => charge[o].at = "charged"
      /\ at = "failed" => charge[o].at = "rejected"
      BY <1>1
<1> HIDE DEF r, at
<1>5. order'[o] = [at |-> at, user |-> r.user, items |-> r.items,
                   before |-> r.before, tracking |-> r.tracking]
      BY <1>2, <1>3
<1>6. IsOrder(order'[o]) BY <1>1, <1>3, <1>4, <1>5 DEF IsOrder, OrderStates
<1>7. /\ order'[o].at = at /\ order'[o].user = r.user
      /\ order'[o].items = r.items /\ order'[o].before = r.before
      BY <1>5
<1>8. CartInv' /\ PaidItemsLeaveTheCart' BY <1>1, <1>2, <1>4, <1>7, StillPaid
<1>9. GoodCharge(o)' BY <1>1, OrderFacts DEF GoodCharge
<1>10. GoodOrder(o)' BY <1>1, <1>3, <1>4, <1>7 DEF r, GoodOrder, cartVars
<1> QED BY <1>1, <1>2, <1>6, <1>8, <1>9, <1>10, OrderFacts, OneOrderChanges DEF cartVars

LEMMA ShippedPreserves ==
    ASSUME OrdersInv, NEW o \in Orders, Shipped(o)
    PROVE  OrdersInv'
<1> DEFINE r == order[o]
           n == promise[o]
<1>1. /\ r.at = "paid" /\ n # NULL
      /\ order' = [order EXCEPT ![o].at = "shipped", ![o].tracking = n]
      /\ UNCHANGED <<cartVars, promise, charge, pipeline>>
      BY DEF Shipped
<1>2. /\ DOMAIN order' = Orders /\ order'[o] = [r EXCEPT !.at = "shipped", !.tracking = n]
      /\ \A w \in Orders \ {o} : order'[w] = order[w]
      BY <1>1, OrderFacts
<1>3. r = [at |-> r.at, user |-> r.user, items |-> r.items,
           before |-> r.before, tracking |-> r.tracking] /\ IsOrder(r) /\ GoodOrder(o)
      BY OrderFacts
<1>4. n \in Trackings /\ n = promise'[o] BY <1>1, OrderFacts
<1> HIDE DEF r, n
<1>5. order'[o] = [at |-> "shipped", user |-> r.user, items |-> r.items,
                   before |-> r.before, tracking |-> n]
      BY <1>2, <1>3
<1>6. IsOrder(order'[o])
  <2>1. r.user \in Users /\ IsCart(r.items) /\ r.before \in [Products -> Nat]
        BY <1>1, <1>3 DEF IsOrder
  <2> QED BY <1>4, <1>5, <2>1 DEF IsOrder, OrderStates
<1>7. /\ order'[o].at = "shipped" /\ order'[o].user = r.user /\ order'[o].tracking = n
      /\ order'[o].items = r.items /\ order'[o].before = r.before
      BY <1>5
<1>8. CartInv' /\ PaidItemsLeaveTheCart' BY <1>1, <1>2, <1>7, StillPaid
<1>9. GoodCharge(o)' BY <1>1, OrderFacts DEF GoodCharge
<1>10. GoodOrder(o)' BY <1>1, <1>3, <1>4, <1>7 DEF r, GoodOrder, cartVars
<1> QED BY <1>1, <1>2, <1>6, <1>8, <1>9, <1>10, OrderFacts, OneOrderChanges DEF cartVars

\* The order that is done takes all that is in the cart, what it paid for
\* included, and no more than what was in the cart leaves the carts of others.
LEMMA ClearPreserves ==
    ASSUME OrdersInv, NEW o \in Orders, ClearCart(o)
    PROVE  OrdersInv'
<1> DEFINE r == order[o]
           u == order[o].user
<1>1. /\ r.at = "shipped" /\ Unlocked(u)
      /\ cart' = [cart EXCEPT ![u] = EmptyCart]
      /\ gone' = [gone EXCEPT ![u] = [p \in Products |-> gone[u][p] + Quantity(cart[u], p)]]
      /\ order' = [order EXCEPT ![o].at = "done"]
      /\ UNCHANGED <<edit, added, promise, charge, pipeline>>
      BY DEF ClearCart
<1>2. /\ r = [at |-> r.at, user |-> r.user, items |-> r.items,
              before |-> r.before, tracking |-> r.tracking]
      /\ IsOrder(r) /\ GoodOrder(o) /\ CartInv
      BY OrderFacts
<1>3. u \in Users BY <1>1, <1>2 DEF IsOrder
<1>4. /\ CartInv'
      /\ \A p \in Products : Quantity(cart'[u], p) = 0
      /\ \A v \in Users \ {u} : cart'[v] = cart[v]
      BY <1>1, <1>2, <1>3, ClearCartPreserves
<1>5. /\ DOMAIN order' = Orders /\ order'[o] = [r EXCEPT !.at = "done"]
      /\ \A w \in Orders \ {o} : order'[w] = order[w]
      BY <1>1, OrderFacts
<1> HIDE DEF r
<1>6. order'[o] = [at |-> "done", user |-> r.user, items |-> r.items,
                   before |-> r.before, tracking |-> r.tracking]
      BY <1>2, <1>5
<1>7. IsOrder(order'[o]) BY <1>1, <1>2, <1>6 DEF IsOrder, OrderStates
<1>8. /\ order'[o].at = "done" /\ order'[o].user = r.user /\ order'[o].items = r.items
      /\ order'[o].before = r.before /\ order'[o].tracking = r.tracking
      BY <1>6
<1>9. GoodCharge(o)' BY <1>1, OrderFacts DEF GoodCharge
<1>10. GoodOrder(o)' BY <1>1, <1>2, <1>8 DEF r, GoodOrder
<1>11. PaidItemsLeaveTheCart'
  <2> SUFFICES ASSUME NEW w \in Orders, NEW p \in Products, order'[w].at = "done"
               PROVE  Quantity(cart'[order'[w].user], p)
                         =< added[order'[w].user][p] - order'[w].before[p]
      BY <1>1 DEF PaidItemsLeaveTheCart
  <2> DEFINE v == order'[w].user
  <2>1. IsOrder(order'[w]) BY <1>5, <1>7, OrderFacts
  <2>2. v \in Users /\ order'[w].before[p] \in Nat BY <2>1 DEF IsOrder
  <2>3. added[v][p] \in Nat /\ order'[w].before[p] =< added[v][p]
    <3>1. added[v][p] \in Nat BY <1>2, <2>2 DEF CartInv, CartTypes
    <3>2. CASE w = o BY <1>1, <1>2, <1>8, <3>1, <3>2 DEF r, GoodOrder
    <3>3. CASE w # o
      <4>1. order'[w] = order[w] /\ GoodOrder(w) BY <1>5, <3>3 DEF OrdersInv
      <4> QED BY <3>1, <4>1 DEF GoodOrder
    <3> QED BY <3>1, <3>2, <3>3
  <2>4. CASE v = u
    <3>1. Quantity(cart'[v], p) = 0 BY <1>4, <2>4
    <3> QED BY <2>2, <2>3, <3>1
  <2>5. CASE v # u
    <3>1. w # o BY <1>8, <2>5 DEF r
    <3>2. order'[w] = order[w] BY <1>5, <3>1
    <3>3. cart'[v] = cart[v] BY <1>4, <2>2, <2>5
    <3> QED BY <3>2, <3>3 DEF OrdersInv, PaidItemsLeaveTheCart
  <2> QED BY <2>4, <2>5
<1> QED BY <1>1, <1>4, <1>5, <1>7, <1>9, <1>10, <1>11, OrderFacts, OneOrderChanges

\* A signal is heard once, so that an order that went on keeps its number.
LEMMA ConfirmPreserves ==
    ASSUME OrdersInv, NEW o \in Orders, NEW n \in Trackings \cup {Blank}, ConfirmShipment(o, n)
    PROVE  OrdersInv'
<1>1. /\ n \in Trackings /\ promise[o] = NULL
      /\ promise' = [promise EXCEPT ![o] = n]
      /\ UNCHANGED <<cartVars, order, charge, pipeline>>
      BY DEF ConfirmShipment
<1>2. /\ promise' \in [Orders -> Trackings \cup {NULL}]
      /\ \A w \in Orders \ {o} : promise'[w] = promise[w]
      BY <1>1, OrderFacts
<1>3. CartInv'
      BY <1>1, OrderFacts DEF cartVars, CartInv, CartTypes, EditsAreExclusive, NoItemLost
<1>4. PaidItemsLeaveTheCart'
      BY <1>1 DEF cartVars, OrdersInv, PaidItemsLeaveTheCart
<1>5. GoodCharge(o)' BY <1>1, OrderFacts DEF GoodCharge
<1>6. GoodOrder(o)' BY <1>1, OrderFacts DEF GoodOrder, cartVars
<1> QED BY <1>1, <1>2, <1>3, <1>4, <1>5, <1>6, OrderFacts, OneOrderChanges DEF cartVars

-----------------------------------------------------------------------------
(* Theorems                                                                *)

LEMMA StepPreserves ==
    ASSUME OrdersInv, [Next]_vars
    PROVE  OrdersInv'
<1>1. CASE UNCHANGED vars
  <2>1. CartInv' BY <1>1, Parts
        DEF vars, cartVars, CartInv, CartTypes, EditsAreExclusive, NoItemLost
  <2>2. Shopping
    <3>1. \A u \in Users, p \in Products :
             added[u][p] \in Nat /\ Quantity(cart[u], p) \in Nat
          BY Parts, QuantityType DEF CartInv, CartTypes
    <3> QED BY <1>1, <3>1 DEF vars, cartVars, Shopping
  <2> QED BY <2>1, <2>2, ShoppingPreserves
<1>2. ASSUME NEW s \in Shoppers, NEW u \in Users, NEW p \in Products,
             \/ \E price \in Prices, n \in Quantities :
                   AddItem(s, u, [productId |-> p, price |-> price, quantity |-> n])
             \/ RemoveItem(s, u, p)
      PROVE  OrdersInv'
  <2>1. PICK change \in Items \cup Removals : BeginEdit(s, u, change)
    <3>1. CASE RemoveItem(s, u, p) BY <3>1 DEF RemoveItem, Removals
    <3>2. CASE \E price \in Prices, n \in Quantities :
                  AddItem(s, u, [productId |-> p, price |-> price, quantity |-> n])
          BY <3>2 DEF AddItem, Items
    <3> QED BY <1>2, <3>1, <3>2
  <2> QED BY <2>1, Parts, BeginEditPreserves, ShoppingPreserves
<1>3. ASSUME NEW s \in Shoppers, EndEdit(s) PROVE OrdersInv'
      BY <1>3, Parts, EndAddPreserves, EndRemovePreserves, ShoppingPreserves DEF EndEdit
<1>4. ASSUME NEW o \in Orders, NEW u \in Users, CreateOrder(o, u) PROVE OrdersInv'
      BY <1>4, CreatePreserves
<1>5. ASSUME NEW o \in Orders, NEW n \in Trackings \cup {Blank}, ConfirmShipment(o, n)
      PROVE  OrdersInv'
      BY <1>5, ConfirmPreserves
<1>6. ASSUME NEW o \in Orders, OrderStep(o) \/ ClearCart(o) PROVE OrdersInv'
      BY <1>6, ReadCartPreserves, ChargeReturnedPreserves, ShippedPreserves, ClearPreserves
      DEF OrderStep
<1>7. ASSUME NEW c \in Requests, NEW a \in Amounts, RequestCharge(c, a) PROVE OrdersInv'
      BY <1>7, RequestPreserves
<1>8. ASSUME NEW c \in Callers, ChargeStep(c) \/ AttemptDies(c) PROVE OrdersInv'
      BY <1>8, ChargePreserves
<1> QED BY <1>1, <1>2, <1>3, <1>4, <1>5, <1>6, <1>7, <1>8 DEF Next

\* OrdersInv is inductive: it holds in every reachable state.
THEOREM OrdersInvariant == Spec => []OrdersInv
<1>1. OrdersInv /\ [Next]_vars => OrdersInv' BY StepPreserves
<1> QED BY InitOrdersInv, <1>1, PTL DEF Spec

\* Types (TypeOK), for every value of the constants.
THEOREM OrdersTypeCorrect == Spec => []TypeOK
<1>1. OrdersInv => TypeOK BY DEF OrdersInv
<1> QED BY OrdersInvariant, <1>1, PTL

\* addItem, removeItem and clear never see a cart that another is changing.
THEOREM HandlersAreExclusive == Spec => []EditsAreExclusive
<1>1. OrdersInv => EditsAreExclusive BY DEF OrdersInv
<1> QED BY OrdersInvariant, <1>1, PTL

\* No interleaving of addItem, removeItem and clear loses an item.
THEOREM ItemsAreKept == Spec => []NoItemLost
<1>1. OrdersInv => NoItemLost BY DEF OrdersInv
<1> QED BY OrdersInvariant, <1>1, PTL

\* What a completed order paid for is not in the cart that it read any more.
THEOREM PaidItemsLeave == Spec => []PaidItemsLeaveTheCart
<1>1. OrdersInv => PaidItemsLeaveTheCart BY DEF OrdersInv
<1> QED BY OrdersInvariant, <1>1, PTL

\* A completed order was charged the total of what it read.
THEOREM CompletedOrdersArePaid == Spec => []CompletedMeansPaid
<1>1. ASSUME OrdersInv, NEW o \in Orders, order[o].at = "done"
      PROVE  /\ charge[o].at = "charged" /\ charge[o].calls > 0
             /\ DOMAIN order[o].items # {} /\ charge[o].amount = Total(order[o].items)
             /\ order[o].tracking = promise[o] /\ promise[o] \in Trackings
      BY <1>1, OrderFacts DEF GoodOrder, GoodCharge
<1>2. OrdersInv => CompletedMeansPaid BY <1>1 DEF CompletedMeansPaid
<1> QED BY OrdersInvariant, <1>2, PTL

\* An order that failed never had the gateway called.
THEOREM FailedOrdersAreUnpaid == Spec => []FailedMeansUnpaid
<1>1. ASSUME OrdersInv, NEW o \in Orders, order[o].at = "failed"
      PROVE  charge[o].calls = 0
  <2>1. GoodOrder(o) /\ GoodCharge(o) /\ charge[o].calls \in Nat
        BY <1>1, OrderFacts DEF IsCharge
  <2> QED BY <1>1, <2>1 DEF GoodOrder, GoodCharge
<1>2. OrdersInv => FailedMeansUnpaid BY <1>1 DEF FailedMeansUnpaid
<1> QED BY OrdersInvariant, <1>2, PTL

\* The gateway is never called for an amount over the limit.
THEOREM GuardHolds == Spec => []LimitHolds
<1>1. OrdersInv => LimitHolds BY DEF OrdersInv, GoodCharge, LimitHolds
<1> QED BY OrdersInvariant, <1>1, PTL

\* Every call of the gateway but one was made by an attempt that died.
THEOREM ChargesAreNotRepeated == Spec => []ChargedOnceUnlessAttemptsDie
<1>1. ASSUME OrdersInv, NEW c \in Callers PROVE charge[c].calls =< 1 + charge[c].deaths
  <2>1. GoodCharge(c) /\ charge[c].calls \in Nat /\ charge[c].deaths \in Nat
        BY <1>1, Parts DEF ChargeTypes, IsCharge
  <2> QED BY <2>1 DEF GoodCharge
<1>2. OrdersInv => ChargedOnceUnlessAttemptsDie
      BY <1>1 DEF ChargedOnceUnlessAttemptsDie
<1> QED BY OrdersInvariant, <1>2, PTL

-----------------------------------------------------------------------------
(* The promise: Orders implements ShopPromise.                             *)

LEMMA InitImplementsShop == Init => Shop!Init
<1> SUFFICES ASSUME Init PROVE Shop!Init OBVIOUS
<1>1. \A o \in Orders : Stage(o) = "none" /\ order[o].user = NULL BY DEF Init, Stage
<1>2. \A c \in Callers : Due(c) = "none" /\ charge[c].amount = NULL BY DEF Init, Due
<1>3. pipeline.guards \in BOOLEAN
      BY OrdersAssumption DEF OrdersAssumption, Pipeline, Init
<1>4. cart = [u \in Users |-> Shop!Nothing] BY DEF Init, EmptyCart, Shop!Nothing
<1> QED BY <1>1, <1>2, <1>3, <1>4 DEF Init, Shop!Init

\* What addItem writes is the cart with the item put into it.
LEMMA AddingPuts ==
    ASSUME NEW items, IsCart(items), NEW i \in Items
    PROVE  WithItem(items, i) = Shop!With(items, i)
<1> DEFINE P == i.productId
<1>1. i.quantity \in Nat BY OrdersAssumption DEF OrdersAssumption, Items
<1>2. ASSUME NEW p \in DOMAIN items
      PROVE  /\ items[p] = [price |-> items[p].price, quantity |-> items[p].quantity]
             /\ items[p].quantity \in Nat /\ Quantity(items, p) = items[p].quantity
      BY DEF IsCart, Lines, Quantity
<1>3. CASE P \in DOMAIN items
  <2>1. Shop!With(items, i) =
           [p \in DOMAIN items |->
              IF p = P THEN [items[p] EXCEPT !.quantity = items[p].quantity + i.quantity]
              ELSE items[p]]
        BY <1>3 DEF Shop!With, IsCart
  <2>2. WithItem(items, i) =
           [p \in DOMAIN items |->
              [price |-> items[p].price,
               quantity |-> Quantity(items, p) + IF p = P THEN i.quantity ELSE 0]]
        BY <1>3 DEF WithItem
  <2>3. ASSUME NEW p \in DOMAIN items
        PROVE  [price |-> items[p].price,
                quantity |-> Quantity(items, p) + IF p = P THEN i.quantity ELSE 0]
               = IF p = P THEN [items[p] EXCEPT !.quantity = items[p].quantity + i.quantity]
                 ELSE items[p]
    <3>1. CASE p = P BY <1>1, <1>2, <3>1
    <3>2. CASE p # P BY <1>2, <3>2
    <3> QED BY <3>1, <3>2
  <2> QED BY <2>1, <2>2, <2>3
<1>4. CASE P \notin DOMAIN items
  <2>1. ASSUME NEW p \in DOMAIN items \cup {P}
        PROVE  [price |-> IF p \in DOMAIN items THEN items[p].price ELSE i.price,
                quantity |-> Quantity(items, p) + IF p = P THEN i.quantity ELSE 0]
               = IF p \in DOMAIN items THEN items[p]
                 ELSE [price |-> i.price, quantity |-> i.quantity]
    <3>1. CASE p \in DOMAIN items BY <1>2, <1>4, <3>1
    <3>2. CASE p \notin DOMAIN items
          BY <1>1, <1>4, <2>1, <3>2 DEF Quantity
    <3> QED BY <3>1, <3>2
  <2> QED BY <1>4, <2>1 DEF WithItem, Shop!With
<1> QED BY <1>3, <1>4

\* A handler takes effect when it writes, for it has seen all others' writes.
LEMMA EditingIsPromised ==
    ASSUME OrdersInv, NEW s \in Shoppers, EndEdit(s)
    PROVE  \E u \in Users : (\E i \in Items : Shop!Put(u, i))
                           \/ (\E p \in Products : Shop!Take(u, p))
<1> DEFINE u == edit[s].user
           i == edit[s].change
<1>1. /\ edit[s] # NULL /\ u \in Users /\ i \in Items \cup Removals
      /\ IsCart(cart[u]) /\ edit[s].items = cart[u]
      BY DEF EndEdit, EndAdd, EndRemove, OrdersInv, TypeOK, IsEdit, EditsAreExclusive
<1>2. /\ UNCHANGED <<order, promise, charge, pipeline>>
      /\ \A o \in Orders : Stage(o)' = Stage(o)
      /\ \A c \in Callers : Due(c)' = Due(c)
      BY DEF EndEdit, EndAdd, EndRemove, Stage, Due
<1>3. CASE EndAdd(s)
  <2>1. i \in Items BY <1>1, <1>3 DEF EndAdd, Removals
  <2>2. cart' = [cart EXCEPT ![u] = Shop!With(cart[u], i)]
        BY <1>1, <1>3, <2>1, AddingPuts DEF EndAdd
  <2>3. Shop!Put(u, i) BY <1>2, <2>2 DEF Shop!Put
  <2> QED BY <1>1, <2>1, <2>3
<1>4. CASE EndRemove(s)
  <2>1. i.productId \in Products BY <1>1, <1>4 DEF Items, Removals
  <2>2. cart' = [cart EXCEPT ![u] = [q \in DOMAIN cart[u] \ {i.productId} |-> cart[u][q]]]
        BY <1>1, <1>4 DEF EndRemove, WithoutItem
  <2>3. Shop!Take(u, i.productId) BY <1>2, <2>2 DEF Shop!Take
  <2> QED BY <1>1, <2>1, <2>3
<1> QED BY <1>3, <1>4 DEF EndEdit

\* The promise's view of orders and charges, of which a step changes one.
LEMMA OneStageChanges ==
    ASSUME NEW o \in Orders, \A w \in Orders \ {o} : order'[w] = order[w]
    PROVE  [w \in Orders |-> Stage(w)]' = [[w \in Orders |-> Stage(w)] EXCEPT ![o] = Stage(o)']
BY DEF Stage

LEMMA OneDueChanges ==
    ASSUME NEW c \in Callers, \A d \in Callers \ {c} : charge'[d] = charge[d]
    PROVE  /\ [d \in Callers |-> Due(d)]' = [[d \in Callers |-> Due(d)] EXCEPT ![c] = Due(c)']
           /\ [d \in Callers |-> charge[d].amount]' =
                 [[d \in Callers |-> charge[d].amount] EXCEPT ![c] = charge'[c].amount]
<1>1. \A d \in Callers \ {c} : Due(d)' = Due(d) BY DEF Due
<1>2. [d \in Callers |-> Due(d)]' = [[d \in Callers |-> Due(d)] EXCEPT ![c] = Due(c)']
      BY <1>1
<1> QED BY <1>2

\* A step that changes how far one order is, and not for whom.
LEMMA OneOrderMoves ==
    ASSUME OrdersInv, NEW o \in Orders, NEW at, order' = [order EXCEPT ![o].at = at]
    PROVE  /\ order'[o].at = at
           /\ \A w \in Orders \ {o} : order'[w] = order[w]
           /\ [w \in Orders |-> order[w].user]' = [w \in Orders |-> order[w].user]
<1>1. /\ order'[o] = [order[o] EXCEPT !.at = at]
      /\ \A w \in Orders \ {o} : order'[w] = order[w]
      BY OrderFacts
<1> DEFINE r == order[o]
<1>2. r = [at |-> r.at, user |-> r.user, items |-> r.items,
           before |-> r.before, tracking |-> r.tracking]
      BY OrderFacts
<1> HIDE DEF r
<1>3. order'[o] = [at |-> at, user |-> r.user, items |-> r.items,
                   before |-> r.before, tracking |-> r.tracking]
      BY <1>1, <1>2 DEF r
<1>4. order'[o].at = at /\ order'[o].user = order[o].user BY <1>3 DEF r
<1> QED BY <1>1, <1>4

\* POST orders places the order.
LEMMA CreatingPlaces ==
    ASSUME OrdersInv, NEW o \in Orders, NEW u \in Users, CreateOrder(o, u)
    PROVE  Shop!Place(o, u)
<1> DEFINE r == order[o]
<1>1. /\ r.at = "none"
      /\ order' = [order EXCEPT ![o].at = "submitted", ![o].user = u]
      /\ UNCHANGED <<cart, promise, charge, pipeline>>
      BY DEF CreateOrder, cartVars
<1>2. /\ order'[o] = [r EXCEPT !.at = "submitted", !.user = u]
      /\ \A w \in Orders \ {o} : order'[w] = order[w]
      /\ r = [at |-> r.at, user |-> r.user, items |-> r.items,
              before |-> r.before, tracking |-> r.tracking]
      BY <1>1, OrderFacts
<1> HIDE DEF r
<1>3. order'[o] = [at |-> "submitted", user |-> u, items |-> r.items,
                   before |-> r.before, tracking |-> r.tracking]
      BY <1>2
<1>4. order'[o].at = "submitted" /\ order'[o].user = u BY <1>3
<1>5. Stage(o) = "none" /\ Stage(o)' = "placed" BY <1>1, <1>4 DEF r, Stage
<1>6. [w \in Orders |-> Stage(w)]' = [[w \in Orders |-> Stage(w)] EXCEPT ![o] = "placed"]
      BY <1>2, <1>5, OneStageChanges
<1>7. [w \in Orders |-> order[w].user]' = [[w \in Orders |-> order[w].user] EXCEPT ![o] = u]
      BY <1>2, <1>4
<1>8. \A c \in Callers : Due(c)' = Due(c) BY <1>1 DEF Due
<1> QED BY <1>1, <1>5, <1>6, <1>7, <1>8 DEF Shop!Place

\* An order is billed for what getItems() returned, or fails for an empty cart.
LEMMA ReadingBills ==
    ASSUME OrdersInv, NEW o \in Orders, ReadCart(o)
    PROVE  Shop!Bill(o) \/ Shop!Fail(o)
<1> DEFINE r == order[o]
           items == cart[r.user]
<1>1. r.at = "submitted" /\ UNCHANGED <<cart, promise, pipeline>> BY DEF ReadCart, cartVars
<1>2. /\ r = [at |-> r.at, user |-> r.user, items |-> r.items,
              before |-> r.before, tracking |-> r.tracking]
      /\ IsOrder(r) /\ charge[o].at = "none" /\ o \in Callers
      BY <1>1, OrderFacts DEF GoodOrder
<1>3. IsCart(items) BY <1>1, <1>2, OrderFacts DEF IsOrder, CartInv, CartTypes
<1>4. Stage(o) = "placed" BY <1>1 DEF Stage
<1>5. DOMAIN items = {} <=> items = Shop!Nothing BY <1>3 DEF IsCart, Shop!Nothing
<1>6. CASE DOMAIN items = {}
  <2>1. order' = [order EXCEPT ![o].at = "failed"] /\ charge' = charge
        BY <1>6 DEF ReadCart
  <2>2. /\ order'[o].at = "failed" /\ \A w \in Orders \ {o} : order'[w] = order[w]
        /\ [w \in Orders |-> order[w].user]' = [w \in Orders |-> order[w].user]
        BY <2>1, OneOrderMoves
  <2>3. Stage(o)' = "failed" BY <2>2 DEF Stage
  <2>4. [w \in Orders |-> Stage(w)]' = [[w \in Orders |-> Stage(w)] EXCEPT ![o] = "failed"]
        BY <2>2, <2>3, OneStageChanges
  <2>5. \A c \in Callers : Due(c)' = Due(c) BY <2>1 DEF Due
  <2> QED BY <1>1, <1>4, <1>5, <1>6, <2>1, <2>2, <2>4, <2>5 DEF Shop!Fail
<1>7. CASE DOMAIN items # {}
  <2> DEFINE sum == Total(items)
             c == charge[o]
  <2>1. /\ order' = [order EXCEPT ![o].at = "charging", ![o].items = items,
                                  ![o].before = added[r.user]]
        /\ charge' = [charge EXCEPT ![o].at = "invoked", ![o].amount = sum]
        BY <1>7 DEF ReadCart
  <2>2. /\ order'[o] = [r EXCEPT !.at = "charging", !.items = items, !.before = added[r.user]]
        /\ \A w \in Orders \ {o} : order'[w] = order[w]
        BY <2>1, OrderFacts
  <2>3. /\ charge'[o] = [c EXCEPT !.at = "invoked", !.amount = sum]
        /\ \A d \in Callers \ {o} : charge'[d] = charge[d]
        /\ IsCharge(c) /\ c.calls = 0
        BY <1>2, <2>1, OrderFacts DEF IsCharge, GoodCharge
  <2>4. sum = Total(cart[order[o].user]) OBVIOUS
  <2> HIDE DEF c, sum
  <2>5. charge'[o] = [at |-> "invoked", amount |-> sum, calls |-> 0, deaths |-> c.deaths]
        BY <2>3 DEF IsCharge
  <2>6. charge'[o].at = "invoked" /\ charge'[o].calls = 0 /\ charge'[o].amount = sum
        BY <2>5
  <2> HIDE DEF r, items
  <2>7. order'[o] = [at |-> "charging", user |-> r.user, items |-> items,
                     before |-> added[r.user], tracking |-> r.tracking]
        BY <1>2, <2>2
  <2>8. order'[o].at = "charging" /\ order'[o].user = order[o].user BY <2>7 DEF r
  <2>9. Stage(o)' = "billed" /\ Due(o)' = "due" BY <2>6, <2>8 DEF Stage, Due
  <2>10. [w \in Orders |-> Stage(w)]' = [[w \in Orders |-> Stage(w)] EXCEPT ![o] = "billed"]
         BY <2>2, <2>9, OneStageChanges
  <2>11. [w \in Orders |-> order[w].user]' = [w \in Orders |-> order[w].user]
         BY <2>2, <2>8
  <2>12. /\ [d \in Callers |-> Due(d)]' = [[d \in Callers |-> Due(d)] EXCEPT ![o] = "due"]
         /\ [d \in Callers |-> charge[d].amount]' =
               [[d \in Callers |-> charge[d].amount] EXCEPT ![o] = sum]
         BY <1>2, <2>3, <2>6, <2>9, OneDueChanges
  <2>13. cart[[w \in Orders |-> order[w].user][o]] = items BY DEF r, items
  <2> QED BY <1>1, <1>4, <1>5, <1>7, <2>4, <2>10, <2>11, <2>12, <2>13
          DEF r, items, Shop!Bill
<1> QED BY <1>6, <1>7

\* The answer of charge() changes nothing, or fails the order that is refused.
LEMMA ReturningFails ==
    ASSUME OrdersInv, NEW o \in Orders, ChargeReturned(o)
    PROVE  Shop!Fail(o) \/ UNCHANGED Shop!vars
<1>1. order[o].at = "charging" /\ UNCHANGED <<cart, promise, charge, pipeline>>
      BY DEF ChargeReturned, cartVars
<1>2. \A c \in Callers : Due(c)' = Due(c) BY <1>1 DEF Due
<1>3. Stage(o) = "billed" BY <1>1 DEF Stage
<1>4. CASE charge[o].at = "charged"
  <2>1. order' = [order EXCEPT ![o].at = "paid"] BY <1>4 DEF ChargeReturned
  <2>2. /\ order'[o].at = "paid" /\ \A w \in Orders \ {o} : order'[w] = order[w]
        /\ [w \in Orders |-> order[w].user]' = [w \in Orders |-> order[w].user]
        BY <2>1, OneOrderMoves
  <2>3. \A w \in Orders : Stage(w)' = Stage(w) BY <1>3, <2>2 DEF Stage
  <2> QED BY <1>1, <1>2, <2>2, <2>3 DEF Shop!vars
<1>5. CASE charge[o].at # "charged"
  <2>1. order' = [order EXCEPT ![o].at = "failed"] /\ charge[o].at = "rejected"
        BY <1>5 DEF ChargeReturned
  <2>2. /\ order'[o].at = "failed" /\ \A w \in Orders \ {o} : order'[w] = order[w]
        /\ [w \in Orders |-> order[w].user]' = [w \in Orders |-> order[w].user]
        BY <2>1, OneOrderMoves
  <2>3. Stage(o)' = "failed" /\ Due(o) = "refused" /\ o \in Callers
        BY <2>1, <2>2 DEF Stage, Due, Callers
  <2>4. [w \in Orders |-> Stage(w)]' = [[w \in Orders |-> Stage(w)] EXCEPT ![o] = "failed"]
        BY <2>2, <2>3, OneStageChanges
  <2> QED BY <1>1, <1>2, <1>3, <2>2, <2>3, <2>4 DEF Shop!Fail
<1> QED BY <1>4, <1>5

\* That the workflow heard its signal changes nothing that was promised.
LEMMA ShippedStutters ==
    ASSUME OrdersInv, NEW o \in Orders, Shipped(o)
    PROVE  UNCHANGED Shop!vars
<1> DEFINE r == order[o]
           n == promise[o]
<1>1. /\ r.at = "paid"
      /\ order' = [order EXCEPT ![o].at = "shipped", ![o].tracking = n]
      /\ UNCHANGED <<cart, promise, charge, pipeline>>
      BY DEF Shipped, cartVars
<1>2. /\ order'[o] = [r EXCEPT !.at = "shipped", !.tracking = n]
      /\ \A w \in Orders \ {o} : order'[w] = order[w]
      /\ r = [at |-> r.at, user |-> r.user, items |-> r.items,
              before |-> r.before, tracking |-> r.tracking]
      BY <1>1, OrderFacts
<1> HIDE DEF r, n
<1>3. order'[o] = [at |-> "shipped", user |-> r.user, items |-> r.items,
                   before |-> r.before, tracking |-> n]
      BY <1>2
<1>4. order'[o].at = "shipped" /\ order'[o].user = order[o].user BY <1>3 DEF r
<1>5. \A w \in Orders : Stage(w)' = Stage(w) /\ order'[w].user = order[w].user
      BY <1>1, <1>2, <1>4 DEF r, Stage
<1>6. \A c \in Callers : Due(c)' = Due(c) BY <1>1 DEF Due
<1> QED BY <1>1, <1>5, <1>6 DEF Shop!vars

\* clear() is the end of an order that was paid and sent.
LEMMA ClearingFinishes ==
    ASSUME OrdersInv, NEW o \in Orders, ClearCart(o)
    PROVE  Shop!Finish(o)
<1>1. /\ order[o].at = "shipped"
      /\ cart' = [cart EXCEPT ![order[o].user] = Shop!Nothing]
      /\ order' = [order EXCEPT ![o].at = "done"]
      /\ UNCHANGED <<promise, charge, pipeline>>
      BY DEF ClearCart, EmptyCart, Shop!Nothing
<1>2. /\ o \in Callers /\ charge[o].at = "charged" /\ charge[o].calls > 0
      /\ promise[o] # NULL
      BY <1>1, OrderFacts DEF GoodOrder, GoodCharge
<1>3. Stage(o) = "billed" /\ Due(o) = "paid" BY <1>1, <1>2 DEF Stage, Due
<1>4. /\ order'[o].at = "done" /\ \A w \in Orders \ {o} : order'[w] = order[w]
      /\ [w \in Orders |-> order[w].user]' = [w \in Orders |-> order[w].user]
      BY <1>1, OneOrderMoves
<1>5. Stage(o)' = "done" BY <1>4 DEF Stage
<1>6. [w \in Orders |-> Stage(w)]' = [[w \in Orders |-> Stage(w)] EXCEPT ![o] = "done"]
      BY <1>4, <1>5, OneStageChanges
<1>7. \A c \in Callers : Due(c)' = Due(c) BY <1>1 DEF Due
<1> QED BY <1>1, <1>2, <1>3, <1>4, <1>6, <1>7 DEF Shop!Finish

\* The first signal of an order sends it, and no other does.
LEMMA ConfirmingSends ==
    ASSUME OrdersInv, NEW o \in Orders, NEW n \in Trackings \cup {Blank}, ConfirmShipment(o, n)
    PROVE  n \in Trackings /\ Shop!Send(o, n)
<1>1. /\ n \in Trackings /\ promise[o] = NULL
      /\ promise' = [promise EXCEPT ![o] = n]
      /\ UNCHANGED <<cart, order, charge, pipeline>>
      BY DEF ConfirmShipment, cartVars
<1>2. /\ \A w \in Orders : Stage(w)' = Stage(w)
      /\ \A c \in Callers : Due(c)' = Due(c)
      BY <1>1 DEF Stage, Due
<1> QED BY <1>1, <1>2 DEF Shop!Send

\* A charge that belongs to no order is asked for.
LEMMA RequestingAsks ==
    ASSUME OrdersInv, NEW c \in Requests, NEW a \in Amounts, RequestCharge(c, a)
    PROVE  c \in Callers \ Orders /\ Shop!Ask(c, a)
<1> DEFINE r == charge[c]
<1>1. c \in Callers \ Orders BY OrdersAssumption DEF OrdersAssumption, Callers
<1>2. /\ r.at = "none"
      /\ charge' = [charge EXCEPT ![c].at = "invoked", ![c].amount = a]
      /\ UNCHANGED <<cart, order, promise, pipeline>>
      BY DEF RequestCharge, cartVars
<1>3. IsCharge(r) /\ r.calls = 0 /\ DOMAIN charge = Callers
      BY <1>1, <1>2 DEF OrdersInv, TypeOK, IsCharge, GoodCharge
<1>4. /\ charge'[c] = [r EXCEPT !.at = "invoked", !.amount = a]
      /\ \A d \in Callers \ {c} : charge'[d] = charge[d]
      BY <1>1, <1>2, <1>3
<1> HIDE DEF r
<1>5. charge'[c] = [at |-> "invoked", amount |-> a, calls |-> 0, deaths |-> r.deaths]
      BY <1>3, <1>4 DEF IsCharge
<1>6. charge'[c].at = "invoked" /\ charge'[c].calls = 0 /\ charge'[c].amount = a BY <1>5
<1>7. Due(c) = "none" /\ Due(c)' = "due" BY <1>2, <1>6 DEF r, Due
<1>8. /\ [d \in Callers |-> Due(d)]' = [[d \in Callers |-> Due(d)] EXCEPT ![c] = "due"]
      /\ [d \in Callers |-> charge[d].amount]' =
            [[d \in Callers |-> charge[d].amount] EXCEPT ![c] = a]
      BY <1>1, <1>4, <1>6, <1>7, OneDueChanges
<1>9. \A w \in Orders : Stage(w)' = Stage(w) BY <1>2 DEF Stage
<1> QED BY <1>1, <1>2, <1>7, <1>8, <1>9 DEF Shop!Ask

\* A step of a charge changes what is due only where it pays or refuses it.
LEMMA ChargingPays ==
    ASSUME OrdersInv, NEW c \in Callers, ChargeStep(c) \/ AttemptDies(c)
    PROVE  Shop!Pay(c) \/ Shop!Refuse(c) \/ UNCHANGED Shop!vars
<1> DEFINE Over == pipeline.guards /\ OverLimit(charge[c].amount)
<1>1. /\ UNCHANGED <<cart, order, promise, pipeline>>
      /\ \A d \in Callers \ {c} : charge'[d] = charge[d]
      /\ charge[c].at \in {"invoked", "admitted", "processed", "backoff"}
      /\ charge'[c].amount = charge[c].amount /\ charge'[c].at # "none"
      /\ IsCharge(charge[c]) /\ IsCharge(charge'[c])
      /\ GoodCharge(c) /\ GoodCharge(c)'
      BY ChargeEffect DEF cartVars, OrdersInv, TypeOK
<1>2. /\ \A w \in Orders : Stage(w)' = Stage(w)
      /\ [d \in Callers |-> Due(d)]' = [[d \in Callers |-> Due(d)] EXCEPT ![c] = Due(c)']
      /\ [d \in Callers |-> charge[d].amount]' = [d \in Callers |-> charge[d].amount]
  <2>1. \A w \in Orders : Stage(w)' = Stage(w) BY <1>1 DEF Stage
  <2>2. \A d \in Callers : charge'[d].amount = charge[d].amount BY <1>1
  <2> QED BY <1>1, <2>1, <2>2, OneDueChanges
<1>3. Shop!Acceptable(c) <=> ~Over
      BY DEF Shop!Acceptable, OverLimit
<1>4. /\ charge[c].calls \in Nat /\ charge'[c].calls \in Nat
      /\ charge[c].calls =< charge'[c].calls
      BY <1>1, ChargeEffect DEF IsCharge
<1>5. Due(c) = IF charge[c].calls > 0 THEN "paid" ELSE "due"
      BY <1>1, <1>4 DEF Due
<1>6. charge[c].calls > 0 \/ charge'[c].calls > 0 => ~Over
      BY <1>1 DEF GoodCharge
<1>7. CASE charge'[c].at = "rejected"
  <2>1. Over BY <1>1, <1>7 DEF GoodCharge
  <2>2. Due(c) = "due" /\ Due(c)' = "refused" BY <1>4, <1>5, <1>6, <1>7, <2>1 DEF Due
  <2> QED BY <1>1, <1>2, <1>3, <2>1, <2>2 DEF Shop!Refuse
<1>8. CASE charge'[c].at # "rejected" /\ Due(c) = "due" /\ charge'[c].calls > 0
  <2>1. Due(c)' = "paid" BY <1>1, <1>8 DEF Due
  <2> QED BY <1>1, <1>2, <1>3, <1>6, <1>8, <2>1 DEF Shop!Pay
<1>9. CASE charge'[c].at # "rejected" /\ ~(Due(c) = "due" /\ charge'[c].calls > 0)
  <2>1. Due(c)' = Due(c) BY <1>1, <1>4, <1>5, <1>9 DEF Due
  <2>2. \A d \in Callers : Due(d)' = Due(d) BY <1>1, <2>1 DEF Due
  <2> QED BY <1>1, <1>2, <2>2 DEF Shop!vars
<1> QED BY <1>7, <1>8, <1>9

\* Every step is a step of the promise, or leaves alone what it is about.
LEMMA StepImplementsShop ==
    ASSUME OrdersInv, [Next]_vars
    PROVE  [Shop!Next]_(Shop!vars)
<1>1. CASE UNCHANGED vars
  <2>1. /\ \A w \in Orders : Stage(w)' = Stage(w)
        /\ \A c \in Callers : Due(c)' = Due(c)
        BY <1>1 DEF vars, cartVars, Stage, Due
  <2> QED BY <1>1, <2>1 DEF vars, cartVars, Shop!vars
<1>2. ASSUME NEW s \in Shoppers, NEW u \in Users, NEW p \in Products,
             \/ \E price \in Prices, n \in Quantities :
                   AddItem(s, u, [productId |-> p, price |-> price, quantity |-> n])
             \/ RemoveItem(s, u, p)
      PROVE  UNCHANGED Shop!vars
  <2>1. UNCHANGED <<cart, order, promise, charge, pipeline>>
        BY <1>2 DEF AddItem, RemoveItem, BeginEdit
  <2>2. /\ \A w \in Orders : Stage(w)' = Stage(w)
        /\ \A c \in Callers : Due(c)' = Due(c)
        BY <2>1 DEF Stage, Due
  <2> QED BY <2>1, <2>2 DEF Shop!vars
<1>3. ASSUME NEW s \in Shoppers, EndEdit(s) PROVE Shop!Next
      BY <1>3, EditingIsPromised DEF Shop!Next
<1>4. ASSUME NEW o \in Orders, NEW u \in Users, CreateOrder(o, u) PROVE Shop!Next
      BY <1>4, CreatingPlaces DEF Shop!Next
<1>5. ASSUME NEW o \in Orders, NEW n \in Trackings \cup {Blank}, ConfirmShipment(o, n)
      PROVE  Shop!Next
      BY <1>5, ConfirmingSends DEF Shop!Next
<1>6. ASSUME NEW o \in Orders, OrderStep(o) \/ ClearCart(o)
      PROVE  Shop!Next \/ UNCHANGED Shop!vars
  <2>1. CASE ReadCart(o) BY <2>1, ReadingBills DEF Shop!Next
  <2>2. CASE ChargeReturned(o) BY <2>2, ReturningFails DEF Shop!Next
  <2>3. CASE Shipped(o) BY <2>3, ShippedStutters
  <2>4. CASE ClearCart(o) BY <2>4, ClearingFinishes DEF Shop!Next
  <2> QED BY <1>6, <2>1, <2>2, <2>3, <2>4 DEF OrderStep
<1>7. ASSUME NEW c \in Requests, NEW a \in Amounts, RequestCharge(c, a) PROVE Shop!Next
      BY <1>7, RequestingAsks DEF Shop!Next
<1>8. ASSUME NEW c \in Callers, ChargeStep(c) \/ AttemptDies(c)
      PROVE  Shop!Next \/ UNCHANGED Shop!vars
      BY <1>8, ChargingPays DEF Shop!Next
<1> QED BY <1>1, <1>2, <1>3, <1>4, <1>5, <1>6, <1>7, <1>8 DEF Next

\* Handlers, attempts, retries and journals keep what the shop promises: carts
\* change by whole puts and takes, orders are billed for what is in the cart,
\* and a charge is paid or refused once, whatever dies.
THEOREM ImplementsShopAlways == Spec => ImplementsShop
<1>1. OrdersInv /\ [Next]_vars => [Shop!Next]_(Shop!vars) BY StepImplementsShop
<1> QED BY <1>1, InitImplementsShop, OrdersInvariant, PTL DEF Spec, ImplementsShop, Shop!Spec

=============================================================================
