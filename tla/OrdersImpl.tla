----------------------------- MODULE OrdersImpl -----------------------------
(***************************************************************************)
(* The refinement mapping under which Orders implements ShopPromise.  A    *)
(* cart handler takes effect when it writes; a charge is paid when the     *)
(* gateway is called for the first time, whatever attempts do afterwards.  *)
(***************************************************************************)
EXTENDS Orders

Stage(o) ==
    CASE order[o].at = "submitted" -> "placed"
      [] order[o].at \in {"charging", "paid", "shipped"} -> "billed"
      [] OTHER -> order[o].at

Due(c) ==
    CASE charge[c].at = "none" -> "none"
      [] charge[c].at = "rejected" -> "refused"
      [] charge[c].at \notin {"none", "rejected"} /\ charge[c].calls > 0 -> "paid"
      [] OTHER -> "due"

Shop == INSTANCE ShopPromise WITH
    Cost    <- Total,
    checked <- pipeline.guards,
    stage   <- [o \in Orders |-> Stage(o)],
    owner   <- [o \in Orders |-> order[o].user],
    bill    <- [c \in Callers |-> charge[c].amount],
    due     <- [c \in Callers |-> Due(c)],
    sent    <- promise

\* Every step of handlers, attempts and retries is one that was promised, or
\* leaves alone what the promise is about.
ImplementsShop == Shop!Spec
=============================================================================
