---------------------------- MODULE MCInvocation ----------------------------
(* Small instances of Invocation for TLC: a service and a virtual object.  *)
EXTENDS Invocation, TLC

MetaOf == [c \in Classes |->
    CASE c = "Payment" -> [type |-> "service", name |-> "payment"]
      [] c = "Cart"    -> [type |-> "object", name |-> "cart"]]

\* Tasks are interchangeable, and so are invocations.
Symmetry == Permutations(Tasks) \cup Permutations(Invocations)
=============================================================================
