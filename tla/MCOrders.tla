------------------------------ MODULE MCOrders ------------------------------
(* Small instances of Orders for TLC. *)
EXTENDS OrdersImpl, TLC

OnePrice == {3}
CentsPrices == {2, 3}
\* Absent, at the limit, and over it.
CentsAmounts == {NULL, 5, 6}
GuardedPipelines == {q \in Pipeline : q.guards}
\* The pipeline of the example: main.ts and app.module.ts install no filter.
ExamplePipeline == {[guards |-> TRUE, terminal |-> FALSE]}
=============================================================================
