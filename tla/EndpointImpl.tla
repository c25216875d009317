---------------------------- MODULE EndpointImpl ----------------------------
(***************************************************************************)
(* The refinement mapping under which Endpoint implements EndpointPromise. *)
(***************************************************************************)
EXTENDS Endpoint

\* The phase of the endpoint, read off the manager's fields.
Phase ==
    CASE endpointHandler = NULL -> "down"
      [] endpointHandler # NULL /\ pc[endpointHandler] = "listening" -> "starting"
      [] /\ endpointHandler # NULL
         /\ pc[endpointHandler] # "listening"
         /\ httpServer \in Calls /\ server[httpServer] = "closing" -> "draining"
      [] OTHER -> "up"

Promise == INSTANCE EndpointPromise
             WITH Owners <- Calls, phase <- Phase, owner <- endpointHandler,
                  serving <- Serving

\* Every step of the manager is a step of the promised life cycle or leaves
\* it alone, and the starts and drains it begins do end.
ImplementsPromise == Promise!FairSpec

\* The same without the liveness part.
ImplementsPromiseSteps == Promise!Spec
=============================================================================
