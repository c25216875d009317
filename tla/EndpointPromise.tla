-------------------------- MODULE EndpointPromise --------------------------
(***************************************************************************)
(* What RestateEndpointManager promises its module: one endpoint with a    *)
(* life cycle, which serves requests with one handler while it is up and   *)
(* with none otherwise.  Endpoint implements it when callers never stop    *)
(* during a listen (see EndpointImpl).                                     *)
(***************************************************************************)
EXTENDS Naturals

CONSTANTS Owners, NULL

VARIABLES
    phase,    \* "down", "starting", "up" or "draining"
    owner,    \* the start() call in charge, or NULL
    serving   \* the handlers that requests reach

vars == <<phase, owner, serving>>

Init == phase = "down" /\ owner = NULL /\ serving = {}

\* A start() takes charge of an endpoint that is down.
Begin(c) ==
    /\ phase = "down"
    /\ owner' = c
    /\ \/ phase' = "starting" /\ serving' = {}
       \/ phase' = "up" /\ serving' \in {{}, {c}}

\* The listen that was begun succeeds or fails.
Settle ==
    /\ phase = "starting"
    /\ \/ phase' = "up" /\ owner' = owner /\ serving' = {owner}
       \/ phase' = "down" /\ owner' = NULL /\ serving' = {}

\* A stop() cuts the requests off at once ...
Drain ==
    /\ phase = "up"
    /\ phase' = "draining"
    /\ owner' = owner
    /\ serving' = {}

\* ... and brings the endpoint down, with or without a drain before.
Down ==
    /\ phase \in {"up", "draining"}
    /\ phase' = "down"
    /\ owner' = NULL
    /\ serving' = {}

DownAfterDrain == phase = "draining" /\ Down

Next == (\E c \in Owners : Begin(c)) \/ Settle \/ Drain \/ Down

Spec == Init /\ [][Next]_vars

\* A start and a drain that were begun end.
FairSpec == Spec /\ WF_vars(Settle) /\ WF_vars(DownAfterDrain)
=============================================================================
