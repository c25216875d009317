----------------------------- MODULE MCEndpoint -----------------------------
(* Small instances of Endpoint and EndpointImpl for TLC.                   *)
EXTENDS EndpointImpl, TLC

\* Calls and sessions are interchangeable (safety runs only).
Symmetry == Permutations(Calls) \cup Permutations(Sessions)
=============================================================================
