---------------------------- MODULE MCDiscovery ----------------------------
(* A small instance of Providers, and with it of Discovery, for TLC.       *)
EXTENDS Providers, TLC

\* Classes are interchangeable.
Symmetry == Permutations(Classes)

\* A bound: clients are not injected in an application with options, of which
\* clients and tokens know nothing.
OptionsApart == Given = {} \/ \A c \in Classes : asks[c] = {}
=============================================================================
