---------------------------- MODULE MCLifecycle ----------------------------
(* Small instances of Lifecycle for TLC.                                   *)
EXTENDS Lifecycle, TLC

CONSTANTS h1, v1, v2

Component(name, metadata) ==
    [componentName |-> name, componentType |-> "service", handlers |-> {h1},
     metadata |-> metadata]

One == {Component("payment", v1)}
Two == {Component("payment", v2), Component("cart", NoMetadata)}
SomeReleases == {{}, One, Two}

\* None, or the first release as an earlier process registered it.
Interface == {[componentName |-> "payment", componentType |-> "service", handlers |-> {h1}]}
SomeDeployments ==
    {NULL, [iface |-> Interface, hash |-> Interface,
            meta |-> [n \in {"payment"} |-> v1]]}

SomeConfigs ==
    {[mode |-> m, force |-> NULL, hook |-> h, placeholder |-> p] :
        m \in {"development", "production"}, h \in BOOLEAN, p \in BOOLEAN}

AllSetups == [mode : EndpointModes, autoRegister : BOOLEAN, awaitsInit : BOOLEAN]
=============================================================================
