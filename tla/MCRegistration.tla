--------------------------- MODULE MCRegistration ---------------------------
(* Small instances of Registration for TLC: what a project with one or two *)
(* components deploys over its life.                                       *)
EXTENDS RegistrationImpl, TLC

CONSTANTS h1, h2, v1, v2

Service(handlers, metadata) ==
    [componentName |-> "payment", componentType |-> "service",
     handlers |-> handlers, metadata |-> metadata]

Workflow(metadata) ==
    [componentName |-> "order", componentType |-> "workflow",
     handlers |-> {h1}, metadata |-> metadata]

Base         == {Service({h1}, v1)}
NewMetadata  == {Service({h1}, v2)}
NewInterface == {Service({h1, h2}, v1)}
NewBoth      == {Service({h1, h2}, v2)}
Untagged     == {Service({h1}, NoMetadata)}
EmptyTagged  == {Service({h1}, EmptyMetadata)}
TwoParts     == {Service({h1}, v1), Workflow(v1)}
TwoNewParts  == {Service({h1}, v2), Workflow(v1)}

AllReleases == {Base, NewMetadata, NewInterface, Untagged, EmptyTagged, TwoParts}
FewReleases == {Base, NewMetadata, NewInterface, TwoParts}
RolloutReleases == {Base, NewMetadata, NewBoth, TwoParts}

\* One process tries every release in turn.
AllFleet == {AllReleases}
FewFleet == {FewReleases}
\* Two processes: a rollout from any release to any other, or replicas.
RolloutFleets == {RolloutReleases, {TwoParts}}

DeploymentOf(r) == [iface |-> InterfaceHash(r), hash |-> InterfaceHash(r),
                    meta |-> ComponentMetadataMap(r)]
\* Registered by hand, with the Restate CLI.
ForeignOf(r) == [iface |-> InterfaceHash(r), hash |-> NULL, meta |-> NoEntries]
\* Registered with a blob that is no JSON object.
GarbledOf(r) == [iface |-> InterfaceHash(r), hash |-> NULL, meta |-> Malformed]

Initials == {NULL, ForeignOf(Base), GarbledOf(Untagged)}
RolloutInitials == Initials \cup {DeploymentOf(r) : r \in {TwoNewParts, TwoParts}}

Config(mode, force, hook) ==
    [mode |-> mode, force |-> force, hook |-> hook, placeholder |-> FALSE]

AllConfigs ==
    {Config(m, f, h) : m \in Modes, f \in {NULL, TRUE, FALSE}, h \in BOOLEAN}
        \cup {[Config("production", NULL, TRUE) EXCEPT !.placeholder = TRUE]}
RolloutConfigs == {Config(m, NULL, h) : m \in Modes, h \in BOOLEAN} \cup
    {Config("production", TRUE, FALSE), Config("development", FALSE, TRUE)}
ProductionConfigs == {Config("production", NULL, h) : h \in BOOLEAN}
=============================================================================
