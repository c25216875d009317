-------------------------- MODULE RegistrationImpl --------------------------
(***************************************************************************)
(* The refinement mapping under which Registration implements              *)
(* RegistrationPromise.                                                    *)
(***************************************************************************)
EXTENDS Registration

\* A deployment without its tag: what it serves, and its metadata as
\* diffComponentMetadata() reads it.
ContentOf(d) == [iface |-> d.iface, meta |-> ParseBlob(d.meta)]

\* The contents of the deployment that is stored, if there is one.
Content(d) == {ContentOf(x) : x \in {d} \ {NULL}}

\* Did the boot force its request, or look before it sent it?
Checked(p) == EffectiveForce \/ snapshot[p] # NoAnswer

State(p) ==
    CASE pc[p] = "down" -> "down"
      [] pc[p] \in {"registering", "getting", "answered", "hooking"} -> "trying"
      [] pc[p] \in {"posting", "replied"} -> "asking"
      [] pc[p] = "ready" /\ outcome[p] = "registered" /\ ~Checked(p) -> "accepted"
      [] OTHER -> outcome[p]

\* What a release asks for.
Wanted(r) == [iface |-> InterfaceHash(r), meta |-> ComponentMetadataMap(r)]

Promise == INSTANCE RegistrationPromise WITH
    Registered <- [r \in Releases |-> Wanted(r)],
    Initial    <- {Content(d) : d \in InitialDeployments},
    forced     <- EffectiveForce,
    deployed   <- Content(deployed),
    mixed      <- ~TagIsTruthful,
    asked      <- {Sender(m) : m \in posts},
    state      <- [p \in Procs |-> State(p)],
    running    <- release

\* Every step of registration is one that was promised, or changes nothing that
\* the promise is about: however many processes and releases have the URL, boots
\* die, requests are carried out late or by others, and answers get lost.
KeepsPromise == Promise!Spec

-----------------------------------------------------------------------------
(* The inductive invariant that RegistrationProofs uses.                   *)

\* What a boot's response may say.
RespondedInv ==
    \A p \in Procs :
        pc[p] = "replied" => outcome[p] \in {"registered", "conflict", "failed"}

\* A request that forces has a reason to until its boot is overtaken, even when
\* it comes late: there is other metadata to replace, or nothing left to be done.
ForceInv ==
    \A m \in posts :
        m.force /\ ~EffectiveForce /\ Sender(m) \notin overtaken =>
            \/ deployed = NULL
            \/ ParseBlob(deployed.meta) # ComponentMetadataMap(m.release)
            \/ IsDeployed(m.release)

PromiseInv ==
    /\ AnyProcsInv /\ FleetInv /\ ReadInv /\ OutcomeInv /\ ReplicaInv
    /\ RespondedInv /\ ForceInv
    /\ Solo => SoloInv
=============================================================================
