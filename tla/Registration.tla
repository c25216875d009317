---------------------------- MODULE Registration ----------------------------
(***************************************************************************)
(* Auto-registration: RestateModule.registerDeployment() and the functions *)
(* it calls (lib/restate.module.ts), run once by every boot of every       *)
(* process that deploys at one deploymentUrl, against the deployment that  *)
(* Restate's admin API stores for that URL.                                *)
(*                                                                         *)
(* A release is what discovery finds in the code a process runs: a set of  *)
(* component summaries.  The admin API is external: it answers GET with    *)
(* the stored deployment, and on POST it asks the URL for its interface    *)
(* and stores that next to the metadata that the POST carries.             *)
(***************************************************************************)
EXTENDS Integers, FiniteSets

CONSTANTS
    Procs,              \* processes that deploy at the URL
    Releases,           \* sets of component summaries
    Fleets,             \* which releases processes may run side by side
    Configs,            \* records [mode, force, hook, placeholder]
    InitialDeployments, \* what the admin API may hold at first
    MaxBoots,           \* bound on the boots of each process
    NULL, NoMetadata, EmptyMetadata, Malformed, NoAnswer

-----------------------------------------------------------------------------
(* The functions of a release.                                             *)

\* computeInterfaceHash(): names, types and handlers, not metadata.  Sorting
\* makes it a function of the set; SHA-256 is taken to be injective.
InterfaceHash(release) ==
    {[componentName |-> cs.componentName, componentType |-> cs.componentType,
      handlers |-> cs.handlers] : cs \in release}

\* The components that carry metadata; an empty record counts as none.
Tagged(release) ==
    {cs \in release : cs.metadata \notin {NoMetadata, EmptyMetadata}}

\* componentMetadataMap
ComponentMetadataMap(release) ==
    [n \in {cs.componentName : cs \in Tagged(release)} |->
        (CHOOSE cs \in Tagged(release) : cs.componentName = n).metadata]

\* What diffComponentMetadata() reads out of a stored blob: text that is no
\* JSON object counts as no metadata.
NoEntries == [n \in {} |-> NULL]
ParseBlob(blob) == IF blob = Malformed THEN NoEntries ELSE blob

Entry(map, n) == IF n \in DOMAIN map THEN map[n] ELSE NULL

ComponentType(release, n) ==
    IF \E cs \in release : cs.componentName = n
    THEN (CHOOSE cs \in release : cs.componentName = n).componentType
    ELSE "unknown"

\* Slip: components that lost their metadata are forgotten.
DiffComponentMetadata_NoRemovals(blob, release) ==
    LET old == ParseBlob(blob)
        new == ComponentMetadataMap(release)
    IN  {[serviceName |-> n, type |-> ComponentType(release, n),
          oldMetadata |-> Entry(old, n), newMetadata |-> Entry(new, n)] :
            n \in {k \in DOMAIN new : Entry(old, k) # Entry(new, k)}}

\* diffComponentMetadata(): one change for every component whose entry differs.
DiffComponentMetadata(blob, release) ==
    LET old == ParseBlob(blob)
        new == ComponentMetadataMap(release)
    IN  {[serviceName |-> n, type |-> ComponentType(release, n),
          oldMetadata |-> Entry(old, n), newMetadata |-> Entry(new, n)] :
            n \in {k \in DOMAIN old \cup DOMAIN new : Entry(old, k) # Entry(new, k)}}

\* The metadata of a deployment that may not exist.
StoredBlob(d) == IF d = NULL THEN NoEntries ELSE d.meta

\* Slip: the tag is looked for in the wrong shape of the answer.
StoredHash_NotFound(d) == NULL

StoredHash(d) == IF d = NULL THEN NULL ELSE d.hash

-----------------------------------------------------------------------------

Ifaces == {InterfaceHash(r) : r \in Releases}
Blobs  == {ComponentMetadataMap(r) : r \in Releases}

RegisteredDeployments == [iface : Ifaces, hash : Ifaces, meta : Blobs]
StoredDeployments == RegisteredDeployments \cup InitialDeployments \cup {NULL}

Modes == {"development", "production"}

\* A blob maps names of components to metadata.
IsBlob(b) ==
    /\ b = [n \in DOMAIN b |-> b[n]]
    /\ \A n \in DOMAIN b : b[n] # NULL

\* A deployment that is there before the first boot: registered by hand without
\* tags, with a blob that is no JSON object, or by an earlier boot.
IsInitialDeployment(d) ==
    /\ d = [iface |-> d.iface, hash |-> d.hash, meta |-> d.meta]
    /\ d.hash \in {NULL, d.iface}
    /\ d.meta = Malformed \/ IsBlob(d.meta)

ASSUME RegistrationAssumption ==
    /\ MaxBoots \in Nat
    /\ Fleets \subseteq SUBSET Releases
    /\ Configs \subseteq [mode : Modes, force : {NULL, TRUE, FALSE},
                          hook : BOOLEAN, placeholder : BOOLEAN]
    /\ \A r \in Releases : \A cs \in r : cs.metadata # NULL
    /\ \A d \in InitialDeployments : d # NULL => IsInitialDeployment(d)

ASSUME SentinelAssumption ==
    /\ NULL \notin Ifaces \cup RegisteredDeployments
    /\ Malformed \notin Blobs
    /\ NoAnswer \notin StoredDeployments

VARIABLES
    config,    \* the autoRegister options
    fleet,     \* the releases that processes at the URL run
    deployed,  \* the admin API's deployment at the URL, or NULL
    posts,     \* POST requests on their way to the admin API
    pc,        \* where each process is in its boot
    boot,      \* how often each process has booted
    release,   \* the release each process runs
    snapshot,  \* the deployment the boot's GET returned, or NoAnswer
    told,      \* the changes the boot's hook was called with
    outcome,   \* how the boot's registration ended
    overtaken  \* history, for the properties only: see Boots

vars == <<config, fleet, deployed, posts, pc, boot, release, snapshot, told,
          outcome, overtaken>>

PCs == {"down", "registering", "getting", "answered", "hooking", "posting",
        "replied", "ready"}

Outcomes == {"none", "no_port", "skipped", "aborted", "registered", "conflict",
             "failed"}

Init ==
    /\ config \in Configs
    /\ deployed \in InitialDeployments
    /\ posts = {}
    /\ pc = [p \in Procs |-> "down"]
    /\ boot = [p \in Procs |-> 0]
    /\ fleet \in Fleets
    /\ release \in [Procs -> fleet]
    /\ snapshot = [p \in Procs |-> NoAnswer]
    /\ told = [p \in Procs |-> {}]
    /\ outcome = [p \in Procs |-> "none"]
    /\ overtaken = {}

\* Slip: the mode does not count.
EffectiveForce_AnyMode == config.force # FALSE

\* effectiveForce
EffectiveForce ==
    IF config.force = NULL THEN config.mode # "production" ELSE config.force

NeedsGet == config.hook \/ config.mode = "production"

\* The diff a boot computes from the answer to its GET.
Changes(p) == DiffComponentMetadata(StoredBlob(snapshot[p]), release[p])

ExistingHashMatches(p) == StoredHash(snapshot[p]) = InterfaceHash(release[p])

\* Move p to a point of its boot, or end its registration.
Goto(p, point) == pc' = [pc EXCEPT ![p] = point]
End(p, how) == Goto(p, "ready") /\ outcome' = [outcome EXCEPT ![p] = how]

-----------------------------------------------------------------------------
(* The process: onModuleInit() up to registration, and the death of a boot.*)

\* discover() and the endpoint's start have succeeded: the process serves its
\* release, and registerDeployment() begins.
Boot(p) ==
    /\ pc[p] = "down"
    /\ boot[p] < MaxBoots
    /\ \E r \in fleet : release' = [release EXCEPT ![p] = r]
    /\ boot' = [boot EXCEPT ![p] = @ + 1]
    /\ Goto(p, "registering")
    /\ snapshot' = [snapshot EXCEPT ![p] = NoAnswer]
    /\ told' = [told EXCEPT ![p] = {}]
    /\ outcome' = [outcome EXCEPT ![p] = "none"]
    /\ UNCHANGED <<config, fleet, deployed, posts, overtaken>>

\* A crash, a kill or a shutdown, at any point; requests in flight stay so.
Crash(p) ==
    /\ pc[p] # "down"
    /\ Goto(p, "down")
    /\ UNCHANGED <<config, fleet, deployed, posts, boot, release, snapshot,
                   told, outcome, overtaken>>

-----------------------------------------------------------------------------
(* registerDeployment().                                                   *)

\* "{{port}}" in the URL and no port to put there.  Whether there is one is the
\* endpoint manager's to say: see Lifecycle.
SkipWithoutPort(p) ==
    /\ pc[p] = "registering"
    /\ config.placeholder
    /\ End(p, "no_port")
    /\ UNCHANGED <<config, fleet, deployed, posts, boot, release, snapshot,
                   told, overtaken>>

SendGet(p) ==
    /\ pc[p] = "registering"
    /\ NeedsGet
    /\ Goto(p, "getting")
    /\ UNCHANGED <<config, fleet, deployed, posts, boot, release, snapshot,
                   told, outcome, overtaken>>

\* Slip: an option that was not given is sent as it is.
SendPost_RawForce(p, metadataChangesDetected) ==
    /\ Goto(p, "posting")
    /\ posts' = posts \cup
         {[proc |-> p, boot |-> boot[p], release |-> release[p],
           force |-> IF metadataChangesDetected THEN TRUE ELSE config.force]}

\* Slip: the request is built before the component summary is set.
SendPost_NoSummary(p, metadataChangesDetected) ==
    /\ Goto(p, "posting")
    /\ posts' = posts \cup
         {[proc |-> p, boot |-> boot[p], release |-> {},
           force |-> EffectiveForce \/ metadataChangesDetected]}

\* fetch(POST): the request leaves with the release's hash and metadata.
SendPost(p, metadataChangesDetected) ==
    /\ Goto(p, "posting")
    /\ posts' = posts \cup
         {[proc |-> p, boot |-> boot[p], release |-> release[p],
           force |-> EffectiveForce \/ metadataChangesDetected]}

\* Nothing asks for the GET: straight to the POST.
PostBlindly(p) ==
    /\ pc[p] = "registering"
    /\ ~NeedsGet
    /\ SendPost(p, FALSE)
    /\ UNCHANGED <<config, fleet, deployed, boot, release, snapshot, told,
                   outcome, overtaken>>

\* Slip: a failed GET is tried again and again.
GetFails_Retrying(p) ==
    /\ pc[p] \in {"getting", "answered"}
    /\ snapshot' = [snapshot EXCEPT ![p] = NoAnswer]
    /\ Goto(p, "registering")
    /\ UNCHANGED <<config, fleet, deployed, posts, boot, release, told, outcome,
                   overtaken>>

\* The GET is not ok, its body is unusable or fetch throws: fall through to
\* the POST, with nothing known about the deployment.
GetFails(p) ==
    /\ pc[p] \in {"getting", "answered"}
    /\ snapshot' = [snapshot EXCEPT ![p] = NoAnswer]
    /\ SendPost(p, FALSE)
    /\ UNCHANGED <<config, fleet, deployed, boot, release, told, outcome,
                   overtaken>>

\* Slip: the hook is called but not awaited.
CallHook_NotAwaited(p) ==
    /\ pc[p] = "answered"
    /\ config.hook
    /\ Changes(p) # {}
    /\ told' = [told EXCEPT ![p] = Changes(p)]
    /\ pc' = [pc EXCEPT ![p] = "hooking"]
    /\ posts' = posts \cup
         {[proc |-> p, boot |-> boot[p], release |-> release[p], force |-> TRUE]}
    /\ UNCHANGED <<config, fleet, deployed, boot, release, snapshot, outcome,
                   overtaken>>

\* Metadata changed and a hook is configured: call it and await it.
CallHook(p) ==
    /\ pc[p] = "answered"
    /\ config.hook
    /\ Changes(p) # {}
    /\ told' = [told EXCEPT ![p] = Changes(p)]
    /\ Goto(p, "hooking")
    /\ UNCHANGED <<config, fleet, deployed, posts, boot, release, snapshot,
                   outcome, overtaken>>

HookReturns(p) ==
    /\ pc[p] = "hooking"
    /\ SendPost(p, TRUE)
    /\ UNCHANGED <<config, fleet, deployed, boot, release, snapshot, told,
                   outcome, overtaken>>

\* "onDeploymentMetadataChange hook threw - aborting registration"
HookThrows(p) ==
    /\ pc[p] = "hooking"
    /\ End(p, "aborted")
    /\ UNCHANGED <<config, fleet, deployed, posts, boot, release, snapshot,
                   told, overtaken>>

\* Slip: only the interface is compared.
Unchanged_HashOnly(p) == config.mode = "production" /\ ExistingHashMatches(p)

\* The condition of the production skip-check.
Unchanged(p) ==
    config.mode = "production" /\ ExistingHashMatches(p) /\ Changes(p) = {}

SkipUnchanged(p) ==
    /\ pc[p] = "answered"
    /\ Unchanged(p)
    /\ End(p, "skipped")
    /\ UNCHANGED <<config, fleet, deployed, posts, boot, release, snapshot,
                   told, overtaken>>

\* Slip: a metadata change does not force the POST.
PostChecked_NotForcing(p) ==
    /\ pc[p] = "answered"
    /\ ~(config.hook /\ Changes(p) # {})
    /\ ~Unchanged(p)
    /\ SendPost(p, FALSE)
    /\ UNCHANGED <<config, fleet, deployed, boot, release, snapshot, told,
                   outcome, overtaken>>

\* No hook to call and no reason to skip.
PostChecked(p) ==
    /\ pc[p] = "answered"
    /\ ~(config.hook /\ Changes(p) # {})
    /\ ~Unchanged(p)
    /\ SendPost(p, Changes(p) # {})
    /\ UNCHANGED <<config, fleet, deployed, boot, release, snapshot, told,
                   outcome, overtaken>>

\* The POST's response arrives: every status is logged and nothing more.
PostReturns(p) ==
    /\ pc[p] = "replied"
    /\ Goto(p, "ready")
    /\ UNCHANGED <<config, fleet, deployed, posts, boot, release, snapshot,
                   told, outcome, overtaken>>

\* Slip: a request that failed is sent again.
PostFails_Retrying(p) ==
    /\ pc[p] \in {"posting", "replied"}
    /\ Goto(p, "registering")
    /\ UNCHANGED <<config, fleet, deployed, posts, boot, release, snapshot,
                   told, outcome, overtaken>>

\* fetch(POST) throws, whether or not the request was or will be carried out.
PostFails(p) ==
    /\ pc[p] \in {"posting", "replied"}
    /\ End(p, "failed")
    /\ UNCHANGED <<config, fleet, deployed, posts, boot, release, snapshot,
                   told, overtaken>>

-----------------------------------------------------------------------------
(* The admin API (external).                                               *)

GetAnswered(p) ==
    /\ pc[p] = "getting"
    /\ snapshot' = [snapshot EXCEPT ![p] = deployed]
    /\ Goto(p, "answered")
    /\ UNCHANGED <<config, fleet, deployed, posts, boot, release, told, outcome,
                   overtaken>>

\* Process q answers when the admin API asks the URL for its interface: any
\* that is up, be it a peer of the sender or a later boot of its own process.
Answers(q) == pc[q] # "down"

\* The response goes back to the boot that sent the request, if it still waits.
Respond(m, status) ==
    IF pc[m.proc] = "posting" /\ boot[m.proc] = m.boot
    THEN Goto(m.proc, "replied") /\ outcome' = [outcome EXCEPT ![m.proc] = status]
    ELSE UNCHANGED <<pc, outcome>>

\* The deployment d is the release r: its interface and its metadata.
Holds(d, r) ==
    /\ d # NULL
    /\ d.iface = InterfaceHash(r)
    /\ ParseBlob(d.meta) = ComponentMetadataMap(r)

\* The boot that process p is in, and the one that sent the request m.
BootOf(p) == <<p, boot[p], release[p]>>
Sender(m) == <<m.proc, m.boot, m.release>>

\* The boots that are up or have a request on its way.  Those of them are
\* overtaken since whose start something other than their release was stored,
\* or whose request was accepted for the interface of another release.
Boots == {BootOf(p) : p \in {x \in Procs : pc[x] # "down"}} \cup
         {Sender(m) : m \in posts}

\* A new URL or a forced request: store the interface that q answers with and
\* the metadata that the request carries (201, or 200 when overwritten).
Stored(m, q) ==
    /\ deployed = NULL \/ m.force
    /\ deployed' = [iface |-> InterfaceHash(release[q]),
                    hash  |-> InterfaceHash(m.release),
                    meta  |-> ComponentMetadataMap(m.release)]
    /\ overtaken' = overtaken \cup {b \in Boots : ~Holds(deployed', b[3])}
    /\ Respond(m, "registered")

\* Not forced, and q's interface is the stored one: 200, nothing is stored.
AlreadyStored(m, q) ==
    /\ deployed # NULL /\ ~m.force
    /\ deployed.iface = InterfaceHash(release[q])
    /\ deployed' = deployed
    /\ overtaken' = overtaken \cup
          {b \in {Sender(m)} : deployed.iface # InterfaceHash(m.release)}
    /\ Respond(m, "registered")

\* Not forced, and q's interface is another: 409.
Conflicts(m, q) ==
    /\ deployed # NULL /\ ~m.force
    /\ deployed.iface # InterfaceHash(release[q])
    /\ UNCHANGED <<deployed, overtaken>>
    /\ Respond(m, "conflict")

PostHandled(m, q) ==
    /\ m \in posts
    /\ Answers(q)
    /\ Stored(m, q) \/ AlreadyStored(m, q) \/ Conflicts(m, q)
    /\ posts' = posts \ {m}
    /\ UNCHANGED <<config, fleet, boot, release, snapshot, told>>

\* The request is lost, nobody answers at the URL, or another error status.
PostRejected(m) ==
    /\ m \in posts
    /\ posts' = posts \ {m}
    /\ Respond(m, "failed")
    /\ UNCHANGED <<config, fleet, deployed, boot, release, snapshot, told,
                   overtaken>>

-----------------------------------------------------------------------------

Step(p) ==
    \/ SkipWithoutPort(p) \/ SendGet(p) \/ PostBlindly(p)
    \/ GetAnswered(p) \/ GetFails(p)
    \/ CallHook(p) \/ SkipUnchanged(p) \/ PostChecked(p)
    \/ PostReturns(p) \/ PostFails(p)

Hook(p) == HookReturns(p) \/ HookThrows(p)

Next ==
    \/ \E p \in Procs : Boot(p) \/ Crash(p) \/ Step(p) \/ Hook(p)
    \/ \E m \in posts : PostRejected(m) \/ \E q \in Procs : PostHandled(m, q)

Spec == Init /\ [][Next]_vars

\* The event loop runs every continuation, and a fetch ends, at the latest
\* with its timeout.  The hook is the user's and has no timeout: it owes nothing.
FairSpec == Spec /\ \A p \in Procs : WF_vars(Step(p))

-----------------------------------------------------------------------------
(* Properties.                                                             *)

\* One element of the array that the hook gets.
IsChange(c) ==
    /\ c = [serviceName |-> c.serviceName, type |-> c.type,
            oldMetadata |-> c.oldMetadata, newMetadata |-> c.newMetadata]
    /\ c.oldMetadata # c.newMetadata

\* The type invariant: what the boots and the admin API may hold.
TypeOK ==
    /\ config \in Configs
    /\ fleet \in Fleets
    /\ deployed \in StoredDeployments
    /\ posts \subseteq [proc : Procs, boot : 0..MaxBoots, release : Releases,
                        force : BOOLEAN]
    /\ pc \in [Procs -> PCs]
    /\ boot \in [Procs -> 0..MaxBoots]
    /\ release \in [Procs -> Releases]
    /\ snapshot \in [Procs -> StoredDeployments \cup {NoAnswer}]
    /\ told = [p \in Procs |-> told[p]]
    /\ \A p \in Procs : \A c \in told[p] : IsChange(c)
    /\ outcome \in [Procs -> Outcomes]
    /\ overtaken \subseteq Procs \X (0..MaxBoots) \X Releases

\* The request that a step of the admin API takes in, while the boot that
\* sent it is still up.
HandledNow(m) == m \in posts /\ m \notin posts' /\ m.boot = boot[m.proc]

\* The changes are exactly the components whose entry differs between the two
\* metadata maps, each with its old and its new entry.
Announces(changes, old, new) ==
    /\ \A n \in DOMAIN old \cup DOMAIN new :
          Entry(old, n) # Entry(new, n) =>
              \E c \in changes : c.serviceName = n
    /\ \A c \in changes :
          /\ c.oldMetadata = Entry(old, c.serviceName)
          /\ c.newMetadata = Entry(new, c.serviceName)
          /\ c.oldMetadata # c.newMetadata

\* The metadata that the stored deployment carries.
DeployedMap == ParseBlob(StoredBlob(deployed))

\* The stored deployment is the release r.
IsDeployed(r) == Holds(deployed, r)

\* The production skip-check trusts the interface-hash tag, so the tag of the
\* stored deployment must be the hash of the interface Restate stored with it.
TagIsTruthful == deployed # NULL => deployed.hash \in {NULL, deployed.iface}

\* A boot that skipped, or whose registration Restate accepted, leaves Restate
\* with exactly its release.  (Accepted but neither forced nor checked with a
\* GET promises nothing: Restate then keeps the stored metadata.)
ReadyMeansDeployed ==
    \A p \in Procs :
        /\ pc[p] = "ready"
        /\ \/ outcome[p] = "skipped"
           \/ outcome[p] = "registered" /\ (EffectiveForce \/ snapshot[p] # NoAnswer)
        => IsDeployed(release[p])

\* The hook runs before the replacement: while it runs, nothing of its boot is
\* on its way, and the changes it was told are still to be made, or were made
\* in full by another boot of the release.  Only a boot that is overtaken (by a
\* peer, or by what an earlier boot sent before it died) may see another one.
HookSeesLiveDeployment ==
    \A p \in Procs :
        pc[p] = "hooking" =>
            /\ told[p] # {}
            /\ \A m \in posts : Sender(m) # BootOf(p)
            /\ BootOf(p) \notin overtaken =>
                  \/ Announces(told[p], DeployedMap, ComponentMetadataMap(release[p]))
                  \/ IsDeployed(release[p])

\* A boot that skipped registration or whose hook threw has no POST on its way
\* to Restate: the old deployment stays active.
NothingSentAfterGivingUp ==
    \A m \in posts :
        m.boot = boot[m.proc] => outcome[m.proc] \notin {"no_port", "skipped", "aborted"}

\* One process has the URL, one boot after the other.
Solo == \A p, q \in Procs : p = q

\* Every process at the URL runs one and the same release.
Replicas == \E r \in Releases : fleet = {r}

\* Replicas behind one URL, whichever of them answers: the tag tells the truth
\* and a boot's report holds, whatever the others do or did before they died.
ReplicasAgree == Replicas => TagIsTruthful /\ ReadyMeansDeployed

\* With a hook, whenever a POST replaces the deployment that the boot's GET
\* returned, the hook was told every metadata change that the POST makes.
ReplacementIsAnnounced ==
    [][\A m \in posts :
          /\ config.hook
          /\ HandledNow(m)
          /\ deployed' # deployed
          /\ snapshot[m.proc] = deployed
          => Announces(told[m.proc], DeployedMap, DeployedMap')]_vars

\* In production and not forced, the interface of a deployment is replaced only
\* by a release whose component metadata differs too.
InterfaceKeptUnlessMetadataChanged ==
    [][\A m \in posts :
          /\ config.mode = "production" /\ config.force # TRUE
          /\ HandledNow(m)
          /\ deployed # NULL
          /\ deployed'.iface # deployed.iface
          => ParseBlob(deployed.meta) # ComponentMetadataMap(m.release)]_vars

\* Production makes no unnecessary write: a boot whose release the admin API
\* already holds, under the tag of its interface, sends a POST only when its GET
\* failed or something was stored since.
NoUnnecessaryPost ==
    [][\A m \in posts' \ posts :
          /\ config.mode = "production"
          /\ deployed # NULL /\ deployed.hash = deployed.iface
          /\ IsDeployed(m.release)
          => snapshot'[m.proc] # deployed]_vars

\* Registration never blocks the application's start: every boot gets to run
\* or dies, unless the user's hook never settles.
BootEnds ==
    \A p \in Procs :
        pc[p] \in {"registering", "getting", "answered", "posting", "replied"}
            ~> pc[p] \in {"ready", "down", "hooking"}

-----------------------------------------------------------------------------
(* What the documentation says and the code does not do.                   *)

\* Production "uses force: false": an existing deployment's interface is never
\* replaced, a changed one is only warned about.
ProductionKeepsInterface ==
    [][config.mode = "production" /\ config.force = NULL /\ deployed # NULL
          => deployed'.iface = deployed.iface]_vars

-----------------------------------------------------------------------------
(* The inductive invariants that RegistrationProofs uses.                  *)

\* The request was sent by the boot its process is in, or died in.
Current(m) == m.boot = boot[m.proc]

\* A boot sends one POST and sends it last; it carries the boot's release.
PostInv ==
    /\ \A m \in posts :
          /\ m.boot <= boot[m.proc]
          /\ Current(m) =>
                /\ pc[m.proc] \in {"posting", "ready", "down"}
                /\ outcome[m.proc] \in {"none", "failed"}
                /\ m.release = release[m.proc]
    /\ \A m, n \in posts : m.proc = n.proc /\ m.boot = n.boot => m = n
    /\ \A p \in Procs :
          pc[p] \in {"registering", "getting", "answered", "hooking", "posting"}
              => outcome[p] = "none"

\* What a boot learned from its GET decides what its hook is told and whether
\* its POST forces.
KnowledgeInv ==
    /\ \A p \in Procs :
          /\ pc[p] \in {"registering", "getting"} => snapshot[p] = NoAnswer
          /\ pc[p] \in {"answered", "hooking"} => snapshot[p] # NoAnswer
          /\ pc[p] \in {"registering", "getting", "answered"} => told[p] = {}
          /\ pc[p] = "hooking" => told[p] # {} /\ told[p] = Changes(p)
    /\ \A m \in posts : Current(m) =>
          /\ EffectiveForce => m.force
          /\ snapshot[m.proc] # NoAnswer =>
                /\ config.hook => told[m.proc] = Changes(m.proc)
                /\ m.force <=> EffectiveForce \/ Changes(m.proc) # {}
          /\ snapshot[m.proc] = NoAnswer => (m.force <=> EffectiveForce)

\* What holds for any number of processes behind one URL.
AnyProcsInv == TypeOK /\ PostInv /\ KnowledgeInv

\* A boot's read of the deployment holds until the boot is overtaken.
ReadInv ==
    \A p \in Procs :
        pc[p] # "down" /\ BootOf(p) \notin overtaken /\ snapshot[p] # NoAnswer =>
            deployed = snapshot[p] \/ IsDeployed(release[p])

\* What a boot's outcome says about the deployment until it is overtaken.  A
\* skip is only as good as the tag that it trusted.
OutcomeInv ==
    \A p \in Procs :
        pc[p] \in {"replied", "ready"} /\ BootOf(p) \notin overtaken =>
            /\ outcome[p] = "skipped" => IsDeployed(release[p]) \/ ~TagIsTruthful
            /\ outcome[p] = "registered" /\ (EffectiveForce \/ snapshot[p] # NoAnswer)
                  => IsDeployed(release[p])
            /\ outcome[p] = "registered" =>
                  deployed # NULL /\ deployed.iface = InterfaceHash(release[p])

\* What runs, and what is on its way, is a release of the fleet.
FleetInv ==
    /\ \A p \in Procs : release[p] \in fleet
    /\ \A m \in posts : m.release \in fleet

\* Replicas only ever store their one release, under its tag.
ReplicaInv == Replicas => overtaken = {} /\ TagIsTruthful

\* With one process, whatever is stored while a boot is up has its interface,
\* also when a request of an earlier boot is carried out late.
SoloInv ==
    \A p \in Procs :
        /\ pc[p] # "down" =>
              \/ snapshot[p] \in {deployed, NoAnswer}
              \/ deployed # NULL /\ deployed.iface = InterfaceHash(release[p])
        /\ pc[p] \in {"replied", "ready"} /\ outcome[p] = "registered" =>
              deployed # NULL /\ deployed.iface = InterfaceHash(release[p])
=============================================================================
