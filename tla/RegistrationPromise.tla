------------------------ MODULE RegistrationPromise ------------------------
(***************************************************************************)
(* What auto-registration promises to those who deploy at a URL: a boot    *)
(* asks Restate at most once, for the release it runs; the deployment      *)
(* changes only when a request is carried out, with the metadata of the    *)
(* release that asked and the interface of a process that runs, and not    *)
(* without a reason; and a boot reports only what is so, as long as nobody *)
(* overtakes it.  How a boot finds out (the GET, tags, hashes, the hook)   *)
(* is not part of the promise.  Registration implements it, for any number *)
(* of processes and releases (see RegistrationImpl).                       *)
(*                                                                         *)
(* A boot is a triple: its process, its number and its release.            *)
(***************************************************************************)
EXTENDS Naturals

CONSTANTS
    Procs, Releases,
    Registered,  \* Registered[r]: the [iface, meta] that a release r asks for
    Initial      \* what Restate may hold at first

VARIABLES
    forced,    \* do the options force a registration?
    deployed,  \* the deployment that Restate holds: one or none
    mixed,     \* was it stored with another interface than its sender's?
    asked,     \* the boots whose request is on its way
    state,     \* "down", "trying", "asking", or what the boot reports
    running,   \* the release of each process
    boot,      \* how often each process has booted
    overtaken  \* boots that something other than their release got ahead of

vars == <<forced, deployed, mixed, asked, state, running, boot, overtaken>>

Init ==
    /\ forced \in BOOLEAN
    /\ deployed \in Initial
    /\ mixed = FALSE
    /\ asked = {}
    /\ state = [p \in Procs |-> "down"]
    /\ running \in [Procs -> Releases]
    /\ boot = [p \in Procs |-> 0]
    /\ overtaken = {}

Holds(r) == deployed = {Registered[r]}

HoldsInterface(r) == \E d \in deployed : d.iface = Registered[r].iface

BootOf(p) == <<p, boot[p], running[p]>>

Boot(p) ==
    /\ state[p] = "down"
    /\ state' = [state EXCEPT ![p] = "trying"]
    /\ boot' = [boot EXCEPT ![p] = @ + 1]
    /\ \E r \in Releases : running' = [running EXCEPT ![p] = r]
    /\ UNCHANGED <<forced, deployed, mixed, asked, overtaken>>

Die(p) ==
    /\ state[p] # "down"
    /\ state' = [state EXCEPT ![p] = "down"]
    /\ UNCHANGED <<forced, deployed, mixed, asked, running, boot, overtaken>>

\* The one request of a boot.
Ask(p) ==
    /\ state[p] = "trying"
    /\ state' = [state EXCEPT ![p] = "asking"]
    /\ asked' = asked \cup {BootOf(p)}
    /\ UNCHANGED <<forced, deployed, mixed, running, boot, overtaken>>

\* A deployment gives way only by force, to new metadata, or to one who was
\* overtaken and does not know what it replaces.
MayReplace(a) ==
    \/ forced
    \/ \A d \in deployed : d.meta # Registered[a[3]].meta
    \/ a \in overtaken'

\* The request of the boot a stores what it asks for, with the interface of a
\* process that runs: its own or another.
TakeEffect(a) ==
    /\ a \in asked
    /\ asked' = asked \ {a}
    /\ \E q \in Procs :
          /\ state[q] # "down"
          /\ deployed' = {[iface |-> Registered[running[q]].iface,
                           meta  |-> Registered[a[3]].meta]}
          /\ mixed' = (Registered[running[q]].iface # Registered[a[3]].iface)
    /\ overtaken' = overtaken \cup
          {b \in {BootOf(p) : p \in {x \in Procs : state[x] # "down"}} \cup asked :
              ~Holds(b[3])'}
    /\ MayReplace(a) \/ deployed' = deployed
    /\ UNCHANGED <<forced, state, running, boot>>

\* The request changes nothing: Restate refused it, or has what it is about.
HaveNoEffect(a) ==
    /\ a \in asked
    /\ asked' = asked \ {a}
    /\ \/ overtaken' = overtaken
       \/ ~HoldsInterface(a[3]) /\ overtaken' = overtaken \cup {a}
    /\ UNCHANGED <<forced, deployed, mixed, state, running, boot>>

\* A boot that has not asked may find that it need not, or gives up.
Decline(p) ==
    /\ state[p] = "trying"
    /\ \E report \in {"skipped", "aborted", "no_port"} :
          /\ report = "skipped" => Holds(running[p]) \/ BootOf(p) \in overtaken \/ mixed
          /\ state' = [state EXCEPT ![p] = report]
    /\ UNCHANGED <<forced, deployed, mixed, asked, running, boot, overtaken>>

\* "registered": Restate holds the release.  "accepted", by a boot that neither
\* forced nor looked: Restate holds its interface.
Report(p) ==
    /\ state[p] = "asking"
    /\ \E report \in {"registered", "accepted", "conflict", "failed"} :
          /\ report = "registered" => Holds(running[p]) \/ BootOf(p) \in overtaken
          /\ report = "accepted" =>
                HoldsInterface(running[p]) \/ BootOf(p) \in overtaken
          /\ state' = [state EXCEPT ![p] = report]
    /\ UNCHANGED <<forced, deployed, mixed, asked, running, boot, overtaken>>

Next ==
    \/ \E p \in Procs : Boot(p) \/ Die(p) \/ Ask(p) \/ Decline(p) \/ Report(p)
    \/ \E a \in asked : TakeEffect(a) \/ HaveNoEffect(a)

Spec == Init /\ [][Next]_vars
=============================================================================
