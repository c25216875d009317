------------------------- MODULE RegistrationProofs -------------------------
(***************************************************************************)
(* Theorems about Registration, for every set of releases, configurations  *)
(* and initial deployments and any number of processes and boots, whichever*)
(* of them answers Restate and however late.  PromiseInv is the inductive  *)
(* invariant; AnyProcsInv, its first part, is inductive by itself.         *)
(***************************************************************************)
EXTENDS RegistrationImpl, TLAPS

-----------------------------------------------------------------------------
(* The functions of a release.                                             *)

\* The components of a release's metadata map carry metadata.
LEMMA MapIsBlob ==
  ASSUME NEW r \in Releases
  PROVE  IsBlob(ComponentMetadataMap(r))
  <1> DEFINE names == {cs.componentName : cs \in Tagged(r)}
             pick(n) == CHOOSE cs \in Tagged(r) : cs.componentName = n
             map == [n \in names |-> pick(n).metadata]
  <1>1. ASSUME NEW n \in names PROVE map[n] # NULL
    <2>1. pick(n) \in Tagged(r)
      BY <1>1
    <2>2. pick(n) \in r
      BY <2>1 DEF Tagged
    <2>3. map[n] = pick(n).metadata
      BY <1>1
    <2> HIDE DEF pick, map
    <2>4. pick(n).metadata # NULL
      BY <2>2, RegistrationAssumption DEF RegistrationAssumption
    <2> QED
      BY <2>3, <2>4
  <1>2. IsBlob(map)
    <2>1. DOMAIN map = names
      OBVIOUS
    <2>2. map = [n \in names |-> map[n]]
      OBVIOUS
    <2> HIDE DEF map, names
    <2> QED
      BY <1>1, <2>1, <2>2 DEF IsBlob
  <1> QED
    BY <1>2 DEF ComponentMetadataMap

LEMMA NoEntriesIsBlob == IsBlob(NoEntries)
  BY DEF NoEntries, IsBlob

\* Two blobs with the same entries are the same blob.
LEMMA SameEntries ==
  ASSUME NEW a, NEW b, IsBlob(a), IsBlob(b),
         \A n \in DOMAIN a \cup DOMAIN b : Entry(a, n) = Entry(b, n)
  PROVE  a = b
  <1>1. DOMAIN a = DOMAIN b
    BY DEF IsBlob, Entry
  <1>2. \A n \in DOMAIN a : a[n] = b[n]
    BY <1>1 DEF Entry
  <1>3. [n \in DOMAIN a |-> a[n]] = [n \in DOMAIN b |-> b[n]]
    BY <1>1, <1>2
  <1> QED
    BY <1>3 DEF IsBlob

\* diffComponentMetadata() reports no change exactly when the stored metadata
\* is that of the release: the diff misses nothing.
THEOREM DiffIsComplete ==
  ASSUME NEW r \in Releases, NEW blob, blob = Malformed \/ IsBlob(blob),
         DiffComponentMetadata(blob, r) = {}
  PROVE  ParseBlob(blob) = ComponentMetadataMap(r)
  <1> DEFINE old == ParseBlob(blob)
             new == ComponentMetadataMap(r)
             change(n) == [serviceName |-> n, type |-> ComponentType(r, n),
                           oldMetadata |-> Entry(old, n),
                           newMetadata |-> Entry(new, n)]
             differing == {k \in DOMAIN old \cup DOMAIN new :
                              Entry(old, k) # Entry(new, k)}
  <1>1. {change(n) : n \in differing} = {}
    BY DEF DiffComponentMetadata
  <1>2. differing = {}
    <2> HIDE DEF change, differing
    <2> QED
      BY <1>1
  <1>3. \A n \in DOMAIN old \cup DOMAIN new : Entry(old, n) = Entry(new, n)
    BY <1>2
  <1>4. IsBlob(old)
    BY NoEntriesIsBlob DEF ParseBlob
  <1>5. IsBlob(new)
    BY MapIsBlob
  <1> QED
    <2> HIDE DEF old, new
    <2>1. old = new
      BY <1>3, <1>4, <1>5, SameEntries
    <2> QED
      BY <2>1 DEF old, new

\* The diff against a release's own metadata is empty.
LEMMA DiffOfSame ==
  ASSUME NEW r, NEW blob, ParseBlob(blob) = ComponentMetadataMap(r)
  PROVE  DiffComponentMetadata(blob, r) = {}
  BY DEF DiffComponentMetadata

\* The diff announces exactly the entries in which the metadata maps differ.
LEMMA DiffAnnounces ==
  ASSUME NEW r, NEW blob
  PROVE  Announces(DiffComponentMetadata(blob, r), ParseBlob(blob),
                   ComponentMetadataMap(r))
  <1> DEFINE old == ParseBlob(blob)
             new == ComponentMetadataMap(r)
             change(n) == [serviceName |-> n, type |-> ComponentType(r, n),
                           oldMetadata |-> Entry(old, n),
                           newMetadata |-> Entry(new, n)]
             differing == {k \in DOMAIN old \cup DOMAIN new :
                              Entry(old, k) # Entry(new, k)}
             changes == {change(n) : n \in differing}
  <1>1. DiffComponentMetadata(blob, r) = changes
    BY DEF DiffComponentMetadata
  <1>2. \A n : /\ change(n).serviceName = n
                /\ change(n).oldMetadata = Entry(old, n)
                /\ change(n).newMetadata = Entry(new, n)
    OBVIOUS
  <1>3. Announces(changes, old, new)
    <2> HIDE DEF old, new, change
    <2> QED
      BY <1>2 DEF Announces
  <1> QED
    BY <1>1, <1>3

LEMMA StoredBlobIsBlob ==
  ASSUME NEW d \in StoredDeployments
  PROVE  StoredBlob(d) = Malformed \/ IsBlob(StoredBlob(d))
  <1>1. CASE d = NULL
    BY <1>1, NoEntriesIsBlob DEF StoredBlob
  <1>2. CASE d # NULL /\ d \in InitialDeployments
    BY <1>2, RegistrationAssumption
       DEF RegistrationAssumption, StoredBlob, IsInitialDeployment
  <1>3. CASE d # NULL /\ d \in RegisteredDeployments
    BY <1>3, MapIsBlob DEF RegisteredDeployments, Blobs, StoredBlob
  <1> QED
    BY <1>1, <1>2, <1>3 DEF StoredDeployments

-----------------------------------------------------------------------------
(* What holds for any number of processes.                                 *)

LEMMA ChangesAreTyped ==
  ASSUME NEW p \in Procs
  PROVE  \A c \in Changes(p) : IsChange(c)
  <1> SUFFICES ASSUME NEW c \in Changes(p) PROVE IsChange(c)
    OBVIOUS
  <1> DEFINE old == ParseBlob(StoredBlob(snapshot[p]))
             new == ComponentMetadataMap(release[p])
             change(n) == [serviceName |-> n, type |-> ComponentType(release[p], n),
                           oldMetadata |-> Entry(old, n),
                           newMetadata |-> Entry(new, n)]
  <1>1. PICK n \in DOMAIN old \cup DOMAIN new :
           c = change(n) /\ Entry(old, n) # Entry(new, n)
    BY DEF Changes, DiffComponentMetadata
  <1>2. /\ c.serviceName = n /\ c.type = ComponentType(release[p], n)
        /\ c.oldMetadata = Entry(old, n) /\ c.newMetadata = Entry(new, n)
    BY <1>1
  <1> HIDE DEF old, new
  <1> QED
    BY <1>1, <1>2 DEF IsChange

LEMMA InitAnyProcs == Init => AnyProcsInv
  <1> SUFFICES ASSUME Init PROVE AnyProcsInv
    OBVIOUS
  <1>1. TypeOK
    BY RegistrationAssumption
       DEF RegistrationAssumption, Init, TypeOK, PCs, Outcomes, StoredDeployments
  <1>2. PostInv /\ KnowledgeInv
    BY DEF Init, PostInv, KnowledgeInv
  <1> QED
    BY <1>1, <1>2 DEF AnyProcsInv

LEMMA SentPostIsTyped ==
  ASSUME TypeOK, NEW p \in Procs, NEW changed \in BOOLEAN, SendPost(p, changed)
  PROVE  /\ posts' \subseteq [proc : Procs, boot : 0..MaxBoots,
                              release : Releases, force : BOOLEAN]
         /\ pc' \in [Procs -> PCs]
  <1> DEFINE f == EffectiveForce \/ changed
  <1>1. f \in BOOLEAN
    OBVIOUS
  <1>2. posts' = posts \cup {[proc |-> p, boot |-> boot[p], release |-> release[p],
                             force |-> f]}
    BY DEF SendPost
  <1> HIDE DEF f
  <1>3. [proc |-> p, boot |-> boot[p], release |-> release[p], force |-> f]
          \in [proc : Procs, boot : 0..MaxBoots, release : Releases, force : BOOLEAN]
    BY <1>1 DEF TypeOK
  <1> QED
    BY <1>2, <1>3 DEF TypeOK, SendPost, Goto, PCs

LEMMA TellingIsTyped ==
  ASSUME TypeOK, NEW p \in Procs, NEW changes, \A c \in changes : IsChange(c),
         told' = [told EXCEPT ![p] = changes]
  PROVE  /\ told' = [q \in Procs |-> told'[q]]
         /\ \A q \in Procs : \A c \in told'[q] : IsChange(c)
  BY DEF TypeOK

\* What the history may record.
LEMMA BootsAreTyped ==
  ASSUME TypeOK
  PROVE  /\ Boots \subseteq Procs \X (0..MaxBoots) \X Releases
         /\ \A m \in posts : Sender(m) \in Boots
         /\ \A p \in Procs : pc[p] # "down" => BootOf(p) \in Boots
  BY DEF TypeOK, Boots, BootOf, Sender

LEMMA NextRegistrationType ==
  ASSUME TypeOK, KnowledgeInv, [Next]_vars
  PROVE  TypeOK'
  <1> USE RegistrationAssumption DEF RegistrationAssumption, TypeOK, PCs, Outcomes
  <1>1. ASSUME NEW p \in Procs, Boot(p) PROVE TypeOK'
    <2>1. /\ told' = [q \in Procs |-> told'[q]]
          /\ \A q \in Procs : \A c \in told'[q] : IsChange(c)
      <3>1. told' = [told EXCEPT ![p] = {}]
        BY <1>1 DEF Boot
      <3>2. \A c \in {} : IsChange(c)
        OBVIOUS
      <3> HIDE DEF TypeOK
      <3> QED
        BY <3>1, <3>2, TellingIsTyped
    <2> QED
      BY <1>1, <2>1 DEF Boot, Goto, IsChange
  <1>2. ASSUME NEW p \in Procs, Crash(p) PROVE TypeOK'
    BY <1>2 DEF Crash, Goto
  <1>3. ASSUME NEW p \in Procs, SkipWithoutPort(p) PROVE TypeOK'
    BY <1>3 DEF SkipWithoutPort, End, Goto
  <1>4. ASSUME NEW p \in Procs, SendGet(p) PROVE TypeOK'
    BY <1>4 DEF SendGet, Goto
  <1>5. ASSUME NEW p \in Procs, PostBlindly(p) PROVE TypeOK'
    BY <1>5, SentPostIsTyped DEF PostBlindly
  <1>6. ASSUME NEW p \in Procs, GetAnswered(p) PROVE TypeOK'
    BY <1>6 DEF GetAnswered, Goto
  <1>7. ASSUME NEW p \in Procs, GetFails(p) PROVE TypeOK'
    BY <1>7, SentPostIsTyped DEF GetFails
  <1>8. ASSUME NEW p \in Procs, CallHook(p) PROVE TypeOK'
    <2>1. /\ told' = [q \in Procs |-> told'[q]]
          /\ \A q \in Procs : \A c \in told'[q] : IsChange(c)
      <3> HIDE DEF TypeOK
      <3> QED
        BY <1>8, ChangesAreTyped, TellingIsTyped DEF CallHook
    <2> QED
      BY <1>8, <2>1 DEF CallHook, Goto, IsChange
  <1>9. ASSUME NEW p \in Procs, SkipUnchanged(p) PROVE TypeOK'
    BY <1>9 DEF SkipUnchanged, End, Goto
  <1>10. ASSUME NEW p \in Procs, PostChecked(p) PROVE TypeOK'
    BY <1>10, SentPostIsTyped DEF PostChecked
  <1>11. ASSUME NEW p \in Procs, PostReturns(p) PROVE TypeOK'
    BY <1>11 DEF PostReturns, Goto
  <1>12. ASSUME NEW p \in Procs, PostFails(p) PROVE TypeOK'
    BY <1>12 DEF PostFails, End, Goto
  <1>13. ASSUME NEW p \in Procs, HookReturns(p) PROVE TypeOK'
    BY <1>13, SentPostIsTyped DEF HookReturns
  <1>14. ASSUME NEW p \in Procs, HookThrows(p) PROVE TypeOK'
    BY <1>14 DEF HookThrows, End, Goto
  <1>15. ASSUME NEW m \in posts, PostRejected(m) PROVE TypeOK'
    BY <1>15 DEF PostRejected, Respond, Goto
  <1>16. ASSUME NEW m \in posts, NEW q \in Procs, PostHandled(m, q)
         PROVE TypeOK'
    <2>1. CASE Stored(m, q)
      <3>1. deployed' \in RegisteredDeployments
        BY <1>16, <2>1 DEF Stored, RegisteredDeployments, Ifaces, Blobs
      <3>2. overtaken' \subseteq overtaken \cup Boots
        BY <2>1 DEF Stored
      <3>3. overtaken' \subseteq Procs \X (0..MaxBoots) \X Releases
        BY <3>2, BootsAreTyped
      <3> QED
        BY <1>16, <2>1, <3>1, <3>3 DEF PostHandled, Stored, Respond, Goto, StoredDeployments
    <2>2. CASE AlreadyStored(m, q) \/ Conflicts(m, q)
      <3>1. overtaken' \subseteq overtaken \cup Boots
        BY <1>16, <2>2, BootsAreTyped DEF AlreadyStored, Conflicts
      <3>2. overtaken' \subseteq Procs \X (0..MaxBoots) \X Releases
        BY <3>1, BootsAreTyped
      <3> QED
        BY <1>16, <2>2, <3>2 DEF PostHandled, AlreadyStored, Conflicts, Respond, Goto
    <2> QED
      BY <1>16, <2>1, <2>2 DEF PostHandled
  <1>17. CASE UNCHANGED vars
    BY <1>17 DEF vars
  <1> QED
    BY <1>1, <1>2, <1>3, <1>4, <1>5, <1>6, <1>7, <1>8, <1>9, <1>10,
       <1>11, <1>12, <1>13, <1>14, <1>15, <1>16, <1>17
       DEF Next, Step, Hook

\* A boot that has not sent its POST has none on its way.
LEMMA NoPostYet ==
  ASSUME PostInv, NEW p \in Procs,
         pc[p] \in {"registering", "getting", "answered", "hooking"}
  PROVE  \A m \in posts : m.proc = p => ~Current(m)
  BY DEF PostInv

LEMMA SendKeepsPostInv ==
  ASSUME TypeOK, PostInv, NEW p \in Procs, NEW changed \in BOOLEAN,
         pc[p] \in {"registering", "getting", "answered", "hooking"},
         SendPost(p, changed), UNCHANGED <<boot, release, outcome>>
  PROVE  PostInv'
  <1> DEFINE f == EffectiveForce \/ changed
             n == [proc |-> p, boot |-> boot[p], release |-> release[p],
                   force |-> f]
  <1>1. posts' = posts \cup {n} /\ pc' = [pc EXCEPT ![p] = "posting"]
    BY DEF SendPost, Goto
  <1>2. n.proc = p /\ n.boot = boot[p] /\ n.release = release[p]
    OBVIOUS
  <1> HIDE DEF n
  <1>3. outcome[p] = "none" /\ boot[p] \in Int
    BY DEF PostInv, TypeOK
  <1>4. ASSUME NEW m \in posts'
        PROVE  /\ m.boot <= boot'[m.proc]
               /\ Current(m)' =>
                     /\ pc'[m.proc] \in {"posting", "ready", "down"}
                     /\ outcome'[m.proc] \in {"none", "failed"}
                     /\ m.release = release'[m.proc]
    <2>1. CASE m = n
      BY <1>1, <1>2, <1>3, <2>1 DEF TypeOK
    <2>2. CASE m \in posts
      BY <1>1, <2>2 DEF PostInv, Current, TypeOK
    <2> QED
      BY <1>1, <1>4, <2>1, <2>2
  <1>5. ASSUME NEW m \in posts', NEW k \in posts',
               m.proc = k.proc, m.boot = k.boot
        PROVE  m = k
    BY <1>1, <1>2, <1>5, NoPostYet DEF PostInv, Current
  <1>6. ASSUME NEW q \in Procs,
               pc'[q] \in {"registering", "getting", "answered", "hooking", "posting"}
        PROVE  outcome'[q] = "none"
    BY <1>1, <1>3, <1>6 DEF PostInv, TypeOK
  <1> QED
    BY <1>4, <1>5, <1>6 DEF PostInv

LEMMA ResponseKeepsPostInv ==
  ASSUME TypeOK, PostInv, NEW m \in posts, NEW status,
         posts' = posts \ {m}, Respond(m, status), UNCHANGED <<boot, release>>
  PROVE  PostInv'
  <1>1. m.proc \in Procs
    BY DEF TypeOK
  <1>2. CASE pc[m.proc] = "posting" /\ boot[m.proc] = m.boot
    <2>1. /\ pc' = [pc EXCEPT ![m.proc] = "replied"]
          /\ outcome' = [outcome EXCEPT ![m.proc] = status]
      BY <1>2 DEF Respond, Goto
    <2>2. ASSUME NEW k \in posts'
          PROVE  k \in posts /\ (Current(k)' => k.proc # m.proc)
      BY <1>2 DEF PostInv, Current
    <2> QED
      BY <1>1, <2>1, <2>2 DEF PostInv, Current, TypeOK
  <1>3. CASE ~(pc[m.proc] = "posting" /\ boot[m.proc] = m.boot)
    BY <1>3 DEF Respond, PostInv, Current
  <1> QED
    BY <1>2, <1>3

LEMMA NextPost ==
  ASSUME TypeOK, PostInv, [Next]_vars
  PROVE  PostInv'
  <1> USE RegistrationAssumption DEF RegistrationAssumption, TypeOK, PostInv, Current
  <1>1. ASSUME NEW p \in Procs, Boot(p) PROVE PostInv'
    <2>1. /\ boot[p] \in Int /\ boot' = [boot EXCEPT ![p] = @ + 1]
          /\ pc' = [pc EXCEPT ![p] = "registering"]
          /\ outcome' = [outcome EXCEPT ![p] = "none"]
          /\ posts' = posts
          /\ \A q \in Procs \ {p} : release'[q] = release[q]
      BY <1>1 DEF Boot, Goto
    <2>2. \A m \in posts : m.proc \in Procs /\ m.boot \in Int /\ boot[m.proc] \in Int
      OBVIOUS
    <2>3. \A m \in posts : Current(m)' => m.proc # p /\ Current(m)
      BY <2>1, <2>2
    <2>4. \A m \in posts : m.boot <= boot'[m.proc]
      BY <2>1, <2>2
    <2> QED
      BY <2>1, <2>2, <2>3, <2>4
  <1>2. ASSUME NEW p \in Procs, Crash(p) PROVE PostInv'
    BY <1>2 DEF Crash, Goto
  <1>3. ASSUME NEW p \in Procs, SkipWithoutPort(p) PROVE PostInv'
    BY <1>3 DEF SkipWithoutPort, End, Goto
  <1>4. ASSUME NEW p \in Procs, SendGet(p) PROVE PostInv'
    BY <1>4 DEF SendGet, Goto
  <1>5. ASSUME NEW p \in Procs, PostBlindly(p) PROVE PostInv'
    BY <1>5, SendKeepsPostInv DEF PostBlindly
  <1>6. ASSUME NEW p \in Procs, GetAnswered(p) PROVE PostInv'
    BY <1>6 DEF GetAnswered, Goto
  <1>7. ASSUME NEW p \in Procs, GetFails(p) PROVE PostInv'
    BY <1>7, SendKeepsPostInv DEF GetFails
  <1>8. ASSUME NEW p \in Procs, CallHook(p) PROVE PostInv'
    BY <1>8 DEF CallHook, Goto
  <1>9. ASSUME NEW p \in Procs, SkipUnchanged(p) PROVE PostInv'
    BY <1>9 DEF SkipUnchanged, End, Goto
  <1>10. ASSUME NEW p \in Procs, PostChecked(p) PROVE PostInv'
    BY <1>10, SendKeepsPostInv DEF PostChecked
  <1>11. ASSUME NEW p \in Procs, PostReturns(p) PROVE PostInv'
    BY <1>11 DEF PostReturns, Goto
  <1>12. ASSUME NEW p \in Procs, PostFails(p) PROVE PostInv'
    BY <1>12 DEF PostFails, End, Goto
  <1>13. ASSUME NEW p \in Procs, HookReturns(p) PROVE PostInv'
    BY <1>13, SendKeepsPostInv DEF HookReturns
  <1>14. ASSUME NEW p \in Procs, HookThrows(p) PROVE PostInv'
    BY <1>14 DEF HookThrows, End, Goto
  <1>15. ASSUME NEW m \in posts, PostRejected(m) PROVE PostInv'
    BY <1>15, ResponseKeepsPostInv DEF PostRejected
  <1>16. ASSUME NEW m \in posts, NEW q \in Procs, PostHandled(m, q)
         PROVE PostInv'
    BY <1>16, ResponseKeepsPostInv
       DEF PostHandled, Stored, AlreadyStored, Conflicts
  <1>17. CASE UNCHANGED vars
    BY <1>17 DEF vars
  <1> QED
    BY <1>1, <1>2, <1>3, <1>4, <1>5, <1>6, <1>7, <1>8, <1>9, <1>10,
       <1>11, <1>12, <1>13, <1>14, <1>15, <1>16, <1>17
       DEF Next, Step, Hook

LEMMA SendKeepsKnowledge ==
  ASSUME TypeOK, PostInv, KnowledgeInv, NEW p \in Procs, NEW changed \in BOOLEAN,
         pc[p] \in {"registering", "getting", "answered", "hooking"},
         SendPost(p, changed), UNCHANGED <<config, boot, release, told>>,
         snapshot' \in {snapshot, [snapshot EXCEPT ![p] = NoAnswer]},
         snapshot'[p] # NoAnswer =>
            /\ config.hook => told[p] = Changes(p)
            /\ changed <=> Changes(p) # {},
         snapshot'[p] = NoAnswer => changed = FALSE
  PROVE  KnowledgeInv'
  <1> DEFINE f == EffectiveForce \/ changed
             n == [proc |-> p, boot |-> boot[p], release |-> release[p],
                   force |-> f]
  <1>1. posts' = posts \cup {n} /\ pc' = [pc EXCEPT ![p] = "posting"]
    BY DEF SendPost, Goto
  <1>2. n.proc = p /\ n.boot = boot[p] /\ n.force = f
    OBVIOUS
  <1> HIDE DEF n
  <1>3. EffectiveForce' = EffectiveForce
    BY DEF EffectiveForce
  <1>4. \A q \in Procs \ {p} : Changes(q)' = Changes(q)
    BY DEF Changes, TypeOK
  <1>5. snapshot'[p] # NoAnswer => Changes(p)' = Changes(p)
    BY DEF Changes, TypeOK
  <1>6. ASSUME NEW q \in Procs
        PROVE  /\ pc'[q] \in {"registering", "getting"} => snapshot'[q] = NoAnswer
               /\ pc'[q] \in {"answered", "hooking"} => snapshot'[q] # NoAnswer
               /\ pc'[q] \in {"registering", "getting", "answered"} => told'[q] = {}
               /\ pc'[q] = "hooking" => told'[q] # {} /\ told'[q] = Changes(q)'
    BY <1>1, <1>4 DEF KnowledgeInv, TypeOK
  <1>7. ASSUME NEW m \in posts', Current(m)'
        PROVE  /\ EffectiveForce' => m.force
               /\ snapshot'[m.proc] # NoAnswer =>
                     /\ config'.hook => told'[m.proc] = Changes(m.proc)'
                     /\ m.force <=> EffectiveForce' \/ Changes(m.proc)' # {}
               /\ snapshot'[m.proc] = NoAnswer => (m.force <=> EffectiveForce')
    <2>1. CASE m = n
      BY <1>2, <1>3, <1>5, <2>1
    <2>2. CASE m \in posts
      <3>1. m.proc \in Procs \ {p} /\ Current(m)
        BY <1>7, <2>2, NoPostYet DEF Current, TypeOK
      <3>2. snapshot'[m.proc] = snapshot[m.proc]
        BY <3>1 DEF TypeOK
      <3> QED
        BY <1>3, <1>4, <2>2, <3>1, <3>2 DEF KnowledgeInv
    <2> QED
      BY <1>1, <1>7, <2>1, <2>2
  <1> QED
    BY <1>6, <1>7 DEF KnowledgeInv

\* A response, and any change of the deployment, leaves the boots' knowledge alone.
LEMMA ResponseKeepsKnowledge ==
  ASSUME TypeOK, KnowledgeInv, NEW m \in posts, NEW status,
         posts' = posts \ {m}, Respond(m, status),
         UNCHANGED <<config, boot, release, snapshot, told>>
  PROVE  KnowledgeInv'
  <1>1. m.proc \in Procs
    BY DEF TypeOK
  <1>2. \A q \in Procs : pc'[q] = pc[q] \/ pc'[q] = "replied"
    BY <1>1 DEF Respond, Goto, TypeOK
  <1>3. EffectiveForce' = EffectiveForce /\ \A q \in Procs : Changes(q)' = Changes(q)
    BY DEF EffectiveForce, Changes
  <1>4. \A k \in posts' : k \in posts /\ k.proc \in Procs /\ (Current(k)' <=> Current(k))
    BY DEF TypeOK, Current
  <1> QED
    BY <1>2, <1>3, <1>4 DEF KnowledgeInv

LEMMA NextKnowledge ==
  ASSUME TypeOK, PostInv, KnowledgeInv, [Next]_vars
  PROVE  KnowledgeInv'
  <1> USE RegistrationAssumption, SentinelAssumption
      DEF RegistrationAssumption, SentinelAssumption, TypeOK, PostInv,
          KnowledgeInv, Current, Changes, EffectiveForce
  <1>1. ASSUME NEW p \in Procs, Boot(p) PROVE KnowledgeInv'
    <2>1. /\ boot[p] \in Int /\ boot' = [boot EXCEPT ![p] = @ + 1]
          /\ pc' = [pc EXCEPT ![p] = "registering"]
          /\ snapshot' = [snapshot EXCEPT ![p] = NoAnswer]
          /\ told' = [told EXCEPT ![p] = {}]
          /\ posts' = posts /\ config' = config
          /\ \A q \in Procs \ {p} : release'[q] = release[q]
      BY <1>1 DEF Boot, Goto
    <2>2. \A m \in posts : m.proc \in Procs /\ m.boot \in Int /\ boot[m.proc] \in Int
      OBVIOUS
    <2>3. \A m \in posts : Current(m)' => m.proc # p /\ Current(m)
      BY <2>1, <2>2
    <2>4. \A q \in Procs \ {p} : Changes(q)' = Changes(q)
      BY <2>1
    <2>5. (EffectiveForce' <=> EffectiveForce) /\ config' = config
      BY <2>1
    <2> HIDE DEF Changes, EffectiveForce, Current
    <2>6. ASSUME NEW q \in Procs
          PROVE  /\ pc'[q] \in {"registering", "getting"} => snapshot'[q] = NoAnswer
                 /\ pc'[q] \in {"answered", "hooking"} => snapshot'[q] # NoAnswer
                 /\ pc'[q] \in {"registering", "getting", "answered"} => told'[q] = {}
                 /\ pc'[q] = "hooking" => told'[q] # {} /\ told'[q] = Changes(q)'
      BY <2>1, <2>4
    <2>7. ASSUME NEW m \in posts', Current(m)'
          PROVE  /\ EffectiveForce' => m.force
                 /\ snapshot'[m.proc] # NoAnswer =>
                       /\ config'.hook => told'[m.proc] = Changes(m.proc)'
                       /\ m.force <=> EffectiveForce' \/ Changes(m.proc)' # {}
                 /\ snapshot'[m.proc] = NoAnswer => (m.force <=> EffectiveForce')
      <3>1. m \in posts /\ m.proc \in Procs \ {p} /\ Current(m)
        BY <2>1, <2>2, <2>3, <2>7
      <3>2. /\ snapshot'[m.proc] = snapshot[m.proc]
            /\ told'[m.proc] = told[m.proc]
            /\ Changes(m.proc)' = Changes(m.proc)
        BY <2>1, <2>4, <3>1
      <3> HIDE DEF TypeOK, PostInv
      <3> QED
        BY <2>5, <3>1, <3>2
    <2> QED
      BY <2>6, <2>7
  <1>2. ASSUME NEW p \in Procs, Crash(p) PROVE KnowledgeInv'
    BY <1>2 DEF Crash, Goto
  <1>3. ASSUME NEW p \in Procs, SkipWithoutPort(p) PROVE KnowledgeInv'
    BY <1>3 DEF SkipWithoutPort, End, Goto
  <1>4. ASSUME NEW p \in Procs, SendGet(p) PROVE KnowledgeInv'
    BY <1>4 DEF SendGet, Goto
  <1>5. ASSUME NEW p \in Procs, PostBlindly(p) PROVE KnowledgeInv'
    BY <1>5, SendKeepsKnowledge DEF PostBlindly
  <1>6. ASSUME NEW p \in Procs, GetAnswered(p) PROVE KnowledgeInv'
    BY <1>6 DEF GetAnswered, Goto
  <1>7. ASSUME NEW p \in Procs, GetFails(p) PROVE KnowledgeInv'
    BY <1>7, SendKeepsKnowledge DEF GetFails
  <1>8. ASSUME NEW p \in Procs, CallHook(p) PROVE KnowledgeInv'
    BY <1>8 DEF CallHook, Goto
  <1>9. ASSUME NEW p \in Procs, SkipUnchanged(p) PROVE KnowledgeInv'
    BY <1>9 DEF SkipUnchanged, End, Goto
  <1>10. ASSUME NEW p \in Procs, PostChecked(p) PROVE KnowledgeInv'
    BY <1>10, SendKeepsKnowledge DEF PostChecked
  <1>11. ASSUME NEW p \in Procs, PostReturns(p) PROVE KnowledgeInv'
    BY <1>11 DEF PostReturns, Goto
  <1>12. ASSUME NEW p \in Procs, PostFails(p) PROVE KnowledgeInv'
    BY <1>12 DEF PostFails, End, Goto
  <1>13. ASSUME NEW p \in Procs, HookReturns(p) PROVE KnowledgeInv'
    BY <1>13, SendKeepsKnowledge DEF HookReturns
  <1>14. ASSUME NEW p \in Procs, HookThrows(p) PROVE KnowledgeInv'
    BY <1>14 DEF HookThrows, End, Goto
  <1>15. ASSUME NEW m \in posts, PostRejected(m) PROVE KnowledgeInv'
    BY <1>15, ResponseKeepsKnowledge DEF PostRejected
  <1>16. ASSUME NEW m \in posts, NEW q \in Procs, PostHandled(m, q)
         PROVE KnowledgeInv'
    BY <1>16, ResponseKeepsKnowledge
       DEF PostHandled, Stored, AlreadyStored, Conflicts
  <1>17. CASE UNCHANGED vars
    BY <1>17 DEF vars
  <1> QED
    BY <1>1, <1>2, <1>3, <1>4, <1>5, <1>6, <1>7, <1>8, <1>9, <1>10,
       <1>11, <1>12, <1>13, <1>14, <1>15, <1>16, <1>17
       DEF Next, Step, Hook

LEMMA NextAnyProcs == AnyProcsInv /\ [Next]_vars => AnyProcsInv'
  BY NextRegistrationType, NextPost, NextKnowledge DEF AnyProcsInv

\* What a boot sends and knows, whatever other processes do at the same URL.
THEOREM AnyProcs == Spec => []AnyProcsInv
  BY InitAnyProcs, NextAnyProcs, PTL DEF Spec

\* The state of the boots and of the admin API keeps its types.
THEOREM RegistrationTypeCorrect == Spec => []TypeOK
  <1>1. AnyProcsInv => TypeOK
    BY DEF AnyProcsInv
  <1> QED
    BY <1>1, AnyProcs, PTL

\* A hook that throws does abort registration, and a skip is a skip: nothing is
\* on its way to Restate, whatever other processes do at the same URL.
THEOREM GivingUpSendsNothing == Spec => []NothingSentAfterGivingUp
  <1>1. AnyProcsInv => NothingSentAfterGivingUp
    BY DEF AnyProcsInv, PostInv, Current, NothingSentAfterGivingUp
  <1> QED
    BY <1>1, AnyProcs, PTL

\* Only a POST that is carried out changes what Restate has stored.
LEMMA OnlyPostsStore ==
  ASSUME [Next]_vars, deployed' # deployed
  PROVE  \E m \in posts, q \in Procs : PostHandled(m, q) /\ Stored(m, q)
  BY DEF Next, vars, Step, Hook, Boot, Crash, SkipWithoutPort, SendGet,
     PostBlindly, GetAnswered, GetFails, CallHook, SkipUnchanged, PostChecked,
     PostReturns, PostFails, HookReturns, HookThrows, PostRejected,
     PostHandled, AlreadyStored, Conflicts

\* What a POST stores carries the metadata map of its release.
LEMMA StoringSetsTheMap ==
  ASSUME TypeOK, NEW m \in posts, NEW q \in Procs, Stored(m, q)
  PROVE  deployed' # NULL /\ DeployedMap' = ComponentMetadataMap(m.release)
  <1>1. m.release \in Releases /\ release[q] \in Releases
    BY DEF TypeOK
  <1>2. deployed' \in RegisteredDeployments
    BY <1>1 DEF Stored, RegisteredDeployments, Ifaces, Blobs
  <1>3. deployed' # NULL /\ deployed'.meta # Malformed
    BY <1>2, SentinelAssumption DEF SentinelAssumption, RegisteredDeployments
  <1>4. deployed'.meta = ComponentMetadataMap(m.release)
    BY DEF Stored
  <1> QED
    BY <1>3, <1>4 DEF DeployedMap, ParseBlob, StoredBlob

\* Whenever a POST replaces what its boot's GET returned, the hook was told
\* every metadata change the POST makes, whatever happened in between.
THEOREM ReplacementsAreAnnounced == Spec => ReplacementIsAnnounced
  <1> DEFINE P == \A m \in posts :
                    /\ config.hook
                    /\ HandledNow(m)
                    /\ deployed' # deployed
                    /\ snapshot[m.proc] = deployed
                    => Announces(told[m.proc], DeployedMap, DeployedMap')
  <1>1. AnyProcsInv /\ [Next]_vars => [P]_vars
    <2> SUFFICES ASSUME AnyProcsInv, [Next]_vars, NEW m \in posts, config.hook,
                        HandledNow(m), deployed' # deployed,
                        snapshot[m.proc] = deployed
                 PROVE  Announces(told[m.proc], DeployedMap, DeployedMap')
      OBVIOUS
    <2>1. PICK n \in posts, q \in Procs : PostHandled(n, q) /\ Stored(n, q)
      BY OnlyPostsStore
    <2>2. n = m /\ Current(m)
      BY <2>1 DEF PostHandled, HandledNow, Current
    <2>3. deployed # NoAnswer /\ m.release \in Releases
      BY SentinelAssumption DEF SentinelAssumption, AnyProcsInv, TypeOK
    <2>4. told[m.proc] = Changes(m.proc) /\ m.release = release[m.proc]
      BY <2>2, <2>3 DEF AnyProcsInv, KnowledgeInv, PostInv
    <2>5. told[m.proc] = DiffComponentMetadata(StoredBlob(deployed), m.release)
      BY <2>4 DEF Changes
    <2>6. DeployedMap' = ComponentMetadataMap(m.release)
      BY <2>1, <2>2, <2>3, StoringSetsTheMap DEF AnyProcsInv
    <2> QED
      BY <2>5, <2>6, DiffAnnounces DEF DeployedMap
  <1> QED
    BY <1>1, AnyProcs, PTL DEF Spec, ReplacementIsAnnounced

LEMMA OptionsKept == [Next]_vars => config' = config /\ EffectiveForce' = EffectiveForce
  <1> SUFFICES ASSUME [Next]_vars PROVE config' = config
    BY DEF EffectiveForce
  <1> QED
    BY DEF Next, vars, Step, Hook, Boot, Crash, SkipWithoutPort, SendGet,
       PostBlindly, GetAnswered, GetFails, CallHook, SkipUnchanged, PostChecked,
       PostReturns, PostFails, HookReturns, HookThrows, PostRejected, PostHandled

-----------------------------------------------------------------------------
(* What a boot knows and reports, until it is overtaken.                   *)

\* Only a request that Restate accepts can overtake anybody.
LEMMA OnlyPostsOvertake ==
  ASSUME [Next]_vars, overtaken' # overtaken
  PROVE  \E m \in posts, q \in Procs :
            PostHandled(m, q) /\ (Stored(m, q) \/ AlreadyStored(m, q))
  BY DEF Next, vars, Step, Hook, Boot, Crash, SkipWithoutPort, SendGet,
     PostBlindly, GetAnswered, GetFails, CallHook, SkipUnchanged, PostChecked,
     PostReturns, PostFails, HookReturns, HookThrows, PostRejected,
     PostHandled, Conflicts

LEMMA OvertakenStays == [Next]_vars => overtaken \subseteq overtaken'
  <1> SUFFICES ASSUME [Next]_vars, overtaken' # overtaken
               PROVE  overtaken \subseteq overtaken'
    OBVIOUS
  <1> QED
    BY OnlyPostsOvertake DEF Stored, AlreadyStored

\* Whoever is not overtaken by what is stored runs just that.
LEMMA StoringSpares ==
  ASSUME TypeOK, [Next]_vars, deployed' # deployed, NEW b \in Boots,
         b \notin overtaken'
  PROVE  Holds(deployed', b[3]) /\ release' = release
  <1>1. PICK m \in posts, q \in Procs : PostHandled(m, q) /\ Stored(m, q)
    BY OnlyPostsStore
  <1> QED
    BY <1>1 DEF PostHandled, Stored

\* What is deployed stays so for a boot that is not overtaken.
LEMMA BootSpared ==
  ASSUME TypeOK, [Next]_vars, deployed' # deployed, NEW p \in Procs,
         pc[p] # "down", BootOf(p) \notin overtaken'
  PROVE  Holds(deployed', release[p]) /\ release' = release
  <1>1. BootOf(p) \in Boots /\ BootOf(p)[3] = release[p]
    BY BootsAreTyped DEF BootOf
  <1> QED
    BY <1>1, StoringSpares

LEMMA SenderSpared ==
  ASSUME TypeOK, [Next]_vars, deployed' # deployed, NEW m \in posts,
         Sender(m) \notin overtaken'
  PROVE  Holds(deployed', m.release)
  <1>1. Sender(m) \in Boots /\ Sender(m)[3] = m.release
    BY BootsAreTyped DEF Sender
  <1> QED
    BY <1>1, StoringSpares

\* An empty diff against the stored deployment means equal metadata.
LEMMA NoChangesIsSameMetadata ==
  ASSUME TypeOK, NEW p \in Procs, snapshot[p] = deployed, deployed # NULL,
         Changes(p) = {}
  PROVE  ParseBlob(deployed.meta) = ComponentMetadataMap(release[p])
  <1>1. release[p] \in Releases /\ deployed \in StoredDeployments
    BY DEF TypeOK
  <1>2. DiffComponentMetadata(StoredBlob(deployed), release[p]) = {}
    BY DEF Changes
  <1>3. ParseBlob(StoredBlob(deployed)) = ComponentMetadataMap(release[p])
    BY <1>1, <1>2, StoredBlobIsBlob, DiffIsComplete
  <1> QED
    BY <1>3 DEF StoredBlob

\* The production skip-check is sound while the tag tells the truth.
LEMMA SkipCheckIsSound ==
  ASSUME TypeOK, TagIsTruthful, NEW p \in Procs, snapshot[p] = deployed,
         Unchanged(p)
  PROVE  IsDeployed(release[p])
  <1>1. InterfaceHash(release[p]) # NULL
    BY SentinelAssumption DEF SentinelAssumption, Ifaces, TypeOK
  <1>2. deployed # NULL /\ deployed.iface = InterfaceHash(release[p])
    BY <1>1 DEF Unchanged, ExistingHashMatches, StoredHash, TagIsTruthful
  <1>3. ParseBlob(deployed.meta) = ComponentMetadataMap(release[p])
    BY <1>2, NoChangesIsSameMetadata DEF Unchanged
  <1> QED
    BY <1>2, <1>3 DEF IsDeployed, Holds

\* How a boot comes to an outcome that claims something.
LEMMA ClaimsComeFrom ==
  ASSUME AnyProcsInv, [Next]_vars, NEW p \in Procs,
         pc'[p] \in {"replied", "ready"}, outcome'[p] \in {"skipped", "registered"}
  PROVE  /\ release'[p] = release[p] /\ boot'[p] = boot[p]
         /\ snapshot'[p] = snapshot[p]
         /\ \/ pc[p] \in {"replied", "ready"} /\ outcome'[p] = outcome[p]
            \/ SkipUnchanged(p)
            \/ \E m \in posts, q \in Procs :
                  /\ PostHandled(m, q) /\ m.proc = p /\ Current(m)
                  /\ Stored(m, q) \/ AlreadyStored(m, q)
                  /\ outcome'[p] = "registered"
  <1> DEFINE G == /\ release'[p] = release[p] /\ boot'[p] = boot[p]
                  /\ snapshot'[p] = snapshot[p]
                  /\ \/ pc[p] \in {"replied", "ready"} /\ outcome'[p] = outcome[p]
                     \/ SkipUnchanged(p)
                     \/ \E m \in posts, q \in Procs :
                           /\ PostHandled(m, q) /\ m.proc = p /\ Current(m)
                           /\ Stored(m, q) \/ AlreadyStored(m, q)
                           /\ outcome'[p] = "registered"
  <1> USE DEF AnyProcsInv, TypeOK
  <1>1. ASSUME NEW q \in Procs, Boot(q) \/ Crash(q) PROVE G
    BY <1>1 DEF Boot, Crash, Goto
  <1>2. ASSUME NEW q \in Procs,
               PostBlindly(q) \/ GetFails(q) \/ PostChecked(q) \/ HookReturns(q)
        PROVE  G
    BY <1>2 DEF PostBlindly, GetFails, PostChecked, HookReturns, SendPost, Goto
  <1>3. ASSUME NEW q \in Procs, SkipWithoutPort(q) \/ PostFails(q) \/ HookThrows(q) PROVE G
    BY <1>3 DEF SkipWithoutPort, PostFails, HookThrows, End, Goto
  <1>4. ASSUME NEW q \in Procs,
               SendGet(q) \/ GetAnswered(q) \/ CallHook(q) \/ PostReturns(q)
        PROVE  G
    BY <1>4 DEF SendGet, GetAnswered, CallHook, PostReturns, Goto
  <1>5. ASSUME NEW q \in Procs, SkipUnchanged(q) PROVE G
    BY <1>5 DEF SkipUnchanged, End, Goto
  <1>6. ASSUME NEW m \in posts, PostRejected(m) PROVE G
    BY <1>6 DEF PostRejected, Respond, Goto
  <1>7. ASSUME NEW m \in posts, NEW q \in Procs, PostHandled(m, q) PROVE G
    <2>1. /\ release' = release /\ boot' = boot /\ snapshot' = snapshot
          /\ m.proc \in Procs
      BY <1>7 DEF PostHandled
    <2>2. CASE Conflicts(m, q)
      BY <2>1, <2>2 DEF Conflicts, Respond, Goto
    <2>3. CASE Stored(m, q) \/ AlreadyStored(m, q)
      <3>1. Respond(m, "registered")
        BY <2>3 DEF Stored, AlreadyStored
      <3>2. CASE m.proc = p /\ pc[p] = "posting" /\ boot[p] = m.boot
        <4>1. outcome'[p] = "registered" /\ Current(m)
          BY <3>1, <3>2 DEF Respond, Current
        <4> QED
          BY <1>7, <2>1, <2>3, <3>2, <4>1
      <3>3. CASE ~(m.proc = p /\ pc[p] = "posting" /\ boot[p] = m.boot)
        <4>1. pc'[p] = pc[p] /\ outcome'[p] = outcome[p]
          BY <3>1, <3>3 DEF Respond, Goto
        <4> QED
          BY <2>1, <4>1
      <3> QED
        BY <3>2, <3>3
    <2> QED
      BY <1>7, <2>2, <2>3 DEF PostHandled
  <1>8. CASE UNCHANGED vars
    BY <1>8 DEF vars
  <1> QED
    BY <1>1, <1>2, <1>3, <1>4, <1>5, <1>6, <1>7, <1>8 DEF Next, Step, Hook

\* A boot that is up and has read was so before, or reads now.
LEMMA ReadComesFrom ==
  ASSUME TypeOK, [Next]_vars, NEW p \in Procs, pc'[p] # "down",
         snapshot'[p] # NoAnswer
  PROVE  /\ pc[p] # "down"
         /\ boot'[p] = boot[p] /\ release'[p] = release[p]
         /\ \/ snapshot'[p] = snapshot[p]
            \/ snapshot'[p] = deployed /\ deployed' = deployed
  <1> DEFINE G == /\ pc[p] # "down"
                  /\ boot'[p] = boot[p] /\ release'[p] = release[p]
                  /\ \/ snapshot'[p] = snapshot[p]
                     \/ snapshot'[p] = deployed /\ deployed' = deployed
  <1> USE DEF TypeOK
  <1>1. ASSUME NEW q \in Procs, Boot(q) \/ Crash(q) PROVE G
    BY <1>1 DEF Boot, Crash, Goto
  <1>2. ASSUME NEW q \in Procs,
               PostBlindly(q) \/ GetFails(q) \/ PostChecked(q) \/ HookReturns(q)
        PROVE  G
    BY <1>2 DEF PostBlindly, GetFails, PostChecked, HookReturns, SendPost, Goto
  <1>3. ASSUME NEW q \in Procs,
               \/ SkipWithoutPort(q) \/ SkipUnchanged(q) \/ PostFails(q)
               \/ HookThrows(q)
        PROVE  G
    BY <1>3 DEF SkipWithoutPort, SkipUnchanged, PostFails, HookThrows, End, Goto
  <1>4. ASSUME NEW q \in Procs,
               SendGet(q) \/ GetAnswered(q) \/ CallHook(q) \/ PostReturns(q)
        PROVE  G
    BY <1>4 DEF SendGet, GetAnswered, CallHook, PostReturns, Goto
  <1>5. ASSUME NEW m \in posts, PostRejected(m) \/ \E q \in Procs : PostHandled(m, q)
        PROVE  G
    <2>1. /\ boot' = boot /\ release' = release /\ snapshot' = snapshot
          /\ \E status : Respond(m, status)
      BY <1>5 DEF PostRejected, PostHandled, Stored, AlreadyStored, Conflicts
    <2> QED
      BY <2>1 DEF Respond, Goto
  <1>6. CASE UNCHANGED vars
    BY <1>6 DEF vars
  <1> QED
    BY <1>1, <1>2, <1>3, <1>4, <1>5, <1>6 DEF Next, Step, Hook

LEMMA NextRead ==
  ASSUME TypeOK, ReadInv, [Next]_vars
  PROVE  ReadInv'
  <1> SUFFICES ASSUME NEW p \in Procs, pc'[p] # "down", BootOf(p)' \notin overtaken',
                      snapshot'[p] # NoAnswer
               PROVE  deployed' = snapshot'[p] \/ Holds(deployed', release'[p])
    BY DEF ReadInv, IsDeployed, Holds
  <1>1. /\ pc[p] # "down" /\ BootOf(p)' = BootOf(p) /\ release'[p] = release[p]
        /\ snapshot'[p] = snapshot[p] \/ (snapshot'[p] = deployed /\ deployed' = deployed)
    BY ReadComesFrom DEF BootOf
  <1>2. CASE deployed' = deployed
    <2>1. BootOf(p) \notin overtaken
      BY <1>1, OvertakenStays
    <2> QED
      BY <1>1, <1>2, <2>1 DEF ReadInv, IsDeployed
  <1>3. CASE deployed' # deployed
    BY <1>1, <1>3, BootSpared
  <1> QED
    BY <1>2, <1>3

\* A POST that Restate accepts leaves it with the release, if its boot forced or
\* knew the deployment, and with its interface in any case, unless the boot was
\* overtaken.
LEMMA AcceptedHolds ==
  ASSUME AnyProcsInv, ReadInv, [Next]_vars, NEW m \in posts, NEW q \in Procs,
         PostHandled(m, q), Current(m), Stored(m, q) \/ AlreadyStored(m, q),
         pc[m.proc] # "down", BootOf(m.proc) \notin overtaken'
  PROVE  /\ deployed' # NULL /\ deployed'.iface = InterfaceHash(release[m.proc])
         /\ EffectiveForce \/ snapshot[m.proc] # NoAnswer =>
               Holds(deployed', release[m.proc])
  <1>1. /\ TypeOK /\ m.proc \in Procs /\ m.release = release[m.proc]
        /\ Sender(m) = BootOf(m.proc)
    BY DEF AnyProcsInv, TypeOK, PostInv, Current, Sender, BootOf
  <1>2. CASE Stored(m, q)
    <2>1. Sender(m) \in Boots /\ Sender(m)[3] = m.release
      BY <1>1, BootsAreTyped DEF Sender
    <2>2. Holds(deployed', m.release)
      BY <1>1, <1>2, <2>1 DEF Stored
    <2> QED
      BY <1>1, <2>2 DEF Holds
  <1>3. CASE AlreadyStored(m, q)
    <2>1. deployed' = deployed /\ deployed # NULL /\ ~m.force
      BY <1>3 DEF AlreadyStored
    <2>2. deployed.iface = InterfaceHash(release[m.proc])
      BY <1>1, <1>3 DEF AlreadyStored
    <2>3. ASSUME EffectiveForce \/ snapshot[m.proc] # NoAnswer
          PROVE  IsDeployed(release[m.proc])
      <3>1. snapshot[m.proc] # NoAnswer /\ Changes(m.proc) = {}
        BY <2>1, <2>3 DEF AnyProcsInv, KnowledgeInv
      <3>2. BootOf(m.proc) \notin overtaken
        BY OvertakenStays
      <3>3. CASE deployed = snapshot[m.proc]
        <4>1. ParseBlob(deployed.meta) = ComponentMetadataMap(release[m.proc])
          BY <1>1, <2>1, <3>1, <3>3, NoChangesIsSameMetadata
        <4> QED
          BY <2>1, <2>2, <4>1 DEF IsDeployed, Holds
      <3> QED
        BY <1>1, <3>1, <3>2, <3>3 DEF ReadInv
    <2> QED
      BY <2>1, <2>2, <2>3 DEF IsDeployed
  <1> QED
    BY <1>2, <1>3

LEMMA NextOutcome ==
  ASSUME AnyProcsInv, ReadInv, OutcomeInv, [Next]_vars
  PROVE  OutcomeInv'
  <1> SUFFICES ASSUME NEW p \in Procs, pc'[p] \in {"replied", "ready"},
                      BootOf(p)' \notin overtaken',
                      outcome'[p] \in {"skipped", "registered"}
               PROVE  /\ outcome'[p] = "skipped" =>
                            Holds(deployed', release'[p]) \/ ~TagIsTruthful'
                      /\ outcome'[p] = "registered" /\
                            (EffectiveForce' \/ snapshot'[p] # NoAnswer)
                            => Holds(deployed', release'[p])
                      /\ outcome'[p] = "registered" =>
                            /\ deployed' # NULL
                            /\ deployed'.iface = InterfaceHash(release'[p])
    BY DEF OutcomeInv, IsDeployed, Holds, TagIsTruthful
  <1>1. /\ release'[p] = release[p] /\ BootOf(p)' = BootOf(p)
        /\ snapshot'[p] = snapshot[p] /\ TypeOK
    BY ClaimsComeFrom DEF BootOf, AnyProcsInv
  <1>2. BootOf(p) \notin overtaken /\ EffectiveForce' = EffectiveForce
    BY <1>1, OvertakenStays, OptionsKept
  <1>3. CASE pc[p] \in {"replied", "ready"} /\ outcome'[p] = outcome[p]
    <2>1. CASE deployed' = deployed
      BY <1>1, <1>2, <1>3, <2>1 DEF OutcomeInv, IsDeployed, TagIsTruthful
    <2>2. CASE deployed' # deployed
      <3>1. Holds(deployed', release[p])
        BY <1>1, <1>3, <2>2, BootSpared
      <3> QED
        BY <1>1, <3>1 DEF Holds
    <2> QED
      BY <2>1, <2>2
  <1>4. CASE SkipUnchanged(p)
    <2>1. outcome'[p] = "skipped" /\ deployed' = deployed /\ snapshot[p] # NoAnswer
          /\ pc[p] # "down"
      BY <1>1, <1>4 DEF SkipUnchanged, End, TypeOK, AnyProcsInv, KnowledgeInv
    <2>2. deployed = snapshot[p] \/ IsDeployed(release[p])
      BY <1>2, <2>1 DEF ReadInv
    <2>3. IsDeployed(release[p]) \/ ~TagIsTruthful
      BY <1>1, <1>4, <2>2, SkipCheckIsSound DEF SkipUnchanged
    <2> QED
      BY <1>1, <2>1, <2>3 DEF IsDeployed, TagIsTruthful
  <1>5. ASSUME NEW m \in posts, NEW q \in Procs, PostHandled(m, q), m.proc = p,
               Current(m), Stored(m, q) \/ AlreadyStored(m, q),
               outcome'[p] = "registered"
        PROVE  /\ deployed' # NULL /\ deployed'.iface = InterfaceHash(release[p])
               /\ EffectiveForce \/ snapshot[p] # NoAnswer =>
                     Holds(deployed', release[p])
    <2>1. pc[p] # "down"
      BY <1>1, <1>5 DEF Stored, AlreadyStored, Respond, TypeOK
    <2> QED
      BY <1>1, <1>5, <2>1, AcceptedHolds
  <1> QED
    BY <1>1, <1>2, <1>3, <1>4, <1>5, ClaimsComeFrom

-----------------------------------------------------------------------------
(* Fleets: what runs at the URL, replicas, and one process.                *)

LEMMA InitFleet == Init => FleetInv
  BY DEF Init, FleetInv

LEMMA SendKeepsFleet ==
  ASSUME FleetInv, NEW p \in Procs, NEW changed, SendPost(p, changed),
         UNCHANGED <<fleet, release>>
  PROVE  FleetInv'
  BY DEF FleetInv, SendPost

LEMMA NextFleet ==
  ASSUME TypeOK, FleetInv, [Next]_vars
  PROVE  FleetInv' /\ fleet' = fleet
  <1>1. ASSUME NEW p \in Procs, Boot(p) PROVE FleetInv' /\ fleet' = fleet
    BY <1>1 DEF Boot, FleetInv, TypeOK
  <1>2. ASSUME NEW p \in Procs,
               PostBlindly(p) \/ GetFails(p) \/ PostChecked(p) \/ HookReturns(p)
        PROVE  FleetInv' /\ fleet' = fleet
    BY <1>2, SendKeepsFleet DEF PostBlindly, GetFails, PostChecked, HookReturns
  <1>3. ASSUME NEW p \in Procs,
               \/ Crash(p) \/ SkipWithoutPort(p) \/ SendGet(p) \/ GetAnswered(p)
               \/ CallHook(p) \/ SkipUnchanged(p) \/ PostReturns(p) \/ PostFails(p)
               \/ HookThrows(p)
        PROVE  FleetInv' /\ fleet' = fleet
    BY <1>3 DEF Crash, SkipWithoutPort, SendGet, GetAnswered, CallHook,
       SkipUnchanged, PostReturns, PostFails, HookThrows, FleetInv
  <1>4. ASSUME NEW m \in posts, PostRejected(m) \/ \E q \in Procs : PostHandled(m, q)
        PROVE  FleetInv' /\ fleet' = fleet
    BY <1>4 DEF PostRejected, PostHandled, FleetInv
  <1>5. CASE UNCHANGED vars
    BY <1>5 DEF vars, FleetInv
  <1> QED
    BY <1>1, <1>2, <1>3, <1>4, <1>5 DEF Next, Step, Hook

LEMMA InitTag == Init => TagIsTruthful
  BY RegistrationAssumption
     DEF RegistrationAssumption, IsInitialDeployment, Init, TagIsTruthful

\* What is stored has the interface of the process that answered.
LEMMA StoredInterface ==
  ASSUME TypeOK, NEW m \in posts, NEW q \in Procs, Stored(m, q)
  PROVE  /\ deployed' # NULL
         /\ deployed'.iface = InterfaceHash(release[q])
         /\ deployed'.hash = InterfaceHash(m.release)
         /\ ParseBlob(deployed'.meta) = ComponentMetadataMap(m.release)
  <1>1. deployed' # NULL /\ DeployedMap' = ComponentMetadataMap(m.release)
    BY StoringSetsTheMap
  <1> QED
    BY <1>1 DEF Stored, DeployedMap, StoredBlob

\* Releases of one interface, such as those that differ in their metadata only.
OneInterface == \A r, s \in fleet : InterfaceHash(r) = InterfaceHash(s)

LEMMA NextTag ==
  ASSUME AnyProcsInv, FleetInv, OneInterface, TagIsTruthful, [Next]_vars
  PROVE  TagIsTruthful' /\ OneInterface'
  <1>1. TypeOK /\ fleet' = fleet
    BY NextFleet DEF AnyProcsInv
  <1>2. CASE deployed' = deployed
    BY <1>1, <1>2 DEF TagIsTruthful, OneInterface
  <1>3. CASE deployed' # deployed
    <2>1. PICK m \in posts, q \in Procs : PostHandled(m, q) /\ Stored(m, q)
      BY <1>3, OnlyPostsStore
    <2>2. InterfaceHash(m.release) = InterfaceHash(release[q])
      BY DEF FleetInv, OneInterface
    <2> QED
      BY <1>1, <2>1, <2>2, StoredInterface DEF TagIsTruthful, OneInterface
  <1> QED
    BY <1>2, <1>3

\* The interface-hash tag of the stored deployment never lies as long as the
\* releases at the URL have one interface, whoever answers and however late.
\* With two interfaces it may (a tag of one stored with the other).
THEOREM TagsAreTruthful == Spec /\ OneInterface => []TagIsTruthful
  <1>1. AnyProcsInv /\ FleetInv /\ [Next]_vars => FleetInv'
    BY NextFleet DEF AnyProcsInv
  <1>2. AnyProcsInv /\ FleetInv /\ OneInterface /\ TagIsTruthful /\ [Next]_vars
           => TagIsTruthful' /\ OneInterface'
    BY NextTag
  <1> QED
    BY <1>1, <1>2, InitTag, InitFleet, AnyProcs, PTL DEF Spec

LEMMA NextReplica ==
  ASSUME TypeOK, FleetInv, ReplicaInv, [Next]_vars
  PROVE  ReplicaInv'
  <1> SUFFICES ASSUME NEW r \in Releases, fleet' = {r}
               PROVE  overtaken' = {} /\ TagIsTruthful'
    BY DEF ReplicaInv, Replicas
  <1>1. fleet = {r}
    BY NextFleet
  <1>2. overtaken = {} /\ TagIsTruthful
    BY <1>1 DEF ReplicaInv, Replicas
  <1>3. \A p \in Procs : release[p] = r
    BY <1>1 DEF FleetInv
  <1>4. \A m \in posts : m.release = r
    BY <1>1 DEF FleetInv
  <1>5. \A b \in Boots : b[3] = r
    BY <1>3, <1>4 DEF Boots, BootOf, Sender
  <1>6. ASSUME NEW m \in posts, NEW q \in Procs, PostHandled(m, q), Stored(m, q)
        PROVE  overtaken' = {} /\ TagIsTruthful'
    <2>1. Holds(deployed', r) /\ TagIsTruthful'
      BY <1>3, <1>4, <1>6, StoredInterface DEF Holds, TagIsTruthful
    <2> QED
      BY <1>2, <1>5, <1>6, <2>1 DEF Stored
  <1>7. ASSUME NEW m \in posts, NEW q \in Procs, PostHandled(m, q), AlreadyStored(m, q)
        PROVE  overtaken' = {}
    BY <1>2, <1>3, <1>4, <1>7 DEF AlreadyStored
  <1>8. overtaken' = {}
    BY <1>2, <1>6, <1>7, OnlyPostsOvertake
  <1>9. TagIsTruthful'
    <2>1. CASE deployed' = deployed
      BY <1>2, <2>1 DEF TagIsTruthful
    <2> QED
      BY <1>6, <2>1, OnlyPostsStore
  <1> QED
    BY <1>8, <1>9

LEMMA NextSolo ==
  ASSUME Solo, AnyProcsInv, SoloInv, [Next]_vars
  PROVE  SoloInv'
  <1> SUFFICES ASSUME NEW p \in Procs
               PROVE  /\ pc'[p] # "down" =>
                            \/ snapshot'[p] \in {deployed', NoAnswer}
                            \/ /\ deployed' # NULL
                               /\ deployed'.iface = InterfaceHash(release'[p])
                      /\ pc'[p] \in {"replied", "ready"} /\ outcome'[p] = "registered"
                            => /\ deployed' # NULL
                               /\ deployed'.iface = InterfaceHash(release'[p])
    BY DEF SoloInv
  <1>1. TypeOK /\ \A q \in Procs : q = p
    BY DEF AnyProcsInv, Solo
  <1>2. ASSUME deployed' # deployed
        PROVE  deployed' # NULL /\ deployed'.iface = InterfaceHash(release'[p])
    <2>1. PICK m \in posts, q \in Procs : PostHandled(m, q) /\ Stored(m, q)
      BY <1>2, OnlyPostsStore
    <2> QED
      BY <1>1, <2>1, StoredInterface DEF PostHandled
  <1>3. ASSUME deployed' = deployed, pc'[p] # "down", snapshot'[p] # NoAnswer
        PROVE  \/ snapshot'[p] \in {deployed', NoAnswer}
               \/ deployed' # NULL /\ deployed'.iface = InterfaceHash(release'[p])
    BY <1>1, <1>3, ReadComesFrom DEF SoloInv
  <1>4. ASSUME deployed' = deployed, pc'[p] \in {"replied", "ready"},
               outcome'[p] = "registered"
        PROVE  deployed' # NULL /\ deployed'.iface = InterfaceHash(release'[p])
    <2>1. release'[p] = release[p]
      BY <1>4, ClaimsComeFrom
    <2>2. CASE pc[p] \in {"replied", "ready"} /\ outcome'[p] = outcome[p]
      BY <1>4, <2>1, <2>2 DEF SoloInv
    <2>3. CASE SkipUnchanged(p)
      BY <1>1, <1>4, <2>3 DEF SkipUnchanged, End, TypeOK
    <2>4. ASSUME NEW m \in posts, NEW q \in Procs, Stored(m, q) \/ AlreadyStored(m, q)
          PROVE  deployed' # NULL /\ deployed'.iface = InterfaceHash(release'[p])
      BY <1>1, <2>1, <2>4, StoredInterface DEF AlreadyStored
    <2> QED
      BY <1>4, <2>2, <2>3, <2>4, ClaimsComeFrom
  <1> QED
    BY <1>2, <1>3, <1>4

-----------------------------------------------------------------------------
(* The inductive invariant.                                                *)

LEMMA NextResponded ==
  ASSUME TypeOK, RespondedInv, [Next]_vars
  PROVE  RespondedInv'
  <1> USE DEF TypeOK, RespondedInv
  <1>1. ASSUME NEW p \in Procs, Boot(p) \/ Crash(p) PROVE RespondedInv'
    BY <1>1 DEF Boot, Crash, Goto
  <1>2. ASSUME NEW p \in Procs,
               PostBlindly(p) \/ GetFails(p) \/ PostChecked(p) \/ HookReturns(p)
        PROVE  RespondedInv'
    BY <1>2 DEF PostBlindly, GetFails, PostChecked, HookReturns, SendPost, Goto
  <1>3. ASSUME NEW p \in Procs,
               \/ SkipWithoutPort(p) \/ SkipUnchanged(p) \/ PostFails(p)
               \/ HookThrows(p)
        PROVE  RespondedInv'
    BY <1>3 DEF SkipWithoutPort, SkipUnchanged, PostFails, HookThrows, End, Goto
  <1>4. ASSUME NEW p \in Procs,
               SendGet(p) \/ GetAnswered(p) \/ CallHook(p) \/ PostReturns(p)
        PROVE  RespondedInv'
    BY <1>4 DEF SendGet, GetAnswered, CallHook, PostReturns, Goto
  <1>5. ASSUME NEW m \in posts, PostRejected(m) PROVE RespondedInv'
    BY <1>5 DEF PostRejected, Respond, Goto
  <1>6. ASSUME NEW m \in posts, NEW q \in Procs, PostHandled(m, q) PROVE RespondedInv'
    <2>1. PICK status \in {"registered", "conflict"} : Respond(m, status)
      BY <1>6 DEF PostHandled, Stored, AlreadyStored, Conflicts
    <2> QED
      BY <2>1 DEF Respond, Goto
  <1>7. CASE UNCHANGED vars
    BY <1>7 DEF vars
  <1> QED
    BY <1>1, <1>2, <1>3, <1>4, <1>5, <1>6, <1>7 DEF Next, Step, Hook

\* A request that forces and is new knows what it replaces.
LEMMA NextForce ==
  ASSUME TypeOK, ForceInv, [Next]_vars, AnyProcsInv', ReadInv'
  PROVE  ForceInv'
  <1> SUFFICES ASSUME NEW m \in posts', m.force, ~EffectiveForce',
                      Sender(m)' \notin overtaken', deployed' # NULL,
                      ~Holds(deployed', m.release)
               PROVE  ParseBlob(deployed'.meta) # ComponentMetadataMap(m.release)
    BY DEF ForceInv, IsDeployed, Holds
  <1>1. Sender(m)' = Sender(m)
    BY DEF Sender
  <1>2. CASE m \in posts
    <2>1. deployed' = deployed
      BY <1>1, <1>2, SenderSpared
    <2> QED
      BY <1>1, <1>2, <2>1, OptionsKept, OvertakenStays DEF ForceInv, IsDeployed
  <1>3. CASE m \notin posts
    <2>1. PICK p \in Procs :
             PostBlindly(p) \/ GetFails(p) \/ PostChecked(p) \/ HookReturns(p)
      BY <1>3 DEF Next, vars, Step, Hook, Boot, Crash, SkipWithoutPort, SendGet,
         GetAnswered, CallHook, SkipUnchanged, PostReturns, PostFails, HookThrows,
         PostRejected, PostHandled
    <2>2. /\ m.proc = p /\ m.boot = boot[p] /\ m.release = release[p]
          /\ boot' = boot /\ release' = release /\ pc'[p] = "posting"
      BY <1>3, <2>1 DEF PostBlindly, GetFails, PostChecked, HookReturns, SendPost,
         Goto, TypeOK
    <2>3. Current(m)' /\ BootOf(p)' = Sender(m)
      BY <2>2 DEF Current, BootOf, Sender
    <2>4. snapshot'[p] # NoAnswer /\ Changes(p)' # {}
      BY <2>2, <2>3 DEF AnyProcsInv, KnowledgeInv
    <2>5. deployed' = snapshot'[p]
      BY <1>1, <2>2, <2>3, <2>4 DEF ReadInv, IsDeployed, Holds
    <2>6. DiffComponentMetadata(StoredBlob(deployed'), m.release) # {}
      BY <2>2, <2>4, <2>5 DEF Changes, StoredBlob
    <2> QED
      BY <2>6, DiffOfSame DEF StoredBlob
  <1> QED
    BY <1>2, <1>3

LEMMA InitPromiseInv == Init => PromiseInv
  <1> SUFFICES ASSUME Init PROVE PromiseInv
    OBVIOUS
  <1>1. RespondedInv /\ ForceInv /\ ReadInv /\ OutcomeInv /\ SoloInv
    BY DEF Init, RespondedInv, ForceInv, ReadInv, OutcomeInv, SoloInv
  <1>2. ReplicaInv
    BY InitTag DEF Init, ReplicaInv
  <1> QED
    BY <1>1, <1>2, InitAnyProcs, InitFleet DEF PromiseInv

LEMMA NextPromiseInv == PromiseInv /\ [Next]_vars => PromiseInv'
  <1> SUFFICES ASSUME PromiseInv, [Next]_vars PROVE PromiseInv'
    OBVIOUS
  <1>1. AnyProcsInv' /\ TypeOK
    BY NextAnyProcs DEF PromiseInv, AnyProcsInv
  <1>2. FleetInv' /\ ReplicaInv' /\ RespondedInv'
    BY <1>1, NextFleet, NextReplica, NextResponded DEF PromiseInv
  <1>3. ReadInv' /\ OutcomeInv'
    BY <1>1, NextRead, NextOutcome DEF PromiseInv
  <1>4. ForceInv'
    BY <1>1, <1>3, NextForce DEF PromiseInv
  <1>5. Solo => SoloInv'
    BY NextSolo DEF PromiseInv
  <1>6. Solo' <=> Solo
    BY DEF Solo
  <1> QED
    BY <1>1, <1>2, <1>3, <1>4, <1>5, <1>6 DEF PromiseInv

\* The inductive invariant: what boots send, know and report, what a late
\* request may still change, and what replicas and a lone process can rely on.
THEOREM PromiseInvariant == Spec => []PromiseInv
  BY InitPromiseInv, NextPromiseInv, PTL DEF Spec

\* A boot's report holds until the boot is overtaken, for any number of
\* processes and releases at the URL.
THEOREM ReadyIsDeployed == Spec => []OutcomeInv
  <1>1. PromiseInv => OutcomeInv
    BY DEF PromiseInv
  <1> QED
    BY <1>1, PromiseInvariant, PTL

\* Replicas behind one URL: however many boot, crash and register, and whichever
\* of them answers Restate, the tag tells the truth and a boot's report holds.
THEOREM ReplicasAgreeAlways == Spec => []ReplicasAgree
  <1>1. PromiseInv => ReplicasAgree
    BY DEF PromiseInv, ReplicaInv, ReplicasAgree, OutcomeInv, ReadyMeansDeployed
  <1> QED
    BY <1>1, PromiseInvariant, PTL

\* Replicas never overtake one another, so that what is said of boots that are
\* not overtaken holds of every one of them.
THEOREM ReplicasAreNeverOvertaken == Spec /\ Replicas => [](overtaken = {})
  <1>1. PromiseInv /\ Replicas => overtaken = {}
    BY DEF PromiseInv, ReplicaInv
  <1>2. PromiseInv /\ Replicas /\ [Next]_vars => Replicas'
    BY NextFleet DEF PromiseInv, AnyProcsInv, Replicas
  <1> QED
    BY <1>1, <1>2, PromiseInvariant, PTL DEF Spec

\* The hook runs before its boot's request, and before anything is replaced that
\* it was not told of, unless its boot is overtaken.
THEOREM HookIsBeforeReplacement == Spec => []HookSeesLiveDeployment
  <1>1. PromiseInv => HookSeesLiveDeployment
    <2> SUFFICES ASSUME PromiseInv, NEW p \in Procs, pc[p] = "hooking"
                 PROVE  /\ told[p] # {}
                        /\ \A m \in posts : Sender(m) # BootOf(p)
                        /\ BootOf(p) \notin overtaken =>
                              \/ Announces(told[p], DeployedMap,
                                           ComponentMetadataMap(release[p]))
                              \/ IsDeployed(release[p])
      BY DEF HookSeesLiveDeployment
    <2>1. told[p] # {} /\ told[p] = Changes(p) /\ snapshot[p] # NoAnswer
      BY DEF PromiseInv, AnyProcsInv, KnowledgeInv
    <2>2. \A m \in posts : Sender(m) # BootOf(p)
      BY DEF PromiseInv, AnyProcsInv, PostInv, Current, Sender, BootOf
    <2>3. BootOf(p) \notin overtaken => deployed = snapshot[p] \/ IsDeployed(release[p])
      BY <2>1 DEF PromiseInv, ReadInv
    <2> QED
      BY <2>1, <2>2, <2>3, DiffAnnounces DEF Changes, DeployedMap
  <1> QED
    BY <1>1, PromiseInvariant, PTL

\* With one process, production without force replaces the interface of a
\* deployment only when component metadata changed too, also when requests of
\* earlier boots are carried out in between.
THEOREM InterfaceIsKept ==
  ASSUME Solo
  PROVE  Spec => InterfaceKeptUnlessMetadataChanged
  <1> DEFINE P == \A m \in posts :
                    /\ config.mode = "production" /\ config.force # TRUE
                    /\ HandledNow(m)
                    /\ deployed # NULL
                    /\ deployed'.iface # deployed.iface
                    => ParseBlob(deployed.meta) # ComponentMetadataMap(m.release)
  <1>1. PromiseInv /\ [Next]_vars => [P]_vars
    <2> SUFFICES ASSUME PromiseInv, [Next]_vars, NEW m \in posts,
                        config.mode = "production", config.force # TRUE,
                        HandledNow(m), deployed # NULL,
                        deployed'.iface # deployed.iface,
                        ParseBlob(deployed.meta) = ComponentMetadataMap(m.release)
                 PROVE  FALSE
      OBVIOUS
    <2>0. TypeOK /\ m.proc \in Procs
      BY DEF PromiseInv, AnyProcsInv, TypeOK
    <2>1. PICK n \in posts, q \in Procs : PostHandled(n, q) /\ Stored(n, q)
      BY OnlyPostsStore
    <2>2. n = m /\ Current(m) /\ m.proc = q
      BY <2>0, <2>1 DEF PostHandled, HandledNow, Current, Solo
    <2>3. m.release = release[q] /\ pc[q] # "down"
      BY <2>1, <2>2 DEF PostHandled, Answers, PromiseInv, AnyProcsInv, PostInv
    <2>4. m.force /\ ~EffectiveForce
      BY <2>0, <2>1, <2>2, RegistrationAssumption
         DEF RegistrationAssumption, Stored, EffectiveForce, TypeOK, Modes
    <2>5. snapshot[q] # NoAnswer /\ Changes(q) # {}
      BY <2>2, <2>4 DEF PromiseInv, AnyProcsInv, KnowledgeInv
    <2>6. deployed'.iface = InterfaceHash(release[q])
      BY <2>0, <2>1, StoredInterface
    <2>7. snapshot[q] = deployed
      BY <2>3, <2>5, <2>6 DEF PromiseInv, SoloInv
    <2>8. Changes(q) = {}
      BY <2>3, <2>7, DiffOfSame DEF Changes, StoredBlob
    <2> QED
      BY <2>5, <2>8
  <1> QED
    BY <1>1, PromiseInvariant, PTL DEF Spec, InterfaceKeptUnlessMetadataChanged

\* Production does not register again what Restate already holds under the tag
\* of its interface, unless the GET failed or something was stored since.
THEOREM NothingIsRegisteredTwice == Spec => NoUnnecessaryPost
  <1> DEFINE P == \A m \in posts' \ posts :
                    /\ config.mode = "production"
                    /\ deployed # NULL /\ deployed.hash = deployed.iface
                    /\ IsDeployed(m.release)
                    => snapshot'[m.proc] # deployed
  <1>1. AnyProcsInv /\ [Next]_vars => [P]_vars
    <2> SUFFICES ASSUME AnyProcsInv, [Next]_vars, NEW m \in posts' \ posts,
                        config.mode = "production",
                        deployed # NULL, deployed.hash = deployed.iface,
                        IsDeployed(m.release), snapshot'[m.proc] = deployed
                 PROVE  FALSE
      OBVIOUS
    <2>0. TypeOK /\ deployed # NoAnswer
      BY SentinelAssumption DEF SentinelAssumption, AnyProcsInv, TypeOK
    <2>1. PICK p \in Procs :
             PostBlindly(p) \/ GetFails(p) \/ PostChecked(p) \/ HookReturns(p)
      BY DEF Next, vars, Step, Hook, Boot, Crash, SkipWithoutPort, SendGet,
         GetAnswered, CallHook, SkipUnchanged, PostReturns, PostFails, HookThrows,
         PostRejected, PostHandled
    <2>2. m.proc = p /\ m.release = release[p]
      BY <2>1 DEF PostBlindly, GetFails, PostChecked, HookReturns, SendPost
    <2>3. CASE PostBlindly(p)
      BY <2>3 DEF PostBlindly, NeedsGet
    <2>4. CASE GetFails(p)
      BY <2>0, <2>2, <2>4 DEF GetFails, TypeOK
    <2>5. CASE PostChecked(p) \/ HookReturns(p)
      <3>1. snapshot[p] = deployed
        BY <2>2, <2>5 DEF PostChecked, HookReturns
      <3>2. Changes(p) = {}
        BY <2>2, <3>1, DiffOfSame DEF Changes, StoredBlob, IsDeployed, Holds
      <3>3. Unchanged(p)
        BY <2>2, <3>1, <3>2 DEF Unchanged, ExistingHashMatches, StoredHash,
           IsDeployed, Holds
      <3> QED
        BY <2>5, <3>2, <3>3 DEF PostChecked, HookReturns, AnyProcsInv, KnowledgeInv
    <2> QED
      BY <2>1, <2>3, <2>4, <2>5
  <1> QED
    BY <1>1, AnyProcs, PTL DEF Spec, NoUnnecessaryPost

-----------------------------------------------------------------------------
(* The promise: Registration implements RegistrationPromise.               *)

\* What a release asks for, and what is then stored.
LEMMA ContentHolds ==
  ASSUME NEW d, NEW r
  PROVE  Holds(d, r) <=> Content(d) = {Wanted(r)}
  <1>1. CASE d = NULL
    BY <1>1 DEF Content, Holds
  <1>2. CASE d # NULL
    <2>1. Content(d) = {ContentOf(d)}
      BY <1>2 DEF Content
    <2>2. ContentOf(d) = Wanted(r) <=>
             d.iface = InterfaceHash(r) /\ ParseBlob(d.meta) = ComponentMetadataMap(r)
      BY DEF ContentOf, Wanted
    <2> QED
      BY <1>2, <2>1, <2>2 DEF Holds
  <1> QED
    BY <1>1, <1>2

\* The content of the deployment that is stored.
LEMMA StoredContent ==
  /\ deployed = NULL => Content(deployed) = {}
  /\ deployed # NULL => Content(deployed) = {ContentOf(deployed)}
  /\ ContentOf(deployed).iface = deployed.iface
  /\ ContentOf(deployed).meta = ParseBlob(deployed.meta)
  BY DEF Content, ContentOf

\* The promise's terms in those of registration.
LEMMA PromiseTerms ==
  ASSUME NEW r \in Releases
  PROVE  /\ Promise!Holds(r) <=> IsDeployed(r)
         /\ deployed # NULL =>
               (Promise!HoldsInterface(r) <=> deployed.iface = InterfaceHash(r))
         /\ deployed = NULL => ~Promise!HoldsInterface(r)
  <1>1. Promise!Holds(r) <=> IsDeployed(r)
    BY ContentHolds DEF Promise!Holds, IsDeployed
  <1>2. Promise!HoldsInterface(r) <=>
           \E d \in Content(deployed) : d.iface = InterfaceHash(r)
    BY DEF Promise!HoldsInterface, Wanted
  <1> QED
    BY <1>1, <1>2, StoredContent

LEMMA InitKeepsPromise == Init => Promise!Init
  <1> SUFFICES ASSUME Init PROVE Promise!Init
    OBVIOUS
  <1>1. EffectiveForce \in BOOLEAN
    BY RegistrationAssumption DEF RegistrationAssumption, Init, EffectiveForce
  <1>2. Content(deployed) \in {Content(d) : d \in InitialDeployments}
    BY DEF Init
  <1>3. {Sender(m) : m \in posts} = {}
    BY DEF Init
  <1>4. \A p \in Procs : State(p) = "down"
    BY DEF Init, State
  <1>5. release \in [Procs -> Releases]
    BY RegistrationAssumption DEF RegistrationAssumption, Init
  <1>6. TagIsTruthful
    BY InitTag
  <1> QED
    BY <1>1, <1>2, <1>3, <1>4, <1>5, <1>6 DEF Init, Promise!Init

\* The state of a boot that a step does not touch.
LEMMA StateKept ==
  ASSUME NEW p \in Procs, EffectiveForce' = EffectiveForce,
         pc'[p] = pc[p], outcome'[p] = outcome[p], snapshot'[p] = snapshot[p]
  PROVE  State(p)' = State(p)
  BY DEF State, Checked

\* A step that moves one boot.
LEMMA OneStateMoves ==
  ASSUME TypeOK, [Next]_vars, NEW p \in Procs,
         \A q \in Procs \ {p} : /\ pc'[q] = pc[q] /\ outcome'[q] = outcome[q]
                                 /\ snapshot'[q] = snapshot[q]
  PROVE  [q \in Procs |-> State(q)'] =
            [[q \in Procs |-> State(q)] EXCEPT ![p] = State(p)']
  <1>1. \A q \in Procs \ {p} : State(q)' = State(q)
    BY OptionsKept, StateKept
  <1> QED
    BY <1>1

\* Sending the POST is the one request of a boot.
LEMMA SendingAsks ==
  ASSUME TypeOK, [Next]_vars, NEW p \in Procs, NEW changed, SendPost(p, changed),
         pc[p] \in {"registering", "getting", "answered", "hooking"},
         UNCHANGED <<deployed, boot, release, outcome, overtaken>>,
         snapshot' \in {snapshot, [snapshot EXCEPT ![p] = NoAnswer]}
  PROVE  Promise!Ask(p)
  <1>1. State(p) = "trying" /\ State(p)' = "asking"
    BY DEF State, SendPost, Goto, TypeOK
  <1>2. [q \in Procs |-> State(q)'] = [[q \in Procs |-> State(q)] EXCEPT ![p] = "asking"]
    <2>1. \A q \in Procs \ {p} : /\ pc'[q] = pc[q] /\ outcome'[q] = outcome[q]
                                 /\ snapshot'[q] = snapshot[q]
      BY DEF SendPost, Goto, TypeOK
    <2> QED
      BY <1>1, <2>1, OneStateMoves
  <1>3. {Sender(m) : m \in posts'} =
           {Sender(m) : m \in posts} \cup {<<p, boot[p], release[p]>>}
    <2> DEFINE n == [proc |-> p, boot |-> boot[p], release |-> release[p],
                     force |-> EffectiveForce \/ changed]
    <2>1. posts' = posts \cup {n} /\ Sender(n) = <<p, boot[p], release[p]>>
      BY DEF SendPost, Sender
    <2> HIDE DEF n
    <2> QED
      BY <2>1
  <1>4. EffectiveForce' = EffectiveForce
    BY OptionsKept
  <1>5. Content(deployed)' = Content(deployed) /\ (TagIsTruthful' <=> TagIsTruthful)
    BY DEF Content, TagIsTruthful
  <1>6. {Sender(m)' : m \in posts'} = {Sender(m) : m \in posts'}
    BY DEF Sender
  <1> QED
    BY <1>1, <1>2, <1>3, <1>4, <1>5, <1>6 DEF Promise!Ask, Promise!BootOf

\* A step that moves one boot and leaves alone what is stored and what is sent.
LEMMA MovingOneBoot ==
  ASSUME TypeOK, [Next]_vars, NEW p \in Procs, UNCHANGED <<deployed, posts>>,
         \A q \in Procs \ {p} : /\ pc'[q] = pc[q] /\ outcome'[q] = outcome[q]
                                 /\ snapshot'[q] = snapshot[q]
  PROVE  /\ EffectiveForce' = EffectiveForce
         /\ Content(deployed)' = Content(deployed)
         /\ (~TagIsTruthful)' = (~TagIsTruthful)
         /\ {Sender(m)' : m \in posts'} = {Sender(m) : m \in posts}
         /\ [q \in Procs |-> State(q)'] =
               [[q \in Procs |-> State(q)] EXCEPT ![p] = State(p)']
  BY OptionsKept, OneStateMoves DEF Content, TagIsTruthful, Sender

\* A step inside a boot that the promise does not tell.
LEMMA UntoldStep ==
  ASSUME TypeOK, [Next]_vars, NEW p \in Procs,
         UNCHANGED <<deployed, posts, boot, release, overtaken>>,
         \A q \in Procs \ {p} : /\ pc'[q] = pc[q] /\ outcome'[q] = outcome[q]
                                 /\ snapshot'[q] = snapshot[q],
         State(p)' = State(p)
  PROVE  UNCHANGED Promise!vars
  BY MovingOneBoot DEF Promise!vars

\* The end of a boot that has sent nothing.
LEMMA EndingDeclines ==
  ASSUME TypeOK, [Next]_vars, NEW p \in Procs, State(p) = "trying",
         NEW report \in {"skipped", "aborted", "no_port"}, End(p, report),
         report = "skipped" =>
            IsDeployed(release[p]) \/ BootOf(p) \in overtaken \/ ~TagIsTruthful,
         UNCHANGED <<deployed, posts, boot, release, snapshot, overtaken>>
  PROVE  Promise!Decline(p)
  <1>1. State(p)' = report
    BY DEF End, Goto, State, TypeOK
  <1>2. \A q \in Procs \ {p} : /\ pc'[q] = pc[q] /\ outcome'[q] = outcome[q]
                               /\ snapshot'[q] = snapshot[q]
    BY DEF End, Goto, TypeOK
  <1>3. report = "skipped" =>
           \/ Promise!Holds(release[p])
           \/ Promise!BootOf(p) \in overtaken
           \/ ~TagIsTruthful
    <2>1. release[p] \in Releases
      BY DEF TypeOK
    <2> QED
      BY <2>1, PromiseTerms DEF Promise!BootOf, BootOf
  <1> QED
    BY <1>1, <1>2, <1>3, MovingOneBoot DEF Promise!Decline

\* What a boot reports once it has asked.
LEMMA EndingReports ==
  ASSUME PromiseInv, [Next]_vars, NEW p \in Procs,
         PostReturns(p) \/ PostFails(p)
  PROVE  Promise!Report(p)
  <1> USE DEF PromiseInv
  <1>1. TypeOK /\ release[p] \in Releases
    BY DEF AnyProcsInv, TypeOK
  <1>2. /\ State(p) = "asking"
        /\ UNCHANGED <<deployed, posts, boot, release, snapshot, overtaken>>
    BY DEF State, PostReturns, PostFails
  <1>3. \A q \in Procs \ {p} : /\ pc'[q] = pc[q] /\ outcome'[q] = outcome[q]
                               /\ snapshot'[q] = snapshot[q]
    BY <1>1 DEF PostReturns, PostFails, End, Goto, TypeOK
  <1>4. CASE PostFails(p)
    <2>1. State(p)' = "failed"
      BY <1>1, <1>4 DEF PostFails, End, Goto, State, TypeOK
    <2> QED
      BY <1>1, <1>2, <1>3, <2>1, MovingOneBoot DEF Promise!Report
  <1>5. CASE PostReturns(p)
    <2>1. pc[p] = "replied" /\ pc'[p] = "ready" /\ outcome'[p] = outcome[p]
      BY <1>1, <1>5 DEF PostReturns, Goto, TypeOK
    <2>2. outcome[p] \in {"registered", "conflict", "failed"}
      BY <2>1 DEF RespondedInv
    <2>3. Checked(p)' = Checked(p)
      BY <1>2, OptionsKept DEF Checked
    <2>4. CASE outcome[p] = "registered" /\ Checked(p)
      <3>1. State(p)' = "registered"
        BY <2>1, <2>3, <2>4 DEF State
      <3>2. IsDeployed(release[p]) \/ BootOf(p) \in overtaken
        BY <2>1, <2>4 DEF OutcomeInv, Checked
      <3>3. Promise!Holds(release[p]) \/ Promise!BootOf(p) \in overtaken
        BY <1>1, <3>2, PromiseTerms DEF Promise!BootOf, BootOf
      <3> QED
        BY <1>1, <1>2, <1>3, <3>1, <3>3, MovingOneBoot DEF Promise!Report
    <2>5. CASE outcome[p] = "registered" /\ ~Checked(p)
      <3>1. State(p)' = "accepted"
        BY <2>1, <2>3, <2>5 DEF State
      <3>2. \/ deployed # NULL /\ deployed.iface = InterfaceHash(release[p])
            \/ BootOf(p) \in overtaken
        BY <2>1, <2>5 DEF OutcomeInv
      <3>3. Promise!HoldsInterface(release[p]) \/ Promise!BootOf(p) \in overtaken
        BY <1>1, <3>2, PromiseTerms DEF Promise!BootOf, BootOf
      <3> QED
        BY <1>1, <1>2, <1>3, <3>1, <3>3, MovingOneBoot DEF Promise!Report
    <2>6. CASE outcome[p] \in {"conflict", "failed"}
      <3>1. State(p)' = outcome[p] /\ outcome[p] # "registered" /\ outcome[p] # "accepted"
        BY <2>1, <2>6 DEF State
      <3> QED
        BY <1>1, <1>2, <1>3, <2>6, <3>1, MovingOneBoot DEF Promise!Report
    <2> QED
      BY <2>2, <2>4, <2>5, <2>6
  <1> QED
    BY <1>4, <1>5

\* A response is not told: the boot reports when it goes on.
LEMMA ResponseIsUntold ==
  ASSUME TypeOK, [Next]_vars, NEW m \in posts, NEW status, Respond(m, status),
         UNCHANGED snapshot
  PROVE  \A p \in Procs : State(p)' = State(p)
  <1> SUFFICES ASSUME NEW p \in Procs PROVE State(p)' = State(p)
    OBVIOUS
  <1>1. CASE m.proc = p /\ pc[p] = "posting" /\ boot[p] = m.boot
    <2>1. pc'[p] = "replied"
      BY <1>1 DEF Respond, Goto, TypeOK
    <2> QED
      BY <1>1, <2>1 DEF State
  <1>2. CASE ~(m.proc = p /\ pc[p] = "posting" /\ boot[p] = m.boot)
    <2>1. pc'[p] = pc[p] /\ outcome'[p] = outcome[p]
      BY <1>2 DEF Respond, Goto, TypeOK
    <2> QED
      BY <2>1, OptionsKept, StateKept
  <1> QED
    BY <1>1, <1>2

\* No two requests are of one boot: one that is gone is not asked for any more.
LEMMA RequestGone ==
  ASSUME PostInv, NEW m \in posts, posts' = posts \ {m}
  PROVE  {Sender(k)' : k \in posts'} = {Sender(k) : k \in posts} \ {Sender(m)}
  <1>1. \A k \in posts : Sender(k) = Sender(m) => k = m
    BY DEF PostInv, Sender
  <1>2. {Sender(k)' : k \in posts'} = {Sender(k) : k \in posts'}
    BY DEF Sender
  <1> QED
    BY <1>1, <1>2

\* A request that stores something does so with a reason, or changes nothing.
LEMMA StoringHasReason ==
  ASSUME PromiseInv, [Next]_vars, NEW m \in posts, NEW q \in Procs,
         PostHandled(m, q), Stored(m, q)
  PROVE  Promise!MayReplace(Sender(m)) \/ Content(deployed)' = Content(deployed)
  <1> USE DEF PromiseInv
  <1>1. /\ TypeOK /\ m.release \in Releases /\ Sender(m)[3] = m.release
        /\ Sender(m) \in Boots
    BY BootsAreTyped DEF AnyProcsInv, TypeOK, Sender
  <1>2. CASE EffectiveForce
    BY <1>2 DEF Promise!MayReplace
  <1>3. CASE deployed = NULL
    BY <1>3, StoredContent DEF Promise!MayReplace
  <1>4. CASE Sender(m) \in overtaken'
    BY <1>4 DEF Promise!MayReplace
  <1>5. CASE deployed # NULL /\ ~EffectiveForce /\ Sender(m) \notin overtaken'
    <2>1. m.force /\ Sender(m) \notin overtaken
      BY <1>5, OvertakenStays DEF Stored
    <2>2. CASE ParseBlob(deployed.meta) # ComponentMetadataMap(m.release)
      BY <1>1, <1>5, <2>2, StoredContent DEF Promise!MayReplace, Wanted
    <2>3. CASE IsDeployed(m.release)
      <3>1. Holds(deployed', m.release)
        BY <1>1, <1>5 DEF Stored
      <3> QED
        BY <2>3, <3>1, ContentHolds DEF IsDeployed, Content
    <2> QED
      BY <1>5, <2>1, <2>2, <2>3 DEF ForceInv
  <1> QED
    BY <1>2, <1>3, <1>4, <1>5

\* Who is up, and who has asked, is the same for the promise.
LEMMA SameBoots ==
  ASSUME TypeOK
  PROVE  {Promise!BootOf(p) : p \in {x \in Procs : [y \in Procs |-> State(y)][x] # "down"}}
            \cup {Sender(m) : m \in posts} = Boots
  <1>1. \A x \in Procs : [y \in Procs |-> State(y)][x] # "down" <=> pc[x] # "down"
    BY DEF State, TypeOK, Outcomes
  <1>2. {x \in Procs : [y \in Procs |-> State(y)][x] # "down"} =
           {x \in Procs : pc[x] # "down"}
    BY <1>1
  <1> QED
    BY <1>2 DEF Boots, BootOf, Promise!BootOf

LEMMA StoringTakesEffect ==
  ASSUME PromiseInv, [Next]_vars, NEW m \in posts, NEW q \in Procs,
         PostHandled(m, q), Stored(m, q)
  PROVE  Promise!TakeEffect(Sender(m))
  <1> USE DEF PromiseInv
  <1>1. /\ TypeOK /\ release[q] \in Releases /\ m.release \in Releases
        /\ Sender(m)[3] = m.release
    BY DEF AnyProcsInv, TypeOK, Sender
  <1>2. [p \in Procs |-> State(p)'] = [p \in Procs |-> State(p)]
    BY <1>1, ResponseIsUntold DEF PostHandled, Stored
  <1>3. {Sender(k)' : k \in posts'} = {Sender(k) : k \in posts} \ {Sender(m)}
    BY RequestGone DEF PostHandled, AnyProcsInv
  <1>4. [y \in Procs |-> State(y)][q] # "down"
    BY <1>1 DEF PostHandled, Answers, State, TypeOK, Outcomes
  <1>5. /\ deployed' # NULL
        /\ deployed'.iface = InterfaceHash(release[q])
        /\ deployed'.hash = InterfaceHash(m.release)
        /\ ParseBlob(deployed'.meta) = ComponentMetadataMap(m.release)
    BY <1>1, StoredInterface
  <1>6. Content(deployed)' =
           {[iface |-> InterfaceHash(release[q]), meta |-> ComponentMetadataMap(m.release)]}
    BY <1>5 DEF Content, ContentOf
  <1>7. (~TagIsTruthful)' = (InterfaceHash(release[q]) # InterfaceHash(m.release))
    <2>1. InterfaceHash(m.release) # NULL
      BY <1>1, SentinelAssumption DEF SentinelAssumption, Ifaces
    <2> QED
      BY <1>5, <2>1 DEF TagIsTruthful
  <1>8. \A b \in Boots : Promise!Holds(b[3])' <=> Holds(deployed', b[3])
    <2> SUFFICES ASSUME NEW b \in Boots
                 PROVE  Promise!Holds(b[3])' <=> Holds(deployed', b[3])
      OBVIOUS
    <2>1. b[3] \in Releases
      BY <1>1, BootsAreTyped
    <2>2. Promise!Holds(b[3])' <=> Content(deployed)' = {Wanted(b[3])}
      BY <2>1 DEF Promise!Holds, Wanted
    <2> QED
      BY <2>2, ContentHolds DEF Content
  <1>9. overtaken' = overtaken \cup {b \in Boots : ~Promise!Holds(b[3])'}
    BY <1>8 DEF Stored
  <1>10. Promise!MayReplace(Sender(m)) \/ Content(deployed)' = Content(deployed)
    BY StoringHasReason
  <1>11. EffectiveForce' = EffectiveForce /\ UNCHANGED <<release, boot>>
    BY OptionsKept DEF PostHandled
  <1>12. /\ [r \in Releases |-> Wanted(r)][release[q]].iface = InterfaceHash(release[q])
         /\ [r \in Releases |-> Wanted(r)][Sender(m)[3]].iface = InterfaceHash(m.release)
         /\ [r \in Releases |-> Wanted(r)][Sender(m)[3]].meta = ComponentMetadataMap(m.release)
    BY <1>1 DEF Wanted
  <1> QED
    BY <1>1, <1>2, <1>3, <1>4, <1>6, <1>7, <1>9, <1>10, <1>11, <1>12, SameBoots
       DEF Promise!TakeEffect

\* A request that stores nothing.
LEMMA LeavingHasNoEffect ==
  ASSUME PromiseInv, [Next]_vars, NEW m \in posts,
         \/ PostRejected(m)
         \/ \E q \in Procs : PostHandled(m, q) /\ (AlreadyStored(m, q) \/ Conflicts(m, q))
  PROVE  Promise!HaveNoEffect(Sender(m))
  <1> USE DEF PromiseInv
  <1>1. TypeOK /\ m.release \in Releases /\ Sender(m)[3] = m.release
    BY DEF AnyProcsInv, TypeOK, Sender
  <1>2. /\ \E status : Respond(m, status)
        /\ posts' = posts \ {m}
        /\ UNCHANGED <<deployed, boot, release, snapshot>>
    BY DEF PostRejected, PostHandled, AlreadyStored, Conflicts
  <1>3. [p \in Procs |-> State(p)'] = [p \in Procs |-> State(p)]
    BY <1>1, <1>2, ResponseIsUntold
  <1>4. {Sender(k)' : k \in posts'} = {Sender(k) : k \in posts} \ {Sender(m)}
    BY <1>2, RequestGone DEF AnyProcsInv
  <1>5. Content(deployed)' = Content(deployed) /\ (~TagIsTruthful)' = (~TagIsTruthful)
    BY <1>2 DEF Content, TagIsTruthful
  <1>6. \/ overtaken' = overtaken
        \/ ~Promise!HoldsInterface(Sender(m)[3]) /\ overtaken' = overtaken \cup {Sender(m)}
    <2>1. CASE overtaken' = overtaken
      BY <2>1
    <2>2. CASE overtaken' # overtaken
      <3>1. PICK q \in Procs : AlreadyStored(m, q)
        BY <2>2 DEF PostRejected, Conflicts
      <3>2. deployed # NULL /\ deployed.iface # InterfaceHash(m.release)
        BY <2>2, <3>1 DEF AlreadyStored
      <3>3. overtaken' = overtaken \cup {Sender(m)}
        BY <3>1, <3>2 DEF AlreadyStored
      <3> QED
        BY <1>1, <3>2, <3>3, PromiseTerms
    <2> QED
      BY <2>1, <2>2
  <1> QED
    BY <1>1, <1>2, <1>3, <1>4, <1>5, <1>6, OptionsKept DEF Promise!HaveNoEffect

\* Every step of registration is one that was promised, or is not told.
LEMMA StepKeepsPromise ==
  ASSUME PromiseInv, [Next]_vars
  PROVE  [Promise!Next]_(Promise!vars)
  <1> USE DEF PromiseInv
  <1>0. TypeOK /\ KnowledgeInv
    BY DEF AnyProcsInv
  <1>1. ASSUME NEW p \in Procs, Boot(p) PROVE Promise!Boot(p)
    <2>1. State(p) = "down" /\ State(p)' = "trying"
      BY <1>0, <1>1 DEF Boot, Goto, State, TypeOK
    <2>2. \A q \in Procs \ {p} : /\ pc'[q] = pc[q] /\ outcome'[q] = outcome[q]
                                 /\ snapshot'[q] = snapshot[q]
      BY <1>0, <1>1 DEF Boot, Goto, TypeOK
    <2>3. \E r \in Releases : release' = [release EXCEPT ![p] = r]
      BY <1>0, <1>1, RegistrationAssumption DEF RegistrationAssumption, Boot, TypeOK
    <2> QED
      BY <1>0, <1>1, <2>1, <2>2, <2>3, MovingOneBoot DEF Boot, Promise!Boot
  <1>2. ASSUME NEW p \in Procs, Crash(p) PROVE Promise!Die(p)
    <2>1. State(p) # "down" /\ State(p)' = "down"
      BY <1>0, <1>2 DEF Crash, Goto, State, TypeOK, Outcomes
    <2>2. \A q \in Procs \ {p} : /\ pc'[q] = pc[q] /\ outcome'[q] = outcome[q]
                                 /\ snapshot'[q] = snapshot[q]
      BY <1>0, <1>2 DEF Crash, Goto, TypeOK
    <2> QED
      BY <1>0, <1>2, <2>1, <2>2, MovingOneBoot DEF Crash, Promise!Die
  <1>3. ASSUME NEW p \in Procs, SkipWithoutPort(p) PROVE Promise!Decline(p)
    <2>1. State(p) = "trying"
      BY <1>3 DEF SkipWithoutPort, State
    <2> QED
      BY <1>0, <1>3, <2>1, EndingDeclines DEF SkipWithoutPort
  <1>4. ASSUME NEW p \in Procs, SendGet(p) \/ CallHook(p) \/ GetAnswered(p)
        PROVE  UNCHANGED Promise!vars
    <2>1. State(p) = "trying" /\ State(p)' = "trying"
      BY <1>0, <1>4 DEF SendGet, CallHook, GetAnswered, Goto, State, TypeOK
    <2>2. \A q \in Procs \ {p} : /\ pc'[q] = pc[q] /\ outcome'[q] = outcome[q]
                                 /\ snapshot'[q] = snapshot[q]
      BY <1>0, <1>4 DEF SendGet, CallHook, GetAnswered, Goto, TypeOK
    <2> QED
      BY <1>0, <1>4, <2>1, <2>2, UntoldStep DEF SendGet, CallHook, GetAnswered
  <1>5. ASSUME NEW p \in Procs,
               PostBlindly(p) \/ GetFails(p) \/ PostChecked(p) \/ HookReturns(p)
        PROVE  Promise!Ask(p)
    BY <1>0, <1>5, SendingAsks DEF PostBlindly, GetFails, PostChecked, HookReturns
  <1>6. ASSUME NEW p \in Procs, SkipUnchanged(p) PROVE Promise!Decline(p)
    <2>1. State(p) = "trying" /\ snapshot[p] # NoAnswer /\ pc[p] # "down"
      BY <1>0, <1>6 DEF SkipUnchanged, State, KnowledgeInv
    <2>2. IsDeployed(release[p]) \/ BootOf(p) \in overtaken \/ ~TagIsTruthful
      BY <1>0, <1>6, <2>1, SkipCheckIsSound DEF SkipUnchanged, ReadInv
    <2> QED
      BY <1>0, <1>6, <2>1, <2>2, EndingDeclines DEF SkipUnchanged
  <1>7. ASSUME NEW p \in Procs, PostReturns(p) \/ PostFails(p) PROVE Promise!Report(p)
    BY <1>7, EndingReports
  <1>8. ASSUME NEW p \in Procs, HookThrows(p) PROVE Promise!Decline(p)
    <2>1. State(p) = "trying"
      BY <1>8 DEF HookThrows, State
    <2> QED
      BY <1>0, <1>8, <2>1, EndingDeclines DEF HookThrows
  <1>9. ASSUME NEW m \in posts,
               PostRejected(m) \/ \E q \in Procs : PostHandled(m, q)
        PROVE  \/ Promise!TakeEffect(Sender(m))
               \/ Promise!HaveNoEffect(Sender(m))
    BY <1>9, StoringTakesEffect, LeavingHasNoEffect DEF PostHandled
  <1>10. CASE UNCHANGED vars
    BY <1>10, OptionsKept
       DEF vars, Content, State, Checked, TagIsTruthful, Sender, Promise!vars
  <1>11. CASE \E p \in Procs : Boot(p) \/ Crash(p) \/ Step(p) \/ Hook(p)
    BY <1>1, <1>2, <1>3, <1>4, <1>5, <1>6, <1>7, <1>8, <1>11
       DEF Step, Hook, Promise!Next
  <1>12. CASE \E m \in posts : PostRejected(m) \/ \E q \in Procs : PostHandled(m, q)
    BY <1>9, <1>12 DEF Promise!Next
  <1> QED
    BY <1>10, <1>11, <1>12 DEF Next

\* Registration does what it promises, however many processes and releases have
\* the URL, boots die, requests are carried out late or by others, and answers
\* get lost.
THEOREM KeepsPromiseAlways == Spec => KeepsPromise
  <1>1. PromiseInv /\ [Next]_vars => [Promise!Next]_(Promise!vars)
    BY StepKeepsPromise
  <1> QED
    BY <1>1, InitKeepsPromise, PromiseInvariant, PTL DEF Spec, KeepsPromise, Promise!Spec
=============================================================================
