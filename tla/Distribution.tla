---------------------------- MODULE Distribution ----------------------------
(***************************************************************************)
(* Publishing a brain under a registry's tag and installing it from there  *)
(* (brain.py pack, push, fetch, pull; distribution/).  A registry has blobs*)
(* by digest and a movable tag, and no conditional write: a push reads the *)
(* tag, uploads, writes the tag and reads it again, each a request of its  *)
(* own, with those of other publishers between them.                       *)
(*                                                                         *)
(* A snapshot is its number; what a version of a module holds is its root. *)
(* One repository and one tag; a handle performs one operation at a time.  *)
(* The signatures that travel beside an artifact are in Referrers and what *)
(* they are worth in Authenticity, pointers and branches in Branches, what *)
(* a merge keeps in Reconcile.                                             *)
(***************************************************************************)
EXTENDS Naturals, Sequences, FiniteSets

CONSTANTS
    Clients,        \* the brains that publish to the tag and install from it
    Founder,        \* the one that has the first version
    Kinds,          \* the memory types of the first version
    Edited,         \* the memory types that are edited
    Subsets,        \* the selections of modules push and pull are called with
    Attempts,       \* PUBLISH_CONFIRM_ATTEMPTS
    Lag,            \* how many writes of the tag a read right after a write may not see yet
    Stale,          \* how many writes any other read of the tag may not see yet
    MaxVersions,    \* bound: snapshots
    MaxWrites,      \* bound: writes of the tag that a push may find
    MaxFailures,    \* bound: requests that fail, processes that die
    Features        \* which of "force", "merge" a run includes

ASSUME ClientsAssumption == Founder \in Clients
ASSUME KindsAssumption == "canonical" \in Kinds /\ Edited \subseteq Kinds /\ Subsets \subseteq SUBSET Kinds
ASSUME BoundsAssumption ==
    /\ Attempts \in Nat \ {0} /\ Lag \in Nat /\ Stale \in Nat /\ MaxVersions \in Nat \ {0} /\ MaxWrites \in Nat
    /\ MaxFailures \in Nat

VARIABLES
    docs,       \* every snapshot there is: parents and module references
    head,       \* client -> its current snapshot, 0 for none
    known,      \* client -> the snapshot documents its store resolves
    held,       \* client -> the module versions its store has the blocks of
    origin,     \* client -> Origin.snapshot: the document its state was taken from or published as
    blobs,      \* the blobs the registry has
    writes,     \* the manifests written to the tag, oldest first
    job,        \* client -> the push under way
    verdict,    \* client -> the alarm its last operation ended with
    failures    \* how many failures there were

local == <<head, known, held, origin>>
registry == <<blobs, writes>>
vars == <<docs, local, registry, job, verdict, failures>>

Versions == 1 .. MaxVersions
Layer(k, root) == [type |-> "module", of |-> root, kinds |-> {k}, ids |-> {}]
Document(i) == [type |-> "snapshot", of |-> i, kinds |-> {}, ids |-> {}]
HistoryOf(ids) == [type |-> "history", of |-> 0, kinds |-> {}, ids |-> ids]
Projection(i, kinds) == [type |-> "projection", of |-> i, kinds |-> kinds, ids |-> {}]

Idle == [at |-> "idle"]
Quiet == [how |-> "none", head |-> 0, observed |-> 0]
Named(i) == DOMAIN docs[i].refs
Layers(i, kinds) == {Layer(k, docs[i].refs[k]) : k \in kinds}

Init ==
    /\ docs = <<[parents |-> {}, refs |-> [k \in Kinds |-> 1]]>>
    /\ head = [c \in Clients |-> IF c = Founder THEN 1 ELSE 0]
    /\ known = [c \in Clients |-> IF c = Founder THEN {1} ELSE {}]
    /\ held = [c \in Clients |-> IF c = Founder THEN Layers(1, Kinds) ELSE {}]
    /\ origin = [c \in Clients |-> Document(0)]
    /\ blobs = {} /\ writes = <<>>
    /\ job = [c \in Clients |-> Idle]
    /\ verdict = [c \in Clients |-> Quiet]
    /\ failures = 0

-----------------------------------------------------------------------------
(* Histories.                                                              *)

\* Snapshots reached from i over the parents of documents in open, those that are not included:
\* the least set that holds i and the parents of each of its members in open.
Closure(i, open) ==
    {x \in DOMAIN docs :
        \A C \in SUBSET DOMAIN docs :
            (i \in C /\ \A j \in C \cap open : docs[j].parents \subseteq C) => x \in C}

\* reachable_history: what the client can tell it contains.
ReachableHistory(c) == Closure(head[c], known[c])

\* What it really contains.
Ancestry(i) == Closure(i, DOMAIN docs)

Ready(c) == job[c] = Idle
Calm(c) == verdict' = [verdict EXCEPT ![c] = Quiet]
CanAdd == Len(docs) < MaxVersions

-----------------------------------------------------------------------------
(* What is done between transfers.                                         *)

\* A commit or a drop: a module gets a new version.
Commit(c, k) ==
    /\ Ready(c) /\ CanAdd /\ head[c] # 0
    /\ Named(head[c]) \cap {k, "canonical"} = {k, "canonical"}
    /\ Layers(head[c], {k, "canonical"}) \subseteq held[c]
    /\ LET new == Len(docs) + 1
       IN /\ docs' = Append(docs, [parents |-> {head[c]}, refs |-> [docs[head[c]].refs EXCEPT ![k] = new]])
          /\ head' = [head EXCEPT ![c] = new]
          /\ known' = [known EXCEPT ![c] = @ \cup {new}]
          /\ held' = [held EXCEPT ![c] = @ \cup {Layer(k, new)}]
    /\ Calm(c)
    /\ UNCHANGED <<origin, registry, job>>

-----------------------------------------------------------------------------
(* Artifacts.                                                              *)

\* _modules_to_publish: what is named, and derived modules only beside canonical.
Publishable(i) ==
    {kinds \in Subsets \cup {Named(i)} :
        /\ kinds # {} /\ kinds \subseteq Named(i)
        /\ kinds \cap {"semantic", "procedural"} # {} => "canonical" \in kinds}

\* _pack_history: every document of the reachable history the store still has.
PackHistory(c) == HistoryOf(ReachableHistory(c) \cap known[c])

\* pack: the snapshot, or a projection that binds it, over one layer per module and the history.
Pack(c, kinds) ==
    [config |-> IF kinds = Named(head[c]) THEN Document(head[c]) ELSE Projection(head[c], kinds),
     layers |-> Layers(head[c], kinds) \cup {PackHistory(c)}]

Blobs(m) == {m.config} \cup m.layers
Carried(m) == UNION {b.kinds : b \in m.layers}
History(m) == UNION {b.ids : b \in m.layers}

\* _served_snapshot, and the source _resolve_config finds.
Served(m) == m.config.of

\* The documents that reading config and history leaves in the store.
Documents(m) == History(m) \cup (IF m.config.type = "snapshot" THEN {m.config.of} ELSE {})

\* resolve: one of the last writes, 0 while none is served.
Seen(late) == (IF Len(writes) > late THEN Len(writes) - late ELSE 0) .. Len(writes)

\* The operation raises; whatever it wrote stays.
Stop(c) == job' = [job EXCEPT ![c] = Idle] /\ UNCHANGED verdict

\* DivergenceError, LostPublishError and RollbackError.
Alarm(c, how, observed) ==
    /\ job' = [job EXCEPT ![c] = Idle]
    /\ verdict' = [verdict EXCEPT ![c] = [how |-> how, head |-> head[c], observed |-> observed]]

-----------------------------------------------------------------------------
(* push                                                                    *)

\* The push once it may go ahead: pack, which needs the blocks of every module it publishes.
Packed(c, kinds, forced, named, contained) ==
    IF Layers(head[c], kinds) \subseteq held[c]
    THEN [at |-> "upload", manifest |-> Pack(c, kinds), forced |-> forced, named |-> named, contained |-> contained]
    ELSE Idle

Push(c, kinds, force) ==
    /\ Ready(c) /\ head[c] # 0 /\ Len(writes) < MaxWrites
    /\ kinds \in Publishable(head[c])
    /\ job' = [job EXCEPT ![c] = IF force THEN Packed(c, kinds, TRUE, 0, 0)
                                 ELSE [at |-> "narrowing", kinds |-> kinds]]
    /\ Calm(c)
    /\ UNCHANGED <<docs, local, registry>>

\* Mutant of RemoteModules: what the artifact carries, also when it is a projection.
RemoteModulesMutant(m) == Carried(m)

\* A projection stands for its source's modules.
RemoteModules(m) == IF m.config.type = "projection" THEN Named(m.config.of) ELSE Carried(m)

\* _require_not_narrowing
RequireNotNarrowing(c) ==
    /\ job[c].at = "narrowing"
    /\ \E n \in Seen(Stale) :
        LET m == writes[n]
        IN /\ known' = [known EXCEPT ![c] = @ \cup
                            IF n # 0 /\ m.config.type = "projection" THEN Documents(m) ELSE {}]
           /\ IF n = 0 \/ RemoteModules(m) \subseteq Named(head[c])
              THEN /\ job' = [job EXCEPT ![c] = [at |-> "fast_forward", kinds |-> @.kinds, named |-> n]]
                   /\ UNCHANGED verdict
              ELSE Stop(c)
    /\ UNCHANGED <<docs, head, held, origin, registry>>

\* A tag that cannot be read proves nothing: the push fails.
Unreadable(c) == Stop(c)

\* _require_fast_forward
RequireFastForward(c) ==
    /\ job[c].at = "fast_forward"
    /\ \E n \in Seen(Stale) :
        IF n = 0 \/ Served(writes[n]) \in ReachableHistory(c)
        THEN /\ job' = [job EXCEPT ![c] = Packed(c, @.kinds, FALSE, @.named, n)]
             /\ UNCHANGED verdict
        ELSE Alarm(c, "diverged", Served(writes[n]))
    /\ UNCHANGED <<docs, local, registry>>

\* A failure of the guard's own read.
GuardFails(c) ==
    /\ job[c].at = "fast_forward" /\ failures < MaxFailures
    /\ Unreadable(c)
    /\ failures' = failures + 1
    /\ UNCHANGED <<docs, local, registry>>

\* client.push: the config, then the layers, each only if the registry lacks it.
UploadBlobs(c) ==
    /\ job[c].at = "upload"
    /\ blobs' = blobs \cup Blobs(job[c].manifest)
    /\ job' = [job EXCEPT ![c].at = "put"]
    /\ UNCHANGED <<docs, local, writes, verdict>>

\* Mutant of Uploaded: the manifest does not wait for the blobs.
UploadedMutant(c) == job[c].at \in {"upload", "put"}

Uploaded(c) == job[c].at = "put"

\* _upload_manifest: the tag moves.
PutManifest(c) ==
    /\ Uploaded(c)
    /\ writes' = Append(writes, job[c].manifest)
    /\ job' = [job EXCEPT ![c] = [at |-> "confirm", manifest |-> @.manifest,
                                  mine |-> Len(writes) + 1, tries |-> 0]]
    /\ UNCHANGED <<docs, local, blobs, verdict>>

\* Mutant of Again: the count starts over instead of ending the reads.
AgainMutant(c) == [job[c] EXCEPT !.tries = (@ + 1) % Attempts]

Again(c) == [job[c] EXCEPT !.tries = @ + 1]

\* push's last step: the origin is the config that was published, a projection's too.
Published(c) ==
    /\ Stop(c)
    /\ origin' = [origin EXCEPT ![c] = job[c].manifest.config]

\* Mutant of Replaced: a tag that does not serve the write yet counts as replaced.
ReplacedMutant(c, observed) == observed # head[c]

\* Evidence that somebody else wrote: an ancestor is none.
Replaced(c, observed) == observed \notin ReachableHistory(c)

\* _confirm_publish: one read of the tag.
ConfirmPublish(c) ==
    /\ job[c].at = "confirm"
    /\ \E n \in Seen(Lag) :
        LET observed == Served(writes[n])
        IN \/ /\ n # 0 /\ observed = head[c]
              /\ Published(c)
           \/ /\ n # 0 /\ Replaced(c, observed)
              /\ Alarm(c, "lost", observed) /\ UNCHANGED origin
           \/ /\ n # 0 => observed # head[c] /\ ~ Replaced(c, observed)
              /\ IF Again(c).tries < Attempts
                 THEN job' = [job EXCEPT ![c] = Again(c)] /\ UNCHANGED <<origin, verdict>>
                 ELSE Published(c)
    /\ UNCHANGED <<docs, head, known, held, registry>>

-----------------------------------------------------------------------------
(* fetch and pull.  Neither writes to the registry and blobs stay there, so *)
(* what they do follows from the one read of the tag that they install from.*)

\* _retrieve: history and layers of what was asked for, everything carried by default.
Wanted(m, kinds) == IF kinds = {} THEN Carried(m) ELSE kinds
Retrieve(c, m, kinds) == held' = [held EXCEPT ![c] = @ \cup Layers(Served(m), Wanted(m, kinds))]
Learn(c, m) == known[c] \cup Documents(m)

\* _resolve_config and _require_carried: the source travelled, and so did what is asked for.
Retrievable(m, kinds) == Served(m) \in Documents(m) /\ kinds \subseteq Carried(m)

\* fetch, then reconcile with what it brought: a module one side does not have open is taken
\* from the other, and from theirs as it stands when neither has.
FetchAndMerge(c) ==
    /\ "merge" \in Features /\ Ready(c) /\ CanAdd /\ head[c] # 0
    /\ \E n \in Seen(Stale) \ {0} :
        LET m == writes[n]
            ours == head[c]
            theirs == Served(m)
            new == Len(docs) + 1
            here == held[c] \cup Layers(theirs, Carried(m))
            Open(i) == {k \in Named(i) : Layers(i, {k}) \subseteq here}
            Differ == {k \in Open(ours) \cap Open(theirs) : docs[ours].refs[k] # docs[theirs].refs[k]}
            refs == [k \in Named(ours) \cup Named(theirs) |->
                        IF k \in Differ THEN new
                        ELSE IF k \in Open(ours) \/ k \notin Named(theirs) THEN docs[ours].refs[k]
                        ELSE docs[theirs].refs[k]]
        IN /\ Retrievable(m, {}) /\ theirs \notin ReachableHistory(c)
           /\ docs' = Append(docs, [parents |-> {ours, theirs}, refs |-> refs])
           /\ head' = [head EXCEPT ![c] = new]
           /\ known' = [known EXCEPT ![c] = Learn(c, m) \cup {new}]
           /\ held' = [held EXCEPT ![c] = here \cup {Layer(k, new) : k \in Differ}]
    /\ Calm(c)
    /\ UNCHANGED <<origin, registry, job>>

\* _guard_pull_rollback: a strict ancestor of the held head is refused.
RollsBack(c, m) ==
    /\ head[c] \notin {0, Served(m)}
    /\ Served(m) \in Closure(head[c], Learn(c, m))

\* Mutant of Succeeds: a partial install records no parent.
SucceedsMutant(source) == {}

\* A partial install succeeds the version it was taken from.
Succeeds(source) == {source}

\* Complete and no projection: adopted as it is, under its own digest.
Whole(m, kinds) == m.config.type = "snapshot" /\ Wanted(m, kinds) = Carried(m)

InstallHead(c, m, kinds) ==
    LET source == Served(m)
        new == IF Whole(m, kinds) THEN source ELSE Len(docs) + 1
    IN /\ Whole(m, kinds) \/ CanAdd
       /\ docs' = IF Whole(m, kinds) THEN docs
                  ELSE Append(docs, [parents |-> Succeeds(source),
                                     refs |-> [k \in Wanted(m, kinds) |-> docs[source].refs[k]]])
       /\ head' = [head EXCEPT ![c] = new]
       /\ known' = [known EXCEPT ![c] = Learn(c, m) \cup {new}]
       /\ origin' = [origin EXCEPT ![c] = Document(source)]

Pull(c, kinds, override) ==
    /\ Ready(c)
    /\ \E n \in Seen(Stale) \ {0} :
        LET m == writes[n]
        IN /\ Retrievable(m, kinds)
           /\ Retrieve(c, m, kinds)
           /\ IF RollsBack(c, m) /\ ~ override
              THEN /\ known' = [known EXCEPT ![c] = Learn(c, m)]
                   /\ Alarm(c, "rollback", Served(m))
                   /\ UNCHANGED <<docs, head, origin>>
              ELSE /\ InstallHead(c, m, kinds) /\ Calm(c)
                   /\ UNCHANGED job
    /\ UNCHANGED registry

\* A request of a push fails or its process dies: it ends where it is, the config uploaded
\* and the layers not, or the tag written and not looked at again.
PushFails(c) ==
    /\ job[c].at \in {"upload", "confirm"} /\ failures < MaxFailures
    /\ failures' = failures + 1
    /\ Stop(c)
    /\ blobs' = blobs \cup {job[c].manifest.config}
    /\ UNCHANGED <<docs, local, writes>>

Continue(c) ==
    \/ RequireNotNarrowing(c) \/ RequireFastForward(c) \/ UploadBlobs(c) \/ PutManifest(c)
    \/ ConfirmPublish(c)

Forces == {FALSE} \cup (IF "force" \in Features THEN {TRUE} ELSE {})

Fails(c) == GuardFails(c) \/ PushFails(c)

Acts(c) ==
    \/ \E k \in Edited : Commit(c, k)
    \/ \E kinds \in Subsets \cup {Kinds}, force \in Forces : Push(c, kinds, force)
    \/ FetchAndMerge(c)
    \/ \E kinds \in Subsets \cup {{}}, override \in Forces : Pull(c, kinds, override)
    \/ Continue(c)

Next == \E c \in Clients : Fails(c) \/ (Acts(c) /\ UNCHANGED failures)

Spec == Init /\ [][Next]_vars

\* A push under way goes on: every request is answered in the end, or fails.
FairSpec == Spec /\ \A c \in Clients : WF_vars(Continue(c) /\ UNCHANGED failures)

-----------------------------------------------------------------------------
(* Properties.                                                             *)

TypeOK ==
    /\ docs \in Seq([parents : SUBSET Versions, refs : UNION {[ks -> Versions] : ks \in SUBSET Kinds}])
    /\ head \in [Clients -> 0 .. Len(docs)]
    /\ \A c \in Clients : origin[c].type \in {"snapshot", "projection"} /\ origin[c].of \in 0 .. Len(docs)
    /\ known \in [Clients -> SUBSET DOMAIN docs]
    /\ \A c \in Clients : head[c] # 0 => head[c] \in known[c]
    /\ \A n \in DOMAIN writes : Served(writes[n]) \in DOMAIN docs

\* oras_client.push and the layout's push write the tag last: whatever a tag names, now or
\* once, the registry has, with pushes cut short and publishers who count on each other's
\* uploads; and with it comes the document of every version its history claims to contain.
TagComplete ==
    \A n \in DOMAIN writes :
        /\ Blobs(writes[n]) \subseteq blobs
        /\ Served(writes[n]) \in History(writes[n])

\* _require_fast_forward, _confirm_publish: a client is told that histories parted, or that its
\* publish was replaced, only by a version its history really does not contain, however it came
\* by that history: whole or partial installs, merges, its own pushes.
AlarmsReal ==
    \A c \in Clients : verdict[c].how \in {"diverged", "lost"} =>
        verdict[c].observed \notin Ancestry(verdict[c].head)

Last == writes[Len(writes)]
Puts(c) == writes' # writes /\ writes # <<>> /\ job[c] # job'[c]

\* push: a push without force takes a version off the tag that it does not contain, or a module
\* that the version published does not name, only if that was put there after the read that let the
\* push through; whether the tag held an artifact or a projection of one.
ReplacesOnlyUnseen ==
    [][\A c \in Clients : Puts(c) /\ ~ job[c].forced =>
        /\ job[c].contained < Len(writes) \/ Served(Last) \in Ancestry(head[c])
        /\ job[c].named < Len(writes) \/ Named(Served(Last)) \subseteq Named(head[c])]_vars

\* pull, push: a client can publish again where it last installed from or published to, as
\* long as nobody else has: a version its origin names is in the history it can tell.
OriginContained ==
    \A c \in Clients :
        origin[c].type = "snapshot" /\ origin[c].of # 0 => origin[c].of \in ReachableHistory(c)

\* Origin: "snapshot: the snapshot the remote was on", which delete_branch and the search for a
\* common ancestor read as one.
OriginIsSnapshot == \A c \in Clients : origin[c].type = "snapshot"

\* push, _confirm_publish: every push ends, whatever the registry answers and however late.
PushEnds == \A c \in Clients : job[c] # Idle ~> job[c] = Idle

\* docs/guides/distribution.mdx: a publish that lands between the check and the write is
\* seen by the publisher that lost, so whoever loses a version has not stopped looking.
RaceSeen ==
    [][\A c \in Clients : Puts(c) /\ ~ job[c].forced =>
        \/ Served(Last) \in Ancestry(head[c])
        \/ \E d \in Clients : job[d].at = "confirm" /\ job[d].mine = Len(writes)]_vars
=============================================================================
