------------------------------ MODULE Branches ------------------------------
(***************************************************************************)
(* The durable state of one brain and every operation that moves it: the   *)
(* content-addressed store, the `head` pointer (BrainState), the `refs`    *)
(* pointer (RefTable), and the tags of a registry the brain pushes to and  *)
(* pulls from (src/boltzmann/brain.py).                                    *)
(*                                                                         *)
(* A pointer write is one atomic rename, so an operation that writes       *)
(* several pointers is several steps, with a crash possible between any    *)
(* two.  `pc` holds what the running call has still to write.  A single    *)
(* handle is open: its cached `_state` is the head pointer it last wrote,  *)
(* so the pointer stands for both, and a crash followed by Brain.open      *)
(* simply forgets `pc`.                                                    *)
(*                                                                         *)
(* A snapshot is a number in order of creation.  A commit or a drop adds a *)
(* fresh provenance block, so block n is what snapshot n added.  Each      *)
(* snapshot has a composition document of its own: two that would share    *)
(* one in the store lose it separately here, which only loses more.        *)
(***************************************************************************)
EXTENDS Naturals, FiniteSets

CONSTANTS
    Names,          \* branch names, each standing for its position in key order
    Main,           \* DEFAULT_BRANCH
    MaxSnapshots,   \* bound: how many snapshots are ever created
    RetainedRoots,  \* RetentionPolicy.retained_roots
    PeerTags,       \* the tags that other clients write too
    Features,       \* which parts of the environment a run includes
    None

Snapshots == 1 .. MaxSnapshots

ASSUME NamesAssumption == Names \subseteq Nat /\ IsFiniteSet(Names) /\ Main \in Names
ASSUME BoundAssumption == MaxSnapshots \in Nat
ASSUME RetainedAssumption == RetainedRoots \in Nat \ {0}

VARIABLES
    docs,       \* snapshots whose document the store can resolve
    comps,      \* snapshots whose composition document it can resolve
    blocks,     \* blocks whose envelope it can resolve
    parents,    \* snapshot -> the parents its document names
    members,    \* snapshot -> the blocks its composition names
    created,    \* how many snapshots exist anywhere
    head,       \* the head pointer, or None
    refs,       \* the refs pointer, or None
    indexed,    \* index.json: tag -> the snapshot its manifest has as config
    served,     \* the registry: tag -> the snapshot it serves
    pc,         \* what the running operation has still to write
    public,     \* the registry's clients: every snapshot a tag's history ever held
    taken       \* history variable: what a write not meant to extend a tag took out of it

store == <<docs, comps, blocks>>
history == <<parents, members, created>>
vars == <<docs, comps, blocks, parents, members, created, head, refs, indexed, served, pc, public, taken>>
aux == <<public, taken>>

Origins == Snapshots \cup {None}
Steps == {"idle", "advance", "repin", "checkout_head", "checkout_refs", "push_upload", "push_force",
          "push_confirm", "pull_advance", "switch_advance", "switch_finish", "switch_repin", "pull_index"}

BranchRef == [snapshot : Snapshots, origin : Origins]
RefTable == [current : Names, branches : [Names -> BranchRef \cup {None}], switching : Names \cup {None}]
\* `retained` is a list without duplicates: a snapshot's position in it, 0 when absent.
BrainState == [snapshot : Snapshots, retained : [Snapshots -> Nat], origin : Origins]
Pending == [step : Steps, name : Names \cup {None}, digest : Origins, origin : Origins,
            retain : SUBSET Snapshots]

\* None is none of the values it stands for the absence of.
ASSUME NoneAssumption ==
    None \notin Nat /\ None \notin BranchRef /\ None \notin RefTable /\ None \notin BrainState

StateOK ==
    /\ docs \subseteq Snapshots /\ comps \subseteq Snapshots /\ blocks \subseteq Snapshots
    /\ parents \in [Snapshots -> SUBSET Snapshots]
    /\ members \in [Snapshots -> SUBSET Snapshots]
    /\ created \in 0 .. MaxSnapshots
    /\ head \in BrainState \cup {None}
    /\ refs \in RefTable \cup {None}
    /\ indexed \in [Names -> Origins]
    /\ served \in [Names -> Origins]
    /\ pc \in Pending

TypeOK == StateOK /\ public \subseteq Snapshots /\ taken \subseteq Snapshots

Idle == [step |-> "idle", name |-> None, digest |-> None, origin |-> None, retain |-> {}]

Init ==
    /\ docs = {} /\ comps = {} /\ blocks = {}
    /\ parents = [s \in Snapshots |-> {}]
    /\ members = [s \in Snapshots |-> {}]
    /\ created = 0
    /\ head = None
    /\ refs = None
    /\ indexed = [t \in Names |-> None]
    /\ served = [t \in Names |-> None]
    /\ pc = Idle
    /\ public = {}
    /\ taken = {}

-----------------------------------------------------------------------------
(* History: a walk over all parents.                                       *)

\* The least set that holds s and the parents of each of its members in `open`.
Closure(s, open) ==
    {x \in Snapshots :
        \A C \in SUBSET Snapshots :
            (s \in C /\ \A c \in C \cap open : parents[c] \subseteq C) => x \in C}

\* _reachable_from, and reachable_history of the head: a document the store
\* cannot resolve is reported and not walked past.
ReachableFrom(s) == Closure(s, docs)

\* The history the documents themselves state, whether or not they are held here.
Ancestry(s) == Closure(s, Snapshots)

-----------------------------------------------------------------------------
(* The two pointers.                                                       *)

Held(t) == {b \in Names : t.branches[b] # None}

\* _branch_heads: every snapshot a ref names, read raw from the pointer.
BranchHeads == IF refs = None THEN {} ELSE {refs.branches[b].snapshot : b \in Held(refs)}

Retained(h) == IF h = None THEN {} ELSE {s \in Snapshots : h.retained[s] > 0}

\* Where a snapshot stands among the candidates of _write_head: the new head,
\* what the caller retains, then the list the pointer already had.
CandidateRank(c, digest, retain) ==
    IF c = digest THEN 0 ELSE IF c \in retain THEN 1 ELSE head.retained[c] + 1

Unpinned(digest, retain) ==
    {c \in {digest} \cup retain \cup Retained(head) : c = digest \/ c \notin BranchHeads}

Preceding(c, digest, retain) ==
    Cardinality({d \in Unpinned(digest, retain) :
                    CandidateRank(d, digest, retain) < CandidateRank(c, digest, retain)})

\* The candidates that fit the bound; branch heads sit outside it.
Bounded(digest, retain) ==
    {c \in Unpinned(digest, retain) : Preceding(c, digest, retain) < RetainedRoots}

\* Branch heads follow, in the order of the first branch that names each.
PinnedRank(c) ==
    Cardinality({b \in Held(refs) : \A n \in Held(refs) : refs.branches[n].snapshot = c => b < n})

\* Mutant of HeadState: branch heads are kept beside the list and not in it.
HeadStateMutant(digest, origin, retain) ==
    [snapshot |-> digest,
     origin   |-> origin,
     retained |-> [c \in Snapshots |->
                    IF c \in Bounded(digest, retain) THEN Preceding(c, digest, retain) + 1 ELSE 0]]

\* _write_head: the BrainState it writes.
HeadState(digest, origin, retain) ==
    [snapshot |-> digest,
     origin   |-> origin,
     retained |-> [c \in Snapshots |->
                    IF c \in Bounded(digest, retain) THEN Preceding(c, digest, retain) + 1
                    ELSE IF c \in BranchHeads THEN RetainedRoots + PinnedRank(c) + 1
                    ELSE 0]]

\* _refs: the stored table, or the one-branch table a brain without refs has.
Table ==
    IF refs # None THEN refs
    ELSE [current   |-> Main,
          branches  |-> [b \in Names |-> IF b = Main THEN [snapshot |-> head.snapshot, origin |-> None]
                                                     ELSE None],
          switching |-> None]

\* _recorded: the current branch's ref brought up to the head pointer.
Recorded(t) ==
    [t EXCEPT !.branches = [t.branches EXCEPT ![t.current] = [snapshot |-> head.snapshot,
                                                              origin   |-> head.origin]]]

\* Mutant of Repaired: the head is compared with the branch being left.
RepairedMutant(t) ==
    IF t.switching = None THEN t
    ELSE IF head # None /\ head.snapshot = t.branches[t.current].snapshot
         THEN [t EXCEPT !.current = t.switching, !.switching = None]
         ELSE [t EXCEPT !.switching = None]

\* _read_refs: a switch counts as made when the head is at the target's snapshot.
Repaired(t) ==
    IF t.switching = None THEN t
    ELSE IF t.branches[t.switching] # None /\ head # None
              /\ head.snapshot = t.branches[t.switching].snapshot
         THEN [t EXCEPT !.current = t.switching, !.switching = None]
         ELSE [t EXCEPT !.switching = None]

\* No call is running, the brain has a snapshot, and no interrupted switch is
\* waiting: every operation that reads refs repairs them first (RepairRefs).
Ready == pc = Idle /\ head # None /\ (refs # None => refs.switching = None)

-----------------------------------------------------------------------------
(* Writing a version: blobs first, the head pointer last.                  *)

\* What is new with snapshot s lands in the store: its block, if it adds one, its
\* composition and its document.
PutVersion(s, from, names) ==
    /\ parents' = [parents EXCEPT ![s] = from]
    /\ members' = [members EXCEPT ![s] = names]
    /\ created' = s
    /\ docs' = docs \cup {s}
    /\ comps' = comps \cup {s}
    /\ blocks' = blocks \cup (names \cap {s})

\* _write: a commit, or a drop of blocks of the current version.
Write(without) ==
    LET s == created + 1
        from == IF head = None THEN {} ELSE {head.snapshot}
        base == IF head = None THEN {} ELSE members[head.snapshot]
    IN  /\ pc = Idle
        /\ s \in Snapshots
        /\ head # None => head.snapshot \in comps
        /\ without \subseteq base
        /\ PutVersion(s, from, (base \ without) \cup {s})
        /\ pc' = [Idle EXCEPT !.step = "advance", !.digest = s,
                              !.origin = IF head = None THEN None ELSE head.origin]
        /\ UNCHANGED <<head, refs, indexed, served, aux>>

\* _advance, second half: the pointer moves once the blobs are in.
Advance ==
    /\ pc.step = "advance"
    /\ head' = HeadState(pc.digest, pc.origin, pc.retain)
    /\ pc' = Idle
    /\ UNCHANGED <<store, history, refs, indexed, served, aux>>

-----------------------------------------------------------------------------
(* Branches.                                                               *)

\* current_branch, branches, and the first step of every operation that reads refs.
RepairRefs ==
    /\ pc = Idle
    /\ refs # None /\ refs.switching # None
    /\ refs' = Repaired(refs)
    /\ UNCHANGED <<store, history, head, indexed, served, aux, pc>>

\* _start_of: the current snapshot, another branch's head, or any document held.
StartPoints ==
    {head.snapshot} \cup {Recorded(Table).branches[b].snapshot : b \in Held(Recorded(Table))}
        \cup (IF "digest" \in Features THEN docs ELSE {})

CreateBranch(name, start) ==
    /\ Ready
    /\ name \notin Held(Recorded(Table))
    /\ start \in StartPoints
    /\ refs' = [Recorded(Table) EXCEPT !.branches[name] = [snapshot |-> start, origin |-> None]]
    /\ pc' = [Idle EXCEPT !.step = "repin", !.digest = head.snapshot, !.origin = head.origin]
    /\ UNCHANGED <<store, history, head, indexed, served, aux>>

\* The head rewritten in place so that `retained` matches the refs just written.
Repin ==
    /\ pc.step = "repin"
    /\ head' = HeadState(pc.digest, pc.origin, {})
    /\ pc' = Idle
    /\ UNCHANGED <<store, history, refs, indexed, served, aux>>

\* checkout: ref first, pointer second, bookkeeping last.
Checkout(name) ==
    /\ Ready
    /\ name # Table.current
    /\ name \in Held(Recorded(Table))
    /\ refs' = [Recorded(Table) EXCEPT !.switching = name]
    /\ pc' = [Idle EXCEPT !.step = "checkout_head", !.name = name]
    /\ UNCHANGED <<store, history, head, indexed, served, aux>>

CheckoutHead ==
    /\ pc.step = "checkout_head"
    /\ LET target == refs.branches[pc.name]
       IN  head' = HeadState(target.snapshot, target.origin, {})
    /\ pc' = [pc EXCEPT !.step = "checkout_refs"]
    /\ UNCHANGED <<store, history, refs, indexed, served, aux>>

CheckoutRefs ==
    /\ pc.step = "checkout_refs"
    /\ refs' = [refs EXCEPT !.current = pc.name, !.switching = None]
    /\ pc' = Idle
    /\ UNCHANGED <<store, history, head, indexed, served, aux>>

\* Mutant of Disposable: a branch counts as contained in itself.
DisposableMutant(name) ==
    LET t == Recorded(Table)
    IN  \E other \in Held(t) : t.branches[name].snapshot \in ReachableFrom(t.branches[other].snapshot)

\* delete_branch without force: published, or contained in another branch.
Disposable(name) ==
    LET t == Recorded(Table)
        ref == t.branches[name]
    IN  \/ ref.origin # None /\ ref.snapshot \in ReachableFrom(ref.origin)
        \/ \E other \in Held(t) \ {name} : ref.snapshot \in ReachableFrom(t.branches[other].snapshot)

DeleteBranch(name, force) ==
    /\ Ready
    /\ name \in Held(Recorded(Table))
    /\ name # Table.current
    /\ force \/ Disposable(name)
    /\ refs' = [Recorded(Table) EXCEPT !.branches[name] = None]
    /\ pc' = [Idle EXCEPT !.step = "repin", !.digest = head.snapshot, !.origin = head.origin]
    /\ UNCHANGED <<store, history, head, indexed, served, aux>>

-----------------------------------------------------------------------------
(* Joining another branch into the current one.                            *)

Theirs(name) == Recorded(Table).branches[name].snapshot

Joinable(name) ==
    /\ Ready
    /\ name # Table.current
    /\ name \in Held(Recorded(Table))
    /\ Theirs(name) \notin ReachableFrom(head.snapshot)

\* join: the head moves and no snapshot is written.
FastForward(name) ==
    /\ Joinable(name)
    /\ head.snapshot \in ReachableFrom(Theirs(name))
    /\ head' = HeadState(Theirs(name), head.origin, {})
    /\ UNCHANGED <<store, history, refs, indexed, served, aux, pc>>

\* common_ancestor: the shared snapshots that no other shared snapshot descends from.
MergeBases(ours, theirs) ==
    LET common == ReachableFrom(ours) \cap ReachableFrom(theirs)
    IN  {c \in common : ~ \E o \in common \ {c} : c \in ReachableFrom(o)}

\* join with a strategy, when the reconciliation is clean: Equation 1 over the
\* members, and only a merge records the other head as a parent and retains it.
Reconcile(name, strategy) ==
    LET s == created + 1
        ours == members[head.snapshot]
        theirs == members[Theirs(name)]
    IN  /\ Joinable(name)
        /\ s \in Snapshots
        /\ {head.snapshot, Theirs(name)} \subseteq comps
        /\ \E base \in MergeBases(head.snapshot, Theirs(name)) :
              /\ MergeBases(head.snapshot, Theirs(name)) = {base}
              /\ base \in docs \cap comps
              /\ ours \cap members[base] \subseteq theirs       \* nothing of ours is withdrawn
              /\ LET result == (ours \cap theirs) \cup (ours \ members[base]) \cup (theirs \ members[base])
                 IN  /\ result \subseteq blocks
                     /\ PutVersion(s, IF strategy = "merge" THEN {head.snapshot, Theirs(name)}
                                                            ELSE {head.snapshot},
                                   result)
        /\ pc' = [Idle EXCEPT !.step = "advance", !.digest = s, !.origin = head.origin,
                              !.retain = IF strategy = "merge" THEN {Theirs(name)} ELSE {}]
        /\ UNCHANGED <<head, refs, indexed, served, aux>>

-----------------------------------------------------------------------------
(* Pruning.                                                                *)

\* Mutant of Roots: only the installed version is a root.
RootsMutant == IF head = None THEN {} ELSE {head.snapshot} \cap docs

\* history() and the branch heads, as far as they resolve.
Roots == (Retained(head) \cup BranchHeads) \cap docs

\* Mutant of KeptBlocks: only the installed version's composition is marked.
KeptBlocksMutant == IF head = None THEN {} ELSE members[head.snapshot]

\* mark: a root keeps its document, its parents' documents, its composition and
\* the blocks that composition names.  A tag of index.json keeps its config.
KeptDocs == Roots \cup (UNION {parents[r] : r \in Roots}) \cup {indexed[t] : t \in Names}
KeptComps == Roots
KeptBlocks == UNION {members[r] : r \in Roots \cap comps}

Prune ==
    /\ pc = Idle
    /\ docs' = docs \cap KeptDocs
    /\ comps' = comps \cap KeptComps
    /\ blocks' = blocks \cap KeptBlocks
    /\ UNCHANGED <<history, head, refs, indexed, served, aux, pc>>

\* Blobs are deleted one by one; a prune that dies after the first leaves the rest.
PruneInterrupted ==
    /\ pc = Idle
    /\ "sweep" \in Features
    /\ \/ \E d \in docs \ KeptDocs : docs' = docs \ {d} /\ UNCHANGED <<comps, blocks>>
       \/ \E c \in comps \ KeptComps : comps' = comps \ {c} /\ UNCHANGED <<docs, blocks>>
       \/ \E b \in blocks \ KeptBlocks : blocks' = blocks \ {b} /\ UNCHANGED <<docs, comps>>
    /\ UNCHANGED <<history, head, refs, indexed, served, aux, pc>>

-----------------------------------------------------------------------------
(* The registry.  Every branch publishes to its own tag.                   *)

\* What a tag serves, with its history.
TagHistory(tag) == IF served[tag] = None THEN {} ELSE Ancestry(served[tag])

\* Another client's push, new version: its check and its tag write are requests of
\* their own, and `force` skips the check, so the version it commits may descend
\* from whatever a tag ever served, or from nothing, and replaces what the tag
\* serves now, whatever that is.
PeerPush(tag, from) ==
    LET s == created + 1
    IN  /\ tag \in PeerTags
        /\ s \in Snapshots
        /\ from \subseteq public
        /\ "overwrite" \in Features \/ from = {served[tag]} \ {None}
        /\ parents' = [parents EXCEPT ![s] = from]
        /\ members' = [members EXCEPT ![s] = (UNION {members[p] : p \in from}) \cup {s}]
        /\ created' = s
        /\ served' = [served EXCEPT ![tag] = s]
        /\ public' = public \cup {s}
        /\ taken' = taken \cup (TagHistory(tag) \ UNION {Ancestry(p) : p \in from})
        /\ UNCHANGED <<store, head, refs, indexed, pc>>

\* Another client's push of a version that was published before, to any tag.
PeerRepush(tag, s) ==
    /\ "repush" \in Features
    /\ tag \in PeerTags
    /\ s \in public
    /\ served' = [served EXCEPT ![tag] = s]
    /\ taken' = taken \cup (TagHistory(tag) \ Ancestry(s))
    /\ UNCHANGED <<store, history, head, refs, indexed, pc, public>>

\* Mutant of Push: the fast-forward check asks only whether the remote is held.
PushMutant(tag, force) ==
    /\ Ready
    /\ "push" \in Features
    /\ tag = Table.current \/ "retag" \in Features
    /\ force => "force" \in Features
    /\ force \/ served[tag] = None \/ served[tag] \in docs
    /\ head.snapshot \in comps /\ members[head.snapshot] \subseteq blocks
    /\ indexed' = [indexed EXCEPT ![tag] = head.snapshot]
    /\ pc' = [Idle EXCEPT !.step = IF force THEN "push_force" ELSE "push_upload",
                          !.name = tag, !.digest = head.snapshot]
    /\ UNCHANGED <<store, history, head, refs, served, aux>>

\* push, up to pack, to the current branch's tag (a brain without refs has one branch)
\* or to the tag the caller names: without force the remote must be in this brain's
\* history, and the version must be whole to be packed.  index.json names the
\* manifest from here on.
Push(tag, force) ==
    /\ Ready
    /\ "push" \in Features
    /\ tag = Table.current \/ "retag" \in Features
    /\ force => "force" \in Features
    /\ force \/ served[tag] = None \/ served[tag] \in ReachableFrom(head.snapshot)
    /\ head.snapshot \in comps /\ members[head.snapshot] \subseteq blocks
    /\ indexed' = [indexed EXCEPT ![tag] = head.snapshot]
    /\ pc' = [Idle EXCEPT !.step = IF force THEN "push_force" ELSE "push_upload",
                          !.name = tag, !.digest = head.snapshot]
    /\ UNCHANGED <<store, history, head, refs, served, aux>>

\* The registry takes the manifest without looking at what the tag serves now.
PushUpload ==
    /\ pc.step \in {"push_upload", "push_force"}
    /\ served' = [served EXCEPT ![pc.name] = pc.digest]
    /\ public' = public \cup Ancestry(pc.digest)
    /\ taken' = IF pc.step = "push_force" THEN taken \cup (TagHistory(pc.name) \ Ancestry(pc.digest))
                                          ELSE taken
    /\ pc' = [pc EXCEPT !.step = "push_confirm"]
    /\ UNCHANGED <<store, history, head, refs, indexed>>

\* _confirm_publish: a tag outside this history is a lost publish and the call
\* raises; otherwise _advance rewrites the head with the new origin.
PushConfirm ==
    /\ pc.step = "push_confirm"
    /\ pc' = IF served[pc.name] \in ReachableFrom(head.snapshot)
             THEN [Idle EXCEPT !.step = "advance", !.digest = pc.digest, !.origin = pc.digest]
             ELSE Idle
    /\ UNCHANGED <<store, history, head, refs, indexed, served, aux>>

\* _pull_destination: the branch a pull switches to, None for the current one.
Destination(tag) ==
    LET current == IF refs = None THEN Main ELSE refs.current
    IN  IF tag = (IF head = None THEN Main ELSE current) THEN None ELSE tag

\* The head the destination holds now, which the rollback guard compares with.
HeldHead(tag) ==
    IF head = None THEN None
    ELSE IF Destination(tag) = None THEN head.snapshot
    ELSE IF refs # None /\ refs.branches[tag] # None THEN refs.branches[tag].snapshot
    ELSE None

\* pull, up to its first pointer write: _retrieve stores the version (and the
\* history layer, when the artifact has one), the rollback guard refuses a strict
\* ancestor of the held head, and _begin_switch records the current head.
Pull(tag, withHistory) ==
    LET source == served[tag]
        past == IF withHistory THEN Ancestry(source) ELSE {source}
        name == Destination(tag)
        t == Recorded(Table)
        ref == IF t.branches[name] # None THEN t.branches[name]
                                          ELSE [snapshot |-> head.snapshot, origin |-> None]
    IN  /\ "pull" \in Features
        /\ pc = Idle
        /\ refs # None => refs.switching = None
        /\ source # None
        /\ docs' = docs \cup past
        /\ comps' = comps \cup past
        /\ blocks' = blocks \cup members[source]
        /\ \/ HeldHead(tag) = None
           \/ HeldHead(tag) = source
           \/ source \notin Closure(HeldHead(tag), docs')
        /\ refs' = IF name = None \/ head = None THEN refs
                   ELSE [t EXCEPT !.branches[name] = ref, !.switching = name]
        /\ pc' = [step   |-> IF name = None THEN "pull_advance" ELSE "switch_advance",
                   name   |-> tag,
                   digest |-> source,
                   origin |-> source,
                   retain |-> {}]
        /\ UNCHANGED <<history, head, indexed, served, aux>>

\* _advance with the installed snapshot and its origin.
PullAdvance ==
    /\ pc.step \in {"pull_advance", "switch_advance"}
    /\ head' = HeadState(pc.digest, pc.origin, {})
    /\ pc' = [pc EXCEPT !.step = IF @ = "pull_advance" THEN "pull_index" ELSE "switch_finish"]
    /\ UNCHANGED <<store, history, refs, indexed, served, aux>>

\* _finish_switch: the branch becomes current, with the head and origin it now has.
FinishSwitch ==
    /\ pc.step = "switch_finish"
    /\ LET held == IF refs # None THEN refs.branches ELSE [b \in Names |-> None]
       IN  refs' = [current   |-> pc.name,
                    branches  |-> [held EXCEPT ![pc.name] = [snapshot |-> head.snapshot,
                                                             origin   |-> head.origin]],
                    switching |-> None]
    /\ pc' = [pc EXCEPT !.step = "switch_repin"]
    /\ UNCHANGED <<store, history, head, indexed, served, aux>>

RepinSwitch ==
    /\ pc.step = "switch_repin"
    /\ head' = HeadState(head.snapshot, head.origin, {})
    /\ pc' = [pc EXCEPT !.step = "pull_index"]
    /\ UNCHANGED <<store, history, refs, indexed, served, aux>>

\* The manifest is recorded in index.json, as pack does.
PullIndex ==
    /\ pc.step = "pull_index"
    /\ indexed' = [indexed EXCEPT ![pc.name] = pc.digest]
    /\ pc' = Idle
    /\ UNCHANGED <<store, history, head, refs, served, aux>>

\* The download of an index layer fails between the two pointer writes of a pull.
\* The call raises, and the handle stays open.
PullFails ==
    /\ pc.step \in {"pull_advance", "switch_advance"}
    /\ "fail" \in Features
    /\ pc' = Idle
    /\ UNCHANGED <<store, history, head, refs, indexed, served, aux>>

\* The process dies between two writes and the brain is opened again.
Crash ==
    /\ "crash" \in Features
    /\ pc # Idle
    /\ pc' = Idle
    /\ UNCHANGED <<store, history, head, refs, indexed, served, aux>>

-----------------------------------------------------------------------------

Next ==
    \/ Write({})
    \/ \E b \in Snapshots : Write({b})
    \/ Advance
    \/ RepairRefs
    \/ \E n \in Names, s \in Snapshots : CreateBranch(n, s)
    \/ Repin
    \/ \E n \in Names : Checkout(n)
    \/ CheckoutHead
    \/ CheckoutRefs
    \/ \E n \in Names, force \in BOOLEAN : DeleteBranch(n, force)
    \/ \E n \in Names : FastForward(n)
    \/ \E n \in Names, strategy \in {"merge", "squash"} : Reconcile(n, strategy)
    \/ Prune
    \/ PruneInterrupted
    \/ \E t \in Names, from \in SUBSET Snapshots : PeerPush(t, from)
    \/ \E t \in Names, s \in Snapshots : PeerRepush(t, s)
    \/ \E t \in Names, force \in BOOLEAN : Push(t, force)
    \/ PushUpload
    \/ PushConfirm
    \/ \E t \in Names, h \in BOOLEAN : Pull(t, h)
    \/ PullAdvance
    \/ FinishSwitch
    \/ RepinSwitch
    \/ PullIndex
    \/ PullFails
    \/ Crash

Spec == Init /\ [][Next]_vars

-----------------------------------------------------------------------------
(* What branches() would report if it were called now: the interrupted     *)
(* switch decided, the current branch at the head pointer.                 *)

Reported == Recorded(Repaired(Table))

ReportedHeads ==
    IF head = None THEN {} ELSE {Reported.branches[b].snapshot : b \in Held(Reported)}

Whole(s) == s \in docs /\ s \in comps /\ members[s] \subseteq blocks

\* The head pointer and every ref name a snapshot whose document the store holds,
\* so Brain.open and checkout can always read the version they are sent to,
\* whatever was pruned or interrupted before.
HeadsResolve ==
    /\ head # None => head.snapshot \in docs
    /\ BranchHeads \subseteq docs

\* "There is no state in which a root names a block the store does not hold"
\* (brain.py:19): every retained snapshot and every branch head is there whole,
\* across prunes, crashes, failed pulls and merges.
RootsWhole == \A r \in Retained(head) \cup BranchHeads : Whole(r)

\* A client that reads no refs and prunes from `retained` alone keeps every
\* branch: between operations each head branches() reports is in the list.
HeadsRetained == pc = Idle => ReportedHeads \subseteq Retained(head)

\* Only branch heads sit outside the bound of _write_head: a deleted branch's
\* head, or a ref that moved on, competes for the recent places again.
RetentionBounded == pc = Idle => Cardinality(Retained(head) \ BranchHeads) <= RetainedRoots

\* _write_head: `retained` is every branch head, and of the rest no more than the
\* policy's bound, whatever branches came, moved and went.
RetentionExact == HeadsRetained /\ RetentionBounded

\* What is published: in the history of a tag, or taken out of a tag by another
\* client's write or by a push told to force.
Published == taken \cup UNION {TagHistory(t) : t \in Names}

\* What delete_branch would need for no published work to be lost: refuted, since
\* nothing keeps another client from overwriting a tag.
OriginsServed ==
    \A b \in (IF refs = None THEN {} ELSE Held(refs)) :
        LET o == refs.branches[b].origin
        IN  o # None => \E t \in Names : o \in TagHistory(t)

\* An origin is evidence of publication (delete_branch trusts it): whatever any
\* origin names was published with its whole history, and is still in the history
\* of a tag unless somebody else, or a forced push, took it out.  So neither a push
\* that fails half way, nor one that overwrites what arrived after its check, nor a
\* crash makes an origin claim what no tag holds.
OriginsPublished ==
    LET origins == (IF head = None THEN {} ELSE {head.origin})
                    \cup (IF refs = None THEN {} ELSE {refs.branches[b].origin : b \in Held(refs)})
    IN  \A o \in origins \ {None} : Ancestry(o) \subseteq Published

\* A checkout interrupted at any point is decided as _read_refs promises: undone
\* if the head had not moved, finished if it had.
CheckoutDecided ==
    /\ pc.step = "checkout_head" /\ refs.branches[pc.name].snapshot # head.snapshot
          => Repaired(refs).current = refs.current
    /\ pc.step = "checkout_refs" => Repaired(refs).current = pc.name

\* No step but a pull that replaces a head, and the forced delete of a branch that
\* delete_branch would refuse, makes a branch head unreachable: it stays in the
\* history of some branch or of some tag, unless it was published and somebody
\* else's write, or a forced push, took it out of its tag.
WorkKept ==
    [][ \/ \A s \in ReportedHeads \ ReportedHeads' :
              \/ \E h \in ReportedHeads' : s \in Ancestry(h)'
              \/ s \in Published'
        \/ PullAdvance \/ FinishSwitch
        \/ \E n \in Names : DeleteBranch(n, TRUE) /\ ~ Disposable(n) ]_vars

\* "unpublished work is never overwritten" (docs/guides/distribution.mdx:132) when
\* a pull installs into a branch other than the current one: every head the refs
\* named before stays in the history of a branch, or was published.
PullKeepsHeads ==
    [][ FinishSwitch =>
          \A s \in BranchHeads : (\E h \in BranchHeads' : s \in Ancestry(h)') \/ s \in Published' ]_vars
=============================================================================
