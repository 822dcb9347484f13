# TLA+ models of pyboltzmann

A *brain* is portable knowledge: blocks addressed by their hash, versions that
name sets of blocks, and two pointers that say which version is installed and
which branches there are. There is no server and no lock. What has to be right is
therefore what is on disk after any sequence of calls, after a call that was cut
short, and when two programs have the same directory open or publish under the
same tag. That is what these modules model, model-check and prove.

Paths below are relative to `src/boltzmann/` of the repository.

## 1. The system

| component | state it keeps | operations that change it | what makes it correct |
|---|---|---|---|
| store (`store/`) | blobs by digest, the redaction record `tombstones.json`, pointers, `index.json`; each handle caches the redaction record | `put_bytes`, `tombstone`, `delete`, `write_pointer` | a blob is whole or absent; redacted and missing are told apart; the directory behaves as the in-memory store |
| versions and branches (`brain.py`) | pointer `head` (`BrainState`: snapshot, retained list, origin), pointer `refs` (`RefTable`: branches, current, `switching`) | commit, drop, `_advance`, create/checkout/delete branch, join, push, pull, prune | every root is whole, no head is lost, an interrupted switch is decided the way it had gone |
| knowledge (`ingest/`, `module/`) | compositions per memory type, module tombstones | register, replace, validate, commit | what a member rests on is a member; contradicting claims do not stand together |
| ledger (`module/ledger.py`, `blocks/provenance.py`) | a set of provenance records, folded in the order of their hashes | derivation, supersession, demotion, removal, merge | what is read does not depend on the order the hashes happen to have |
| retention (`retention/`) | none of its own: policy, plans and reports | drop with its cascade, redact, prune | a drop leaves nothing resting on what it took; redaction is final and takes nothing else along; prune takes nothing a root names |
| reconciliation (`reconcile/`, `brain.py`) | pointer `reconcile`: a halted reconciliation and its decisions | merge, rebase, squash, decide, accept removals, continue, abort | Equation 1; drops stay dropped; nothing is lost that nobody accepted |
| distribution (`distribution/`) | a registry's blobs and tags | pack, push, confirm, fetch, pull, selective install | a tag names only complete versions; a publish is not silently lost; an alarm is real; an origin is really published |
| signatures around an artifact (`distribution/oras_client.py`, `authenticity/record.py`) | the registry's listing of referrers, each brain's signature index | sign, push, merge on pull | what is listed can be fetched; a push lists what it has; a pull keeps what was listed |
| authenticity (`authenticity/`) | trust roots in a chain, pins, signature index | sign, plan, countersign, rotate, revoke, pin, verify | a change of keys needs the quorum before it; revocation by position; missing history never widens authority |
| catalog (`catalog*.py`) | semantic blocks of four kinds, rebuilt at each read | classify, place through the gate, demote, drop, merge | the hierarchy is acyclic, exclusive schemes are exclusive, browsing lists what is held |
| merkle (`merkle/`) | none | tree, proof, verify | a proof verifies exactly for the member it is of |
| query (`query/`) | none (a function of a version) | scan | the answer is what the request asks of the accessible members |
| blocks, identity, protocol, conformance, indices, sandbox | none of the brain's | - | injective canonical form |

How they meet: every operation that writes knowledge ends in `Brain._write`, which
puts blocks, compositions and a snapshot document in the store and then moves
`head` with one pointer write. Branch operations and pulls write `refs` and `head`
in turn. Prune computes what the roots (retained list, branch heads, tags) reach
and deletes the rest. Redaction writes a version and destroys bytes afterwards.
Push and pull go through a registry that others write too: the signatures follow
the tag, each request on its own. Reconciliation joins a fetched history to the
head, judged by the same gate as ingestion and, for who may have written it, by
authenticity. Ledger, catalog and query are rebuilt from a version's blocks
whenever they are asked.

What is hard here, and hard to reach with a test: a crash between two pointer
writes followed by operations that do not look at both; a pull that fails with a
switch begun; a prune after any of these; bytes shared by several blocks when one
is redacted; a verdict that is stale when it is committed; two handles on one
directory, whose file operations interleave; another publisher between any two
requests of a push; histories of which only part is held, read by code that has
to conclude something about the whole; records whose order is that of hashes; a
decision taken against a plan that is no longer the plan. `PROJECT.json` lists
these hazards line by line with the properties that cover them.

## 2. The modules

| module | what it is |
|---|---|
| `Branches` | store contents, `head`, `refs` and a registry's tags, one pointer write per step |
| `Knowledge` | members, citations, references, contradictions, content and tombstones along one line of versions |
| `BlockStore` | the store as `MemoryBlockStore` keeps it: every call is one step |
| `OciLayout` | `OciLayoutStore`, one file operation per step, any number of handles; implements `BlockStore` |
| `Reconcile` | two histories, Equation 1, the gate, halts and decisions, the three strategies and their writes |
| `Authenticity` | the chain of trust roots, the verdict on signatures, rotation, pins and the gates of a pull |
| `Distribution` | a tag and the requests of the pushes, fetches and pulls of several brains |
| `Referrers` | signature records around an artifact: blob, manifest, listing, and the brains' indices |
| `Catalog` | schemes, classes, hierarchy and placements in two brains, one of which merges the other |
| `Merkle` | tree, inclusion proofs and their verification over symbolic hashes |
| `Ledger` | extends `Merkle`: provenance records of two histories and the fold that reads them |
| `Query` | extends `Ledger`: the built-in scan over a history's members |
| `MC...` | the instances TLC checks, one module for each of the above (`MCLedger` for the last three) |
| `BranchesProofs`, `KnowledgeProofs`, `OciLayoutProofs`, `ReconcileProofs`, `AuthenticityProofs`, `DistributionProofs`, `ReferrersProofs`, `CatalogProofs` | theorems for every value of the constants, one module for each of the above (`KnowledgeProofs` has those of `Ledger`, `Query` and `Merkle` too) |

Operators whose name ends in `Mutant` are not used by any specification. Each is
the definition after it with a plausible bug; putting it in the definition's place
makes TLC report the property that `PROJECT.json` names, which is how each
property was seen to depend on the code it is about.

### Branches

*State.* `docs`, `comps` and `blocks` are what the store can resolve; `parents` and
`members` are what the documents say; `head` and `refs` are the pointers;
`indexed` is `index.json`, `served` the registry's tags. `pc` is what the running
call still has to write.

*Actions.* `Write` + `Advance` (commit, and drop as a version that excludes a
block), `CreateBranch`/`DeleteBranch` + `Repin`, `Checkout` + `CheckoutHead` +
`CheckoutRefs`, `FastForward` and `Reconcile` (join: the clean result of merge and
squash), `Prune` and `PruneInterrupted`, `Push` + `PushUpload` + `PushConfirm`,
`Pull` + `PullAdvance`/`FinishSwitch`/`RepinSwitch`/`PullIndex`, `PullFails`,
`PeerPush` and `PeerRepush` (other clients' publishes), `RepairRefs` (what `_read_refs`
decides about an interrupted switch), `Crash`. Another client runs the same `push`: its
check and its write are requests of their own and it may force, so what it puts behind a
tag may descend from anything a tag ever had in its history (`public`) or from nothing,
or be an older version again, whatever the tag serves at that moment. Our own push may be
told to force and may name any tag. `taken` is a history variable: what others' writes and
forced pushes took out of a tag.

*Abstractions.* A snapshot is a number in order of creation. Blobs that a call puts
before its pointer write are put in one step: nothing names them yet. Each
snapshot has a composition of its own, so a sweep loses at least as much as it
would in the store. The repair of refs is a step of its own, as `commit` and
`prune` do not read refs through it. A retained list without duplicates is a
function from snapshots to positions; branch names are numbers because
`dict` order of a canonicalised table is key order. Another client's push is one step,
its write of the tag: its check restricts nothing by then, and the requests of such pushes
among each other are in `Distribution`. A pull gets the whole history layer or none.
`Reconcile` has rebase and halted reconciliations, `Authenticity` rotation and signatures,
`Distribution` partial installs. In no module: adoption and release tags.

### Knowledge

*State.* `versions` and `written` (the last is installed), `tombs`
(`ModuleRef.tombstones`), `files` and `marks` (the store), `accepted` (reports not
yet committed), `pending` (digests a redaction has still to destroy).

*Actions.* `Register`, `Replace`, `Ingest` (validate and commit in one call),
`Validate`, `Commit`, `Drop`, `Redact` + `RedactBytes`, `Crash`, `Prune`.
`Scannable` is the exception `Module.get` raises for a block that is marked as
tombstoned while its bytes can be read, which stops every operation that scans.
`Cascade` is the least set that contains the origins and is closed under citations
and readable references, where the code has a work list.

*Abstractions.* One handle and one line of versions; store calls are single steps
(`OciLayout` opens them up). What a block cites, uses and names is fixed, as the
block is its hash. One block per report. Provenance records are not members.
`Droppable` folds the policy's three switches. A proposal's content is put with its
validation; that a prune between `put_content` and `commit` may reclaim it is
documented behaviour and not modelled. Supersession, demotion and attribution
change what is accessible, not what is held: `Ledger` has them.

### BlockStore and OciLayout

`BlockStore` is `MemoryBlockStore`: two sets and answers. `OciLayout` has `blob` and
`scratch` (a file is absent, partial or whole), `fd` (which name the file a put has
open goes by: a rename takes it along, an unlink leaves it without one), `record`
and `draft` (`tombstones.json` and its scratch file) with modification stamps, each
handle's `cache`, and for each handle the call it is in and how far it is. `had`
and `removed` are history variables for the refinement and for `RemovedKnown`.

*Abstractions.* The file system's clock moves between two writes of the record, so
the cache key (mtime and size) is one stamp. The record is small and its write is
one step; the rename after it is another. A blob's bytes are not: a put opens,
fills and renames. Pointers, `index.json` and the layout marker have no file-level
model here; `Branches` takes a pointer write to be atomic, which is the rename.

### Reconcile

*State.* `ours` is our head and `theirs` their versions, which parted at the first;
`base` is the latest of theirs that our history contains, `fetched` the head that
`fetch` brought; `held` and `records` are what the store has; `pointer` is the
halted reconciliation and `job` the conclusion being written. `recent` is the
retained list. `since`, `lost`, `dropped`, `stale`, `joins` and `wrote` are bounds and
history variables; `stale` says that an admission was applied which the verdict on
its block, computed again, no longer allows.

*Actions.* `Work` and `TheirWork` (register, commit, replace, supersede, drop),
`Fetch`, `ReconcileAs` (plan, and halt or conclude), `Resolve`, `AcceptRemovals`,
`Continue` (plans again, keeps the decisions that still apply), `Abort`,
`WriteStep` (one version: the only one of a merge or squash, each one of a rebase),
`Crash`, `Prune`.

*Abstractions.* A block is its digest and a record what it states. `Merged` is
Equation 1 for each module that both sides opened; the others are carried as they
are. The gate's checks that look at a block alone pass. A rebase replays their
versions one write at a time, so a crash leaves what was replayed. Their history
only grows and never contains ours; `Branches` has the search for a common
ancestor.

### Authenticity

*State.* `docs` is every snapshot anybody made and `signed` every signature;
`held`, `whole` and `index` are what this store has of them; `pin`, `head` and
`plan` (a revision waiting for signatures) are the brain's own; `pulling` is the
snapshot that the pin gate of the pull under way let through.

*Actions.* `Commit`, `Merge`, `Sign`, `PlanRotate`, `Countersign`, `RotatePlanned`,
`Rotate`, `Pin`, `PinGate`, `Pull`, `Prune`, and `Elsewhere`: whatever other installations
publish, including successors nobody may make. A pull of a pinned brain is two steps, as
it resolves its tag twice: `PinGate` (`_require_pin_holds`) fetches documents and records
and judges them; `Pull` (`_retrieve` and what follows) fetches whatever the tag names by
then, which may be another snapshot, and installs it if the rollback guard and the policy
allow, with no second look at the pin. Others publish between the two; the handle's own
calls wait. `Judge`, `QuorumCount` and the
`...Findings` follow `authenticator.py` branch by branch and read the store alone;
the properties compare the verdict with the whole of `docs` and `signed`.

*Abstractions.* Keys are their blobs and a record verifies or does not. Modules are
three sets: canonical blocks, provenance records, tombstones. Retention is a number
of versions. Not here: attribution, the removal invariant's report
(`Reconcile` states the invariant), the offered stance, `seen_signed`.

### Distribution

*State.* `docs`; each client's `head`, `known` documents, `held` modules and
`origin`; the registry's `blobs` and the `writes` of the tag; each client's `job`,
the push it is in, and `verdict`, the alarm it last got.

*Actions.* `Commit`, `Push` (its reads of the tag and its checks), the uploads, the
write of the tag, the confirmation with its retries, `FetchAndMerge`, `Pull` whole
or in part, and `Fails`: a request that fails or a process that dies
at any point of a push. A read may return what the tag named `Lag` writes ago right
after a write, and `Stale` writes ago otherwise.

*Abstractions.* One repository and one tag. A layer is a module version or a
history; tar files and digests are their contents. `Attempts` is
`PUBLISH_CONFIRM_ATTEMPTS`.

### Referrers

*State.* Each machine's signature index `local`; the registry's `blobs`,
`manifests` and `listing`, with the Referrers API (`api`) or with an index that
clients read, append to and write back; each machine's `job`.

*Actions.* `Sign`, `Attach` (other tools, stray records); a push record by record:
`NextRecord`, `Upload`, `PutManifest`, `ReadFallback`, `AppendToFallback`,
`EndPush`; a pull: `ListReferrers`, `MergeRecord`, `MissRecord`, `EndMerge`; `Fail`
at any point. `others` is a history variable: who else attached something during
the push.

*Abstractions.* One artifact with one snapshot. A push starts after its tag is
confirmed and before its origin is recorded, so a failure here leaves the tag
published unsigned and the next push of the same head lists what was missed. The
local layout's `index.json` has the same read-modify-write.

### Catalog

*State.* For each of two brains its canonical and semantic blocks, which of them are
hidden, and what records say of them; `base`, the version the merge starts from;
`report`, a verdict that waits.

*Actions.* `classify` with one or several declarations in a request, placement
through the ingestion gate and its commit, demotion and supersession, drop with its
cascade, registration of a dropped source, and the merge of the other brain's
catalog with the gate judging its blocks in any order. `LoadCatalogState` and
`SourcesFor` are what readers get.

*Abstractions.* A block is what it states. Labels and descriptions are left out.

### Merkle, Ledger and Query

`Merkle` has RFC 9162's tree, audit paths and `InclusionProof.verify` with hashes as
terms: `SubtreeHash` and `AuditPath` by stretches of leaves, `Rise` for one round of
the verifier's loop with the levels `SkipLevels` passes over. `Ledger`'s `order` holds
every record in the order of the digests, with who holds it: a new one is inserted
anywhere, as a hash says nothing of time. `CommitDerived`, `Supersede`, `Demote` and
`DropByProducer` write records, `Merge` joins the two histories. `Absorb...` is one
round of the fold, an operator for each kind of record, with the overwriting it does;
`Read` folds the records a history holds and `Held` is the set of them. `Query` puts a
fixed set of requests to every state: text match over content words, expansion along
relations round by round, what is held back, order (`Ordered`) and limit. Filters that
look at a block alone are a set of blocks that pass; scores are coverage counts.

## 3. The runs

`RetainedRoots`, `Max...`, `Lag`, `Attempts` and `ReviewThreshold` in the cfg files
are the bounds. States are distinct states.

| run | instance | states | checks |
|---|---|---|---|
| `branches` | 2 branches, 3 snapshots, 1 retained root, a shared tag that others overwrite, pushes to another branch's tag | 1 407 498 | `RetentionExact`, `OriginsPublished`, `WorkKept` |
| `branches_faults` | 3 snapshots, 1 retained root, failing pulls, a crash between any two writes, sweeps that stop half way, others that put an old version back behind the shared tag | 2 673 279 | `HeadsResolve`, `CheckoutDecided`, `RootsWhole` |
| `knowledge_plain` | 7 blocks, 3 contents, 6 versions | 71 695 | `CitationsHeld`, `Consistent`, `Intact`, `RedactionStands` |
| `knowledge_faults` | the same, 4 versions, late commits and crashes | 27 322 | `DatumKept`, `EpisodesKept` |
| `store_alone` | 1 handle, 2 digests, 6 calls | 87 552 | `RemovedKnown`, `Implements` |
| `store_reader` | a reader and a writer, 4 calls, either may die | 311 381 | `AnswersCurrent`, `WholeBlobs` |
| `reconcile` | 7 blocks, 2 operations of ours, 3 versions of theirs, every strategy, whole and partial fetches, crashes, prunes | 498 603 | `EvidenceHeld`, `DropsStick`, `EndsAsAccepted`, `PrecedenceSettled`, `RemovalsOnRecord` |
| `authenticity` | 2 keys, 4 snapshots, 2 signatures, others' publications, histories and listings cut, both answers of a pull's tag | 182 487 | `AuthorityGranted`, `WithdrawnNeverCounts`, `EvidenceSound`, `PinnedAuthority`, `AuthorizationKept` |
| `distribution` | 2 brains, 4 snapshots, 2 writes of the tag found by a push, lagging reads, 1 failure | 162 454 | `TagComplete`, `AlarmsReal`, `OriginContained`, `ReplacesOnlyUnseen`, `PushEnds` |
| `catalog` | 3 classes, 1 source, 5 operations | 446 949 | `CatalogSound`, `BrowseHeld` |
| `ledger` | 5 blocks, 2 models, 4 records in any order, trees of up to 9 leaves, 7 queries | 91 717 | `ProofsBind`, `SuccessorsExact`, `MadeByReach`, `ScanExact` |
| `referrers` | 2 machines, 4 records, 3 pushes and pulls, both kinds of registry | 1 676 555 | `ListedWhole`, `PushLists`, `MergeKeeps` |

Every module also has a `TypeOK`; it is proved for `Branches`, `Knowledge`,
`OciLayout`, `Reconcile`, `Authenticity`, `Distribution`, `Referrers` and `Catalog`
and can be added to the cfg of any run. That of `Ledger` is `LedgerTypeOK`, stated with
its proof.

Why the bounds are enough to see the cases. *Branches*: two branches and three
snapshots with a peer let a branch be left, fall out of the retained bound, be
joined and be deleted, and let a tag move between a push's check and its upload; a
version of ours that is published, overwritten by a peer's with another history, and
followed by a deletion or a pull needs three. Pushes of ours that are told to force are
in `BranchesForce.cfg` (3 retained roots, 3 176 898 states), under which
`OriginsPublished` and `WorkKept` pass as well, and in the theorems.
*Knowledge*: two canonical blocks share bytes, a claim and its rival contradict,
references form a chain of two hops across modules, and an episode cites one of the
sources; six versions build the chain and cut it, or redact, replace and restore a
block. *OciLayout*: two digests let one call's entry be lost to the other's, and
four calls let a reader ask before, during and after a redaction. *Reconcile*: the
blocks are chosen so that each question of the gate is asked (a contradiction, a
relation to what is dropped, unreadable bytes, two successors of one source), and
three of their versions give a rebase two steps to die between. *Authenticity*: the
brain starts with a signed version, so two more snapshots make a revision and a
successor, a merge, or a line that a prune cuts; one key is the maintainer's and
the other is admitted, or nobody's. *Distribution*: four snapshots are a base, two
sides and their merge. *Catalog*: five operations are two edges on each side that
only together make a cycle, and the merge. *Ledger*: four records are a contested
pair settled, in each of their 24 orders; a block then has two successors at most, and
more are the theorem's. *Referrers*: three jobs are two pushes
that overlap and the one that repairs, with both limits set low enough to be met.
The theorems remove the bounds where there is one.

Deadlock is checked in `Branches` and `Knowledge` (`Prune` is always enabled when no
call is running). It is off in the others, where operations are bounded in number
and the parties then stop.

*Fairness.* `Distribution` is checked under weak fairness of the next request of a
push that is under way: `push` is straight-line code with one bounded loop and a
caller that waits for it, so what is assumed is that the transport answers a request
or reports its failure (a connection that hangs forever is outside). `PushEnds` then
says that the confirmation's retries end whatever the registry answers and
whatever others do; nothing is assumed of other publishers, nor that a user ever
starts anything. No other module assumes fairness.

### Further configurations

Kept beside the runs. Most show an edge at which a promise stops holding, which is
what the hypotheses of a property or theorem are about.

| configuration | property | result |
|---|---|---|
| `BranchesCrashWork.cfg` | `WorkKept` | violated: checkout dies after its head write, a commit follows before refs are read, the switch is judged not to have happened and the branch that was left is recorded at the other's head |
| `BranchesForce.cfg` with | `OriginsServed` | violated: a push is confirmed and its origin recorded, another client's push that was checked before, or forced, replaces the tag, and no tag serves what the origin names any more; `delete_branch` still takes the origin as evidence (`brain.py:1058`), so the last copy may go |
| `BranchesForce.cfg` with | `PullKeepsHeads` | violated: a pull replaces the diverged, unpublished head of the destination branch (`brain.py:5093`) |
| `BranchesDigest.cfg` | `RootsWhole` | violated: a branch is started at a snapshot whose document outlived its blocks (`brain.py:978`), which `RootsAlwaysWhole` excludes |
| `KnowledgeCrash.cfg` | `RedactionStands` | violated: a redaction dies between its version and its bytes and cannot be repeated |
| `KnowledgeRetained.cfg` | `RetainedDatumKept` | violated: redaction takes content that a block of an older retained version names |
| `KnowledgeDeferred.cfg` | `CitationsHeld` | violated: a report is committed after its evidence was dropped (`brain.py:2534`), which `CitationsAlwaysHeld` excludes |
| `KnowledgePlain.cfg` with | `EvidencePreserved` | violated: redacted bytes registered again under another media type give a canonical block without bytes (`brain.py:2227`) |
| `OciLayoutTorn.cfg` | `WholeBlobs` | violated: two puts of the same bytes share a scratch file and a partial one is renamed |
| `OciLayoutLost.cfg` | `RemovedKnown` | violated: of two redactions at once, one overwrites the other's entry (`store/oci_layout.py:228`), which `RemovedAlwaysKnown` excludes |
| `OciLayoutCrash.cfg` | `RemovedKnown` | violated: a redaction dies between unlink and record, and the digest reads as missing (`store/oci_layout.py:227`), which `RemovedAlwaysKnown` excludes |
| `ReconcilePrune.cfg` | `DropsNeverReturn` | violated with 2 retained roots: when the base was pruned Equation 1 is the union of both sides (`brain.py:3305`), and what was dropped returns; `DropsAlwaysStick` excludes it |
| `ReconcileAdmit.cfg` | `DecisionsStand` | violated: a prune during a halted reconciliation and a fetch without the sources change the plan, and an `ADMIT` recorded against the old one is applied to a block whose evidence is missing (`brain.py:4028`, against "cannot be admitted by decision", `brain.py:4005`); `EvidenceAlwaysHeld` excludes it |
| `ReconcileEpisodes.cfg` | `EpisodesKept` | violated: a reconciliation's cascade takes an episode out of the head |
| `ReconcileRebase.cfg` | `NothingLeavesUnreviewed` | violated: the versions on the way of a rebase lack what its end has, which a crash leaves as the head |
| `DistributionRace.cfg` | `RaceSeen` | violated: a push that passed its check before another's write and writes after the other's confirmation overwrites it, and neither publisher is told (docs/guides/distribution.mdx:103) |
| `DistributionOrigin.cfg` | `OriginIsSnapshot` | violated: after the push of a subset the origin names the projection's document and not a snapshot (`brain.py:5471`) |
| `CatalogMerge.cfg` with `Proposals <- MCPair` | `ExclusiveKept` | violated: two placements of one report, neither judged against the other, file one source twice in an exclusive scheme (`ingest/validation.py:228`), which `CatalogAlwaysSound` excludes |
| `LedgerFold.cfg` with | `MadeByComplete` | violated: one entry is kept for each block, so a second producer's record hides the first's from `drop_by_producer` |
| `LedgerSettled.cfg` | `SettledStays` | violated: a settled question opens again when its loser is put below another block too and that record comes later in hash order |
| `ReferrersLost.cfg` | `ListedStays` | violated: two clients write the fallback index from what they read, and one listing is lost until its brain pushes alone |
| `AuthenticityPull.cfg` with | `PinnedHead` | violated: the tag is resolved once by `_require_pin_holds` (`brain.py:4596`) and again by `_retrieve` (`brain.py:5264`); a publication in between is installed without having met the pin (`brain.py:4974`, `:4975`, against "A pinned consumer refuses any brain whose trust root neither matches the pin nor descends from it", docs/guides/authenticity.mdx:243), which `PinnedAuthority` excludes by asking that the second answer is what the gate judged |
| `AuthenticityPull.cfg` with `Unsigned = "warn"` and | `PinnedHead` | violated even where both answers are one: an artifact with no record at all is reported unsigned before its governance is judged (`authenticator.py:624`), so a pinned brain installs an unsigned change of keys made directly on its head (against "one that did not ... is refused", `brain.py:4591`); `PinnedAuthority` asks that the gate found a record |

Further behaviour met while modelling that no configuration isolates:

* *Reconcile*: without their provenance module a removal is applied with no record;
  `PREFER` may name a winner that was refused; a relation to a block refused later
  in rank order is left dangling; a prune during a halted reconciliation takes the
  other head's documents (`brain.py:3136`); after a squash or rebase their later
  drop of a block does not carry over as one. A `PREFER` over a contender that
  another block has already replaced opens, or leaves open, a second question, which
  is why `PrecedenceSettled` is about questions that stand alone. A rebase over
  versions whose blocks never travelled loses a block on the way and regains it with
  no removal record, which is why `RemovalsOnRecord` asks that the same modules of
  every version replayed can be opened.
* *Distribution*: pushing a subset over a fuller tag passes the check against
  narrowing, which compares names; a pruned ancestry reads as a divergence.
* *Authenticity*: a revision that removes a key is itself refuted by that key's
  `since`; a head whose signer declares its own compromise is unauthorised; the
  quorum of an ancestor is counted with the marks of its own root alone.
* *Catalog*: a class outlives its scheme, and placing in it then fails
  (`catalog_models.py:216`); declaring a scheme again with another `exclusive` can
  break exclusivity; a demoted block declared again is validated and stays hidden.
* *Ledger, Query*: with `assisted_by` the producer is not in the record; a block
  superseded by one that is dropped later stays hidden, and so do both of a cycle;
  relations of blocks that are held back are followed.

## 4. The theorems

They hold for any branches, block graphs, policies, digests, handles and bounds
that meet the named assumptions of the modules.

**Branches.** The inductive invariant is `HeldInv == TypeOK /\ PendingOK /\
HistoryBounded /\ DocsHeld`. `HeadsResolve` alone is not inductive: a running call will
write a head whose document must be held by then, and a prune must not take it, so
`PendingOK` says what each step of `pc` still relies on and `DocsHeld` that heads, refs
and pending writes are held. `RootsAlwaysWhole` adds `WholeInv`, the same for
compositions and blocks; it needs that branches are started only at heads, which is
exactly what `BranchesDigest.cfg` refutes otherwise. `CheckoutAlwaysDecided` uses
`CheckoutMarked`: while a checkout is between its writes, `switching` names where it is
going. `OriginsAlwaysPublished` rests on `OriginInv` and `PushOK`: what a push that
passed its check is about to overwrite is, as far as origins rest on it, in the history
of what it puts there, or behind another tag, or in `taken`, since whatever another
client's write took from the tag in the meantime is; what is in `taken` stays there, and
`PublicOK` says that others know no snapshot before it exists, so none of their versions
passes for one of ours. Nothing is assumed of other clients. `WorkIsKept` and
`RetentionAlwaysExact` need that no call dies between two pointer writes
(`BranchesCrashWork.cfg` is the counterexample otherwise): `SwitchOK` then says that a
switch left recorded by a call that raised still finds its branch in the history of the
head. For the retained list, `RankInv` says that no two snapshots share a position, and
`RetainInv` that what is kept beside the branch heads is one below the bound, or at it
once the head is recorded in the refs.

**Knowledge.** `CitationsAlwaysHeld` rests on `CascadeClosed` (what a drop leaves
cites and points at nothing it took) and `MembersStayUnreadable` (a member whose
bytes went does not become readable again, so a reference the cascade could not
see stays unseen); it and `AlwaysConsistent` need reports to be committed as they
are made. `AlwaysIntact` follows marking through the sweep. `RedactionAlwaysStands`
strengthens to `Unfinished` (a readable tombstoned block is still pending) and
needs redactions to run to their end. `DatumAlwaysKept` and `EpisodesAlwaysKept`
need neither; the first strengthens to `Doomed`: the content a redaction has still
to destroy is named by no readable member but the one that goes with it.

**Ledger and Query.** A ledger is the last of a sequence of ledgers, one for each record
(`ReadIs`: the fold of the community module is a recursive function on sets of places,
shown to exist by a least counterexample). What it then says must not depend on the
order of the digests, so the proofs go through `Says(l, E)`: what a ledger l says
because of a *set* E of records - a block's successors are the ones records in E name,
`superseded_by` and `competing` hold nothing else, a producer or assistant is one that
some record names, and one that a record names was at most overwritten by another's.
`SaysMore` shows that each record read keeps this, whatever it overwrites, and `ReadSays`
that at the end E is all a history holds. `SuccessorsAlwaysExact` and
`MakersAlwaysReached` follow from it and the ledger's type (`LedgerTypeOK`: records are
those the operations write; it is inductive). `ScanAlwaysExact` compares the scan with
what a request asks for: the frontiers of `Expand` and the distances of the property are
two recursions that find the same blocks (`RoundsReach`), and the order by score and
digest gives every match one place and every place one match (`Places`), so that cutting
at the limit keeps the first (`OrderedIs`). Assumed are finitely many derived blocks,
no two with one digest, and requests with finitely many words.

**Merkle.** `VerifyExact` is about every composition, block, index and path: a proof
verifies against the root exactly when the block is the leaf at the index and the path
is the one `inclusion_proof` gives it. `ProofsAlwaysBind` is the case of the records
held, in every state. The verifier knows positions only and the tree is split by sizes,
so most of the argument ties the two together. A power of two is what doubling makes of one
(`IsPower`: in every set of numbers that has 1 and the double of each member), and
`SplitIs` shows that `_largest_power_of_two_below` is one, at least half the size.
`InsideAll`: a climb through a perfect part of p leaves that is not at the right edge
arrives at position and last divided by p with the part's hash. `EdgeAll`: a climb
through the n leaves at the right edge, from position a * `Width(n)` + i, arrives at
position a and last a; by strong induction on n, since the right part is smaller and its
width divides the left part's (`WidthIs`), and the levels between the two are the ones
`SkipLevels` passes over (`SkipLaws`). With a = 0 that is the root, so the right path
verifies. That nothing else does is `OneClimb`: what a round does to position and last
does not depend on the hashes (`RiseTogether`), a climb that goes on after the root
fails (`WellDown`), so two climbs that both arrive have the same length, and going back down
equal hashes were made of equal ones. It assumes of hashes what the model does, that
equal ones are of equal things.

**OciLayout.** `StepOfOne` says how one step moves the handle that takes it and
that the others stay where they are. From there:
`AlwaysSettled` (any number of writers, none dies: `SettledInv` follows an open file
through renames); `AlwaysWhole` (one writer, crashes anywhere: a put that reaches
its rename has filled the file it opened); `AnswersAlwaysCurrent` (one writer,
crashes anywhere: `CurrentInv` says that stamps grow, a cache under the record's
stamp agrees with it, and what the writer files is what it worked out);
`RemovedAlwaysKnown` (one writer that does not die: nothing moves the record under
it). `ImplementsStore` is the refinement: with one handle and no crash, blobs are
the files plus what a running redaction or deletion has unlinked, a put takes
effect at its rename, a redaction or deletion at the swap of the record. `Knows`
says that what a call found out still holds when it acts on it. The hypotheses are
the exact border: `OciLayoutTorn.cfg` and `OciLayoutLost.cfg` drop the single
writer, `OciLayoutCrash.cfg` the absence of crashes.

**Reconcile.** `Inv` is the type of every variable and, of a conclusion that is
being written, `Accepts`: what this brain held when it was concluded is accepted as
leaving or is in Equation 1's result and outside the cascade. Records that a step
authors can make another module readable, but never change which blocks Equation 1
gives (`ReadsBlocks`, `MergedBlocks`); so `EndsAlwaysAsAccepted` holds for all
constants. `DropsAlwaysStick` adds `Whole` (our head can always be opened, so no module
of ours is ever adopted or carried) and `Gone`; it needs an installation with every
module. `EvidenceAlwaysHeld` is R1 across modules, which Equation 1 does not give. Its
invariant `Evident` says: every version of theirs is `Sound` (what it derives has its
derivation record and its evidence in it) and their ledgers only grow; our head is
sound unless a replay is under way; and a conclusion will end in a sound version
(`EndsSound`). `ConcludeSound` is the argument for the last: of ours, whatever cited an
excluded source has a derivation record in the merged ledger (`DerivationsSurvive`), so
the cascade takes it (`CascadeFacts`); of theirs, whatever is not refused was judged in
a view that had its evidence (`JudgedFacts`), and sources that view showed are not
refused. It needs that fetches bring the provenance module: without their records a
block may come in whose citations only its own schema carries, and a later drop of
its evidence does not find it. `RemovalsAlwaysOnRecord` has the same hypotheses. Its
invariant `Recorded` says that every version of theirs has the removal of whatever left
since an earlier one (`TheirsSay`), that removals in the base's ledger are in ours
(`Removes`), and of a conclusion under way that its base side is part of the base
version, that what is left of a replay are the last versions in order (`InOrder`), and
that what the head has beyond its start came from a version replayed before (`Came`):
each step of a rebase then has in its ledger the removal of all it takes
(`StepRemoves`). `PrecedenceAlwaysSettled` adds `Asked`: an answer recorded at a halt is
one to the question the halt asks, whatever is fetched or pruned before it is continued
(`Answers`), and a conclusion has for every open edge of the merged ledger a refusal, an
`ADMIT` or a winner (`Said`). `AloneSettles` is the fact about the fold: of two successors of which one is put below the other, only one stands.
The module assumes that `"reject"` and `"admit"` are not blocks, as a decision is one
or the other or names a winner.

**Authenticity.** The safety properties compare what a store concludes with all there
is, so most of the work is about the operators and not the steps. A walk of first
parents is characterised as a line (`Line`: it starts at d, goes on to whatever resolves
and is the least such set), a search of all paths as what it found and where it met a
gap (`Found`); both existence and leastness of these recursive functions are shown by a
least counterexample over the numbering of the snapshots. `Inv` is `TypeOK` and that a
root marks only snapshots older than the one that carries it. From there:
`WithdrawnAlwaysOut` rests on `NoMark` (a search without a gap that did not find the
mark shows it nowhere behind, whoever searches: `AbsentEverywhere`), so a verdict that
lets a key count cannot have missed it; `EvidenceAlwaysSound` on `PossibleScopes` (what
the whole difference asks for is among what a partial reading leaves possible, and
reading more never asks for less); `AuthorityAlwaysGranted` on `GrantedBy`: the store's
walk is the newest part of the whole walk, its revisions are approved by keys that
`Approval` shows to be a quorum among everything signed, and a walk that ends early is
anchored in the pin. These three hold for every policy. `AuthorityStaysPinned` is the
same along the steps (`GrantedKept`, `GrantedChild`: later documents and signatures
take no approval back, and a child that changes no keys has its parent's authority). Its
invariant `GateOK` says that what the gate of the pull under way let through, if a record
over it is held, has granted authority; nothing that others publish or that the
second retrieval brings takes that back (`GateNext`, `FetchedParts`). It holds for every
policy too; what it leaves open, a second answer that is another snapshot and a snapshot
without a record, are the two rows of the table above. `AuthorizationStays` relates two states: `Gains`
says that the store after the step has no less, `StaysAuthorized` that verdicts,
quorums and every finding then come out the same or better where no mark speaks against
a key, and `LaterState` that a report about an earlier snapshot does not depend on
documents made since. The assumptions are that there are finitely many keys and that
the root of the genesis, before which there is no snapshot, marks none.

**Distribution.** `Inv` describes the documents (`DocsOK`), each client (`ClientOK`:
what it knows is closed under parents, its origin is in the history of its head, its
alarm names what its head lacks), every write of the tag (`WritesOK`: complete, its
blobs in the registry) and every push that is under way: what its reads still say of
the writes they saw, and what it has uploaded. `TagIsComplete`, `AlarmsAreReal` and `OriginIsContained` are
parts of it. `OnlyUnseenReplaced` compares the tag at the write with the number of
writes a push had seen at each of its two reads. They hold for any number of
clients, any lag and any number of attempts, with failures at every request.

**Referrers.** `AlwaysListedWhole` holds for any machines, records and limits and
with any interleaving. `ListedWhole` alone is not inductive: a push that is about to
put a manifest, or to write an index it read earlier, must have put the blob and the
manifest first, and what it read must have been whole. `StepsOK` says so of every
step a push can be at, `WholeInv == ListedWhole /\ StepsOK` is preserved because no
blob and no manifest leaves the registry (`RegistryGrows`). `PushAlwaysLists` is
about a push that is alone: `AloneInv` says that while nobody else attached
anything, the listing has what was there when it began and all it has finished, and
that the entries it read are the listing still. `ReferrersLost.cfg` is the case it
excludes. `MergeAlwaysKeeps` needs no such hypothesis: `PullOK` says that each record a
pull saw is still to do, held, missed or a stray, until the index is full (`MaxRecords`),
and nothing leaves a brain's index (`LocalGrows`).

**Catalog.** `HierarchyAlwaysAcyclic` holds for all constants, whoever waits and
whatever is demoted or dropped: all it asks is that the hierarchy both brains start with
is one. Acyclic is stated by separation (`Acyclic`: below the end of every edge lies a
set of classes that no edge leaves and its start is not in), which a new edge keeps if
what is narrower than its end does not contain its start (`AddEdge`; `DescendantsClosed`
says that the rounds of `Descendants` find it all). `AcyclicInv` says of each brain that
edges have their ends among the blocks, hidden or not, and that those seen are acyclic;
without the first part a class that returns could bring an edge back into view
(`BoundGrows`). For a reconciliation, `Settled` is what is left of the version once
everything still to be judged and everything cascaded is taken away: each block admitted
was judged among more than that (`ValidatedAcyclic`), and what it stands on was judged
before it (`SettledStep`, from `Priority`), so order among equals does not matter. The
number of the classes above a class is its depth (`DepthsExist`).
`ExclusiveAlwaysKept` is the same argument for `Exclusive`, with `SoundInv`: classes
have their scheme, a scheme is exclusive or not, and a report has room in the brain it
was judged against (`Pending`). Its hypotheses are those a caller has to see to, and
without each the code lets a source be filed twice: schemes stay as declared
(`SchemesStay`), a report is committed before its brain does anything else (`Waits`), and
places no source twice in a scheme (`Apart`). `CatalogAlwaysSound` is both.
`BrowseAlwaysHeld` needs only that reports do not wait: `Grounded` says that a placement
recorded as derived has its source, and `Inherited` that one without a record was
already in the base, so that a reconciliation either loses it with the base or has the
record of the other side and the cascade takes it (`MergedGrounded`).

Recursive functions inside a definition (`Cascade`, `Judged`, `Admit`, `Descendants`,
and those of the fold, the scan and the tree) are dealt with in one way (`IterateExists`
where a step is repeated): the function exists, by a least counterexample in the
well-founded order of the naturals, and what every round preserves is shown the same way.

Only model-checked: liveness (`PushEnds`), as fairness and `ENABLED` are out of tlapm's
reach. Every other property of a run is stated by a theorem, on the hypotheses named
there. The numbers of steps that bounds in the guards allow are constants of the
theorems; that a file system, a registry or a transport behaves as its module says is
assumed by both.

## 5. Not modelled

Byte formats, canonical JSON, signature formats and agents (a digest stands for its
bytes, a signature verifies exactly for its key), tar layers, the network below the
registry's answers, prompts, tasks and proposers, indices and planners supplied by
the embedding program, attribution reports, adoption of a brain, release tags, the
abstract operation table of `protocol/`, the conformance suite and the sandbox: they
keep no state of a brain, or change none that the modules here tell apart.
`PROJECT.json` has the list by component.

## 6. Plan

1. `Handles`: two `Brain` objects on one directory, each with the state it read when
   it was opened (`brain.py:768`), over the pointers of `Branches`: which commits are
   lost, and that what is left is whole.
2. `Reconcile` over `Branches`' pointers: the halted pointer and the branch heads in
   one module, so that prune's roots and the pointer meet.
3. Partial installs in `Authenticity`, and the offered stance.

## 7. Running

```
tlc -workers 2 -config BranchesShared.cfg MCBranches
tlapm OciLayoutProofs.tla
```
