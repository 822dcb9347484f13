----------------------------- MODULE Knowledge -----------------------------
(***************************************************************************)
(* What a brain knows and how it forgets: blocks enter the composition by  *)
(* registration and by validated commits, leave it by drops that cascade   *)
(* over citations and references, and lose their bytes to redaction and    *)
(* pruning (brain.py, retention/, module/, ingest/validators.py).          *)
(*                                                                         *)
(* One handle on one line of versions; Branches models what happens        *)
(* between the writes of one version.  A block is its digest, so what it   *)
(* cites, points at and names is fixed.  Provenance records are never      *)
(* removed here, and a store call is one step.                             *)
(***************************************************************************)
EXTENDS Naturals, FiniteSets

CONSTANTS
    Blocks,           \* block identities, provenance records excepted
    Contents,         \* content addresses of bytes that blocks name
    Kind,             \* block -> its memory type
    Content,          \* block -> Block.content_digests
    Evidence,         \* block -> the canonical blocks it cites
    Uses,             \* block -> targets of its relations, or what its steps use
    Contradicts,      \* block -> the semantic blocks that make the same claim differently
    Droppable,        \* the kinds whose drop the policy permits
    Redactable,       \* whether the policy permits redaction
    RetainedRoots,    \* RetentionPolicy.retained_roots
    ReviewThreshold,  \* RetentionPolicy.cascade_review_threshold
    MaxVersions,      \* bound: how many versions are written
    Features          \* which parts of the environment a run includes

Kinds == {"canonical", "semantic", "procedural", "episodic"}
Digests == Blocks \cup Contents
Versions == 1 .. MaxVersions

ASSUME BlocksAssumption == IsFiniteSet(Blocks) /\ IsFiniteSet(Contents) /\ Blocks \cap Contents = {}
ASSUME SchemaAssumption ==
    /\ Kind \in [Blocks -> Kinds]
    /\ Content \in [Blocks -> SUBSET Contents]
    /\ Evidence \in [Blocks -> SUBSET Blocks]
    /\ Uses \in [Blocks -> SUBSET Blocks]
    /\ \A b \in Blocks : Kind[b] = "canonical" => Evidence[b] = {} /\ Uses[b] = {}
    /\ \A b \in Blocks : \A e \in Evidence[b] : Kind[e] = "canonical"
ASSUME ContradictionAssumption ==
    /\ Contradicts \in [Blocks -> SUBSET Blocks]
    /\ \A a, b \in Blocks : a \in Contradicts[b] =>
           b \in Contradicts[a] /\ a # b /\ Kind[a] = "semantic"
ASSUME PolicyAssumption ==
    /\ Droppable \subseteq Kinds /\ Redactable \in BOOLEAN /\ RetainedRoots \in Nat \ {0}
    /\ ReviewThreshold \in Nat /\ MaxVersions \in Nat

VARIABLES
    written,    \* how many versions have been written; the last is installed
    versions,   \* version -> the members of its compositions
    tombs,      \* ModuleRef.tombstones of the installed version
    files,      \* digests with bytes in the store
    marks,      \* digests the store records as tombstoned
    accepted,   \* blocks in validation reports that nobody has committed yet
    pending     \* digests a running redaction has still to destroy

vars == <<written, versions, tombs, files, marks, accepted, pending>>

Members == IF written = 0 THEN {} ELSE versions[written]

\* history(): the installed version and the most recent ones before it.
Retained == {versions[v] : v \in {w \in 1 .. written : w + RetainedRoots > written}}

TypeOK ==
    /\ written \in 0 .. MaxVersions
    /\ versions \in [Versions -> SUBSET Blocks]
    /\ tombs \subseteq Members
    /\ files \subseteq Digests
    /\ marks \subseteq Digests
    /\ accepted \subseteq Blocks
    /\ pending \subseteq Digests

Init ==
    /\ written = 0
    /\ versions = [v \in Versions |-> {}]
    /\ tombs = {} /\ files = {} /\ marks = {} /\ accepted = {} /\ pending = {}

-----------------------------------------------------------------------------
(* The store's answers, and the writing of a version.                      *)

Resolvable(d) == d \in files /\ d \notin marks
Has(d) == d \in files \/ d \in marks

\* Module.get raises on a block the module reference marks as destroyed, and the
\* scans that read every resolvable block of some kinds raise with it.
Scannable(kinds) == \A b \in tombs : Kind[b] \in kinds => ~ Resolvable(b)

\* _write: one version, whatever it adds or excludes.
NewVersion(members, destroyed) ==
    /\ written < MaxVersions
    /\ written' = written + 1
    /\ versions' = [versions EXCEPT ![written + 1] = members]
    /\ tombs' = (tombs \cup destroyed) \cap members

-----------------------------------------------------------------------------
(* Incorporating.                                                          *)

\* register: the bytes land before the composition is asked whether it has them.
Register(b) ==
    /\ pending = {}
    /\ Kind[b] = "canonical"
    /\ IF b \in Members
       THEN /\ files' = files \cup Content[b]
            /\ UNCHANGED <<written, versions, tombs>>
       ELSE /\ files' = files \cup Content[b] \cup {b}
            /\ NewVersion(Members \cup {b}, {})
    /\ UNCHANGED <<marks, accepted, pending>>

\* replace: a version is written even when the new edition was there already.
Replace(b, superseded) ==
    /\ pending = {}
    /\ Kind[b] = "canonical" /\ Kind[superseded] = "canonical"
    /\ superseded \in Members /\ b # superseded
    /\ files' = files \cup Content[b] \cup (IF b \in Members THEN {} ELSE {b})
    /\ NewVersion(Members \cup {b}, {})
    /\ UNCHANGED <<marks, accepted, pending>>

\* Mutant of Conflicts: every claim is taken to agree with what is held.
ConflictsMutant(b) == {}

\* conflicts_for: the readable members that state the proposal's claim another way.
Conflicts(b) == {o \in Members : Resolvable(o) /\ o \in Contradicts[b]}

\* The verdict of the gate: not a duplicate, evidence in the canonical composition,
\* and for a semantic block every relation target installed and no contradiction,
\* for which every resolvable semantic block is read.
Validated(b) ==
    /\ Kind[b] # "canonical"
    /\ b \notin Members
    /\ Evidence[b] # {} /\ Evidence[b] \subseteq Members
    /\ Kind[b] = "semantic" =>
           Uses[b] \subseteq Members /\ Scannable({"semantic"}) /\ Conflicts(b) = {}

\* put_content, validate and commit with nothing in between, as ingest does.
Ingest(b) ==
    /\ pending = {}
    /\ Validated(b)
    /\ files' = files \cup Content[b] \cup {b}
    /\ NewVersion(Members \cup {b}, {})
    /\ UNCHANGED <<marks, accepted, pending>>

\* put_content and validate: the caller holds the report.
Validate(b) ==
    /\ "deferred" \in Features
    /\ pending = {}
    /\ Validated(b)
    /\ files' = files \cup Content[b]
    /\ accepted' = accepted \cup {b}
    /\ UNCHANGED <<written, versions, tombs, marks, pending>>

\* commit: acts on the verdicts of the report and checks nothing again.
Commit(b) ==
    /\ pending = {}
    /\ b \in accepted
    /\ files' = files \cup {b}
    /\ NewVersion(Members \cup {b}, {})
    /\ accepted' = accepted \ {b}
    /\ UNCHANGED <<marks, pending>>

-----------------------------------------------------------------------------
(* Dropping, with its cascade.                                             *)

\* Ledger.closure: the members whose derivation record cites b.
Citing(b) == {d \in Members : b \in Evidence[d]}

\* reference_index: the readable members that point at b.
Pointing(b) ==
    {d \in Members : Kind[d] \in {"semantic", "procedural"} /\ Resolvable(d) /\ b \in Uses[d]}

\* Mutant of Cascade: the references are followed for one hop only.
CascadeMutant(origins) ==
    origins \cup UNION {Citing(b) \cup Pointing(b) : b \in origins}

\* plan_many: the origins and everything that depends on them.
Cascade(origins) ==
    {x \in Members :
        \A C \in SUBSET Members :
            (origins \subseteq C /\ \A c \in C : Citing(c) \cup Pointing(c) \subseteq C) => x \in C}

Authorized(blocks) == \A b \in blocks : Kind[b] # "episodic" /\ Kind[b] \in Droppable

\* A plan is made for the origins of each module, and the sizes add up.
PlanSize(origins) ==
    LET Size(kind) == LET from == {b \in origins : Kind[b] = kind}
                      IN  Cardinality(Cascade(from) \ from)
    IN  Size("canonical") + Size("semantic") + Size("procedural") + Size("episodic")

\* Mutant of Drop: only the modules that were named are asked for permission.
DropMutant(origins) ==
    /\ pending = {}
    /\ origins # {} /\ origins \subseteq Members
    /\ Authorized(origins)
    /\ Scannable({"semantic", "procedural"})
    /\ PlanSize(origins) <= ReviewThreshold
    /\ NewVersion(Members \ Cascade(origins), {})
    /\ UNCHANGED <<files, marks, accepted, pending>>

\* drop when the origins are of one module, drop_by_producer when of several: a
\* cascade over the threshold is held for review and writes nothing.
Drop(origins) ==
    /\ pending = {}
    /\ origins # {} /\ origins \subseteq Members
    /\ Authorized(Cascade(origins))
    /\ Scannable({"semantic", "procedural"})
    /\ PlanSize(origins) <= ReviewThreshold
    /\ NewVersion(Members \ Cascade(origins), {})
    /\ UNCHANGED <<files, marks, accepted, pending>>

-----------------------------------------------------------------------------
(* Destroying bytes.                                                       *)

\* Mutant of ContentNamedElsewhere: the other blocks are not asked.
ContentNamedElsewhereMutant(b) == {}

\* _content_named_elsewhere, over the installed version.
ContentNamedElsewhere(b) == UNION {Content[o] : o \in {m \in Members \ {b} : Resolvable(m)}}

\* Mutant of Destroyed: only what the block names goes, and not its envelope.
DestroyedMutant(b) == Content[b] \ ContentNamedElsewhere(b)

Destroyed(b) == {b} \cup (Content[b] \ ContentNamedElsewhere(b))

\* redact: the version that records the tombstone is written first.
Redact(b) ==
    /\ pending = {}
    /\ Redactable
    /\ b \in Members /\ b \notin tombs /\ Resolvable(b)
    /\ Scannable(Kinds)
    /\ NewVersion(Members, {b})
    /\ pending' = Destroyed(b)
    /\ UNCHANGED <<files, marks, accepted>>

\* Then the bytes go one digest at a time, the envelope before the content.
RedactBytes(d) ==
    /\ d \in pending
    /\ d \in Blocks \/ pending \cap Blocks = {}
    /\ files' = files \ {d}
    /\ marks' = marks \cup {d}
    /\ pending' = pending \ {d}
    /\ UNCHANGED <<written, versions, tombs, accepted>>

\* The process dies in the middle of a redaction and the brain is opened again.
Crash ==
    /\ "crash" \in Features
    /\ pending # {}
    /\ pending' = {}
    /\ accepted' = {}
    /\ UNCHANGED <<written, versions, tombs, files, marks>>

\* Mutant of Kept: the content that blocks name is not marked.
KeptMutant == UNION Retained

\* mark: the blocks of every retained version, and what the readable ones name.
Kept == UNION {{b} \cup (IF Resolvable(b) THEN Content[b] ELSE {}) : b \in UNION Retained}

\* prune: delete takes a reclaimed file's tombstone with it.
Prune ==
    /\ pending = {}
    /\ files' = files \cap Kept
    /\ marks' = marks \ (files \ Kept)
    /\ UNCHANGED <<written, versions, tombs, accepted, pending>>

Next ==
    \/ \E b \in Blocks : Register(b)
    \/ \E b, superseded \in Blocks : Replace(b, superseded)
    \/ \E b \in Blocks : Ingest(b)
    \/ \E b \in Blocks : Validate(b)
    \/ \E b \in Blocks : Commit(b)
    \/ \E origins \in SUBSET Blocks : Drop(origins)
    \/ \E b \in Blocks : Redact(b)
    \/ \E d \in Digests : RedactBytes(d)
    \/ Crash
    \/ Prune

Spec == Init /\ [][Next]_vars

-----------------------------------------------------------------------------

\* A drop leaves nothing behind that rests on what it took: every member's
\* evidence is still in the composition ("one that cites excluded evidence cannot
\* stay", retention/cascade.py:107), and every readable semantic member's
\* relations point at members, however far the cascade had to go.
CitationsHeld ==
    \A b \in Members :
        /\ Evidence[b] \subseteq Members
        /\ Kind[b] = "semantic" /\ Resolvable(b) => Uses[b] \subseteq Members

\* Two claims that contradict each other are never both members and readable, when
\* each is judged and committed in one call: the gate compares a proposal with what
\* can be read, so what was redacted must not become readable again beside its rival.
Consistent ==
    \A a, b \in Members : a \in Contradicts[b] => ~ (Resolvable(a) /\ Resolvable(b))

\* ResolvabilityReport.is_intact for every retained version, not just the installed
\* one: each block, and each datum a readable block names, is there or tombstoned.
Intact ==
    \A b \in UNION Retained :
        /\ Has(b)
        /\ Resolvable(b) => \A c \in Content[b] : Has(c)

\* Once a redaction is over, a block the version reports as tombstoned has no
\* readable bytes: registering the same source again or pruning does not bring
\* them back ("redacted: named by a root, bytes destroyed", retention.mdx:180).
RedactionStands == pending = {} => \A b \in tombs : ~ Resolvable(b)

\* "Content another block still names survives" (brain.py:3176), for the installed
\* version: no step takes a readable datum from a block that stays a readable member.
DatumKept ==
    [][ \A b \in Members \cap Members' :
            Resolvable(b) /\ Resolvable(b)'
                => \A c \in Content[b] : Resolvable(c) => Resolvable(c)' ]_vars

\* The same for every version that stays retained.
RetainedDatumKept ==
    [][ \A b \in (UNION Retained) \cap (UNION Retained)' :
            Resolvable(b) /\ Resolvable(b)'
                => \A c \in Content[b] : Resolvable(c) => Resolvable(c)' ]_vars

\* The episodic module is append-only: an episode never leaves the composition,
\* not through the cascade of a drop elsewhere either.
EpisodesKept == [][ {b \in Members : Kind[b] = "episodic"} \subseteq Members' ]_vars

\* "the canonical module asserts that the evidence was incorporated and preserved"
\* (brain.py:2210): a source that was not redacted has its bytes.
EvidencePreserved ==
    pending = {} => \A b \in Members \ tombs :
                        Kind[b] = "canonical" => \A c \in Content[b] : Resolvable(c)
=============================================================================
