------------------------------ MODULE Catalog ------------------------------
(***************************************************************************)
(* The catalog: schemes, classes, a hierarchy of classes and the placement *)
(* of canonical sources in them (catalog*.py, brain.classify).  It is kept *)
(* as semantic blocks and rebuilt from those that are accessible; nothing  *)
(* else is stored, so whether it makes sense is decided by the checks of   *)
(* whoever adds a block: classify, the ingestion gate, a reconciliation.   *)
(*                                                                         *)
(* A block is what it states, so a statement made twice is one block.  The *)
(* two brains start from one version; "ours" takes in what "theirs" did.   *)
(***************************************************************************)
EXTENDS Naturals, Sequences, FiniteSets, SequencesExt

CONSTANTS
    Classes,        \* the classes, each of one scheme
    SchemeOf,       \* class -> its scheme, a part of its identity
    Sources,        \* the canonical sources
    Start,          \* the catalog blocks both brains start with
    Unrecorded,     \* those written before catalog blocks had provenance records
    Requests,       \* the requests classify is called with: sequences of declarations
    Proposals,      \* the candidate sets the ingestion gate is given: sets of placements
    Waits,          \* the brains whose reports may wait while the brain does something else
    Demotable,      \* the kinds of catalog block that are demoted or superseded
    Droppable,      \* the kinds of block that are dropped
    MaxOps          \* bound: operations

VARIABLES
    brain,          \* "ours", "theirs" -> the brain
    base,           \* the version of theirs that ours already contains
    report,         \* "ours", "theirs" -> the placements a report admits
    ops

vars == <<brain, base, report, ops>>

Sides == {"ours", "theirs"}
Scheme(s, exclusive) == <<"scheme", s, exclusive>>
Class(c) == <<"class", c>>
Hierarchy(broader, narrower) == <<"hierarchy", broader, narrower>>
Placement(s, c) == <<"placement", s, c>>

Kind(d) == d[1]
OfKind(set, kind) == {d \in set : Kind(d) = kind}
Schemes == {SchemeOf[c] : c \in Classes}

Blocks ==
    {Scheme(s, e) : s \in Schemes, e \in BOOLEAN} \cup {Class(c) : c \in Classes}
    \cup {Hierarchy(p, c) : p, c \in Classes} \cup {Placement(s, c) : s \in Sources, c \in Classes}

ASSUME ClassesAssumption ==
    SchemeOf \in [Classes -> Schemes] /\ IsFiniteSet(Classes) /\ IsFiniteSet(Sources)
ASSUME StartAssumption == Start \subseteq Blocks /\ Unrecorded \subseteq Start
ASSUME InputsAssumption ==
    /\ Requests \subseteq Seq(Blocks) /\ Proposals \subseteq SUBSET OfKind(Blocks, "placement")
    /\ Waits \subseteq {"ours", "theirs"}
    /\ Demotable \subseteq {"scheme", "class", "hierarchy", "placement"}
    /\ Droppable \subseteq {"scheme", "class", "hierarchy", "placement", "source"} /\ MaxOps \in Nat

\* What a version holds: its members, what its ledger hides, derives and validates.
Versions ==
    [canonical : SUBSET Sources, semantic : SUBSET Blocks, hidden : SUBSET Blocks,
     derived : SUBSET Blocks, validated : SUBSET Blocks]

Genesis ==
    [canonical |-> Sources, semantic |-> Start, hidden |-> {},
     derived |-> OfKind(Start \ Unrecorded, "placement"), validated |-> Start \ Unrecorded]

Init ==
    /\ brain = [s \in Sides |-> Genesis] /\ base = Genesis
    /\ report = [s \in Sides |-> {}]
    /\ ops = 0

-----------------------------------------------------------------------------
(* The catalog rebuilt from a set of accessible blocks.                    *)

Ends(d) ==
    CASE Kind(d) = "hierarchy" -> {d[2], d[3]} [] Kind(d) = "placement" -> {d[3]} [] OTHER -> {}

\* load_catalog_state: what is accessible, less the edges an end of which is not.
LoadCatalogState(b, ignore) ==
    LET accessible == (b.semantic \ b.hidden) \ ignore
    IN {d \in accessible : \A c \in Ends(d) : Class(c) \in accessible}

Accessible(b) == LoadCatalogState(b, {})

Known(seen) == {d[2] : d \in OfKind(seen, "class")}
Children(seen, c) == {n \in Known(seen) : Hierarchy(c, n) \in seen}
ClassesOf(seen, s) == {c \in Known(seen) : Placement(s, c) \in seen}

\* Mutant of Descendants: children, and nothing below them.
DescendantsMutant(seen, c) == {c} \cup Children(seen, c)

\* A class and all that is narrower.
Descendants(seen, c) ==
    LET Down[n \in 0 .. Cardinality(Classes)] ==
            IF n = 0 THEN {c}
            ELSE LET near == Down[n - 1] IN near \cup UNION {Children(seen, d) : d \in near}
    IN Down[Cardinality(Classes)]

\* CatalogState.sources_for
SourcesFor(seen, c) == {s \in Sources : ClassesOf(seen, s) \cap Descendants(seen, c) # {}}

-----------------------------------------------------------------------------
(* declaration.problems, given the catalog seen and the sources held.      *)

SchemeVerdict(seen, d) ==
    CASE OfKind(seen, "scheme") \cap {Scheme(d[2], e) : e \in BOOLEAN} = {} -> "validated"
      [] d \in seen -> "duplicate"
      [] OTHER -> "contradicted"

ClassVerdict(seen, d) ==
    IF {Scheme(SchemeOf[d[2]], e) : e \in BOOLEAN} \cap seen = {} THEN "rejected"
    ELSE IF d \in seen THEN "duplicate"
    ELSE "validated"

HierarchyVerdict(seen, d) ==
    LET broader == d[2]
        narrower == d[3]
    IN IF broader = narrower \/ ~ {broader, narrower} \subseteq Known(seen) THEN "rejected"
       ELSE IF SchemeOf[broader] # SchemeOf[narrower] THEN "rejected"
       ELSE IF narrower \in Children(seen, broader) THEN "duplicate"
       ELSE IF broader \in Descendants(seen, narrower) THEN "rejected"
       ELSE "validated"

Rivals(seen, s, c) == {r \in ClassesOf(seen, s) \ {c} : SchemeOf[r] = SchemeOf[c]}

PlacementVerdict(seen, held, d) ==
    LET s == d[2]
        c == d[3]
    IN IF s \notin held \/ c \notin Known(seen) THEN "rejected"
       ELSE IF c \in ClassesOf(seen, s) THEN "duplicate"
       ELSE IF Scheme(SchemeOf[c], TRUE) \in seen /\ Rivals(seen, s, c) # {} THEN "contradicted"
       ELSE "validated"

Verdict(seen, held, d) ==
    CASE Kind(d) = "scheme" -> SchemeVerdict(seen, d)
      [] Kind(d) = "class" -> ClassVerdict(seen, d)
      [] Kind(d) = "hierarchy" -> HierarchyVerdict(seen, d)
      [] Kind(d) = "placement" -> PlacementVerdict(seen, held, d)

\* PlacementDeclaration.problems looks up the scheme of a class, which need not be there: a KeyError.
Raises(seen, held, d) ==
    /\ Kind(d) = "placement" /\ d[2] \in held /\ d[3] \in Known(seen) \ ClassesOf(seen, d[2])
    /\ {Scheme(SchemeOf[d[3]], e) : e \in BOOLEAN} \cap seen = {}

-----------------------------------------------------------------------------
(* classify                                                                *)

\* validate_declarations: each declaration sees those accepted before it.
Judged(b, request) ==
    LET After[n \in 0 .. Len(request)] ==
            IF n = 0 THEN [seen |-> Accessible(b), accepted |-> {}, duplicate |-> {}, raised |-> FALSE]
            ELSE LET before == After[n - 1]
                     d == request[n]
                     verdict == Verdict(before.seen, b.canonical, d)
                     add == IF verdict = "validated" THEN {d} ELSE {}
                 IN [seen |-> before.seen \cup add,
                     accepted |-> before.accepted \cup add,
                     duplicate |-> before.duplicate \cup IF verdict = "duplicate" THEN {d} ELSE {},
                     raised |-> before.raised \/ Raises(before.seen, b.canonical, d)]
    IN After[Len(request)]

\* _catalog_repairs: what is there and was never recorded.
CatalogRepairs(b, duplicate) == (duplicate \cap b.semantic) \ b.validated

\* _catalog_records: a placement is derived from its source, everything is validated.
Recorded(b, new) ==
    [b EXCEPT !.semantic = @ \cup new, !.validated = @ \cup new,
              !.derived = @ \cup OfKind(new, "placement")]

Becomes(side, b) == brain' = [brain EXCEPT ![side] = b]

\* ingest commits the report it asked for; a caller of validate and commit may take its time.
Free(side) == report[side] = {} \/ side \in Waits

Classify(side, request) ==
    LET b == brain[side]
        result == Judged(b, request)
        new == result.accepted \cup CatalogRepairs(b, result.duplicate)
    IN /\ ~ result.raised /\ new # {}
       /\ Becomes(side, Recorded(b, new))
       /\ UNCHANGED <<base, report>>

-----------------------------------------------------------------------------
(* The ingestion path: what a model proposes is judged, and committed later.*)

\* CatalogCandidateValidator and DuplicateValidator, every candidate against what is installed.
Validate(side, candidates) ==
    LET b == brain[side]
        Admitted(p) ==
            /\ p \notin b.semantic
            /\ PlacementVerdict(LoadCatalogState(b, {p}), b.canonical, p) = "validated"
    IN /\ \A p \in candidates : ~ Raises(LoadCatalogState(b, {p}), b.canonical, p)
       /\ report' = [report EXCEPT ![side] = {p \in candidates : Admitted(p)}]
       /\ UNCHANGED <<brain, base>>

\* commit does not judge again.
Commit(side) ==
    /\ report[side] # {}
    /\ Becomes(side, Recorded(brain[side], report[side]))
    /\ report' = [report EXCEPT ![side] = {}]
    /\ UNCHANGED base

-----------------------------------------------------------------------------
(* Leaving the catalog.                                                    *)

\* supersede, demote: on record for good.
Demote(side, d) ==
    /\ d \in brain[side].semantic \ brain[side].hidden /\ Kind(d) \in Demotable
    /\ Becomes(side, [brain[side] EXCEPT !.hidden = @ \cup {d}])
    /\ UNCHANGED <<base, report>>

\* Mutant of Cascade: evidence takes nothing with it.
CascadeMutant(b, out, sources) ==
    {d \in b.semantic \ out :
        \/ Kind(d) = "hierarchy" /\ {Class(d[2]), Class(d[3])} \cap out # {}
        \/ Kind(d) = "placement" /\ Class(d[3]) \in out}

\* plan_cascade: what names a class that goes, and what is recorded as derived from a source that does.
Cascade(b, out, sources) ==
    {d \in b.semantic \ out :
        \/ Kind(d) = "hierarchy" /\ {Class(d[2]), Class(d[3])} \cap out # {}
        \/ Kind(d) = "placement" /\ (Class(d[3]) \in out \/ (d \in b.derived /\ d[2] \in sources))}

Without(b, out, sources) ==
    [b EXCEPT !.semantic = @ \ (out \cup Cascade(b, out, sources)), !.canonical = @ \ sources]

Drop(side, d) ==
    /\ d \in brain[side].semantic /\ Kind(d) \in Droppable
    /\ Becomes(side, Without(brain[side], {d}, {}))
    /\ UNCHANGED <<base, report>>

DropSource(side, s) ==
    /\ "source" \in Droppable /\ s \in brain[side].canonical
    /\ Becomes(side, Without(brain[side], {}, {s}))
    /\ UNCHANGED <<base, report>>

Register(side, s) ==
    /\ s \notin brain[side].canonical
    /\ Becomes(side, [brain[side] EXCEPT !.canonical = @ \cup {s}])
    /\ UNCHANGED <<base, report>>

-----------------------------------------------------------------------------
(* Reconciliation: theirs is joined into ours.                             *)

\* Equation 1; the ledgers are joined.
Joined(ours, theirs) ==
    [canonical |-> (ours.canonical \cup theirs.canonical)
                   \ (base.canonical \ (ours.canonical \cap theirs.canonical)),
     semantic |-> (ours.semantic \cup theirs.semantic) \ (base.semantic \ (ours.semantic \cap theirs.semantic)),
     hidden |-> ours.hidden \cup theirs.hidden,
     derived |-> ours.derived \cup theirs.derived,
     validated |-> ours.validated \cup theirs.validated]

\* gate.priority
Priority(d) ==
    CASE Kind(d) = "scheme" -> 0 [] Kind(d) = "class" -> 1 [] Kind(d) = "hierarchy" -> 2 [] OTHER -> 3

\* The order the gate takes them in: by priority, and then by identity, which is as good as any.
GateOrders(incoming) ==
    {order \in SetToSeqs(incoming) :
        \A i, j \in DOMAIN order : i < j => Priority(order[i]) <= Priority(order[j])}

\* judge_incoming: each against all the others, and what is refused is withheld from the next.
Admit(joined, order) ==
    LET After[n \in 0 .. Len(order)] ==
            IF n = 0 THEN joined
            ELSE LET before == After[n - 1]
                     d == order[n]
                 IN IF Verdict(LoadCatalogState(before, {d}), before.canonical, d) = "validated"
                    THEN before ELSE [before EXCEPT !.semantic = @ \ {d}]
    IN After[Len(order)]

\* Somewhere on the way the gate meets a placement whose scheme is not in what is left.
GateRaises(joined, order) ==
    \E n \in DOMAIN order :
        Raises(LoadCatalogState(Admit(joined, SubSeq(order, 1, n - 1)), {order[n]}), joined.canonical, order[n])

\* _plan: the gate judges what Equation 1 gives, and the cascade of what that excludes goes as well.
Merge ==
    LET ours == brain["ours"]
        theirs == brain["theirs"]
        joined == Joined(ours, theirs)
        incoming == joined.semantic \ ours.semantic
        cascaded == Cascade(joined, base.semantic \ joined.semantic, base.canonical \ joined.canonical)
    IN /\ theirs # base
       /\ \E order \in GateOrders(incoming) :
              /\ ~ GateRaises(joined, order)
              /\ Becomes("ours", [Admit(joined, order) EXCEPT !.semantic = @ \ cascaded])
       /\ base' = theirs
       /\ UNCHANGED report

\* A history that did nothing since takes the other's version as it is.
FastForward ==
    /\ brain["ours"] = base /\ brain["theirs"] # base
    /\ Becomes("ours", brain["theirs"])
    /\ base' = brain["theirs"]
    /\ UNCHANGED report

Operation(side) ==
    \/ \E request \in Requests : Classify(side, request)
    \/ \E candidates \in Proposals : Validate(side, candidates)
    \/ \E d \in brain[side].semantic : Demote(side, d) \/ Drop(side, d)
    \/ \E s \in Sources : DropSource(side, s) \/ Register(side, s)
    \/ side = "ours" /\ (Merge \/ FastForward)

Next ==
    /\ ops < MaxOps /\ ops' = ops + 1
    /\ \E side \in Sides : (Free(side) /\ Operation(side)) \/ Commit(side)

Spec == Init /\ [][Next]_vars

-----------------------------------------------------------------------------
(* Properties.                                                             *)

\* Every variable ranges over what the code can write.
TypeOK ==
    /\ brain \in [Sides -> Versions] /\ base \in Versions
    /\ report \in [Sides -> SUBSET OfKind(Blocks, "placement")]
    /\ ops \in 0 .. MaxOps

\* HierarchyDeclaration.problems, checked against the edges there are while endpoints come and
\* go: no class ever ends up below itself.
HierarchyAcyclic ==
    \A side \in Sides : LET seen == Accessible(brain[side]) IN
        \E depth \in [Classes -> 1 .. Cardinality(Classes)] :
            \A c \in Known(seen) : \A n \in Children(seen, c) : depth[c] < depth[n]

\* An exclusive scheme has at most one direct class per source.
ExclusiveKept ==
    \A side \in Sides : LET seen == Accessible(brain[side]) IN
        \A s \in Sources : \A c \in ClassesOf(seen, s) :
            Scheme(SchemeOf[c], TRUE) \in seen => Rivals(seen, s, c) = {}

\* classify, the gate of a reconciliation: whatever was declared, demoted, dropped, registered
\* again and joined from another history, the catalog that is rebuilt is a hierarchy and files no
\* source twice in an exclusive scheme.
CatalogSound == HierarchyAcyclic /\ ExclusiveKept

\* drop, browse: browsing lists no source that has left the brain, on either side and after a
\* reconciliation, unless its placement is one that was never recorded.
BrowseHeld ==
    \A side \in Sides : LET b == brain[side] IN
        \A c \in Known(Accessible(b)), s \in Sources \ b.canonical :
            s \in SourcesFor(Accessible(b), c) =>
                \E n \in Classes : Placement(s, n) \in b.semantic \ b.derived

=============================================================================
