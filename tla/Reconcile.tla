----------------------------- MODULE Reconcile -----------------------------
(***************************************************************************)
(* Joining another history into a brain's own (brain.py plan_reconcile to  *)
(* _write_reconciliation, reconcile/).  Our history and theirs parted from *)
(* one version and write independently; their head is fetched, Equation 1  *)
(* merges each module, the gate judges what comes in, the drop cascade     *)
(* follows what goes out, and whatever needs a decision halts the whole    *)
(* until somebody answers.                                                 *)
(*                                                                         *)
(* One handle writes our history; theirs only grows and never merges ours  *)
(* (Branches has the search for a common ancestor).  A block is its digest *)
(* and a provenance record is what it states: a derivation, a supersession *)
(* edge or a removal.  Payload checks that look at one block alone are     *)
(* taken as passed; catalog declarations are not told apart.               *)
(***************************************************************************)
EXTENDS Naturals, Sequences, FiniteSets

CONSTANTS
    Blocks,         \* block identities, provenance records excepted
    Kind,           \* block -> its memory type
    Evidence,       \* block -> the canonical blocks it cites
    SelfCiting,     \* derived blocks whose own schema carries the citations
    Uses,           \* block -> targets of its relations, or what its steps use
    Contradicts,    \* block -> the semantic blocks that make the same claim differently
    Unreadable,     \* blocks that travel without readable bytes (redacted by their publisher)
    Rank,           \* block -> its place in module and leaf order
    Replacing,      \* pairs <<new, old>> that replace and supersede are called with
    Start,          \* the version both histories contain
    Installed,      \* the modules our installation of that version holds
    FetchSets,      \* the selections of modules that fetch is called with
    Strategies,     \* the strategies reconcile is called with
    RetainedRoots,  \* RetentionPolicy.retained_roots
    MaxOurs,        \* bound: operations we perform of our own
    MaxTheirs,      \* bound: versions of their history
    MaxJoins,       \* bound: reconciliations concluded
    Features        \* which parts of the environment a run includes

Derived == {"episodic", "semantic", "procedural"}    \* PROPOSABLE_MEMORY_TYPES
Kinds == Derived \cup {"canonical", "provenance"}
Derivation(b) == <<"derivation", b>>
Removal(b) == <<"removal", b>>
Edge(new, old) == <<"edge", new, old>>
Edges == {Edge(n, o) : n, o \in Blocks}
Records == {Derivation(b) : b \in Blocks} \cup {Removal(b) : b \in Blocks} \cup Edges
Version == [named : SUBSET Kinds, blocks : SUBSET Blocks, ledger : SUBSET Records]
None == [none |-> TRUE]

ASSUME SchemaAssumption ==
    /\ IsFiniteSet(Blocks)
    /\ Kind \in [Blocks -> Derived \cup {"canonical"}]
    /\ Evidence \in [Blocks -> SUBSET {b \in Blocks : Kind[b] = "canonical"}]
    /\ Uses \in [Blocks -> SUBSET Blocks]
    /\ \A b \in Blocks : Kind[b] = "canonical" => Uses[b] = {}
    /\ Contradicts \in [Blocks -> SUBSET {b \in Blocks : Kind[b] = "semantic"}]
    /\ \A b \in Blocks : Kind[b] \in Derived <=> Evidence[b] # {}
    /\ Rank \in [Blocks -> 1 .. Cardinality(Blocks)]
    /\ \A a, b \in Blocks : Rank[a] = Rank[b] => a = b
    /\ SelfCiting \subseteq Blocks /\ Unreadable \subseteq Blocks
    /\ {"reject", "admit"} \cap Blocks = {}
ASSUME StartAssumption ==
    /\ Start \in Version /\ Start.named = Kinds
    /\ Installed \subseteq Kinds /\ FetchSets \subseteq SUBSET Kinds
    /\ Replacing \subseteq Blocks \X Blocks
    /\ Strategies \subseteq {"merge", "rebase", "squash"}
    /\ RetainedRoots \in Nat \ {0} /\ MaxOurs \in Nat /\ MaxTheirs \in Nat /\ MaxJoins \in Nat

VARIABLES
    ours,      \* our head
    theirs,    \* their versions, oldest first; the first is the one we parted from
    base,      \* the latest of theirs that our history contains
    fetched,   \* the head of theirs that fetch brought, 0 for none
    held,      \* blocks the store has
    records,   \* provenance records the store has
    recent,    \* our retained versions, the head first: what each names
    pointer,   \* the reconciliation being resolved, or None
    job,       \* the conclusion being written, or None
    since,     \* how many versions our history has on top of the common one
    lost,      \* whether pruning cut our history off from the common version
    dropped,   \* history: what we dropped of the common version and still lack
    stale,     \* history: an admission was applied that its block's verdict no longer allows
    joins,     \* history: the strategies of the reconciliations, "torn" for a replay cut short
    wrote      \* how many operations of our own we performed

vars == <<ours, theirs, base, fetched, held, records, recent, pointer, job, since, lost, dropped, stale, joins, wrote>>

OfKind(v, k) == {b \in v.blocks : Kind[b] = k}
Narrow(v, kinds) ==
    [named |-> v.named \cap kinds,
     blocks |-> {b \in v.blocks : Kind[b] \in v.named \cap kinds},
     ledger |-> IF "provenance" \in v.named \cap kinds THEN v.ledger ELSE {}]

Init ==
    /\ ours = Narrow(Start, Installed)
    /\ theirs = <<Start>> /\ base = 1 /\ fetched = 0
    /\ held = ours.blocks /\ records = ours.ledger
    /\ recent = <<ours>>
    /\ pointer = None /\ job = None
    /\ since = 0 /\ lost = FALSE
    /\ dropped = {} /\ stale = FALSE /\ joins = <<>> /\ wrote = 0

-----------------------------------------------------------------------------
(* The ledger and the gate.                                                *)

Successors(old, ledger) == {n \in Blocks : Edge(n, old) \in ledger}

\* superseded_by keeps the record absorbed last; hashes order the records, ranks do here.
SupersededBy(old, ledger) ==
    CHOOSE n \in Successors(old, ledger) : \A m \in Successors(old, ledger) : Rank[m] <= Rank[n]

\* Ledger.contested: successors that no other successor replaces in turn, when several stand.
Contested(old, ledger) ==
    LET rivals == Successors(old, ledger)
        standing == {n \in rivals :
                        Successors(n, ledger) = {} \/ SupersededBy(n, ledger) \notin rivals}
    IN IF Cardinality(standing) > 1 THEN standing ELSE {}

\* _citations: from the block where its schema carries them, else from its derivation record.
Citations(b, ledger) == IF b \in SelfCiting \/ Derivation(b) \in ledger THEN Evidence[b] ELSE {}

\* The validators' findings on a derived block in a composition.
Issues(b, blocks, ledger) ==
    (IF Citations(b, ledger) = {} \/ ~ Citations(b, ledger) \subseteq blocks
     THEN {"evidence"} ELSE {})
    \cup (IF Kind[b] = "semantic" /\ ~ Uses[b] \subseteq blocks THEN {"relation"} ELSE {})
    \cup (IF Contradicts[b] \cap (blocks \ Unreadable) # {} THEN {"contradiction"} ELSE {})

\* plan_many: what cites a removed block by its derivation, what points at a removed
\* or reached block, and on along the pointers.
Cascade(removed, blocks, ledger) ==
    LET Reached[n \in 0 .. Cardinality(Blocks)] ==
            IF n = 0
            THEN {b \in blocks : Derivation(b) \in ledger /\ Evidence[b] \cap removed # {}}
            ELSE LET near == Reached[n - 1]
                 IN near \cup {b \in blocks \ Unreadable : Uses[b] \cap (removed \cup near) # {}}
    IN Reached[Cardinality(Blocks)] \ removed

-----------------------------------------------------------------------------
(* Equation 1, judged and followed through.                                *)

\* _sides: a module one of whose blocks the store never had counts as not held.
Opened(v) ==
    Narrow(v, {k \in Kinds : IF k = "provenance" THEN v.ledger \subseteq records
                                                 ELSE OfKind(v, k) \subseteq held})

\* Mutant of Survives: what one side still holds stays.
SurvivesMutant(k, b, o, t, inB, inO, inT) ==
    IF k \notin o.named THEN inT ELSE IF k \notin t.named THEN inO ELSE inO \/ inT

\* merge_module: adopted where we hold no such module, ours where they hold none,
\* and exclusion takes precedence over presence where both do.
Survives(k, b, o, t, inB, inO, inT) ==
    IF k \notin o.named THEN inT
    ELSE IF k \notin t.named THEN inO
    ELSE IF k \in b.named /\ inB THEN inO /\ inT ELSE inO \/ inT

\* reconciled_modules over three opened versions.
Merged(b, o, t) ==
    [named |-> o.named \cup t.named,
     blocks |-> {x \in Blocks :
         Survives(Kind[x], b, o, t, x \in b.blocks, x \in o.blocks, x \in t.blocks)},
     ledger |-> {r \in b.ledger \cup o.ledger \cup t.ledger :
         Survives("provenance", b, o, t, r \in b.ledger, r \in o.ledger, r \in t.ledger)}]

\* ModuleReconciliation.removed
Excluded(b, o, t) ==
    {x \in b.blocks : Kind[x] \in o.named \cap t.named /\ ~ (x \in o.blocks /\ x \in t.blocks)}

\* _readable: a block whose bytes were destroyed where it comes from cannot be judged.
Readable(b) == b \notin Unreadable

\* _judge_preserved and _precedence: an incoming edge whose loser is still contested.
OpenEdges(incoming, ledger) == {r \in incoming \cap Edges : Contested(r[3], ledger) # {}}

\* judge_incoming: canonical blocks first, then derived ones in order, each refusal
\* withdrawn from the view of those after it.  The result is block -> its issues.
Judged(incoming, merged) ==
    LET Faults(b, view) == IF ~ Readable(b) THEN {"unreadable"}
                           ELSE IF Kind[b] \in Derived THEN Issues(b, view, merged.ledger) ELSE {}
        View[n \in 0 .. Cardinality(Blocks)] ==
            IF n = 0 THEN merged.blocks \ {b \in incoming : Kind[b] = "canonical" /\ ~ Readable(b)}
            ELSE LET view == View[n - 1]
                 IN view \ {b \in incoming : Rank[b] = n /\ Faults(b, view) # {}}
    IN [b \in incoming |-> Faults(b, View[Rank[b] - 1])]

\* _withdrawn: dropped by them, or taken along with its evidence.
Withdrawn(o, merged, cascaded) == o.blocks \ (merged.blocks \ cascaded)

\* plan_reconcile, against their version number to.
PlanFor(to) ==
    LET b == Opened(theirs[base])
        o == Opened(ours)
        t == Opened(theirs[to])
        merged == Merged(b, o, t)
        verdicts == Judged(merged.blocks \ o.blocks, merged)
        cascaded == Cascade(Excluded(b, o, t), merged.blocks, merged.ledger)
    IN [merged |-> merged, cascaded |-> cascaded,
        verdicts |-> verdicts,
        open |-> {x \in DOMAIN verdicts : verdicts[x] # {}},
        contested |-> OpenEdges(merged.ledger \ o.ledger, merged.ledger),
        withdrawn |-> Withdrawn(o, merged, cascaded)]

\* reachable_history still meets theirs, its documents are here, and merge_module finds
\* no episode to leave out.
Plannable(to) ==
    /\ ~ lost /\ to <= fetched
    /\ {x \in Excluded(Opened(theirs[base]), Opened(ours), Opened(theirs[to])) :
           Kind[x] = "episodic"} = {}

\* Mutant of IsClean: only what comes in can halt a reconciliation.
IsCleanMutant(plan) == plan.open = {} /\ plan.contested = {}

\* ReconcilePlan.is_clean: nothing to decide, and nothing of ours leaves.
IsClean(plan) == plan.open = {} /\ plan.contested = {} /\ plan.withdrawn = {}

-----------------------------------------------------------------------------
(* Ordinary work on either side.                                           *)

\* The versions one operation makes of v, with the blocks it drops: register, commit,
\* replace or supersede, drop.  A drop whose cascade reaches an episode is refused.
Writes(v) ==
    LET with(blocks, ledger) ==
            [named |-> v.named \cup {Kind[b] : b \in blocks} \cup {"provenance"},
             blocks |-> v.blocks \cup blocks, ledger |-> v.ledger \cup ledger]
        fall(b) == {b} \cup Cascade({b}, v.blocks, v.ledger)
    IN {[to |-> with({b}, {}), gone |-> {}] :
            b \in {c \in Blocks \ v.blocks : Kind[c] = "canonical"}}
       \cup {[to |-> with({b}, {Derivation(b)}), gone |-> {}] :
            b \in {c \in Blocks \ v.blocks :
                    Kind[c] \in Derived /\ Issues(c, v.blocks, v.ledger \cup {Derivation(c)}) = {}}}
       \cup {[to |-> with({p[1]}, {Edge(p[1], p[2])}), gone |-> {}] :
            p \in {q \in Replacing : q[2] \in v.blocks /\ Kind[q[1]] = Kind[q[2]]
                                   /\ (Kind[q[1]] = "canonical" \/ q[1] \in v.blocks)}}
       \cup {[to |-> [v EXCEPT !.named = @ \cup {"provenance"}, !.blocks = @ \ fall(b),
                             !.ledger = @ \cup {Removal(c) : c \in fall(b)}],
              gone |-> fall(b)] :
            b \in {c \in v.blocks : \A d \in fall(c) : Kind[d] # "episodic"}}

\* _write and _advance: bytes first, then the head with the versions to retain beside it.
Land(v, beside) ==
    /\ ours' = v
    /\ recent' = LET all == <<v>> \o beside \o recent
                 IN SubSeq(all, 1, IF Len(all) < RetainedRoots THEN Len(all) ELSE RetainedRoots)

\* Any mutating operation of ours: refused while a reconciliation is unresolved.
Work ==
    /\ pointer = None /\ job = None /\ wrote < MaxOurs
    /\ \E w \in Writes(ours) :
        /\ w.to # ours
        /\ Land(w.to, <<>>)
        /\ held' = held \cup (w.to.blocks \ ours.blocks)
        /\ records' = records \cup (w.to.ledger \ ours.ledger)
        /\ dropped' = (dropped \ w.to.blocks) \cup (w.gone \cap theirs[base].blocks)
    /\ since' = since + 1 /\ wrote' = wrote + 1
    /\ UNCHANGED <<theirs, base, fetched, pointer, job, lost, stale, joins>>

\* Their brain does the same and publishes it.
TheirWork ==
    /\ Len(theirs) < MaxTheirs
    /\ \E w \in Writes(theirs[Len(theirs)]) :
        /\ w.to # theirs[Len(theirs)]
        /\ theirs' = Append(theirs, w.to)
    /\ UNCHANGED <<ours, base, fetched, held, records, recent, pointer, job, since, lost, dropped, stale, joins, wrote>>

\* fetch: the head's documents and history, and the blocks of the modules asked for.
Fetch(kinds) ==
    /\ job = None
    /\ LET arriving == Narrow(theirs[Len(theirs)], kinds)
       IN held' = held \cup arriving.blocks /\ records' = records \cup arriving.ledger
    /\ fetched' = Len(theirs)
    /\ <<held', records', fetched'>> # <<held, records, fetched>>
    /\ UNCHANGED <<ours, theirs, base, recent, pointer, job, since, lost, dropped, stale, joins, wrote>>

-----------------------------------------------------------------------------
(* Reconciling: plan, halt, decide, conclude.                              *)

\* Mutant of Resolvable: any block may be admitted.
ResolvableMutant(issues, decision) == TRUE

\* _require_resolvable: what was rejected cannot be admitted.
Resolvable(issues, decision) == decision = "admit" => issues = {"contradiction"}

\* Every answer is one that reconcile_resolve would record against this plan.
Allowed(plan, decisions) ==
    \A b \in plan.open \cap DOMAIN decisions : Resolvable(plan.verdicts[b], decisions[b])

\* _refused_after: what was judged against an earlier plan is not judged again.
Refused(plan, decisions) ==
    {b \in plan.open : ~ (b \in DOMAIN decisions /\ decisions[b] # "reject")}

\* _precedence_records: the winner over every other contender, for each edge preferred on.
Settling(plan, choices) ==
    UNION {{Edge(choices[r], loser) : loser \in Contested(r[3], plan.merged.ledger) \ {choices[r]}} :
               r \in {q \in plan.contested \cap DOMAIN choices : choices[q] \in Blocks}}

\* replay_steps: a rebase replays every version, the others state the last one only.
Steps(strategy, to) ==
    IF strategy = "rebase" /\ to > base THEN [i \in 1 .. to - base |-> base + i] ELSE <<to>>

\* _carried_verbatim: what neither side can open is taken at their root, else at ours.
Carried(plan, to) == (theirs[to].named \cup ours.named) \ plan.merged.named

\* _matches: theirs is contained already, and nothing would change.
NothingToWrite(plan, to) ==
    /\ to = base
    /\ Carried(plan, to) \cup plan.merged.named = ours.named
    /\ plan.merged.blocks \ (plan.open \cup plan.cascaded) = Narrow(ours, plan.merged.named).blocks
    /\ plan.merged.ledger \ plan.contested = Narrow(ours, plan.merged.named).ledger
    /\ \A k \in Carried(plan, to) \cap theirs[to].named : OfKind(theirs[to], k) = OfKind(ours, k)

\* _conclude as far as its first write: the pointer is cleared before anything is written.
Conclude(plan, to, strategy, decisions, choices, accepted) ==
    /\ pointer' = None
    /\ stale' = (stale \/ ~ Allowed(plan, decisions))
    /\ job' = IF NothingToWrite(plan, to) THEN None
              ELSE [steps |-> Steps(strategy, to), to |-> to, strategy |-> strategy,
                    from |-> Opened(theirs[base]), onto |-> Opened(ours),
                    refused |-> Refused(plan, decisions),
                    unsaid |-> {r \in plan.contested :
                                   ~ (r \in DOMAIN choices /\ choices[r] # "reject")},
                    cascaded |-> plan.cascaded, carried |-> Carried(plan, to),
                    pending |-> Settling(plan, choices), authored |-> {}, accepted |-> accepted,
                    letin |-> {r[3] : r \in {q \in DOMAIN choices : choices[q] = "admit"}}]

\* reconcile: conclude at once, or record what is open and stop.
Reconcile(strategy) ==
    /\ pointer = None /\ job = None /\ fetched > 0 /\ Len(joins) < MaxJoins
    /\ Plannable(fetched)
    /\ LET plan == PlanFor(fetched)
       IN IF IsClean(plan)
          THEN Conclude(plan, fetched, strategy, <<>>, <<>>, {})
          ELSE /\ pointer' = [theirs |-> fetched, ancestor |-> base, strategy |-> strategy,
                             head |-> ours, decisions |-> <<>>, choices |-> <<>>, accepted |-> {}]
               /\ UNCHANGED <<job, stale>>
    /\ UNCHANGED <<ours, theirs, base, fetched, held, records, recent, since, lost, dropped, joins, wrote>>

\* merge, rebase, squash: they differ in the strategy and in nothing else.
ReconcileAs == \E strategy \in Strategies : Reconcile(strategy)

\* reconcile_status: the plan is computed anew, against the head it was started on.
Status == /\ pointer # None /\ job = None
          /\ ours = pointer.head /\ base = pointer.ancestor
          /\ Plannable(pointer.theirs)

\* with_resolution: the last answer to a question stands.
Answered(answers, question, d) ==
    [q \in DOMAIN answers \cup {question} |-> IF q = question THEN d ELSE answers[q]]

\* reconcile_resolve: an open question is answered; a preference names a contender.
Resolve ==
    /\ Status
    /\ LET plan == PlanFor(pointer.theirs)
       IN \/ \E b \in plan.open, d \in {"reject", "admit"} :
               /\ Resolvable(plan.verdicts[b], d)
               /\ pointer' = [pointer EXCEPT !.decisions = Answered(@, b, d)]
          \/ \E r \in plan.contested :
             \E d \in {"reject", "admit"} \cup Contested(r[3], plan.merged.ledger) :
               pointer' = [pointer EXCEPT !.choices = Answered(@, r, d)]
    /\ UNCHANGED <<ours, theirs, base, fetched, held, records, recent, job, since, lost, dropped, stale, joins, wrote>>

\* reconcile_accept_removals
AcceptRemovals ==
    /\ Status
    /\ PlanFor(pointer.theirs).withdrawn # {}
    /\ pointer' = [pointer EXCEPT !.accepted = PlanFor(pointer.theirs).withdrawn]
    /\ UNCHANGED <<ours, theirs, base, fetched, held, records, recent, job, since, lost, dropped, stale, joins, wrote>>

\* reconcile_continue: every question answered, and the acceptance covers what leaves.
Continue ==
    /\ Status
    /\ LET plan == PlanFor(pointer.theirs)
       IN /\ plan.open \subseteq DOMAIN pointer.decisions
          /\ plan.contested \subseteq DOMAIN pointer.choices
          /\ plan.withdrawn # {} => pointer.accepted = plan.withdrawn
          /\ Conclude(plan, pointer.theirs, pointer.strategy, pointer.decisions, pointer.choices, pointer.accepted)
    /\ UNCHANGED <<ours, theirs, base, fetched, held, records, recent, since, lost, dropped, joins, wrote>>

\* reconcile_abort
Abort ==
    /\ pointer # None /\ job = None
    /\ pointer' = None
    /\ UNCHANGED <<ours, theirs, base, fetched, held, records, recent, job, since, lost, dropped, stale, joins, wrote>>

\* Mutant of CascadeRecords: what follows its evidence out leaves no trace.
CascadeRecordsMutant(cascaded) == {}

\* _cascade_records
CascadeRecords(cascaded) == {Removal(b) : b \in cascaded}

\* _within: a step's cascade, narrowed to what the plan reported.
Within(cascaded, shown) == cascaded \cap shown

\* _is_supported: both blocks of a tie-break are in the version it is written into.
IsSupported(r, blocks) == {r[2], r[3]} \subseteq blocks

\* The version a step of the replay restates, and the records it authors on the way.
Stated ==
    LET t == Opened(theirs[Head(job.steps)])
        partial == Merged(job.from, job.onto, t)
        cascaded == Within(Cascade(Excluded(job.from, job.onto, t), partial.blocks, partial.ledger),
                           job.cascaded)
        blocks == partial.blocks \ (job.refused \cup cascaded)
        settled == {r \in job.pending : Len(job.steps) = 1 \/ IsSupported(r, blocks)}
        authored == job.authored \cup settled \cup CascadeRecords(cascaded)
        kept == ours.named \ (partial.named \cup job.carried)
        verbatim == job.carried \cap theirs[job.to].named
        stays == kept \cup (job.carried \ verbatim)
    IN [settled |-> settled, authored |-> authored,
        version |->
         [named |-> partial.named \cup job.carried \cup ours.named,
          blocks |-> {b \in blocks : Kind[b] \notin job.carried}
                     \cup {b \in theirs[job.to].blocks : Kind[b] \in verbatim}
                     \cup {b \in ours.blocks : Kind[b] \in stays},
          ledger |-> IF "provenance" \in verbatim THEN theirs[job.to].ledger
                     ELSE IF "provenance" \in stays THEN ours.ledger
                     ELSE (partial.ledger \ job.unsaid) \cup authored]]

\* Mutant of WriteStep: records authored at an earlier step are not carried to the next.
WriteStepMutant ==
    /\ job # None
    /\ LET done == Len(job.steps) = 1
           joined == done /\ job.strategy = "merge" /\ job.to # base
       IN /\ Land(Stated.version, IF done /\ job.strategy = "merge" THEN <<theirs[job.to]>> ELSE <<>>)
          /\ job' = IF done THEN None
                    ELSE [job EXCEPT !.steps = Tail(@), !.pending = @ \ Stated.settled]
          /\ records' = records \cup Stated.authored
          /\ base' = IF joined THEN job.to ELSE base
          /\ since' = IF joined THEN 1 ELSE since + 1
          /\ dropped' = (IF joined THEN dropped \cap theirs[job.to].blocks ELSE dropped) \ ours'.blocks
          /\ joins' = IF done THEN Append(joins, job.strategy) ELSE joins
    /\ UNCHANGED <<theirs, fetched, held, pointer, lost, stale, wrote>>

\* _write_reconciliation, once per step; only the last of a merge records their head as a
\* parent, and retains it.  Its refusal to name an absent block never comes: the members are those
\* of opened versions, which hold every block (_sides), and the records are put first.
WriteStep ==
    /\ job # None
    /\ LET done == Len(job.steps) = 1
           joined == done /\ job.strategy = "merge" /\ job.to # base
       IN /\ Land(Stated.version, IF done /\ job.strategy = "merge" THEN <<theirs[job.to]>> ELSE <<>>)
          /\ job' = IF done THEN None
                    ELSE [job EXCEPT !.steps = Tail(@), !.authored = Stated.authored,
                                     !.pending = @ \ Stated.settled]
          /\ records' = records \cup Stated.authored
          /\ base' = IF joined THEN job.to ELSE base
          /\ since' = IF joined THEN 1 ELSE since + 1
          /\ dropped' = (IF joined THEN dropped \cap theirs[job.to].blocks ELSE dropped) \ ours'.blocks
          /\ joins' = IF done THEN Append(joins, job.strategy) ELSE joins
    /\ UNCHANGED <<theirs, fetched, held, pointer, lost, stale, wrote>>

\* The process dies: the decisions are gone, and a replay stays where it is.
Crash ==
    /\ "crash" \in Features /\ job # None
    /\ job' = None
    /\ joins' = IF job.steps = Steps(job.strategy, job.to) THEN joins ELSE Append(joins, "torn")
    /\ UNCHANGED <<ours, theirs, base, fetched, held, records, recent, pointer, since, lost, dropped, stale, wrote>>

\* prune: neither the fetched head nor the pointer's is among the roots.
Prune ==
    /\ "prune" \in Features /\ job = None
    /\ held' = held \cap UNION {recent[i].blocks : i \in 1 .. Len(recent)}
    /\ records' = records \cap UNION {recent[i].ledger : i \in 1 .. Len(recent)}
    /\ fetched' = 0
    /\ lost' = (lost \/ since > RetainedRoots)
    /\ UNCHANGED <<ours, theirs, base, recent, pointer, job, since, dropped, stale, joins, wrote>>

Next ==
    \/ Work
    \/ TheirWork
    \/ \E kinds \in FetchSets : Fetch(kinds)
    \/ ReconcileAs
    \/ Resolve
    \/ AcceptRemovals
    \/ Continue
    \/ Abort
    \/ WriteStep
    \/ Crash
    \/ Prune

Spec == Init /\ [][Next]_vars

-----------------------------------------------------------------------------
(* Properties.                                                             *)

TypeOK ==
    /\ ours \in Version /\ theirs \in Seq(Version)
    /\ base \in 1 .. Len(theirs) /\ fetched \in 0 .. Len(theirs)
    /\ held \subseteq Blocks /\ records \subseteq Records
    /\ recent \in Seq(Version) /\ Len(recent) \in 1 .. RetainedRoots
    /\ since \in Nat /\ lost \in BOOLEAN
    /\ dropped \subseteq Blocks /\ stale \in BOOLEAN /\ joins \in Seq(Strategies \cup {"torn"}) /\ wrote \in 0 .. MaxOurs

\* R1 across a reconciliation: whatever was merged, refused, admitted by decision or taken
\* by the cascade, every derived block of the head that results cites evidence the
\* canonical module of that head names.
EvidenceHeld ==
    job = None /\ ~ stale /\ (\A i \in 1 .. Len(joins) : joins[i] # "torn") =>
        \A b \in ours.blocks : Kind[b] \in Derived /\ "canonical" \in ours.named
                               => Evidence[b] \subseteq ours.blocks

\* "A block whose evidence the composition does not hold cannot be admitted by decision":
\* what was allowed when it was recorded still is when the reconciliation is concluded.
DecisionsStand ==
    Status => Allowed(PlanFor(pointer.theirs), pointer.decisions)

\* Where a reconciliation ends, nothing is missing that this brain held when it was
\* concluded unless its removal was shown and accepted (plan.withdrawn, removals_accepted).
EndsAsAccepted ==
    [][job # None /\ job' = None /\ ours' # ours => job.onto.blocks \ ours'.blocks \subseteq job.accepted]_vars

\* Nothing leaves on a step that nobody reviewed: the same of every version on the way.
NothingLeavesUnreviewed ==
    [][job # None => job.onto.blocks \cap (ours.blocks \ ours'.blocks) \subseteq job.accepted]_vars

\* "Everything either side removed stays removed": no version that a reconciliation writes
\* brings back a block of the common version that we dropped, provided the common version
\* could be opened.
DropsStick ==
    [][job # None /\ job.from.named = Kinds => dropped \cap ours'.blocks = {}]_vars

\* The same whether it could be opened or not.
DropsNeverReturn ==
    [][job # None => dropped \cap ours'.blocks = {}]_vars

\* check_removal_invariant of every version a reconciliation writes against its first
\* parent: what is absent has a removal record in the new version's own ledger, provided
\* the same modules of every version replayed can be opened, provenance among them.
RemovalsOnRecord ==
    [][job # None
       /\ (\A s \in {job.to} \cup {i \in DOMAIN theirs : i > base /\ i <= job.to /\ job.strategy = "rebase"} :
              /\ "provenance" \in Opened(theirs[s]).named
              /\ Opened(theirs[s]).named = Opened(theirs[job.to]).named) =>
        \A b \in ours.blocks \ ours'.blocks : Removal(b) \in ours'.ledger]_vars

\* The episodic module is append-only: no operation takes an episode out of the head.
EpisodesKept ==
    [][\A b \in ours.blocks : Kind[b] = "episodic" => b \in ours'.blocks]_vars

\* A precedence question by itself: two blocks replace b, and no other edge touches the three.
Alone(b, ledger) ==
    LET rivals == Successors(b, ledger)
    IN /\ Cardinality(rivals) = 2
       /\ \A r \in ledger \cap Edges : {r[2], r[3]} \cap (rivals \cup {b}) # {} => r[3] = b

\* Which block takes precedence is never left open by a reconciliation where the question
\* stands alone: what is contested in the version it ends in was contested in ours before,
\* or let in by an ADMIT.
PrecedenceSettled ==
    [][job # None /\ job' = None /\ ours' # ours =>
        \A b \in Blocks :
            Alone(b, job.onto.ledger \cup theirs[job.to].ledger) /\ Contested(b, ours'.ledger) # {} =>
                Contested(b, job.onto.ledger) # {} \/ b \in job.letin]_vars

=============================================================================
