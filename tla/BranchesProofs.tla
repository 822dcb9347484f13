--------------------------- MODULE BranchesProofs ---------------------------
(***************************************************************************)
(* Theorems about Branches, for every set of branch names, every bound on  *)
(* snapshots and retained roots, and every choice of environment (crashes, *)
(* failed pulls, other publishers).                                        *)
(***************************************************************************)
EXTENDS Branches, FiniteSetTheorems, WellFoundedInduction, TLAPS

-----------------------------------------------------------------------------
(* The inductive invariant behind type correctness and HeadsResolve.       *)

\* What each unfinished operation may rely on when it resumes.
PendingOK ==
    /\ pc.step \in {"advance", "repin", "push_upload", "push_force", "push_confirm", "pull_advance",
                    "switch_advance", "switch_finish", "switch_repin", "pull_index"}
          => pc.digest \in docs
    /\ pc.step \in {"checkout_head", "checkout_refs", "push_upload", "push_force", "push_confirm",
                    "pull_advance", "switch_advance", "switch_finish", "switch_repin", "pull_index"}
          => pc.name \in Names
    /\ pc.step \in {"checkout_head", "checkout_refs"}
          => refs \in RefTable /\ refs.branches[pc.name] \in BranchRef
    /\ pc.step \in {"switch_finish", "switch_repin"} => head \in BrainState /\ head.snapshot \in docs
    /\ pc.retain \subseteq docs

\* Nothing names a snapshot before it is created, so a new one is new to all.
HistoryBounded ==
    /\ docs \subseteq 1 .. created
    /\ \A t \in Names : served[t] # None => served[t] \in 1 .. created
    /\ \A s \in 1 .. created : parents[s] \subseteq 1 .. created

\* Every root's document is held, and the head is always among its own roots.
DocsHeld ==
    /\ Retained(head) \subseteq docs
    /\ BranchHeads \subseteq docs
    /\ head # None => head.snapshot \in Retained(head)

HeldInv == StateOK /\ PendingOK /\ HistoryBounded /\ DocsHeld

\* The registry's clients know no snapshot that nobody created yet.
PublicOK == public \subseteq 1 .. created /\ taken \subseteq 1 .. created

\* Every version an unfinished operation is about to install is there whole.
PendingWhole ==
    /\ pc.step \in {"advance", "repin", "push_upload", "push_force", "push_confirm", "pull_advance",
                    "switch_advance"}
          => Whole(pc.digest)
    /\ \A r \in pc.retain : Whole(r)

WholeInv == RootsWhole /\ PendingWhole

\* A checkout under way has marked its target, and moves the head to its ref.
CheckoutMarked ==
    /\ pc.step \in {"checkout_head", "checkout_refs"} => refs.switching = pc.name
    /\ pc.step = "checkout_refs" => head \in BrainState /\ head.snapshot = refs.branches[pc.name].snapshot

-----------------------------------------------------------------------------
(* Lemmas about the operators of Branches.                                 *)

\* Whatever _write_head counts is finite: a set of snapshots or of branch names.
LEMMA CountsAreNaturals ==
    /\ \A S \in SUBSET Snapshots : Cardinality(S) \in Nat
    /\ \A S \in SUBSET Names : Cardinality(S) \in Nat
<1>1. IsFiniteSet(Snapshots)
  BY FS_Interval, BoundAssumption DEF Snapshots
<1>2. IsFiniteSet(Names)
  BY NamesAssumption
<1> QED
  BY <1>1, <1>2, FS_Subset, FS_CardinalityType

\* What _write_head writes is a BrainState.
LEMMA HeadStateType ==
    ASSUME StateOK, NEW d \in Snapshots, NEW o \in Origins, NEW r \in SUBSET Snapshots
    PROVE  HeadState(d, o, r) \in BrainState
<1>1. \A c : Preceding(c, d, r) \in Nat
  <2>1. Unpinned(d, r) \subseteq Snapshots
    BY DEF Unpinned, Retained
  <2> QED
    BY <2>1, CountsAreNaturals DEF Preceding
<1>2. \A c : c \in BranchHeads => PinnedRank(c) \in Nat
  BY CountsAreNaturals DEF PinnedRank, Held
<1>3. RetainedRoots \in Nat
  BY RetainedAssumption
<1> QED
  BY <1>1, <1>2, <1>3 DEF HeadState, BrainState

\* _write_head retains the new head, and otherwise only what it was given, what
\* the pointer retained before, and the branch heads.
LEMMA HeadStateRetained ==
    ASSUME StateOK, NEW d \in Snapshots, NEW o \in Origins, NEW r \in SUBSET Snapshots
    PROVE  /\ HeadState(d, o, r).snapshot = d
           /\ d \in Retained(HeadState(d, o, r))
           /\ Retained(HeadState(d, o, r)) \subseteq {d} \cup r \cup Retained(head) \cup BranchHeads
<1> DEFINE h == HeadState(d, o, r)
<1>1. h \in BrainState /\ h # None
  BY HeadStateType, NoneAssumption
<1>2. h.snapshot = d
  BY DEF HeadState
<1>3. \A c \in Snapshots : h.retained[c] =
          IF c \in Bounded(d, r) THEN Preceding(c, d, r) + 1
          ELSE IF c \in BranchHeads THEN RetainedRoots + PinnedRank(c) + 1
          ELSE 0
  BY DEF HeadState
<1>4. Retained(h) \subseteq {d} \cup r \cup Retained(head) \cup BranchHeads
  <2> SUFFICES ASSUME NEW c \in Snapshots, h.retained[c] > 0
               PROVE  c \in {d} \cup r \cup Retained(head) \cup BranchHeads
    BY <1>1 DEF Retained
  <2>1. c \in Bounded(d, r) \/ c \in BranchHeads
    BY <1>3
  <2> QED
    BY <2>1 DEF Bounded, Unpinned
<1>5. d \in Retained(h)
  <2>1. \A c \in Unpinned(d, r) : CandidateRank(c, d, r) \in Nat
    BY DEF Unpinned, CandidateRank, Retained, StateOK, BrainState
  <2>2. CandidateRank(d, d, r) = 0
    BY DEF CandidateRank
  <2>3. {c \in Unpinned(d, r) : CandidateRank(c, d, r) < CandidateRank(d, d, r)} = {}
    BY <2>1, <2>2
  <2>4. Preceding(d, d, r) = 0
    BY <2>3, FS_EmptySet DEF Preceding
  <2>5. d \in Bounded(d, r)
    BY <2>4, RetainedAssumption DEF Bounded, Unpinned
  <2>6. h.retained[d] = 1
    BY <1>3, <2>4, <2>5
  <2> QED
    BY <1>1, <2>6 DEF Retained
<1> QED
  BY <1>2, <1>4, <1>5

\* _refs and _recorded return ref tables, and name only the head and branch heads.
LEMMA RecordedTable ==
    ASSUME StateOK, head # None
    PROVE  /\ Table \in RefTable
           /\ Recorded(Table) \in RefTable
           /\ \A b \in Names : Recorded(Table).branches[b] # None =>
                 Recorded(Table).branches[b].snapshot \in {head.snapshot} \cup BranchHeads
           /\ Recorded(Table).switching = Table.switching
           /\ Recorded(Table).current = Table.current
<1>1. head \in BrainState /\ head.snapshot \in Snapshots /\ head.origin \in Origins
  BY DEF StateOK, BrainState
<1>2. Table \in RefTable
  BY <1>1, NamesAssumption DEF Table, StateOK, RefTable, BranchRef, Origins
<1>3. [snapshot |-> head.snapshot, origin |-> head.origin] \in BranchRef
  BY <1>1 DEF BranchRef
<1>4. Recorded(Table) = [Table EXCEPT !.branches = [Table.branches EXCEPT
            ![Table.current] = [snapshot |-> head.snapshot, origin |-> head.origin]]]
  BY DEF Recorded
<1>5. Recorded(Table) \in RefTable
  BY <1>2, <1>3, <1>4 DEF RefTable
<1>6. ASSUME NEW b \in Names, Recorded(Table).branches[b] # None
      PROVE  Recorded(Table).branches[b].snapshot \in {head.snapshot} \cup BranchHeads
  <2>1. CASE b = Table.current
    BY <1>2, <1>4, <2>1 DEF RefTable
  <2>2. CASE b # Table.current
    <3>1. Recorded(Table).branches[b] = Table.branches[b]
      BY <1>2, <1>4, <2>2 DEF RefTable
    <3>2. CASE refs = None
      <4>1. Table.branches[b] = IF b = Main THEN [snapshot |-> head.snapshot, origin |-> None] ELSE None
        BY <3>2 DEF Table
      <4> QED
        BY <1>6, <3>1, <4>1
    <3>3. CASE refs # None
      BY <1>6, <3>1, <3>3 DEF Table, BranchHeads, Held
    <3> QED
      BY <3>2, <3>3
  <2> QED
    BY <2>1, <2>2
<1> QED
  BY <1>2, <1>4, <1>5, <1>6 DEF RefTable

\* A walk over parents starts at its own snapshot and stays within any set that
\* holds the snapshot and the parents of its members.
LEMMA ClosureLeast ==
    ASSUME StateOK, NEW s \in Snapshots, NEW open, NEW C \in SUBSET Snapshots,
           s \in C, \A c \in C \cap open : parents[c] \subseteq C
    PROVE  s \in Closure(s, open) /\ Closure(s, open) \subseteq C
BY DEF Closure

\* A head pointer moved to a held snapshot leaves every root held.
LEMMA MoveHead ==
    ASSUME HeldInv, NEW d \in docs, NEW o \in Origins, NEW r \in SUBSET docs,
           head' = HeadState(d, o, r), docs' = docs, refs' = refs
    PROVE  head' \in BrainState /\ head'.snapshot = d /\ DocsHeld'
<1>1. d \in Snapshots /\ r \in SUBSET Snapshots /\ StateOK
  BY DEF HeldInv, StateOK
<1>2. head' \in BrainState
  BY <1>1, HeadStateType
<1>3. /\ head'.snapshot = d /\ d \in Retained(head')
      /\ Retained(head') \subseteq {d} \cup r \cup Retained(head) \cup BranchHeads
  BY <1>1, HeadStateRetained
<1>4. BranchHeads' = BranchHeads
  BY DEF BranchHeads, Held
<1>5. Retained(head)' = Retained(head')
  BY DEF Retained, Snapshots
<1> QED
  BY <1>2, <1>3, <1>4, <1>5 DEF HeldInv, DocsHeld

\* Refs that name held snapshots only leave every root held.
LEMMA MoveRefs ==
    ASSUME HeldInv, NEW t \in RefTable,
           \A b \in Names : t.branches[b] # None => t.branches[b].snapshot \in docs,
           refs' = t, docs' = docs, head' = head
    PROVE  refs' \in RefTable /\ DocsHeld'
<1>1. BranchHeads' \subseteq docs
  BY DEF BranchHeads, Held
<1>2. Retained(head)' = Retained(head)
  BY DEF Retained, Snapshots
<1> QED
  BY <1>1, <1>2 DEF HeldInv, DocsHeld

\* A store that only grows leaves every root held.
LEMMA GrowDocs ==
    ASSUME HeldInv, docs \subseteq docs', refs' = refs, head' = head
    PROVE  DocsHeld'
<1>1. BranchHeads' = BranchHeads
  BY DEF BranchHeads, Held
<1>2. Retained(head)' = Retained(head)
  BY DEF Retained, Snapshots
<1> QED
  BY <1>1, <1>2 DEF HeldInv, DocsHeld

\* The table every ref-writing operation starts from names held snapshots only.
LEMMA RecordedHeld ==
    ASSUME HeldInv, head # None
    PROVE  /\ Recorded(Table) \in RefTable
           /\ \A b \in Names : Recorded(Table).branches[b] # None =>
                 Recorded(Table).branches[b].snapshot \in docs
BY RecordedTable DEF HeldInv, DocsHeld

\* Nothing is held, served or named before the first write.
LEMMA HeldInit == Init => HeldInv
<1> SUFFICES ASSUME Init PROVE HeldInv
  OBVIOUS
<1>1. StateOK
  BY BoundAssumption DEF Init, StateOK, Origins, Pending, Idle, Steps
<1>2. PendingOK
  BY DEF Init, PendingOK, Idle
<1>3. HistoryBounded
  BY DEF Init, HistoryBounded
<1>4. DocsHeld
  BY DEF Init, DocsHeld, Retained, BranchHeads
<1> QED
  BY <1>1, <1>2, <1>3, <1>4 DEF HeldInv

\* A new version: what PutVersion leaves in the store and in the history.
LEMMA PutVersionHeld ==
    ASSUME HeldInv, NEW s \in Snapshots, s = created + 1,
           NEW from \in SUBSET docs, NEW names \in SUBSET Snapshots, PutVersion(s, from, names),
           served' = served
    PROVE  /\ docs' = docs \cup {s} /\ comps' \subseteq Snapshots /\ blocks' \subseteq Snapshots
           /\ docs' \subseteq Snapshots
           /\ parents' \in [Snapshots -> SUBSET Snapshots]
           /\ members' \in [Snapshots -> SUBSET Snapshots]
           /\ created' \in 0 .. MaxSnapshots
           /\ HistoryBounded'
<1>1. created \in Nat /\ MaxSnapshots \in Nat /\ s \in 1 .. MaxSnapshots
  BY BoundAssumption DEF HeldInv, StateOK, Snapshots
<1>2. /\ docs' = docs \cup {s} /\ comps' \subseteq Snapshots /\ blocks' \subseteq Snapshots
      /\ docs' \subseteq Snapshots
      /\ parents' \in [Snapshots -> SUBSET Snapshots]
      /\ members' \in [Snapshots -> SUBSET Snapshots]
  BY DEF HeldInv, StateOK, PutVersion
<1>3. created' = created + 1 /\ created' \in 0 .. MaxSnapshots
  BY <1>1 DEF PutVersion
<1>4. 1 .. created \subseteq 1 .. created' /\ s \in 1 .. created'
  BY <1>1, <1>3
<1>5. \A x \in 1 .. created' : parents'[x] \subseteq 1 .. created'
  <2> SUFFICES ASSUME NEW x \in 1 .. created' PROVE parents'[x] \subseteq 1 .. created'
    OBVIOUS
  <2>1. CASE x = s
    <3>1. parents'[x] = from
      BY <2>1 DEF PutVersion, HeldInv, StateOK
    <3> QED
      BY <3>1, <1>4 DEF HeldInv, HistoryBounded
  <2>2. CASE x # s
    <3>1. x \in 1 .. created /\ x \in Snapshots
      BY <2>2, <1>1, <1>3 DEF Snapshots
    <3>2. parents'[x] = parents[x]
      BY <2>2, <3>1 DEF PutVersion, HeldInv, StateOK
    <3> QED
      BY <3>1, <3>2, <1>4 DEF HeldInv, HistoryBounded
  <2> QED
    BY <2>1, <2>2
<1> QED
  BY <1>2, <1>3, <1>4, <1>5 DEF HeldInv, HistoryBounded

\* Every step keeps types, pending operations, history and roots in order.
LEMMA HeldNext == HeldInv /\ PublicOK /\ [Next]_vars => HeldInv'
<1> SUFFICES ASSUME HeldInv, PublicOK, [Next]_vars PROVE HeldInv'
  OBVIOUS
<1> USE NoneAssumption
<1>t. StateOK /\ PendingOK /\ HistoryBounded /\ DocsHeld
  BY DEF HeldInv
<1>d. docs \subseteq Snapshots /\ Snapshots \subseteq Origins /\ None \in Origins
  BY <1>t DEF StateOK, Origins
<1>h. head # None => head \in BrainState /\ head.snapshot \in docs /\ head.origin \in Origins
  BY <1>t DEF StateOK, DocsHeld, BrainState
<1>1. ASSUME NEW without \in SUBSET Snapshots, Write(without) PROVE HeldInv'
  <2> DEFINE s == created + 1
             from == IF head = None THEN {} ELSE {head.snapshot}
             base == IF head = None THEN {} ELSE members[head.snapshot]
  <2>1. s \in Snapshots /\ from \in SUBSET docs /\ (base \ without) \cup {s} \in SUBSET Snapshots
    BY <1>1, <1>t, <1>h, <1>d DEF Write, StateOK
  <2>2. PutVersion(s, from, (base \ without) \cup {s}) /\ served' = served
    BY <1>1 DEF Write
  <2> HIDE DEF from, base
  <2>3. /\ docs' = docs \cup {s} /\ comps' \subseteq Snapshots /\ blocks' \subseteq Snapshots
        /\ docs' \subseteq Snapshots
        /\ parents' \in [Snapshots -> SUBSET Snapshots]
        /\ members' \in [Snapshots -> SUBSET Snapshots]
        /\ created' \in 0 .. MaxSnapshots
        /\ HistoryBounded'
    BY <2>1, <2>2, PutVersionHeld
  <2>4. pc' = [Idle EXCEPT !.step = "advance", !.digest = s,
                           !.origin = IF head = None THEN None ELSE head.origin]
    BY <1>1 DEF Write
  <2>5. pc' \in Pending /\ PendingOK'
    BY <2>1, <2>3, <2>4, <1>h, <1>d DEF Pending, Idle, Steps, PendingOK
  <2>6. UNCHANGED <<head, refs, indexed, served>>
    BY <1>1 DEF Write
  <2>7. DocsHeld'
    BY <2>3, <2>6, GrowDocs
  <2> QED
    BY <2>3, <2>5, <2>6, <2>7, <1>t DEF HeldInv, StateOK
<1>2. CASE Advance
  <2>1. pc.digest \in docs /\ pc.origin \in Origins /\ pc.retain \in SUBSET docs
    BY <1>2, <1>t DEF Advance, PendingOK, StateOK, Pending
  <2>2. head' \in BrainState /\ DocsHeld'
    BY <2>1, <1>2, MoveHead DEF Advance, store
  <2> QED
    BY <2>2, <1>2, <1>t DEF Advance, store, history, HeldInv, StateOK, PendingOK, HistoryBounded,
                            Idle, Pending, Steps, Origins
<1>3. CASE RepairRefs
  <2>1. refs \in RefTable
    BY <1>3, <1>t DEF RepairRefs, StateOK
  <2>2. /\ Repaired(refs) \in RefTable
        /\ Repaired(refs).branches = refs.branches
    BY <2>1 DEF Repaired, RefTable
  <2>3. \A b \in Names : Repaired(refs).branches[b] # None => Repaired(refs).branches[b].snapshot \in docs
    BY <2>2, <1>3, <1>t DEF RepairRefs, DocsHeld, BranchHeads, Held
  <2>4. refs' \in RefTable /\ DocsHeld'
    BY <2>2, <2>3, <1>3, MoveRefs DEF RepairRefs, store
  <2> QED
    BY <2>4, <1>3, <1>t DEF RepairRefs, store, history, HeldInv, StateOK, PendingOK, HistoryBounded, Idle
<1>4. ASSUME NEW name \in Names, NEW start \in Snapshots, CreateBranch(name, start) PROVE HeldInv'
  <2>1. head # None /\ head \in BrainState /\ head.snapshot \in docs /\ head.origin \in Origins
    BY <1>4, <1>h DEF CreateBranch, Ready
  <2> DEFINE t == [Recorded(Table) EXCEPT !.branches[name] = [snapshot |-> start, origin |-> None]]
  <2>2. Recorded(Table) \in RefTable
    BY <2>1, RecordedHeld
  <2>3. start \in docs
    BY <2>1, <1>4, RecordedHeld DEF CreateBranch, StartPoints, Held
  <2>4. t \in RefTable
    BY <2>2, <1>d DEF RefTable, BranchRef
  <2>5. \A b \in Names : t.branches[b] # None => t.branches[b].snapshot \in docs
    <3>1. \A b \in Names : Recorded(Table).branches[b] # None => Recorded(Table).branches[b].snapshot \in docs
      BY <2>1, RecordedHeld
    <3> QED
      BY <2>2, <2>3, <3>1 DEF RefTable
  <2>6. refs' = t /\ UNCHANGED <<docs, comps, blocks, parents, members, created, head, indexed, served>>
    BY <1>4 DEF CreateBranch, store, history
  <2> HIDE DEF t
  <2>7. refs' \in RefTable /\ DocsHeld'
    BY <2>4, <2>5, <2>6, MoveRefs
  <2>8. pc' = [Idle EXCEPT !.step = "repin", !.digest = head.snapshot, !.origin = head.origin]
    BY <1>4 DEF CreateBranch
  <2>9. pc' \in Pending /\ PendingOK'
    BY <2>1, <2>6, <2>8, <1>d DEF Pending, Idle, Steps, PendingOK
  <2> QED
    BY <2>6, <2>7, <2>9, <1>t DEF HeldInv, StateOK, HistoryBounded
<1>5. CASE Repin
  <2>1. pc.digest \in docs /\ pc.origin \in Origins /\ {} \in SUBSET docs
    BY <1>5, <1>t DEF Repin, PendingOK, StateOK, Pending
  <2>2. head' \in BrainState /\ DocsHeld'
    BY <2>1, <1>5, MoveHead DEF Repin, store
  <2> QED
    BY <2>2, <1>5, <1>t DEF Repin, store, history, HeldInv, StateOK, PendingOK, HistoryBounded,
                            Idle, Pending, Steps, Origins
<1>6. ASSUME NEW name \in Names, Checkout(name) PROVE HeldInv'
  <2>1. head # None
    BY <1>6 DEF Checkout, Ready
  <2> DEFINE t == [Recorded(Table) EXCEPT !.switching = name]
  <2>2. Recorded(Table) \in RefTable
    BY <2>1, RecordedHeld
  <2>3. t \in RefTable /\ t.branches = Recorded(Table).branches
    BY <2>2 DEF RefTable
  <2>4. \A b \in Names : t.branches[b] # None => t.branches[b].snapshot \in docs
    BY <2>1, <2>3, RecordedHeld
  <2>5. refs' = t /\ UNCHANGED <<docs, comps, blocks, parents, members, created, head, indexed, served>>
    BY <1>6 DEF Checkout, store, history
  <2>6. t.branches[name] \in BranchRef
    BY <2>2, <2>3, <1>6 DEF Checkout, Held, RefTable
  <2> HIDE DEF t
  <2>7. refs' \in RefTable /\ DocsHeld'
    BY <2>3, <2>4, <2>5, MoveRefs
  <2>8. pc' = [Idle EXCEPT !.step = "checkout_head", !.name = name]
    BY <1>6 DEF Checkout
  <2>9. pc' \in Pending /\ PendingOK'
    BY <2>5, <2>6, <2>7, <2>8, <1>d DEF Pending, Idle, Steps, PendingOK
  <2> QED
    BY <2>5, <2>7, <2>9, <1>t DEF HeldInv, StateOK, HistoryBounded
<1>7. CASE CheckoutHead
  <2>1. /\ pc.name \in Names /\ refs \in RefTable /\ refs # None
        /\ refs.branches[pc.name] \in BranchRef /\ refs.branches[pc.name] # None
    BY <1>7, <1>t DEF CheckoutHead, PendingOK
  <2>2. refs.branches[pc.name].snapshot \in docs /\ refs.branches[pc.name].origin \in Origins
    BY <2>1, <1>t DEF DocsHeld, BranchHeads, Held, BranchRef
  <2>3. head' \in BrainState /\ DocsHeld'
    BY <2>2, <1>7, MoveHead DEF CheckoutHead, store
  <2>4. pc' = [pc EXCEPT !.step = "checkout_refs"] /\ refs' = refs /\ docs' = docs
    BY <1>7 DEF CheckoutHead, store
  <2>5. pc' \in Pending /\ PendingOK'
    BY <2>1, <2>4, <1>t DEF StateOK, Pending, Steps, PendingOK
  <2> QED
    BY <2>3, <2>5, <1>7, <1>t DEF CheckoutHead, store, history, HeldInv, StateOK, HistoryBounded
<1>8. CASE CheckoutRefs
  <2>1. pc.name \in Names /\ refs \in RefTable
    BY <1>8, <1>t DEF CheckoutRefs, PendingOK
  <2> DEFINE t == [refs EXCEPT !.current = pc.name, !.switching = None]
  <2>2. t \in RefTable /\ t.branches = refs.branches
    BY <2>1 DEF RefTable
  <2>3. \A b \in Names : t.branches[b] # None => t.branches[b].snapshot \in docs
    BY <2>1, <2>2, <1>t DEF DocsHeld, BranchHeads, Held
  <2>4. refs' = t /\ UNCHANGED <<docs, comps, blocks, parents, members, created, head, indexed, served>>
    BY <1>8 DEF CheckoutRefs, store, history
  <2> HIDE DEF t
  <2>5. refs' \in RefTable /\ DocsHeld'
    BY <2>2, <2>3, <2>4, MoveRefs
  <2> QED
    BY <2>4, <2>5, <1>8, <1>t DEF CheckoutRefs, HeldInv, StateOK, HistoryBounded, PendingOK,
                                  Idle, Pending, Steps, Origins
<1>9. ASSUME NEW name \in Names, NEW force \in BOOLEAN, DeleteBranch(name, force) PROVE HeldInv'
  <2>1. head # None /\ head \in BrainState /\ head.snapshot \in docs /\ head.origin \in Origins
    BY <1>9, <1>h DEF DeleteBranch, Ready
  <2> DEFINE t == [Recorded(Table) EXCEPT !.branches[name] = None]
  <2>2. Recorded(Table) \in RefTable
    BY <2>1, RecordedHeld
  <2>3. t \in RefTable
    BY <2>2 DEF RefTable
  <2>4. \A b \in Names : t.branches[b] # None => t.branches[b].snapshot \in docs
    <3>1. \A b \in Names : Recorded(Table).branches[b] # None => Recorded(Table).branches[b].snapshot \in docs
      BY <2>1, RecordedHeld
    <3> QED
      BY <2>2, <3>1 DEF RefTable
  <2>5. refs' = t /\ UNCHANGED <<docs, comps, blocks, parents, members, created, head, indexed, served>>
    BY <1>9 DEF DeleteBranch, store, history
  <2> HIDE DEF t
  <2>6. refs' \in RefTable /\ DocsHeld'
    BY <2>3, <2>4, <2>5, MoveRefs
  <2>7. pc' = [Idle EXCEPT !.step = "repin", !.digest = head.snapshot, !.origin = head.origin]
    BY <1>9 DEF DeleteBranch
  <2>8. pc' \in Pending /\ PendingOK'
    BY <2>1, <2>5, <2>7, <1>d DEF Pending, Idle, Steps, PendingOK
  <2> QED
    BY <2>5, <2>6, <2>8, <1>t DEF HeldInv, StateOK, HistoryBounded
<1>10. ASSUME NEW name \in Names, FastForward(name) PROVE HeldInv'
  <2>1. head # None /\ head.origin \in Origins /\ Theirs(name) \in docs /\ {} \in SUBSET docs
    BY <1>10, <1>h, RecordedHeld DEF FastForward, Joinable, Ready, Theirs, Held
  <2>2. head' \in BrainState /\ DocsHeld'
    BY <2>1, <1>10, MoveHead DEF FastForward, store
  <2>3. pc' = pc /\ pc = Idle
    BY <1>10 DEF FastForward, Joinable, Ready
  <2> QED
    BY <2>2, <2>3, <1>10, <1>t DEF FastForward, store, history, HeldInv, StateOK, PendingOK,
                                   HistoryBounded, Idle
<1>11. ASSUME NEW name \in Names, NEW strategy \in {"merge", "squash"}, Reconcile(name, strategy)
       PROVE  HeldInv'
  <2> DEFINE s == created + 1
             from == IF strategy = "merge" THEN {head.snapshot, Theirs(name)} ELSE {head.snapshot}
  <2>1. head # None /\ head.snapshot \in docs /\ head.origin \in Origins /\ Theirs(name) \in docs
    BY <1>11, <1>h, RecordedHeld DEF Reconcile, Joinable, Ready, Theirs, Held
  <2>2. s \in Snapshots /\ from \in SUBSET docs /\ served' = served
    BY <1>11, <2>1 DEF Reconcile
  <2>3. \E names \in SUBSET Snapshots : PutVersion(s, from, names)
    BY <1>11, <1>t, <2>2 DEF Reconcile, StateOK
  <2> HIDE DEF from
  <2>4. /\ docs' = docs \cup {s} /\ comps' \subseteq Snapshots /\ blocks' \subseteq Snapshots
        /\ docs' \subseteq Snapshots
        /\ parents' \in [Snapshots -> SUBSET Snapshots]
        /\ members' \in [Snapshots -> SUBSET Snapshots]
        /\ created' \in 0 .. MaxSnapshots
        /\ HistoryBounded'
    BY <2>2, <2>3, PutVersionHeld
  <2>5. pc' = [Idle EXCEPT !.step = "advance", !.digest = s, !.origin = head.origin,
                           !.retain = IF strategy = "merge" THEN {Theirs(name)} ELSE {}]
    BY <1>11 DEF Reconcile
  <2>6. pc' \in Pending /\ PendingOK'
    BY <2>1, <2>2, <2>4, <2>5, <1>d DEF Pending, Idle, Steps, PendingOK
  <2>7. UNCHANGED <<head, refs, indexed, served>>
    BY <1>11 DEF Reconcile
  <2>8. DocsHeld'
    BY <2>4, <2>7, GrowDocs
  <2> QED
    BY <2>4, <2>6, <2>7, <2>8, <1>t DEF HeldInv, StateOK
<1>12. CASE Prune \/ PruneInterrupted
  <2>1. /\ docs' \subseteq docs /\ comps' \subseteq comps /\ blocks' \subseteq blocks
        /\ UNCHANGED <<parents, members, created, head, refs, indexed, served, pc>> /\ pc = Idle
    BY <1>12 DEF Prune, PruneInterrupted, history
  <2>2. docs \cap KeptDocs \subseteq docs'
    BY <1>12 DEF Prune, PruneInterrupted
  <2>3. (Retained(head) \cup BranchHeads) \subseteq docs'
    BY <2>2, <1>t DEF DocsHeld, KeptDocs, Roots
  <2>4. BranchHeads' = BranchHeads /\ Retained(head)' = Retained(head)
    BY <2>1 DEF BranchHeads, Held, Retained, Snapshots
  <2>5. DocsHeld'
    BY <2>1, <2>3, <2>4, <1>t DEF DocsHeld
  <2> QED
    BY <2>1, <2>5, <1>t DEF HeldInv, StateOK, PendingOK, HistoryBounded, Idle
<1>13. ASSUME NEW tag \in Names, NEW from \in SUBSET Snapshots, PeerPush(tag, from) PROVE HeldInv'
  <2> DEFINE s == created + 1
  <2>1. created \in Nat /\ MaxSnapshots \in Nat /\ s \in Snapshots /\ s \in 1 .. MaxSnapshots /\ created' = s
    BY <1>13, <1>t, BoundAssumption DEF PeerPush, StateOK, Snapshots
  <2>2. from \subseteq 1 .. created /\ from \subseteq Snapshots
    BY <1>13 DEF PeerPush, PublicOK
  <2>3. 1 .. created \subseteq 1 .. created' /\ created' \in 0 .. MaxSnapshots /\ s \in 1 .. created'
    BY <2>1
  <2>4. parents' = [parents EXCEPT ![s] = from] /\ parents' \in [Snapshots -> SUBSET Snapshots]
    BY <2>2, <1>13, <1>t DEF PeerPush, StateOK
  <2>5. members' \in [Snapshots -> SUBSET Snapshots]
    <3>1. members' = [members EXCEPT ![s] = (UNION {members[p] : p \in from}) \cup {s}]
      BY <1>13 DEF PeerPush
    <3>2. members \in [Snapshots -> SUBSET Snapshots]
      BY <1>t DEF StateOK
    <3>3. \A p \in from : members[p] \subseteq Snapshots
      BY <2>2, <3>2
    <3>4. (UNION {members[p] : p \in from}) \cup {s} \in SUBSET Snapshots
      BY <2>1, <3>3
    <3> QED
      BY <3>1, <3>2, <3>4
  <2>6. served' = [served EXCEPT ![tag] = s] /\ served' \in [Names -> Origins]
    BY <2>1, <1>13, <1>t, <1>d DEF PeerPush, StateOK
  <2>7. \A x \in 1 .. created' : parents'[x] \subseteq 1 .. created'
    <3> SUFFICES ASSUME NEW x \in 1 .. created' PROVE parents'[x] \subseteq 1 .. created'
      OBVIOUS
    <3>1. CASE x = s
      BY <3>1, <2>1, <2>2, <2>3, <2>4, <1>t DEF StateOK
    <3>2. CASE x # s
      <4>1. x \in 1 .. created /\ x \in Snapshots
        BY <3>2, <2>1 DEF Snapshots
      <4> QED
        BY <3>2, <4>1, <2>3, <2>4, <1>t DEF StateOK, HistoryBounded
    <3> QED
      BY <3>1, <3>2
  <2>8. UNCHANGED <<docs, comps, blocks, head, refs, indexed, pc>>
    BY <1>13 DEF PeerPush, store
  <2>9. HistoryBounded'
    BY <2>3, <2>6, <2>7, <2>8, <1>t DEF HistoryBounded, StateOK
  <2>10. DocsHeld'
    BY <2>8, GrowDocs
  <2> QED
    BY <2>3, <2>4, <2>5, <2>6, <2>8, <2>9, <2>10, <1>t DEF HeldInv, StateOK, PendingOK
<1>14. ASSUME NEW tag \in Names, NEW force \in BOOLEAN, Push(tag, force) PROVE HeldInv'
  <2>1. head # None /\ head.snapshot \in docs
    BY <1>14, <1>h DEF Push, Ready
  <2>3. /\ pc'.step \in {"push_upload", "push_force"}
        /\ pc' = [Idle EXCEPT !.step = pc'.step, !.name = tag, !.digest = head.snapshot]
    BY <1>14 DEF Push, Idle
  <2>4. UNCHANGED <<docs, comps, blocks, parents, members, created, head, refs, served>>
    BY <1>14 DEF Push, store, history
  <2>5. pc' \in Pending /\ PendingOK'
    BY <2>1, <2>3, <2>4, <1>d DEF Pending, Idle, Steps, PendingOK
  <2>6. indexed' \in [Names -> Origins]
    BY <2>1, <1>14, <1>t, <1>d DEF Push, StateOK
  <2>7. DocsHeld'
    BY <2>4, GrowDocs
  <2> QED
    BY <2>4, <2>5, <2>6, <2>7, <1>t DEF HeldInv, StateOK, HistoryBounded
<1>15. CASE PushUpload
  <2>1. pc.digest \in docs /\ pc.name \in Names /\ pc \in Pending
    BY <1>15, <1>t DEF PushUpload, PendingOK, StateOK
  <2>2. /\ served' = [served EXCEPT ![pc.name] = pc.digest]
        /\ pc' = [pc EXCEPT !.step = "push_confirm"]
        /\ UNCHANGED <<docs, comps, blocks, parents, members, created, head, refs, indexed>>
    BY <1>15 DEF PushUpload, store, history
  <2>3. pc' \in Pending /\ PendingOK'
    BY <2>1, <2>2, <1>t DEF Pending, Steps, PendingOK
  <2>4. served' \in [Names -> Origins] /\ HistoryBounded'
    BY <2>1, <2>2, <1>t, <1>d DEF StateOK, HistoryBounded
  <2>5. DocsHeld'
    BY <2>2, GrowDocs
  <2> QED
    BY <2>2, <2>3, <2>4, <2>5, <1>t DEF HeldInv, StateOK
<1>16. CASE PushConfirm
  <2>1. pc.digest \in docs /\ pc.name \in Names
    BY <1>16, <1>t DEF PushConfirm, PendingOK
  <2>2. /\ \/ pc' = [Idle EXCEPT !.step = "advance", !.digest = pc.digest, !.origin = pc.digest]
           \/ pc' = Idle
        /\ UNCHANGED <<docs, comps, blocks, parents, members, created, head, refs, indexed, served>>
    BY <1>16 DEF PushConfirm, store, history
  <2>3. pc' \in Pending /\ PendingOK'
    <3>1. CASE pc' = [Idle EXCEPT !.step = "advance", !.digest = pc.digest, !.origin = pc.digest]
      BY <3>1, <2>1, <2>2, <1>d DEF Pending, Idle, Steps, PendingOK
    <3>2. CASE pc' = Idle
      BY <3>2, <1>d DEF Pending, Idle, Steps, PendingOK
    <3> QED
      BY <3>1, <3>2, <2>2
  <2>4. DocsHeld'
    BY <2>2, GrowDocs
  <2> QED
    BY <2>2, <2>3, <2>4, <1>t DEF HeldInv, StateOK, HistoryBounded
<1>17. ASSUME NEW tag \in Names, NEW withHistory \in BOOLEAN, Pull(tag, withHistory) PROVE HeldInv'
  <2> DEFINE source == served[tag]
             past == IF withHistory THEN Ancestry(source) ELSE {source}
             name == Destination(tag)
             t == Recorded(Table)
             ref == IF t.branches[name] # None THEN t.branches[name]
                                               ELSE [snapshot |-> head.snapshot, origin |-> None]
  <2>1. source \in Snapshots /\ source \in 1 .. created /\ 1 .. created \subseteq Snapshots
    BY <1>17, <1>t, BoundAssumption DEF Pull, StateOK, Origins, HistoryBounded, Snapshots
  <2>2. source \in Ancestry(source) /\ Ancestry(source) \subseteq 1 .. created
    <3>1. \A c \in (1 .. created) \cap Snapshots : parents[c] \subseteq 1 .. created
      BY <1>t DEF HistoryBounded
    <3> QED
      BY <2>1, <3>1, <1>t, ClosureLeast DEF Ancestry
  <2>3. source \in past /\ past \subseteq 1 .. created
    BY <2>1, <2>2
  <2>4. /\ docs' = docs \cup past /\ comps' = comps \cup past /\ blocks' = blocks \cup members[source]
        /\ refs' = IF name = None \/ head = None THEN refs
                   ELSE [t EXCEPT !.branches[name] = ref, !.switching = name]
        /\ UNCHANGED <<parents, members, created, head, indexed, served>>
    BY <1>17 DEF Pull, history
  <2>5. /\ pc'.step \in {"pull_advance", "switch_advance"}
        /\ pc' = [step |-> pc'.step, name |-> tag, digest |-> source, origin |-> source, retain |-> {}]
    BY <1>17 DEF Pull
  <2> HIDE DEF past
  <2>6. pc' \in Pending /\ PendingOK'
    BY <2>1, <2>3, <2>4, <2>5, <1>d DEF Pending, Steps, PendingOK
  <2>7. HistoryBounded'
    BY <2>3, <2>4, <1>t DEF HistoryBounded
  <2>8. docs' \subseteq Snapshots /\ comps' \subseteq Snapshots /\ blocks' \subseteq Snapshots
    BY <2>1, <2>3, <2>4, <1>t DEF StateOK
  <2>9. CASE name = None \/ head = None
    <3>1. refs' = refs
      BY <2>4, <2>9
    <3>2. DocsHeld'
      BY <3>1, <2>4, GrowDocs
    <3> QED
      BY <3>1, <3>2, <2>4, <2>6, <2>7, <2>8, <1>t DEF HeldInv, StateOK
  <2>10. CASE name # None /\ head # None
    <3>1. name \in Names
      BY <2>10 DEF Destination
    <3>2. t \in RefTable /\ \A b \in Names : t.branches[b] # None => t.branches[b].snapshot \in docs
      BY <2>10, RecordedHeld
    <3>3. ref \in BranchRef /\ ref.snapshot \in docs
      BY <3>1, <3>2, <2>10, <1>h, <1>d DEF RefTable, BranchRef
    <3>4. refs' = [t EXCEPT !.branches[name] = ref, !.switching = name]
      BY <2>4, <2>10
    <3> HIDE DEF t, ref, name
    <3>5. refs' \in RefTable
      BY <3>1, <3>2, <3>3, <3>4 DEF RefTable
    <3>6. \A b \in Names : refs'.branches[b] # None => refs'.branches[b].snapshot \in docs
      BY <3>1, <3>2, <3>3, <3>4 DEF RefTable
    <3>7. BranchHeads' \subseteq docs'
      BY <3>6, <2>4 DEF BranchHeads, Held
    <3>8. Retained(head)' = Retained(head)
      BY <2>4 DEF Retained, Snapshots
    <3>9. DocsHeld'
      BY <3>7, <3>8, <2>4, <1>t DEF DocsHeld
    <3> QED
      BY <3>5, <3>9, <2>4, <2>6, <2>7, <2>8, <1>t DEF HeldInv, StateOK
  <2> QED
    BY <2>9, <2>10
<1>18. CASE PullAdvance
  <2>1. pc.digest \in docs /\ pc.name \in Names /\ pc.origin \in Origins /\ {} \in SUBSET docs /\ pc \in Pending
    BY <1>18, <1>t DEF PullAdvance, PendingOK, StateOK, Pending
  <2>2. head' \in BrainState /\ head'.snapshot = pc.digest /\ DocsHeld'
    BY <2>1, <1>18, MoveHead DEF PullAdvance, store
  <2>3. /\ pc'.step \in {"pull_index", "switch_finish"}
        /\ pc' = [pc EXCEPT !.step = pc'.step]
        /\ UNCHANGED <<docs, comps, blocks, parents, members, created, refs, indexed, served>>
    BY <2>1, <1>18 DEF PullAdvance, store, history, Pending
  <2>4. pc' \in Pending /\ PendingOK'
    BY <2>1, <2>2, <2>3, <1>t DEF Pending, Steps, PendingOK
  <2> QED
    BY <2>2, <2>3, <2>4, <1>t DEF HeldInv, StateOK, HistoryBounded
<1>19. CASE FinishSwitch
  <2>1. /\ pc.digest \in docs /\ pc.name \in Names /\ pc \in Pending
        /\ head \in BrainState /\ head.snapshot \in docs
    BY <1>19, <1>t DEF FinishSwitch, PendingOK, StateOK
  <2> DEFINE held == IF refs # None THEN refs.branches ELSE [b \in Names |-> None]
             t == [current   |-> pc.name,
                   branches  |-> [held EXCEPT ![pc.name] = [snapshot |-> head.snapshot,
                                                            origin   |-> head.origin]],
                   switching |-> None]
  <2>2. held \in [Names -> BranchRef \cup {None}]
    BY <1>t DEF StateOK, RefTable
  <2>3. \A b \in Names : held[b] # None => held[b].snapshot \in docs
    BY <1>t DEF DocsHeld, BranchHeads, Held
  <2>4. /\ refs' = t /\ pc' = [pc EXCEPT !.step = "switch_repin"]
        /\ UNCHANGED <<docs, comps, blocks, parents, members, created, head, indexed, served>>
    BY <1>19 DEF FinishSwitch, store, history
  <2> HIDE DEF held
  <2>5. t \in RefTable
    BY <2>1, <2>2, <1>d DEF RefTable, BranchRef, BrainState
  <2>6. \A b \in Names : t.branches[b] # None => t.branches[b].snapshot \in docs
    BY <2>1, <2>2, <2>3
  <2> HIDE DEF t
  <2>7. refs' \in RefTable /\ DocsHeld'
    BY <2>4, <2>5, <2>6, MoveRefs
  <2>8. pc' \in Pending /\ PendingOK'
    BY <2>1, <2>4, <1>t DEF Pending, Steps, PendingOK
  <2> QED
    BY <2>4, <2>7, <2>8, <1>t DEF HeldInv, StateOK, HistoryBounded
<1>20. CASE RepinSwitch
  <2>1. /\ pc.digest \in docs /\ pc.name \in Names /\ pc \in Pending
        /\ head.snapshot \in docs /\ head.origin \in Origins /\ {} \in SUBSET docs
    BY <1>20, <1>t DEF RepinSwitch, PendingOK, StateOK, BrainState
  <2>2. head' \in BrainState /\ DocsHeld'
    BY <2>1, <1>20, MoveHead DEF RepinSwitch, store
  <2>3. /\ pc' = [pc EXCEPT !.step = "pull_index"]
        /\ UNCHANGED <<docs, comps, blocks, parents, members, created, refs, indexed, served>>
    BY <1>20 DEF RepinSwitch, store, history
  <2>4. pc' \in Pending /\ PendingOK'
    BY <2>1, <2>3, <1>t DEF Pending, Steps, PendingOK
  <2> QED
    BY <2>2, <2>3, <2>4, <1>t DEF HeldInv, StateOK, HistoryBounded
<1>21. CASE PullIndex
  <2>1. pc.digest \in docs /\ pc.name \in Names
    BY <1>21, <1>t DEF PullIndex, PendingOK
  <2>2. /\ indexed' = [indexed EXCEPT ![pc.name] = pc.digest] /\ pc' = Idle
        /\ UNCHANGED <<docs, comps, blocks, parents, members, created, head, refs, served>>
    BY <1>21 DEF PullIndex, store, history
  <2>3. indexed' \in [Names -> Origins]
    BY <2>1, <2>2, <1>t, <1>d DEF StateOK
  <2>4. DocsHeld'
    BY <2>2, GrowDocs
  <2> QED
    BY <2>2, <2>3, <2>4, <1>t DEF HeldInv, StateOK, HistoryBounded, PendingOK, Pending, Idle, Steps, Origins
<1>22. CASE PullFails \/ Crash
  <2>1. /\ pc' = Idle
        /\ UNCHANGED <<docs, comps, blocks, parents, members, created, head, refs, indexed, served>>
    BY <1>22 DEF PullFails, Crash, store, history
  <2>2. DocsHeld'
    BY <2>1, GrowDocs
  <2> QED
    BY <2>1, <2>2, <1>t DEF HeldInv, StateOK, HistoryBounded, PendingOK, Pending, Idle, Steps, Origins
<1>23. CASE UNCHANGED vars
  <2>1. UNCHANGED <<docs, comps, blocks, parents, members, created, head, refs, indexed, served, pc>>
    BY <1>23 DEF vars
  <2>2. DocsHeld'
    BY <2>1, GrowDocs
  <2> QED
    BY <2>1, <2>2, <1>t DEF HeldInv, StateOK, HistoryBounded, PendingOK
<1>24. ASSUME NEW tag \in Names, NEW s \in Snapshots, PeerRepush(tag, s) PROVE HeldInv'
  <2>1. /\ served' = [served EXCEPT ![tag] = s] /\ s \in 1 .. created
        /\ UNCHANGED <<docs, comps, blocks, parents, members, created, head, refs, indexed, pc>>
    BY <1>24 DEF PeerRepush, PublicOK, store, history
  <2>2. served' \in [Names -> Origins] /\ HistoryBounded'
    BY <2>1, <1>t, <1>d DEF StateOK, HistoryBounded
  <2>3. DocsHeld'
    BY <2>1, GrowDocs
  <2> QED
    BY <2>1, <2>2, <2>3, <1>t DEF HeldInv, StateOK, PendingOK
<1>25. \A b \in Snapshots : {b} \in SUBSET Snapshots
  OBVIOUS
<1> QED
  BY <1>1, <1>2, <1>3, <1>4, <1>5, <1>6, <1>7, <1>8, <1>9, <1>10, <1>11, <1>12, <1>13, <1>14, <1>15,
     <1>16, <1>17, <1>18, <1>19, <1>20, <1>21, <1>22, <1>23, <1>24, <1>25 DEF Next

\* Nothing is public before the first write.
LEMMA PublicInit == Init => PublicOK
BY DEF Init, PublicOK

\* A walk over everybody's parents names no snapshot that nobody created yet.
LEMMA AncestryMade ==
    ASSUME HeldInv, NEW s \in 1 .. created
    PROVE  s \in Ancestry(s) /\ Ancestry(s) \subseteq 1 .. created
<1>1. StateOK /\ s \in Snapshots /\ 1 .. created \in SUBSET Snapshots
  BY BoundAssumption DEF HeldInv, StateOK, Snapshots
<1>2. \A c \in (1 .. created) \cap Snapshots : parents[c] \subseteq 1 .. created
  BY DEF HeldInv, HistoryBounded
<1> QED
  BY <1>1, <1>2, ClosureLeast DEF Ancestry

\* What is public, or was taken out of a tag, is something a client made.
LEMMA PublicNext == HeldInv /\ PublicOK /\ [Next]_vars => PublicOK'
<1> SUFFICES ASSUME HeldInv, PublicOK, [Next]_vars PROVE PublicOK'
  OBVIOUS
<1> USE NoneAssumption
<1>t. StateOK /\ PendingOK /\ HistoryBounded /\ created \in Nat /\ docs \subseteq 1 .. created
  BY DEF HeldInv, StateOK, HistoryBounded
<1>h. \A tag \in Names : TagHistory(tag) \subseteq 1 .. created
  BY <1>t, AncestryMade DEF TagHistory, HistoryBounded
<1>1. ASSUME created' \in {created, created + 1}, UNCHANGED aux PROVE PublicOK'
  BY <1>1, <1>t DEF aux, PublicOK
<1>2. ASSUME NEW tag \in Names, NEW from \in SUBSET Snapshots, PeerPush(tag, from) PROVE PublicOK'
  <2>1. created' = created + 1 /\ public' = public \cup {created + 1} /\ taken' \subseteq taken \cup TagHistory(tag)
    BY <1>2 DEF PeerPush
  <2> QED
    BY <2>1, <1>t, <1>h DEF PublicOK
<1>3. ASSUME NEW tag \in Names, NEW s \in Snapshots, PeerRepush(tag, s) PROVE PublicOK'
  <2>1. created' = created /\ public' = public /\ taken' \subseteq taken \cup TagHistory(tag)
    BY <1>3 DEF PeerRepush, history
  <2> QED
    BY <2>1, <1>h DEF PublicOK
<1>4. CASE PushUpload
  <2>1. pc.digest \in 1 .. created /\ pc.name \in Names
    BY <1>4, <1>t DEF PushUpload, PendingOK
  <2>2. /\ created' = created /\ public' = public \cup Ancestry(pc.digest)
        /\ taken' \subseteq taken \cup TagHistory(pc.name)
    BY <1>4 DEF PushUpload, history
  <2> QED
    BY <2>1, <2>2, <1>h, AncestryMade DEF PublicOK
<1>5. CASE \/ \E without \in SUBSET Snapshots : Write(without)
           \/ \E name \in Names, strategy \in {"merge", "squash"} : Reconcile(name, strategy)
  <2>1. created' = created + 1 /\ UNCHANGED aux
    BY <1>5 DEF Write, Reconcile, PutVersion, aux
  <2> QED
    BY <2>1, <1>1
<1>6. CASE \/ Advance \/ RepairRefs \/ Repin \/ CheckoutHead \/ CheckoutRefs \/ Prune \/ PruneInterrupted
           \/ PushConfirm \/ PullAdvance \/ FinishSwitch \/ RepinSwitch \/ PullIndex \/ PullFails \/ Crash
           \/ (\E n \in Names, s \in Snapshots : CreateBranch(n, s))
           \/ (\E n \in Names : Checkout(n))
           \/ (\E n \in Names, force \in BOOLEAN : DeleteBranch(n, force))
           \/ (\E n \in Names : FastForward(n))
           \/ (\E tag \in Names, force \in BOOLEAN : Push(tag, force))
           \/ (\E tag \in Names, h \in BOOLEAN : Pull(tag, h))
           \/ UNCHANGED vars
  <2>1. created' = created /\ UNCHANGED aux
    BY <1>6 DEF Advance, RepairRefs, Repin, CheckoutHead, CheckoutRefs, Prune, PruneInterrupted, PushConfirm,
                PullAdvance, FinishSwitch, RepinSwitch, PullIndex, PullFails, Crash, CreateBranch, Checkout,
                DeleteBranch, FastForward, Push, Pull, vars, aux, history
  <2> QED
    BY <2>1, <1>1
<1>7. \A b \in Snapshots : {b} \in SUBSET Snapshots
  OBVIOUS
<1> QED
  BY <1>2, <1>3, <1>4, <1>5, <1>6, <1>7 DEF Next

-----------------------------------------------------------------------------
(* The theorems.                                                           *)

\* Type correctness: every pointer, ref table and pending write the operations of
\* brain.py produce is well formed, whatever interrupts them.
THEOREM TypeCorrect == Spec => []TypeOK
<1>1. HeldInv /\ PublicOK => TypeOK
  BY BoundAssumption DEF HeldInv, PublicOK, TypeOK, StateOK, Snapshots
<1> QED
  BY <1>1, HeldInit, HeldNext, PublicInit, PublicNext, PTL DEF Spec

\* The head pointer and every ref name a document the store holds, so Brain.open
\* and checkout can always read the version they are sent to.  This holds with
\* crashes, interrupted sweeps, failed pulls and branches started from a digest.
THEOREM HeadsAlwaysResolve == Spec => []HeadsResolve
<1>1. HeldInv => HeadsResolve
  BY DEF HeldInv, DocsHeld, HeadsResolve
<1> QED
  BY <1>1, HeldInit, HeldNext, PublicInit, PublicNext, PTL DEF Spec

-----------------------------------------------------------------------------
(* Roots stay whole, when no branch is started from a bare digest.         *)

\* A version held whole stays whole while the store grows and history is only
\* extended at a snapshot the store does not hold yet.
LEMMA WholeKept ==
    ASSUME docs \subseteq docs', comps \subseteq comps', blocks \subseteq blocks',
           \A x \in docs : members'[x] = members[x]
    PROVE  \A x : Whole(x) => Whole(x)'
BY DEF Whole

\* A head pointer moved to a whole version leaves every root whole.
LEMMA MoveHeadWhole ==
    ASSUME HeldInv, RootsWhole, NEW d \in docs, NEW o \in Origins, NEW r \in SUBSET docs,
           Whole(d), \A x \in r : Whole(x),
           head' = HeadState(d, o, r), UNCHANGED <<docs, comps, blocks, members, refs>>
    PROVE  RootsWhole'
<1>1. d \in Snapshots /\ r \in SUBSET Snapshots /\ StateOK
  BY DEF HeldInv, StateOK
<1>2. Retained(head') \subseteq {d} \cup r \cup Retained(head) \cup BranchHeads
  BY <1>1, HeadStateRetained
<1>3. Retained(head)' = Retained(head') /\ BranchHeads' = BranchHeads
  BY DEF Retained, Snapshots, BranchHeads, Held
<1>4. \A x : Whole(x) => Whole(x)'
  BY WholeKept
<1> QED
  BY <1>2, <1>3, <1>4 DEF RootsWhole

\* Refs that name whole versions only leave every root whole.
LEMMA MoveRefsWhole ==
    ASSUME RootsWhole, \A b \in Names : refs'.branches[b] # None => Whole(refs'.branches[b].snapshot),
           UNCHANGED <<docs, comps, blocks, members, head>>
    PROVE  RootsWhole'
<1>1. Retained(head)' = Retained(head)
  BY DEF Retained, Snapshots
<1>2. \A x : Whole(x) => Whole(x)'
  BY WholeKept
<1>3. \A x \in BranchHeads' : Whole(x)
  BY DEF BranchHeads, Held
<1> QED
  BY <1>1, <1>2, <1>3 DEF RootsWhole

\* Nothing but the store grows: roots and pending versions stay whole.
LEMMA GrowWhole ==
    ASSUME RootsWhole, docs \subseteq docs', comps \subseteq comps', blocks \subseteq blocks',
           \A x \in docs : members'[x] = members[x], UNCHANGED <<head, refs>>
    PROVE  RootsWhole'
<1>1. Retained(head)' = Retained(head) /\ BranchHeads' = BranchHeads
  BY DEF Retained, Snapshots, BranchHeads, Held
<1>2. \A x : Whole(x) => Whole(x)'
  BY WholeKept
<1> QED
  BY <1>1, <1>2 DEF RootsWhole

\* The table every ref-writing operation starts from names whole versions only.
LEMMA RecordedWhole ==
    ASSUME HeldInv, RootsWhole, head # None
    PROVE  /\ Whole(head.snapshot)
           /\ Recorded(Table) \in RefTable
           /\ \A b \in Names : Recorded(Table).branches[b] # None =>
                 Whole(Recorded(Table).branches[b].snapshot)
<1>1. Whole(head.snapshot)
  BY DEF HeldInv, DocsHeld, RootsWhole
<1> QED
  BY <1>1, RecordedTable DEF HeldInv, RootsWhole

\* A new version built from held blocks is whole, and disturbs no other.
LEMMA PutVersionWhole ==
    ASSUME HeldInv, NEW s \in Snapshots, s = created + 1,
           NEW from, NEW names \in SUBSET (blocks \cup {s}), PutVersion(s, from, names)
    PROVE  /\ docs \subseteq docs' /\ comps \subseteq comps' /\ blocks \subseteq blocks'
           /\ \A x \in docs : members'[x] = members[x]
           /\ s \in docs' /\ s \in comps' /\ members'[s] \subseteq blocks'
<1>1. s \notin docs
  BY DEF HeldInv, HistoryBounded, StateOK, Snapshots
<1>2. members' = [members EXCEPT ![s] = names] /\ members \in [Snapshots -> SUBSET Snapshots]
  BY DEF HeldInv, StateOK, PutVersion
<1>3. \A x \in docs : members'[x] = members[x]
  BY <1>1, <1>2 DEF HeldInv, StateOK
<1>4. members'[s] = names /\ docs' = docs \cup {s} /\ comps' = comps \cup {s}
      /\ blocks' = blocks \cup (names \cap {s})
  BY <1>2 DEF PutVersion
<1> QED
  BY <1>3, <1>4

\* Every step that installs, records or prunes keeps roots and pending versions whole.
LEMMA WholeNext ==
    ASSUME "digest" \notin Features, HeldInv, WholeInv, [Next]_vars
    PROVE  WholeInv'
<1> USE NoneAssumption
<1>t. StateOK /\ PendingOK /\ HistoryBounded /\ DocsHeld /\ RootsWhole /\ PendingWhole
  BY DEF HeldInv, WholeInv
<1>d. docs \subseteq Snapshots /\ Snapshots \subseteq Origins /\ None \in Origins
  BY <1>t DEF StateOK, Origins
<1>h. head # None => /\ head \in BrainState /\ head.snapshot \in docs /\ head.origin \in Origins
                     /\ Whole(head.snapshot)
  BY <1>t DEF StateOK, DocsHeld, BrainState, RootsWhole
<1>1. ASSUME NEW without \in SUBSET Snapshots, Write(without) PROVE WholeInv'
  <2> DEFINE s == created + 1
             from == IF head = None THEN {} ELSE {head.snapshot}
             base == IF head = None THEN {} ELSE members[head.snapshot]
  <2>1. s \in Snapshots /\ (base \ without) \cup {s} \in SUBSET (blocks \cup {s})
    BY <1>1, <1>h DEF Write, Whole
  <2>2. PutVersion(s, from, (base \ without) \cup {s}) /\ UNCHANGED <<head, refs>>
    BY <1>1 DEF Write
  <2> HIDE DEF from, base
  <2>3. /\ docs \subseteq docs' /\ comps \subseteq comps' /\ blocks \subseteq blocks'
        /\ \A x \in docs : members'[x] = members[x]
        /\ s \in docs' /\ s \in comps' /\ members'[s] \subseteq blocks'
    BY <2>1, <2>2, PutVersionWhole
  <2>4. pc' = [Idle EXCEPT !.step = "advance", !.digest = s,
                           !.origin = IF head = None THEN None ELSE head.origin]
    BY <1>1 DEF Write
  <2>5. PendingWhole'
    <3>1. pc'.digest = s /\ pc'.retain = {}
      BY <2>4 DEF Idle
    <3>2. Whole(pc.digest)'
      BY <2>3, <3>1 DEF Whole
    <3> QED
      BY <3>1, <3>2 DEF PendingWhole
  <2> QED
    BY <2>2, <2>3, <2>5, <1>t, GrowWhole DEF WholeInv
<1>2. ASSUME NEW name \in Names, NEW strategy \in {"merge", "squash"}, Reconcile(name, strategy)
      PROVE  WholeInv'
  <2> DEFINE s == created + 1
             from == IF strategy = "merge" THEN {head.snapshot, Theirs(name)} ELSE {head.snapshot}
  <2>1. head # None /\ Whole(Theirs(name))
    BY <1>2, <1>t, RecordedWhole DEF Reconcile, Joinable, Ready, Theirs, Held
  <2>2. s \in Snapshots /\ UNCHANGED <<head, refs>>
    BY <1>2 DEF Reconcile
  <2>3. \E names \in SUBSET (blocks \cup {s}) : PutVersion(s, from, names)
    BY <1>2 DEF Reconcile
  <2> HIDE DEF from
  <2>4. /\ docs \subseteq docs' /\ comps \subseteq comps' /\ blocks \subseteq blocks'
        /\ \A x \in docs : members'[x] = members[x]
        /\ s \in docs' /\ s \in comps' /\ members'[s] \subseteq blocks'
    BY <2>2, <2>3, PutVersionWhole
  <2>5. pc' = [Idle EXCEPT !.step = "advance", !.digest = s, !.origin = head.origin,
                           !.retain = IF strategy = "merge" THEN {Theirs(name)} ELSE {}]
    BY <1>2 DEF Reconcile
  <2>6. PendingWhole'
    <3>1. pc'.digest = s /\ \A x \in pc'.retain : Whole(x)
      BY <2>1, <2>5 DEF Idle
    <3>2. Whole(pc.digest)' /\ \A x \in pc'.retain : Whole(x)'
      BY <2>4, <3>1 DEF Whole
    <3> QED
      BY <3>2 DEF PendingWhole
  <2> QED
    BY <2>2, <2>4, <2>6, <1>t, GrowWhole DEF WholeInv
<1>3. ASSUME NEW tag \in Names, NEW from \in SUBSET Snapshots, PeerPush(tag, from) PROVE WholeInv'
  <2>1. created + 1 \notin docs
    BY <1>t DEF HistoryBounded, StateOK
  <2>2. \A x \in docs : members'[x] = members[x]
    BY <2>1, <1>3, <1>t DEF PeerPush, StateOK
  <2>3. UNCHANGED <<docs, comps, blocks, head, refs, pc>>
    BY <1>3 DEF PeerPush, store
  <2>4. RootsWhole'
    BY <2>2, <2>3, <1>t, GrowWhole
  <2>5. \A x : Whole(x) => Whole(x)'
    BY <2>2, <2>3, WholeKept
  <2>6. PendingWhole'
    BY <2>3, <2>5, <1>t DEF PendingWhole
  <2> QED
    BY <2>4, <2>6 DEF WholeInv
<1>4. ASSUME NEW tag \in Names, NEW withHistory \in BOOLEAN, Pull(tag, withHistory) PROVE WholeInv'
  <2> DEFINE source == served[tag]
             past == IF withHistory THEN Ancestry(source) ELSE {source}
             name == Destination(tag)
             t == Recorded(Table)
             ref == IF t.branches[name] # None THEN t.branches[name]
                                               ELSE [snapshot |-> head.snapshot, origin |-> None]
  <2>1. source \in past
    BY <1>4 DEF Pull, Ancestry, Closure, StateOK, Origins, HeldInv
  <2>2. /\ docs' = docs \cup past /\ comps' = comps \cup past /\ blocks' = blocks \cup members[source]
        /\ refs' = IF name = None \/ head = None THEN refs
                   ELSE [t EXCEPT !.branches[name] = ref, !.switching = name]
        /\ members' = members /\ head' = head
    BY <1>4 DEF Pull, history
  <2>3. pc'.digest = source /\ pc'.retain = {}
    BY <1>4 DEF Pull
  <2> HIDE DEF past
  <2>4. \A x : Whole(x) => Whole(x)'
    BY <2>2, WholeKept
  <2>5. PendingWhole'
    BY <2>1, <2>2, <2>3 DEF PendingWhole, Whole
  <2>6. Retained(head)' = Retained(head)
    BY <2>2 DEF Retained, Snapshots
  <2>7. \A x \in BranchHeads' : Whole(x)
    <3>1. CASE name = None \/ head = None
      <4>1. BranchHeads' = BranchHeads
        BY <3>1, <2>2 DEF BranchHeads, Held
      <4> QED
        BY <4>1, <1>t DEF RootsWhole
    <3>2. CASE name # None /\ head # None
      <4>1. name \in Names
        BY <3>2 DEF Destination
      <4>2. t \in RefTable /\ \A b \in Names : t.branches[b] # None => Whole(t.branches[b].snapshot)
        BY <3>2, <1>t, RecordedWhole
      <4>3. Whole(ref.snapshot)
        BY <4>1, <4>2, <3>2, <1>h
      <4>4. refs' = [t EXCEPT !.branches[name] = ref, !.switching = name]
        BY <2>2, <3>2
      <4> HIDE DEF t, ref, name
      <4>5. \A b \in Names : refs'.branches[b] # None => Whole(refs'.branches[b].snapshot)
        BY <4>1, <4>2, <4>3, <4>4 DEF RefTable
      <4> QED
        BY <4>5 DEF BranchHeads, Held
    <3> QED
      BY <3>1, <3>2
  <2>8. RootsWhole'
    BY <2>4, <2>6, <2>7, <1>t DEF RootsWhole
  <2> QED
    BY <2>5, <2>8 DEF WholeInv
<1>5. CASE Advance \/ Repin \/ PullAdvance
  <2>1. /\ pc.digest \in docs /\ pc.origin \in Origins /\ pc.retain \in SUBSET docs /\ {} \in SUBSET docs
        /\ Whole(pc.digest) /\ \A x \in pc.retain : Whole(x)
    BY <1>5, <1>t DEF Advance, Repin, PullAdvance, PendingOK, StateOK, Pending, PendingWhole
  <2>2. /\ head' = HeadState(pc.digest, pc.origin, pc.retain) \/ head' = HeadState(pc.digest, pc.origin, {})
        /\ UNCHANGED <<docs, comps, blocks, members, refs>>
    BY <1>5 DEF Advance, Repin, PullAdvance, store, history
  <2>3. RootsWhole'
    BY <2>1, <2>2, <1>t, MoveHeadWhole
  <2>4. pc'.step \in {"idle", "pull_index", "switch_finish"} /\ \A x \in pc'.retain : x \in pc.retain
    BY <1>5, <1>t DEF Advance, Repin, PullAdvance, Idle, StateOK, Pending
  <2>5. \A x : Whole(x) => Whole(x)'
    BY <2>2, WholeKept
  <2>6. PendingWhole'
    BY <2>1, <2>4, <2>5 DEF PendingWhole
  <2> QED
    BY <2>3, <2>6 DEF WholeInv
<1>6. CASE CheckoutHead \/ RepinSwitch \/ \E name \in Names : FastForward(name)
  <2>1. \E d \in docs, o \in Origins : Whole(d) /\ head' = HeadState(d, o, {})
    <3>1. CASE CheckoutHead
      <4>1. /\ pc.name \in Names /\ refs # None
            /\ refs.branches[pc.name] \in BranchRef /\ refs.branches[pc.name] # None
        BY <3>1, <1>t DEF CheckoutHead, PendingOK
      <4>2. refs.branches[pc.name].snapshot \in BranchHeads /\ refs.branches[pc.name].origin \in Origins
        BY <4>1 DEF BranchHeads, Held, BranchRef
      <4> QED
        BY <3>1, <4>2, <1>t DEF CheckoutHead, RootsWhole, DocsHeld
    <3>2. CASE RepinSwitch
      <4>1. head # None
        BY <3>2, <1>t DEF RepinSwitch, PendingOK
      <4> QED
        BY <3>2, <4>1, <1>h DEF RepinSwitch
    <3>3. ASSUME NEW name \in Names, FastForward(name)
          PROVE  \E d \in docs, o \in Origins : Whole(d) /\ head' = HeadState(d, o, {})
      <4>1. head # None /\ head.origin \in Origins /\ Whole(Theirs(name))
        BY <3>3, <1>h, <1>t, RecordedWhole DEF FastForward, Joinable, Ready, Theirs, Held
      <4> QED
        BY <3>3, <4>1 DEF FastForward, Whole
    <3> QED
      BY <1>6, <3>1, <3>2, <3>3
  <2>2. UNCHANGED <<docs, comps, blocks, members, refs>>
    BY <1>6 DEF CheckoutHead, RepinSwitch, FastForward, store, history
  <2>3. {} \in SUBSET docs /\ \A x \in {} : Whole(x)
    OBVIOUS
  <2>4. RootsWhole'
    BY <2>1, <2>2, <2>3, <1>t, MoveHeadWhole
  <2>5. pc'.step \in {"idle", "checkout_refs", "pull_index"} /\ pc'.retain = pc.retain
    BY <1>6, <1>t DEF CheckoutHead, RepinSwitch, FastForward, Joinable, Ready, Idle, StateOK, Pending
  <2>6. \A x : Whole(x) => Whole(x)'
    BY <2>2, WholeKept
  <2>7. PendingWhole'
    BY <2>5, <2>6, <1>t DEF PendingWhole
  <2> QED
    BY <2>4, <2>7 DEF WholeInv
<1>7. CASE RepairRefs \/ CheckoutRefs
  <2>1. refs \in RefTable /\ refs # None
    BY <1>7, <1>t DEF RepairRefs, CheckoutRefs, PendingOK, StateOK
  <2>2. refs'.branches = refs.branches
    BY <1>7, <2>1 DEF RepairRefs, CheckoutRefs, Repaired, RefTable
  <2>3. UNCHANGED <<docs, comps, blocks, members, head>>
    BY <1>7 DEF RepairRefs, CheckoutRefs, store, history
  <2>4. \A b \in Names : refs'.branches[b] # None => Whole(refs'.branches[b].snapshot)
    BY <2>1, <2>2, <1>t DEF RootsWhole, BranchHeads, Held
  <2>5. RootsWhole'
    BY <2>3, <2>4, <1>t, MoveRefsWhole
  <2>6. pc' = Idle
    BY <1>7 DEF RepairRefs, CheckoutRefs
  <2> QED
    BY <2>5, <2>6 DEF WholeInv, PendingWhole, Idle
<1>8. ASSUME NEW name \in Names,
             \/ \E start \in Snapshots : CreateBranch(name, start)
             \/ Checkout(name)
             \/ \E force \in BOOLEAN : DeleteBranch(name, force)
      PROVE  WholeInv'
  <2>1. head # None
    BY <1>8 DEF CreateBranch, Checkout, DeleteBranch, Ready
  <2>2. /\ Recorded(Table) \in RefTable /\ Whole(head.snapshot)
        /\ \A b \in Names : Recorded(Table).branches[b] # None => Whole(Recorded(Table).branches[b].snapshot)
    BY <2>1, <1>t, RecordedWhole
  <2>3. \A b \in Names : refs'.branches[b] # None => Whole(refs'.branches[b].snapshot)
    <3>1. ASSUME NEW start \in Snapshots, CreateBranch(name, start)
          PROVE  \A b \in Names : refs'.branches[b] # None => Whole(refs'.branches[b].snapshot)
      <4>1. Whole(start)
        BY <3>1, <2>2 DEF CreateBranch, StartPoints, Held
      <4>2. refs' = [Recorded(Table) EXCEPT !.branches[name] = [snapshot |-> start, origin |-> None]]
        BY <3>1 DEF CreateBranch
      <4> QED
        BY <4>1, <4>2, <2>2 DEF RefTable
    <3>2. CASE Checkout(name)
      BY <3>2, <2>2 DEF Checkout, RefTable
    <3>3. ASSUME NEW force \in BOOLEAN, DeleteBranch(name, force)
          PROVE  \A b \in Names : refs'.branches[b] # None => Whole(refs'.branches[b].snapshot)
      <4>1. refs' = [Recorded(Table) EXCEPT !.branches[name] = None]
        BY <3>3 DEF DeleteBranch
      <4> QED
        BY <4>1, <2>2 DEF RefTable
    <3> QED
      BY <1>8, <3>1, <3>2, <3>3
  <2>4. UNCHANGED <<docs, comps, blocks, members, head>>
    BY <1>8 DEF CreateBranch, Checkout, DeleteBranch, store, history
  <2>5. RootsWhole'
    BY <2>3, <2>4, <1>t, MoveRefsWhole
  <2>6. pc'.retain = {} /\ (pc'.step = "checkout_head" \/ pc'.digest = head.snapshot)
    BY <1>8 DEF CreateBranch, Checkout, DeleteBranch, Idle
  <2>7. \A x : Whole(x) => Whole(x)'
    BY <2>4, WholeKept
  <2>8. PendingWhole'
    BY <2>2, <2>6, <2>7 DEF PendingWhole
  <2> QED
    BY <2>5, <2>8 DEF WholeInv
<1>9. CASE FinishSwitch
  <2>1. pc.name \in Names /\ head # None /\ Whole(head.snapshot)
    BY <1>9, <1>t, <1>h DEF FinishSwitch, PendingOK
  <2> DEFINE held == IF refs # None THEN refs.branches ELSE [b \in Names |-> None]
  <2>2. held \in [Names -> BranchRef \cup {None}]
    BY <1>t DEF StateOK, RefTable
  <2>3. \A b \in Names : held[b] # None => Whole(held[b].snapshot)
    BY <1>t DEF RootsWhole, BranchHeads, Held
  <2>4. refs'.branches = [held EXCEPT ![pc.name] = [snapshot |-> head.snapshot, origin |-> head.origin]]
    BY <1>9 DEF FinishSwitch
  <2>5. UNCHANGED <<docs, comps, blocks, members, head>>
    BY <1>9 DEF FinishSwitch, store, history
  <2> HIDE DEF held
  <2>6. \A b \in Names : refs'.branches[b] # None => Whole(refs'.branches[b].snapshot)
    BY <2>1, <2>2, <2>3, <2>4
  <2>7. RootsWhole'
    BY <2>5, <2>6, <1>t, MoveRefsWhole
  <2>8. pc'.step = "switch_repin" /\ pc'.retain = pc.retain
    BY <1>9, <1>t DEF FinishSwitch, StateOK, Pending
  <2>9. \A x : Whole(x) => Whole(x)'
    BY <2>5, WholeKept
  <2>10. PendingWhole'
    BY <2>8, <2>9, <1>t DEF PendingWhole
  <2> QED
    BY <2>7, <2>10 DEF WholeInv
<1>10. CASE Prune \/ PruneInterrupted
  <2>1. /\ docs \cap KeptDocs \subseteq docs' /\ comps \cap KeptComps \subseteq comps'
        /\ blocks \cap KeptBlocks \subseteq blocks'
    BY <1>10 DEF Prune, PruneInterrupted
  <2>2. UNCHANGED <<members, head, refs, pc>> /\ pc = Idle
    BY <1>10 DEF Prune, PruneInterrupted, history
  <2>3. \A r \in Retained(head) \cup BranchHeads : r \in Roots /\ r \in comps /\ Whole(r)
    BY <1>t DEF RootsWhole, Roots, Whole
  <2>4. \A r \in Retained(head) \cup BranchHeads : Whole(r)'
    BY <2>1, <2>2, <2>3 DEF Whole, KeptDocs, KeptComps, KeptBlocks
  <2>5. Retained(head)' = Retained(head) /\ BranchHeads' = BranchHeads
    BY <2>2 DEF Retained, Snapshots, BranchHeads, Held
  <2> QED
    BY <2>2, <2>4, <2>5 DEF WholeInv, RootsWhole, PendingWhole, Idle
<1>11. CASE \/ \E tag \in Names, force \in BOOLEAN : Push(tag, force)
            \/ \E tag \in Names, s \in Snapshots : PeerRepush(tag, s)
            \/ PushUpload \/ PushConfirm \/ PullIndex \/ PullFails \/ Crash \/ UNCHANGED vars
  <2>1. UNCHANGED <<docs, comps, blocks, members, head, refs>>
    BY <1>11 DEF Push, PeerRepush, PushUpload, PushConfirm, PullIndex, PullFails, Crash, store, history, vars
  <2>2. RootsWhole'
    BY <2>1, <1>t, GrowWhole
  <2>3. \A x : Whole(x) => Whole(x)'
    BY <2>1, WholeKept
  <2>4. PendingWhole'
    <3>1. CASE \E tag \in Names, force \in BOOLEAN : Push(tag, force)
      <4>1. Whole(head.snapshot) /\ pc'.digest = head.snapshot /\ pc'.retain = {}
        BY <3>1, <1>h DEF Push, Ready, Idle
      <4> QED
        BY <4>1, <2>3 DEF PendingWhole
    <3>2. CASE PushUpload
      <4>1. Whole(pc.digest) /\ pc'.digest = pc.digest /\ pc'.retain = pc.retain
        BY <3>2, <1>t DEF PushUpload, PendingWhole, StateOK, Pending
      <4> QED
        BY <4>1, <2>3, <1>t DEF PendingWhole
    <3>3. CASE PushConfirm
      <4>1. Whole(pc.digest) /\ (pc' = Idle \/ pc'.digest = pc.digest) /\ pc'.retain = {}
        BY <3>3, <1>t DEF PushConfirm, PendingWhole, Idle
      <4> QED
        BY <4>1, <2>3 DEF PendingWhole, Idle
    <3>4. CASE PullIndex \/ PullFails \/ Crash
      BY <3>4 DEF PullIndex, PullFails, Crash, PendingWhole, Idle
    <3>5. CASE UNCHANGED vars \/ \E tag \in Names, s \in Snapshots : PeerRepush(tag, s)
      <4>1. pc' = pc
        BY <3>5 DEF vars, PeerRepush
      <4> QED
        BY <4>1, <2>3, <1>t DEF PendingWhole
    <3> QED
      BY <1>11, <3>1, <3>2, <3>3, <3>4, <3>5
  <2> QED
    BY <2>2, <2>4 DEF WholeInv
<1>12. \A b \in Snapshots : {b} \in SUBSET Snapshots
  OBVIOUS
<1> QED
  BY <1>1, <1>2, <1>3, <1>4, <1>5, <1>6, <1>7, <1>8, <1>9, <1>10, <1>11, <1>12 DEF Next

\* "There is no state in which a root names a block the store does not hold"
\* (brain.py:19), proved for every brain that starts branches from the current
\* snapshot or another branch; the run BranchesDigest shows why the premise is there.
THEOREM RootsAlwaysWhole ==
    ASSUME "digest" \notin Features
    PROVE  Spec => []RootsWhole
<1>1. Init => WholeInv
  BY DEF Init, WholeInv, RootsWhole, PendingWhole, Retained, BranchHeads, Idle
<1>2. HeldInv /\ WholeInv /\ [Next]_vars => WholeInv'
  BY WholeNext
<1>3. WholeInv => RootsWhole
  BY DEF WholeInv
<1> QED
  BY <1>1, <1>2, <1>3, HeldInit, HeldNext, PublicInit, PublicNext, PTL DEF Spec

-----------------------------------------------------------------------------
(* An interrupted checkout is decided the way _read_refs says.             *)

\* No other operation runs while a checkout does, and a publisher elsewhere does
\* not touch the pointers.
LEMMA MarkedNext ==
    ASSUME HeldInv, CheckoutMarked, [Next]_vars
    PROVE  CheckoutMarked'
<1> USE NoneAssumption
<1>t. StateOK /\ PendingOK
  BY DEF HeldInv
<1>1. ASSUME NEW name \in Names, Checkout(name) PROVE CheckoutMarked'
  <2>1. Recorded(Table) \in RefTable
    BY <1>1, RecordedHeld DEF Checkout, Ready
  <2>2. refs'.switching = name /\ pc'.name = name /\ pc'.step = "checkout_head"
    BY <1>1, <2>1 DEF Checkout, Idle, RefTable
  <2> QED
    BY <2>2 DEF CheckoutMarked
<1>2. CASE CheckoutHead
  <2>1. /\ pc.name \in Names /\ refs \in RefTable /\ refs # None
        /\ refs.branches[pc.name] \in BranchRef /\ refs.branches[pc.name] # None
    BY <1>2, <1>t DEF CheckoutHead, PendingOK
  <2>2. refs.branches[pc.name].snapshot \in docs /\ refs.branches[pc.name].origin \in Origins
    BY <2>1 DEF HeldInv, DocsHeld, BranchHeads, Held, BranchRef
  <2>3. head' \in BrainState /\ head'.snapshot = refs.branches[pc.name].snapshot
    BY <2>2, <1>2, MoveHead DEF CheckoutHead, store
  <2> QED
    BY <2>3, <1>2, <1>t DEF CheckoutHead, CheckoutMarked, StateOK, Pending
<1>3. CASE \E tag \in Names : \/ \E from \in SUBSET Snapshots : PeerPush(tag, from)
                             \/ \E s \in Snapshots : PeerRepush(tag, s)
  <2>1. UNCHANGED <<head, refs, pc>>
    BY <1>3 DEF PeerPush, PeerRepush
  <2> QED
    BY <2>1 DEF CheckoutMarked
<1>4. CASE UNCHANGED vars
  BY <1>4 DEF CheckoutMarked, vars
<1>5. CASE /\ ~ \E name \in Names : \/ Checkout(name)
                                   \/ \E from \in SUBSET Snapshots : PeerPush(name, from)
                                   \/ \E s \in Snapshots : PeerRepush(name, s)
           /\ ~ CheckoutHead /\ ~ UNCHANGED vars
  <2>1. pc'.step \notin {"checkout_head", "checkout_refs"}
    <3>1. CASE \E b \in SUBSET Snapshots : Write(b)
      BY <3>1 DEF Write, Idle
    <3>2. CASE Advance \/ RepairRefs \/ Repin \/ CheckoutRefs \/ PullIndex \/ PullFails \/ Crash
                \/ Prune \/ PruneInterrupted
      BY <3>2 DEF Advance, RepairRefs, Repin, CheckoutRefs, PullIndex, PullFails, Crash, Prune,
                  PruneInterrupted, Idle
    <3>3. CASE \E n \in Names : (\E s \in Snapshots : CreateBranch(n, s)) \/ FastForward(n)
      <4>1. pc' = Idle \/ pc' = [Idle EXCEPT !.step = "repin", !.digest = head.snapshot, !.origin = head.origin]
        BY <3>3 DEF CreateBranch, FastForward, Joinable, Ready
      <4>2. Idle.step = "idle"
            /\ [Idle EXCEPT !.step = "repin", !.digest = head.snapshot, !.origin = head.origin].step = "repin"
        BY DEF Idle
      <4> QED
        BY <4>1, <4>2
    <3>4. CASE \E n \in Names, force \in BOOLEAN : DeleteBranch(n, force)
      BY <3>4 DEF DeleteBranch, Idle
    <3>5. CASE \E n \in Names, strategy \in {"merge", "squash"} : Reconcile(n, strategy)
      BY <3>5 DEF Reconcile, Idle
    <3>6. CASE PushConfirm \/ \E tag \in Names, force \in BOOLEAN : Push(tag, force)
      <4>1. CASE \E tag \in Names, force \in BOOLEAN : Push(tag, force)
        BY <4>1 DEF Push, Idle
      <4>2. CASE PushConfirm
        <5>1. pc' = Idle \/ pc' = [Idle EXCEPT !.step = "advance", !.digest = pc.digest, !.origin = pc.digest]
          BY <4>2 DEF PushConfirm
        <5>2. Idle.step = "idle"
              /\ [Idle EXCEPT !.step = "advance", !.digest = pc.digest, !.origin = pc.digest].step = "advance"
          BY DEF Idle
        <5> QED
          BY <5>1, <5>2
      <4> QED
        BY <3>6, <4>1, <4>2
    <3>7. CASE PushUpload \/ PullAdvance \/ FinishSwitch \/ RepinSwitch
      BY <3>7, <1>t DEF PushUpload, PullAdvance, FinishSwitch, RepinSwitch, StateOK, Pending
    <3>8. CASE \E n \in Names, h \in BOOLEAN : Pull(n, h)
      BY <3>8 DEF Pull
    <3>9. \A b \in Snapshots : {b} \in SUBSET Snapshots
      OBVIOUS
    <3> QED
      BY <1>5, <3>1, <3>2, <3>3, <3>4, <3>5, <3>6, <3>7, <3>8, <3>9 DEF Next
  <2> QED
    BY <2>1 DEF CheckoutMarked
<1> QED
  BY <1>1, <1>2, <1>3, <1>4, <1>5

\* A checkout interrupted at any point, on any handle that reads its refs next, is
\* undone if the head had not moved and finished if it had.
THEOREM CheckoutAlwaysDecided == Spec => []CheckoutDecided
<1>1. Init => CheckoutMarked
  BY DEF Init, CheckoutMarked, Idle
<1>2. HeldInv /\ CheckoutMarked /\ [Next]_vars => CheckoutMarked'
  BY MarkedNext
<1>3. HeldInv /\ CheckoutMarked => CheckoutDecided
  <2> SUFFICES ASSUME HeldInv, CheckoutMarked PROVE CheckoutDecided
    OBVIOUS
  <2>1. pc.step \in {"checkout_head", "checkout_refs"} =>
          /\ refs \in RefTable /\ refs.switching = pc.name /\ pc.name \in Names
          /\ pc.name # None /\ refs.branches[pc.name] # None
    BY NoneAssumption, NamesAssumption DEF HeldInv, PendingOK, CheckoutMarked
  <2>2. pc.step = "checkout_refs" => head # None /\ head.snapshot = refs.branches[pc.name].snapshot
    BY NoneAssumption DEF CheckoutMarked
  <2> QED
    BY <2>1, <2>2 DEF CheckoutDecided, Repaired, RefTable
<1> QED
  BY <1>1, <1>2, <1>3, HeldInit, HeldNext, PublicInit, PublicNext, PTL DEF Spec

-----------------------------------------------------------------------------
(* Histories.                                                              *)

\* The history that parents P give snapshot s.
Past(P, s) ==
    {x \in Snapshots :
        \A C \in SUBSET Snapshots :
            (s \in C /\ \A c \in C \cap Snapshots : P[c] \subseteq C) => x \in C}

Lines == [Snapshots -> SUBSET Snapshots]

\* Lemma: a history has its snapshot and all it stands on.
LEMMA PastClosed ==
    ASSUME NEW P \in Lines, NEW s \in Snapshots
    PROVE  /\ s \in Past(P, s) /\ Past(P, s) \in SUBSET Snapshots
           /\ \A c \in Past(P, s) : P[c] \subseteq Past(P, s)
<1>1. s \in Past(P, s) /\ Past(P, s) \in SUBSET Snapshots
  BY DEF Past
<1>2. ASSUME NEW c \in Past(P, s), NEW x \in P[c] PROVE x \in Past(P, s)
  <2>1. c \in Snapshots /\ x \in Snapshots
    BY <1>1 DEF Lines
  <2>2. ASSUME NEW C \in SUBSET Snapshots, s \in C, \A d \in C \cap Snapshots : P[d] \subseteq C
        PROVE  x \in C
    BY <2>1, <2>2 DEF Past
  <2> QED
    BY <2>1, <2>2 DEF Past
<1> QED
  BY <1>1, <1>2

\* Lemma: and nothing else.
LEMMA PastLeast ==
    ASSUME NEW P, NEW C \in SUBSET Snapshots, NEW s \in C, \A c \in C : P[c] \subseteq C
    PROVE  Past(P, s) \subseteq C
BY DEF Past

\* Lemma: the history of what is in a history is in it.
LEMMA PastTrans ==
    ASSUME NEW P \in Lines, NEW s \in Snapshots, NEW x \in Past(P, s)
    PROVE  Past(P, x) \subseteq Past(P, s)
BY PastClosed, PastLeast

\* Lemma: versions made later are in no history there is.
LEMMA PastStable ==
    ASSUME NEW P \in Lines, NEW Q \in Lines, NEW S \in SUBSET Snapshots, NEW s \in S,
           \A c \in S : P[c] \subseteq S /\ Q[c] = P[c]
    PROVE  Past(Q, s) = Past(P, s) /\ Past(P, s) \subseteq S
<1>1. Past(P, s) \subseteq S /\ Past(Q, s) \subseteq S
  BY PastLeast
<1>2. s \in Past(P, s) /\ \A c \in Past(P, s) : P[c] \subseteq Past(P, s)
  BY PastClosed
<1>3. s \in Past(Q, s) /\ \A c \in Past(Q, s) : Q[c] \subseteq Past(Q, s)
  BY PastClosed
<1>4. Past(P, s) \in SUBSET Snapshots /\ Past(Q, s) \in SUBSET Snapshots
  BY PastClosed
<1>5. Past(Q, s) \subseteq Past(P, s)
  <2>1. \A c \in Past(P, s) : Q[c] \subseteq Past(P, s)
    BY <1>1, <1>2
  <2> QED
    BY <1>2, <1>4, <2>1, PastLeast
<1>6. Past(P, s) \subseteq Past(Q, s)
  <2>1. \A c \in Past(Q, s) : P[c] \subseteq Past(Q, s)
    BY <1>1, <1>3
  <2> QED
    BY <1>3, <1>4, <2>1, PastLeast
<1> QED
  BY <1>1, <1>5, <1>6

\* Lemma: what the store can walk to is in the history that is stated.
LEMMA ReachedPast ==
    ASSUME StateOK, NEW s \in Snapshots
    PROVE  ReachableFrom(s) \subseteq Past(parents, s) /\ Ancestry(s) = Past(parents, s)
<1>1. Ancestry(s) = Past(parents, s)
  BY DEF Ancestry, Closure, Past
<1>2. /\ s \in Past(parents, s) /\ Past(parents, s) \in SUBSET Snapshots
      /\ \A c \in Past(parents, s) : parents[c] \subseteq Past(parents, s)
  BY PastClosed DEF StateOK, Lines
<1>3. ReachableFrom(s) \subseteq Past(parents, s)
  BY <1>2, ClosureLeast DEF ReachableFrom
<1> QED
  BY <1>1, <1>3

\* The snapshots there are.
Made == 1 .. created

\* Lemma: what is stated of the histories of snapshots there are.
LEMMA MadeFacts ==
    ASSUME HeldInv
    PROVE  /\ Made \in SUBSET Snapshots /\ parents \in Lines /\ docs \subseteq Made
           /\ \A c \in Made : parents[c] \subseteq Made
           /\ \A t \in Names : served[t] # None => served[t] \in Made
<1>1. created \in 0 .. MaxSnapshots /\ MaxSnapshots \in Nat
  BY BoundAssumption DEF HeldInv, StateOK
<1>2. Made \in SUBSET Snapshots
  BY <1>1 DEF Made, Snapshots
<1> QED
  BY <1>2 DEF Made, HeldInv, StateOK, HistoryBounded, Lines

\* Lemma: a step that makes at most one more snapshot leaves the histories there are.
LEMMA PastKept ==
    ASSUME HeldInv, HeldInv',
           \/ parents' = parents
           \/ created + 1 \in Snapshots /\ \E from : parents' = [parents EXCEPT ![created + 1] = from],
           NEW s \in Made
    PROVE  Past(parents', s) = Past(parents, s) /\ Past(parents, s) \subseteq Made
<1>1. /\ Made \in SUBSET Snapshots /\ parents \in Lines /\ parents' \in Lines
      /\ \A c \in Made : parents[c] \subseteq Made
  BY MadeFacts DEF HeldInv, StateOK, Lines
<1>2. created \in Nat
  BY BoundAssumption DEF HeldInv, StateOK
<1>3. \A c \in Made : c # created + 1
  BY <1>2 DEF Made
<1>4. \A c \in Made : parents'[c] = parents[c]
  BY <1>1, <1>3 DEF Lines
<1> QED
  BY <1>1, <1>4, PastStable

-----------------------------------------------------------------------------
(* Origins are published.                                                  *)

\* Snapshot x is in the history of a tag, or of a tag other than n.
On(x) == \E t \in Names : served[t] # None /\ x \in Past(parents, served[t])
OnBut(n, x) == \E t \in Names \ {n} : served[t] # None /\ x \in Past(parents, served[t])

\* Snapshot o was published with its history, of which only what somebody took out is gone.
Pub(o) == o \in Made /\ \A x \in Past(parents, o) : x \in taken \/ On(x)

\* What a step that publishes nothing leaves alone.
Tags == <<parents, created, served, taken>>

\* Every origin a pointer or a running call has.
HeadOrigins == IF head = None THEN {} ELSE {head.origin}
RefOrigins == IF refs = None THEN {} ELSE {refs.branches[b].origin : b \in Held(refs)}
Pends(p) == IF p.step \in {"advance", "repin", "pull_advance", "switch_advance"} THEN {p.origin} ELSE {}
AllOrigins == HeadOrigins \cup RefOrigins \cup Pends(pc)

\* A push that found its tag in its own history has all that the tag alone publishes of what
\* the origins name; once it wrote the tag, what it pushed is published.
PushOK ==
    /\ pc.step \in {"push_upload", "push_force", "push_confirm"} => head # None /\ pc.digest = head.snapshot
    /\ pc.step = "push_upload" =>
          \A o \in AllOrigins \ {None} : \A x \in Past(parents, o) :
              x \in taken \/ x \in Past(parents, pc.digest) \/ OnBut(pc.name, x)
    /\ pc.step = "push_confirm" => Pub(pc.digest)

OriginInv == (\A o \in AllOrigins \ {None} : Pub(o)) /\ PushOK

\* Lemma: a step that publishes nothing and takes no origin from elsewhere.
LEMMA SameOrigins ==
    ASSUME OriginInv, parents' = parents, created' = created, served' = served, taken' = taken,
           AllOrigins' \subseteq AllOrigins \cup {None},
           pc'.step \notin {"push_upload", "push_force", "push_confirm"}
    PROVE  OriginInv'
<1>1. \A o \in AllOrigins' \ {None} : Pub(o)'
  BY DEF OriginInv, Pub, On, Made
<1> QED
  BY <1>1 DEF OriginInv, PushOK

\* Lemma: the origins after a step that writes the head pointer or the refs.
LEMMA OriginsOf ==
    ASSUME NEW O,
           head' = head \/ head'.origin \in O,
           refs' = refs \/ \A b \in Held(refs') : refs'.branches[b].origin \in O,
           Pends(pc') \subseteq O, AllOrigins \subseteq O
    PROVE  AllOrigins' \subseteq O
<1>1. HeadOrigins' \subseteq O
  BY DEF HeadOrigins, AllOrigins
<1>2. RefOrigins' \subseteq O
  <2>1. CASE refs' = refs
    BY <2>1 DEF RefOrigins, AllOrigins, Held
  <2>2. CASE \A b \in Held(refs') : refs'.branches[b].origin \in O
    BY <2>2 DEF RefOrigins, Held
  <2> QED
    BY <2>1, <2>2
<1> QED
  BY <1>1, <1>2 DEF AllOrigins, Pends

\* Lemma: the origins of the table that operations start from.
LEMMA RecordedOrigins ==
    ASSUME StateOK, head # None
    PROVE  /\ Recorded(Table) \in RefTable
           /\ \A b \in Held(Recorded(Table)) : Recorded(Table).branches[b].origin \in AllOrigins \cup {None}
<1> USE NoneAssumption
<1>1. /\ Table \in RefTable /\ Recorded(Table) \in RefTable /\ head.origin \in AllOrigins
  BY RecordedTable DEF AllOrigins, HeadOrigins
<1>2. Recorded(Table).branches = [Table.branches EXCEPT
            ![Table.current] = [snapshot |-> head.snapshot, origin |-> head.origin]]
  BY <1>1 DEF Recorded, RefTable
<1>3. Table.branches \in [Names -> BranchRef \cup {None}] /\ Table.current \in Names
  BY <1>1 DEF RefTable
<1>4. ASSUME NEW b \in Held(Recorded(Table)) PROVE Recorded(Table).branches[b].origin \in AllOrigins \cup {None}
  <2>1. b \in Names /\ Recorded(Table).branches[b] # None
    BY <1>4 DEF Held
  <2>2. CASE b = Table.current
    <3>1. Recorded(Table).branches[b] = [snapshot |-> head.snapshot, origin |-> head.origin]
      BY <1>2, <1>3, <2>2
    <3> QED
      BY <1>1, <3>1
  <2>3. CASE b # Table.current
    <3>1. Recorded(Table).branches[b] = Table.branches[b]
      BY <1>2, <1>3, <2>1, <2>3
    <3>2. CASE refs = None
      <4>1. Table.branches[b] = IF b = Main THEN [snapshot |-> head.snapshot, origin |-> None] ELSE None
        BY <3>2, <2>1 DEF Table
      <4> QED
        BY <2>1, <3>1, <4>1
    <3>3. CASE refs # None
      <4>1. b \in Held(refs) /\ Table = refs
        BY <2>1, <3>1, <3>3 DEF Table, Held
      <4> QED
        BY <3>1, <3>3, <4>1 DEF AllOrigins, RefOrigins
    <3> QED
      BY <3>2, <3>3
  <2> QED
    BY <2>2, <2>3
<1> QED
  BY <1>1, <1>4

\* Lemma: what was published stays so while at most one more snapshot is made, and whatever a
\* tag's new version does not descend from counts as taken.
LEMMA StillPublished ==
    ASSUME HeldInv, HeldInv', created' \in {created, created + 1}, taken \subseteq taken',
           \/ parents' = parents
           \/ created + 1 \in Snapshots /\ \E from : parents' = [parents EXCEPT ![created + 1] = from],
           \A t \in Names : served[t] # None =>
               \/ served'[t] = served[t]
               \/ served'[t] # None /\ Past(parents, served[t]) \subseteq taken' \cup Past(parents', served'[t])
    PROVE  /\ \A o : Pub(o) => Pub(o)'
           /\ \A n, x : OnBut(n, x) => x \in taken' \/ OnBut(n, x)'
           /\ \A o \in Made : o \in Made' /\ Past(parents', o) = Past(parents, o)
<1>1. Made \subseteq Made' /\ \A o \in Made : Past(parents', o) = Past(parents, o)
  <2>1. created \in Nat
    BY DEF HeldInv, StateOK
  <2>2. Made \subseteq Made'
    BY <2>1 DEF Made
  <2> QED
    BY <2>2, PastKept
<1>2. ASSUME NEW t \in Names, served[t] # None
      PROVE  /\ served'[t] # None
             /\ \A x \in Past(parents, served[t]) : x \in taken' \/ x \in Past(parents', served'[t])
  <2>1. Past(parents', served[t]) = Past(parents, served[t])
    BY <1>1, <1>2, MadeFacts
  <2> QED
    BY <1>2, <2>1
<1>3. \A n, x : OnBut(n, x) => x \in taken' \/ OnBut(n, x)'
  BY <1>2 DEF OnBut
<1>4. \A x : On(x) => x \in taken' \/ On(x)'
  BY <1>2 DEF On
<1>5. ASSUME NEW o, Pub(o) PROVE Pub(o)'
  <2>1. o \in Made' /\ Past(parents', o) = Past(parents, o)
    BY <1>1, <1>5 DEF Pub
  <2> QED
    BY <1>4, <1>5, <2>1 DEF Pub
<1> QED
  BY <1>1, <1>3, <1>5

\* Lemma: another client's write is such a step, whether it extends its tag or not.
LEMMA PeerPushTakes ==
    ASSUME HeldInv, HeldInv', PublicOK, NEW tag \in Names, NEW from \in SUBSET Snapshots, PeerPush(tag, from)
    PROVE  /\ created' = created + 1 /\ taken \subseteq taken' /\ created + 1 \in Snapshots
           /\ parents' = [parents EXCEPT ![created + 1] = from]
           /\ \A t \in Names : served[t] # None =>
                \/ served'[t] = served[t]
                \/ served'[t] # None /\ Past(parents, served[t]) \subseteq taken' \cup Past(parents', served'[t])
<1> DEFINE s == created + 1
<1>1. /\ s \in Snapshots /\ parents' = [parents EXCEPT ![s] = from] /\ served' = [served EXCEPT ![tag] = s]
      /\ created' = s /\ from \subseteq public
      /\ taken' = taken \cup (TagHistory(tag) \ UNION {Ancestry(p) : p \in from})
  BY DEF PeerPush
<1>2. \A p \in Made : Past(parents', p) = Past(parents, p) /\ Ancestry(p) = Past(parents, p)
  BY <1>1, PastKept, ReachedPast, MadeFacts DEF HeldInv
<1>3. from \subseteq Made /\ Made \in SUBSET Snapshots
  BY <1>1, MadeFacts DEF PublicOK, Made
<1>4. /\ parents' \in Lines /\ parents'[s] = from /\ served \in [Names -> Origins] /\ s # None
      /\ served'[tag] = s /\ \A t \in Names \ {tag} : served'[t] = served[t]
  BY <1>1, NoneAssumption, MadeFacts DEF Lines, HeldInv, StateOK, Snapshots
<1>5. ASSUME NEW p \in from PROVE Past(parents, p) \subseteq Past(parents', s)
  <2>1. s \in Past(parents', s) /\ \A c \in Past(parents', s) : parents'[c] \subseteq Past(parents', s)
    BY <1>1, <1>4, PastClosed
  <2>2. p \in Past(parents', s)
    BY <1>4, <2>1
  <2> QED
    BY <1>1, <1>2, <1>3, <1>4, <2>2, PastTrans
<1>6. ASSUME served[tag] # None PROVE Past(parents, served[tag]) \subseteq taken' \cup Past(parents', s)
  <2>1. TagHistory(tag) = Past(parents, served[tag])
    BY <1>2, <1>6, MadeFacts DEF TagHistory
  <2>2. UNION {Ancestry(p) : p \in from} \subseteq Past(parents', s)
    BY <1>2, <1>3, <1>5
  <2> QED
    BY <1>1, <2>1, <2>2
<1> QED
  BY <1>1, <1>4, <1>6

\* Lemma: so is a write of a version that was made before, by another client or forced.
LEMMA RepushTakes ==
    ASSUME HeldInv, NEW tag \in Names, NEW s \in Made, parents' = parents,
           served' = [served EXCEPT ![tag] = s], taken' = taken \cup (TagHistory(tag) \ Ancestry(s))
    PROVE  \A t \in Names : served[t] # None =>
                \/ served'[t] = served[t]
                \/ served'[t] # None /\ Past(parents, served[t]) \subseteq taken' \cup Past(parents', served'[t])
<1>1. s \in Snapshots /\ s # None /\ served \in [Names -> Origins]
  BY NoneAssumption, MadeFacts DEF HeldInv, StateOK, Snapshots
<1>2. /\ Ancestry(s) = Past(parents, s)
      /\ served[tag] # None => TagHistory(tag) = Past(parents, served[tag])
  BY <1>1, ReachedPast, MadeFacts DEF HeldInv, TagHistory
<1>3. served'[tag] = s /\ \A t \in Names \ {tag} : served'[t] = served[t]
  BY <1>1
<1> QED
  BY <1>1, <1>2, <1>3

\* Lemma: every step keeps every origin published.
LEMMA OriginNext ==
    ASSUME HeldInv, HeldInv', PublicOK, OriginInv, [Next]_vars
    PROVE  OriginInv'
<1> USE NoneAssumption
<1>t. StateOK /\ PendingOK /\ pc \in Pending
  BY DEF HeldInv, StateOK
<1> DEFINE O == AllOrigins \cup {None}
<1>o. HeadOrigins \subseteq O /\ RefOrigins \subseteq O /\ Pends(pc) \subseteq O /\ AllOrigins \subseteq O
      /\ (head # None => head.origin \in O)
      /\ (refs # None => \A b \in Held(refs) : refs.branches[b].origin \in O)
  BY DEF AllOrigins, HeadOrigins, RefOrigins
<1>p. Pends(Idle) = {} /\ Idle.step = "idle"
  BY DEF Pends, Idle
<1> HIDE DEF O
<1>s. ASSUME UNCHANGED Tags, AllOrigins' \subseteq O,
             pc'.step \notin {"push_upload", "push_force", "push_confirm"}
      PROVE  OriginInv'
  BY <1>s, SameOrigins DEF O, Tags
<1>r. ASSUME head # None
      PROVE  /\ Recorded(Table) \in RefTable
             /\ \A b \in Held(Recorded(Table)) : Recorded(Table).branches[b].origin \in O
  BY <1>r, <1>t, RecordedOrigins DEF O
<1>h. ASSUME NEW d, NEW o \in O, NEW r, head' = HeadState(d, o, r), head' # None
      PROVE  HeadOrigins' \subseteq O
  BY <1>h DEF HeadOrigins, HeadState
<1>1. ASSUME NEW b \in SUBSET Snapshots, Write(b) PROVE OriginInv'
  <2>1. /\ pc = Idle /\ served' = served /\ taken' = taken /\ head' = head /\ refs' = refs
        /\ created' = created + 1 /\ created + 1 \in Snapshots
        /\ \E from : parents' = [parents EXCEPT ![created + 1] = from]
        /\ pc' = [Idle EXCEPT !.step = "advance", !.digest = created + 1,
                              !.origin = IF head = None THEN None ELSE head.origin]
    BY <1>1 DEF Write, PutVersion, aux
  <2>2. pc'.step = "advance" /\ pc'.origin \in O
    BY <2>1, <1>o DEF Idle, O
  <2>3. AllOrigins' \subseteq O
    BY <2>1, <2>2, <1>o, OriginsOf DEF Pends
  <2>4. \A o \in O \ {None} : Pub(o)'
    BY <2>1, StillPublished DEF OriginInv, O
  <2> QED
    BY <2>2, <2>3, <2>4 DEF OriginInv, PushOK
<1>2. ASSUME NEW n \in Names, NEW strategy \in {"merge", "squash"}, Reconcile(n, strategy) PROVE OriginInv'
  <2>1. /\ pc = Idle /\ head # None /\ served' = served /\ taken' = taken /\ head' = head /\ refs' = refs
        /\ created' = created + 1 /\ created + 1 \in Snapshots
        /\ \E from : parents' = [parents EXCEPT ![created + 1] = from]
        /\ pc' = [Idle EXCEPT !.step = "advance", !.digest = created + 1, !.origin = head.origin,
                              !.retain = IF strategy = "merge" THEN {Theirs(n)} ELSE {}]
    BY <1>2 DEF Reconcile, PutVersion, Joinable, Ready, aux
  <2>2. pc'.step = "advance" /\ pc'.origin \in O
    BY <2>1, <1>o DEF Idle
  <2>3. AllOrigins' \subseteq O
    BY <2>1, <2>2, <1>o, OriginsOf DEF Pends
  <2>4. \A o \in O \ {None} : Pub(o)'
    BY <2>1, StillPublished DEF OriginInv, O
  <2> QED
    BY <2>2, <2>3, <2>4 DEF OriginInv, PushOK
<1>3. CASE Advance \/ Repin \/ PullAdvance
  <2>1. PICK r : head' = HeadState(pc.digest, pc.origin, r)
    BY <1>3 DEF Advance, Repin, PullAdvance
  <2>2. pc.origin \in O
    BY <1>3, <1>o DEF Advance, Repin, PullAdvance, Pends
  <2>3. head'.origin = pc.origin
    BY <2>1 DEF HeadState
  <2>4. pc'.step \in {"idle", "pull_index", "switch_finish"} /\ UNCHANGED Tags /\ refs' = refs
    BY <1>3, <1>p, <1>t DEF Advance, Repin, PullAdvance, history, aux, Tags, Pending
  <2>5. AllOrigins' \subseteq O
    BY <2>2, <2>3, <2>4, <1>o, OriginsOf DEF Pends
  <2> QED
    BY <2>4, <2>5, <1>s
<1>4. CASE RepairRefs
  <2>1. /\ refs # None /\ refs' = Repaired(refs) /\ pc = Idle /\ pc' = pc /\ head' = head
        /\ UNCHANGED Tags
    BY <1>4 DEF RepairRefs, history, aux, Tags
  <2>2. refs \in RefTable
    BY <2>1, <1>t DEF StateOK
  <2>3. refs'.branches = refs.branches /\ refs' # None
    BY <2>1, <2>2 DEF Repaired, RefTable, HeldInv, StateOK
  <2>4. \A b \in Held(refs') : refs'.branches[b].origin \in O
    BY <2>1, <2>3, <1>o DEF Held
  <2>5. AllOrigins' \subseteq O
    BY <2>1, <2>3, <2>4, <1>o, <1>p, OriginsOf
  <2> QED
    BY <2>1, <2>5, <1>p, <1>s
<1>5. ASSUME NEW n \in Names,
             \/ \E start \in Snapshots : CreateBranch(n, start)
             \/ Checkout(n)
             \/ \E force \in BOOLEAN : DeleteBranch(n, force)
      PROVE  OriginInv'
  <2>1. head # None /\ head' = head /\ UNCHANGED Tags
    BY <1>5 DEF CreateBranch, Checkout, DeleteBranch, Ready, history, aux, Tags
  <2> DEFINE t == Recorded(Table)
  <2>2. t \in RefTable /\ \A b \in Held(t) : t.branches[b].origin \in O
    BY <2>1, <1>r
  <2>3. PICK x : /\ refs' = [t EXCEPT !.branches[n] = x] \/ refs' = [t EXCEPT !.switching = n]
                 /\ x = None \/ \E start : x = [snapshot |-> start, origin |-> None]
    <3>1. CASE \E start \in Snapshots : CreateBranch(n, start)
      BY <3>1 DEF CreateBranch
    <3>2. CASE Checkout(n)
      BY <3>2 DEF Checkout
    <3>3. CASE \E force \in BOOLEAN : DeleteBranch(n, force)
      BY <3>3 DEF DeleteBranch
    <3> QED
      BY <1>5, <3>1, <3>2, <3>3
  <2> HIDE DEF t
  <2>4. x # None => x.origin = None
    BY <2>3
  <2>5. \A b \in Names : refs'.branches[b] \in {t.branches[b], x}
    <3>1. t.branches \in [Names -> BranchRef \cup {None}]
      BY <2>2 DEF RefTable
    <3>2. CASE refs' = [t EXCEPT !.branches[n] = x]
      BY <2>2, <3>1, <3>2 DEF RefTable
    <3>3. CASE refs' = [t EXCEPT !.switching = n]
      BY <2>2, <3>1, <3>3 DEF RefTable
    <3> QED
      BY <2>3, <3>2, <3>3
  <2>6. \A b \in Held(refs') : refs'.branches[b].origin \in O
    BY <2>2, <2>4, <2>5 DEF Held, O
  <2>7. pc'.step \in {"repin", "checkout_head"} /\ (pc'.step = "repin" => pc'.origin = head.origin)
    BY <1>5 DEF CreateBranch, Checkout, DeleteBranch, Idle
  <2>8. AllOrigins' \subseteq O
    BY <2>1, <2>5, <2>6, <2>7, <1>o, OriginsOf DEF Pends
  <2> QED
    BY <2>1, <2>7, <2>8, <1>s
<1>6. CASE CheckoutHead \/ RepinSwitch \/ \E n \in Names : FastForward(n)
  <2>1. PICK d, o, r : head' = HeadState(d, o, r) /\ o \in O
    <3>1. CASE CheckoutHead
      <4>1. refs # None /\ refs.branches[pc.name] # None /\ pc.name \in Names
        BY <3>1, <1>t DEF CheckoutHead, PendingOK
      <4> QED
        BY <3>1, <4>1, <1>o DEF CheckoutHead, Held
    <3>2. CASE RepinSwitch
      BY <3>2, <1>o, <1>t DEF RepinSwitch, PendingOK
    <3>3. CASE \E n \in Names : FastForward(n)
      BY <3>3, <1>o DEF FastForward, Joinable, Ready
    <3> QED
      BY <1>6, <3>1, <3>2, <3>3
  <2>2. head'.origin \in O
    BY <2>1 DEF HeadState
  <2>3. /\ pc'.step \in {"checkout_refs", "pull_index", "idle"} /\ refs' = refs
        /\ UNCHANGED Tags
    BY <1>6, <1>t, <1>p DEF CheckoutHead, RepinSwitch, FastForward, Joinable, Ready, history, aux, Tags, Pending
  <2>4. AllOrigins' \subseteq O
    BY <2>2, <2>3, <1>o, OriginsOf DEF Pends
  <2> QED
    BY <2>3, <2>4, <1>s
<1>7. CASE CheckoutRefs \/ FinishSwitch
  <2>1. /\ pc'.step \in {"idle", "switch_repin"} /\ head' = head
        /\ UNCHANGED Tags
    BY <1>7, <1>p, <1>t DEF CheckoutRefs, FinishSwitch, history, aux, Tags, Pending
  <2>2. \A b \in Held(refs') : refs'.branches[b].origin \in O
    <3>1. CASE CheckoutRefs
      <4>1. refs \in RefTable /\ refs' = [refs EXCEPT !.current = pc.name, !.switching = None]
        BY <3>1, <1>t DEF CheckoutRefs, PendingOK
      <4>2. refs'.branches = refs.branches /\ refs' \in RefTable
        BY <4>1, <3>1, <1>t DEF RefTable, CheckoutRefs, PendingOK
      <4> QED
        BY <4>1, <4>2, <1>o DEF Held
    <3>2. CASE FinishSwitch
      <4> DEFINE held == IF refs # None THEN refs.branches ELSE [b \in Names |-> None]
      <4>1. pc.name \in Names /\ head # None
        BY <3>2, <1>t DEF FinishSwitch, PendingOK
      <4>2. held \in [Names -> BranchRef \cup {None}]
        BY <1>t DEF StateOK, RefTable
      <4>3. \A b \in Names : held[b] # None => held[b].origin \in O
        BY <1>o DEF Held
      <4>4. refs' = [current |-> pc.name, switching |-> None,
                     branches |-> [held EXCEPT ![pc.name] = [snapshot |-> head.snapshot, origin |-> head.origin]]]
        BY <3>2 DEF FinishSwitch
      <4> HIDE DEF held
      <4>5. refs' \in RefTable
        BY <4>1, <4>2, <4>4, <1>t DEF RefTable, BranchRef, StateOK, BrainState
      <4> QED
        BY <4>1, <4>2, <4>3, <4>4, <4>5, <1>o DEF Held
    <3> QED
      BY <1>7, <3>1, <3>2
  <2>3. AllOrigins' \subseteq O
    BY <2>1, <2>2, <1>o, OriginsOf DEF Pends
  <2> QED
    BY <2>1, <2>3, <1>s
<1>8. CASE Prune \/ PruneInterrupted \/ PullIndex \/ PullFails \/ Crash
  <2>1. pc'.step = "idle" /\ head' = head /\ refs' = refs /\ UNCHANGED Tags
    BY <1>8, <1>p DEF Prune, PruneInterrupted, PullIndex, PullFails, Crash, history, aux, Tags
  <2>2. AllOrigins' \subseteq O
    BY <2>1, <1>o, OriginsOf DEF Pends
  <2> QED
    BY <2>1, <2>2, <1>s
<1>9. CASE \E tag \in Names : \/ \E from \in SUBSET Snapshots : PeerPush(tag, from)
                             \/ \E s \in Snapshots : PeerRepush(tag, s)
  <2>1. UNCHANGED <<docs, head, refs, pc>>
    BY <1>9 DEF PeerPush, PeerRepush, store
  <2>2. AllOrigins' = AllOrigins
    BY <2>1 DEF AllOrigins, HeadOrigins, RefOrigins, Pends, Held
  <2>3. /\ \A o : Pub(o) => Pub(o)'
        /\ \A n, x : OnBut(n, x) => x \in taken' \/ OnBut(n, x)'
        /\ \A o \in Made : Past(parents', o) = Past(parents, o)
        /\ taken \subseteq taken'
    <3>1. CASE \E tag \in Names, from \in SUBSET Snapshots : PeerPush(tag, from)
      BY <3>1, PeerPushTakes, StillPublished
    <3>2. ASSUME NEW tag \in Names, NEW s \in Snapshots, PeerRepush(tag, s)
          PROVE  /\ \A o : Pub(o) => Pub(o)'
                 /\ \A n, x : OnBut(n, x) => x \in taken' \/ OnBut(n, x)'
                 /\ \A o \in Made : Past(parents', o) = Past(parents, o)
                 /\ taken \subseteq taken'
      <4>1. /\ s \in Made /\ parents' = parents /\ created' = created /\ served' = [served EXCEPT ![tag] = s]
            /\ taken' = taken \cup (TagHistory(tag) \ Ancestry(s))
        BY <3>2 DEF PeerRepush, history, PublicOK, Made
      <4>2. \A t \in Names : served[t] # None =>
                \/ served'[t] = served[t]
                \/ served'[t] # None /\ Past(parents, served[t]) \subseteq taken' \cup Past(parents', served'[t])
        BY <4>1, RepushTakes
      <4> QED
        BY <4>1, <4>2, StillPublished
    <3> QED
      BY <1>9, <3>1, <3>2
  <2>4. pc.step \in {"push_upload", "push_confirm"} => pc.digest \in Made
    BY <1>t, MadeFacts DEF PendingOK
  <2>5. ASSUME pc.step = "push_upload", NEW n, n = pc.name,
               NEW o \in AllOrigins \ {None}, NEW x \in Past(parents', o)
        PROVE  x \in taken' \/ x \in Past(parents', pc.digest) \/ OnBut(n, x)'
    <3>1. x \in Past(parents, o)
      BY <2>3, <2>5 DEF OriginInv, Pub
    <3>2. x \in taken \/ x \in Past(parents, pc.digest) \/ OnBut(n, x)
      BY <2>5, <3>1 DEF OriginInv, PushOK
    <3> QED
      BY <2>3, <2>4, <2>5, <3>2
  <2>6. ASSUME pc.step = "push_confirm", NEW d, d = pc.digest PROVE Pub(d)'
    BY <2>3, <2>6 DEF OriginInv, PushOK
  <2>7. PushOK'
    <3>1. (pc.step \in {"push_upload", "push_force", "push_confirm"} => head # None /\ pc.digest = head.snapshot)'
      BY <2>1 DEF OriginInv, PushOK
    <3>2. (pc.step = "push_upload" =>
            \A o \in AllOrigins \ {None} : \A x \in Past(parents, o) :
                x \in taken \/ x \in Past(parents, pc.digest) \/ OnBut(pc.name, x))'
      BY <2>1, <2>2, <2>5 DEF OnBut
    <3>3. (pc.step = "push_confirm" => Pub(pc.digest))'
      BY <2>1, <2>6 DEF Pub, On, Made
    <3> QED
      BY <3>1, <3>2, <3>3 DEF PushOK
  <2> QED
    BY <2>2, <2>3, <2>7 DEF OriginInv
<1>10. ASSUME NEW tag \in Names, NEW force \in BOOLEAN, Push(tag, force) PROVE OriginInv'
  <2>1. /\ head # None /\ pc = Idle
        /\ force \/ served[tag] = None \/ served[tag] \in ReachableFrom(head.snapshot)
        /\ pc' = [Idle EXCEPT !.step = IF force THEN "push_force" ELSE "push_upload",
                              !.name = tag, !.digest = head.snapshot]
        /\ UNCHANGED <<parents, created, head, refs, served, taken>>
    BY <1>10 DEF Push, Ready, history, aux
  <2>2. head.snapshot \in Snapshots
    BY <2>1, <1>t DEF StateOK, BrainState
  <2>3. /\ pc'.step = (IF force THEN "push_force" ELSE "push_upload")
        /\ pc'.name = tag /\ pc'.digest = head.snapshot
    BY <2>1 DEF Idle
  <2>4. AllOrigins' \subseteq O
    BY <2>1, <2>3, <1>o, OriginsOf DEF Pends
  <2>5. ASSUME ~ force, NEW o \in O \ {None}, NEW x \in Past(parents, o)
        PROVE  x \in taken \/ x \in Past(parents, head.snapshot) \/ OnBut(tag, x)
    <3>1. x \in taken \/ On(x)
      BY <2>5 DEF OriginInv, Pub, O
    <3>2. ASSUME NEW t \in Names \ {tag}, served[t] # None, x \in Past(parents, served[t]) PROVE OnBut(tag, x)
      BY <3>2 DEF OnBut
    <3>3. ASSUME served[tag] # None, x \in Past(parents, served[tag]) PROVE x \in Past(parents, head.snapshot)
      <4>1. served[tag] \in Past(parents, head.snapshot)
        BY <2>1, <2>2, <2>5, <3>3, <1>t, ReachedPast
      <4> QED
        BY <2>2, <3>3, <4>1, PastTrans DEF HeldInv, StateOK, Lines
    <3> QED
      BY <3>1, <3>2, <3>3 DEF On
  <2>6. \A o \in AllOrigins' \ {None} : Pub(o)'
    BY <2>1, <2>4 DEF OriginInv, O, Pub, On, Made
  <2>7. PushOK'
    <3>1. (pc.step \in {"push_upload", "push_force", "push_confirm"} => head # None /\ pc.digest = head.snapshot)'
      BY <2>1, <2>3
    <3>2. (pc.step = "push_upload" =>
            \A o \in AllOrigins \ {None} : \A x \in Past(parents, o) :
                x \in taken \/ x \in Past(parents, pc.digest) \/ OnBut(pc.name, x))'
      BY <2>1, <2>3, <2>4, <2>5 DEF OnBut, O
    <3>3. pc'.step # "push_confirm"
      BY <2>3
    <3> QED
      BY <3>1, <3>2, <3>3 DEF PushOK
  <2> QED
    BY <2>6, <2>7 DEF OriginInv
<1>11. CASE PushUpload
  <2>1. /\ pc.step \in {"push_upload", "push_force"} /\ served' = [served EXCEPT ![pc.name] = pc.digest]
        /\ taken' = IF pc.step = "push_force" THEN taken \cup (TagHistory(pc.name) \ Ancestry(pc.digest))
                                               ELSE taken
        /\ pc'.step = "push_confirm" /\ pc'.name = pc.name /\ pc'.digest = pc.digest
        /\ UNCHANGED <<parents, created, head, refs>>
    BY <1>11, <1>t DEF PushUpload, history, Pending
  <2>2. pc.name \in Names /\ pc.digest \in Made /\ pc.digest # None /\ served \in [Names -> Origins]
    <3>1. pc.name \in Names /\ pc.digest \in Made /\ pc.digest \in Snapshots /\ served \in [Names -> Origins]
      BY <2>1, <1>t, MadeFacts DEF PendingOK, StateOK
    <3> QED
      BY <3>1, BoundAssumption DEF Snapshots
  <2>3. AllOrigins' \subseteq O
    BY <2>1, <1>o, OriginsOf DEF Pends
  <2>4. served'[pc.name] = pc.digest /\ \A t \in Names \ {pc.name} : served'[t] = served[t]
    BY <2>1, <2>2
  <2>5. /\ \A x \in Past(parents, pc.digest) : On(x)'
        /\ \A x : OnBut(pc.name, x) => On(x)'
    BY <2>1, <2>2, <2>4 DEF On, OnBut
  <2>6. ASSUME NEW o \in O \ {None} PROVE Pub(o)'
    <3>1. Pub(o)
      BY <2>6 DEF OriginInv, O
    <3>2. CASE pc.step = "push_upload"
      <4>1. o \in AllOrigins \ {None} /\ taken' = taken
        BY <2>1, <2>6, <3>2 DEF O
      <4>2. \A x \in Past(parents, o) : x \in taken' \/ On(x)'
        BY <2>5, <3>2, <4>1 DEF OriginInv, PushOK
      <4> QED
        BY <2>1, <3>1, <4>2 DEF Pub, Made
    <3>3. CASE pc.step = "push_force"
      <4>1. /\ taken' = taken \cup (TagHistory(pc.name) \ Ancestry(pc.digest))
            /\ parents' = parents /\ created' = created /\ served' = [served EXCEPT ![pc.name] = pc.digest]
        BY <2>1, <3>3
      <4>2. \A t \in Names : served[t] # None =>
                \/ served'[t] = served[t]
                \/ served'[t] # None /\ Past(parents, served[t]) \subseteq taken' \cup Past(parents', served'[t])
        BY <2>2, <4>1, RepushTakes
      <4> QED
        BY <3>1, <4>1, <4>2, StillPublished
    <3> QED
      BY <2>1, <3>2, <3>3
  <2>7. Pub(pc.digest)'
    BY <2>1, <2>2, <2>5 DEF Pub, Made
  <2>8. PushOK'
    <3>1. head # None /\ pc.digest = head.snapshot
      BY <2>1 DEF OriginInv, PushOK
    <3> QED
      BY <2>1, <2>7, <3>1 DEF PushOK, Pub, On, Made
  <2> QED
    BY <2>3, <2>6, <2>8 DEF OriginInv
<1>12. CASE PushConfirm
  <2>1. /\ pc.step = "push_confirm" /\ UNCHANGED <<parents, created, head, refs, served, taken>>
        /\ \/ pc' = [Idle EXCEPT !.step = "advance", !.digest = pc.digest, !.origin = pc.digest]
           \/ pc' = Idle
    BY <1>12 DEF PushConfirm, history, aux
  <2>2. pc'.step \in {"idle", "advance"} /\ Pends(pc') \subseteq {pc.digest}
    <3>1. CASE pc' = Idle
      BY <3>1, <1>p
    <3>2. CASE pc' = [Idle EXCEPT !.step = "advance", !.digest = pc.digest, !.origin = pc.digest]
      <4>1. pc'.step = "advance" /\ pc'.origin = pc.digest
        BY <3>2 DEF Idle
      <4> QED
        BY <4>1 DEF Pends
    <3> QED
      BY <2>1, <3>1, <3>2
  <2>3. AllOrigins' \subseteq O \cup {pc.digest}
    BY <2>1, <2>2, <1>o, OriginsOf
  <2>4. Pub(pc.digest)
    BY <2>1 DEF OriginInv, PushOK
  <2>5. \A o \in O \ {None} : Pub(o)
    BY DEF OriginInv, O
  <2>6. \A o \in AllOrigins' \ {None} : Pub(o)'
    BY <2>1, <2>3, <2>4, <2>5 DEF Pub, On, Made
  <2> QED
    BY <2>2, <2>6 DEF OriginInv, PushOK
<1>13. ASSUME NEW tag \in Names, NEW withHistory \in BOOLEAN, Pull(tag, withHistory) PROVE OriginInv'
  <2> DEFINE source == served[tag]
             name == Destination(tag)
             t == Recorded(Table)
             ref == IF t.branches[name] # None THEN t.branches[name]
                                               ELSE [snapshot |-> head.snapshot, origin |-> None]
  <2>1. /\ source # None /\ UNCHANGED <<parents, created, head, served, taken>>
        /\ pc'.step \in {"pull_advance", "switch_advance"} /\ pc'.origin = source
        /\ refs' = IF name = None \/ head = None THEN refs
                   ELSE [t EXCEPT !.branches[name] = ref, !.switching = name]
    BY <1>13 DEF Pull, history, aux
  <2>2. refs' = refs \/ \A b \in Held(refs') : refs'.branches[b].origin \in O
    <3> SUFFICES ASSUME name # None, head # None
                 PROVE  \A b \in Held(refs') : refs'.branches[b].origin \in O
      BY <2>1
    <3>1. name \in Names
      BY DEF Destination
    <3>2. t \in RefTable /\ \A b \in Held(t) : t.branches[b].origin \in O
      BY <1>r
    <3>3. refs' = [t EXCEPT !.branches[name] = ref, !.switching = name]
      BY <2>1
    <3>4. ref.origin \in O
      BY <3>1, <3>2 DEF Held, O
    <3> HIDE DEF t, ref, name
    <3>5. \A b \in Names : refs'.branches[b] = IF b = name THEN ref ELSE t.branches[b]
      <4>1. t.branches \in [Names -> BranchRef \cup {None}]
        BY <3>2 DEF RefTable
      <4> QED
        BY <3>1, <3>2, <3>3, <4>1 DEF RefTable
    <3> QED
      BY <3>2, <3>4, <3>5 DEF Held
  <2>3. AllOrigins' \subseteq O \cup {source}
    <3> DEFINE Q == O \cup {source}
    <3>1. /\ O \subseteq Q /\ Pends(pc') \subseteq Q /\ AllOrigins \subseteq Q
          /\ refs' = refs \/ \A b \in Held(refs') : refs'.branches[b].origin \in Q
      BY <2>1, <2>2, <1>o DEF Pends
    <3> HIDE DEF Q
    <3>2. AllOrigins' \subseteq Q
      BY <2>1, <3>1, OriginsOf
    <3> QED
      BY <3>2 DEF Q
  <2>4. Pub(source)
    BY <2>1, MadeFacts DEF Pub, On
  <2>5. \A o \in O \ {None} : Pub(o)
    BY DEF OriginInv, O
  <2>6. \A o \in AllOrigins' \ {None} : Pub(o)'
    BY <2>1, <2>3, <2>4, <2>5 DEF Pub, On, Made
  <2> QED
    BY <2>1, <2>6 DEF OriginInv, PushOK
<1>14. CASE UNCHANGED vars
  <2>1. AllOrigins' = AllOrigins /\ UNCHANGED <<parents, created, served, taken, head, pc>>
    BY <1>14 DEF vars, AllOrigins, HeadOrigins, RefOrigins, Pends, Held
  <2> QED
    BY <2>1 DEF OriginInv, PushOK, Pub, On, OnBut, Made
<1>15. \A b \in Snapshots : {b} \in SUBSET Snapshots
  OBVIOUS
<1> QED
  BY <1>1, <1>2, <1>3, <1>4, <1>5, <1>6, <1>7, <1>8, <1>9, <1>10, <1>11, <1>12, <1>13, <1>14, <1>15 DEF Next

\* Lemma: what a tag's history holds, or held until somebody took it out, is what was published.
LEMMA PublishedAre ==
    ASSUME HeldInv, NEW x, x \in taken \/ On(x)
    PROVE  x \in Published
<1>1. \A t \in Names : served[t] # None => TagHistory(t) = Past(parents, served[t])
  BY ReachedPast, MadeFacts DEF HeldInv, TagHistory
<1>2. On(x) => x \in UNION {TagHistory(t) : t \in Names}
  BY <1>1 DEF On
<1> QED
  BY <1>2 DEF Published

\* Whatever an origin names was published with its whole history, and of that history nothing has
\* left every tag but what another client's write or a forced push took out of one.
THEOREM OriginsAlwaysPublished == Spec => []OriginsPublished
<1>1. Init => OriginInv
  BY DEF Init, OriginInv, PushOK, AllOrigins, HeadOrigins, RefOrigins, Pends, Idle
<1>2. HeldInv /\ HeldInv' /\ PublicOK /\ OriginInv /\ [Next]_vars => OriginInv'
  BY OriginNext
<1>3. HeldInv /\ OriginInv => OriginsPublished
  <2> SUFFICES ASSUME HeldInv, OriginInv PROVE OriginsPublished
    OBVIOUS
  <2>1. ASSUME NEW o \in (HeadOrigins \cup RefOrigins) \ {None} PROVE Ancestry(o) \subseteq Published
    <3>1. Pub(o)
      BY <2>1 DEF OriginInv, AllOrigins
    <3>2. Ancestry(o) = Past(parents, o)
      BY <3>1, ReachedPast, MadeFacts DEF HeldInv, Pub
    <3> QED
      BY <3>1, <3>2, PublishedAre DEF Pub
  <2> QED
    BY <2>1 DEF OriginsPublished, HeadOrigins, RefOrigins
<1> QED
  BY <1>1, <1>2, <1>3, HeldInit, HeldNext, PublicInit, PublicNext, PTL DEF Spec

-----------------------------------------------------------------------------
(* No head is lost, as long as every call runs to its end or raises.       *)

\* The branch a table R has as current once a head pointer at h decides its switch, and the
\* heads that branches() then reports.
Decided(R, h) ==
    IF R.switching # None /\ R.branches[R.switching] # None /\ h = R.branches[R.switching].snapshot
    THEN R.switching ELSE R.current
Heads(R, c, h) == {h} \cup {R.branches[b].snapshot : b \in Held(R) \ {c}}

\* A call under way, and a switch a failed pull left behind, have not lost track of the head.
SwitchOK ==
    /\ head = None => refs = None
    /\ refs # None /\ refs.switching # None /\ pc.step \notin {"checkout_refs", "switch_finish"} =>
          /\ pc.step \notin {"pull_advance", "pull_index", "switch_repin"}
          /\ refs.branches[refs.current] # None
          /\ refs.branches[refs.current].snapshot \in Past(parents, head.snapshot)
    /\ pc.step = "checkout_head" =>
          /\ refs.current # pc.name /\ refs.branches[refs.current] # None
          /\ refs.branches[refs.current].snapshot = head.snapshot
    /\ pc.step = "advance" => head = None \/ head.snapshot \in Past(parents, pc.digest)
    /\ pc.step \in {"repin", "push_upload", "push_force", "push_confirm"} =>
          head # None /\ pc.digest = head.snapshot

\* What branches() reports, from the two pointers.
ReportedFrom ==
    StateOK /\ head # None =>
        /\ refs = None => ReportedHeads = {head.snapshot}
        /\ refs # None => ReportedHeads = Heads(refs, Decided(refs, head.snapshot), head.snapshot)
        /\ refs # None => refs \in RefTable /\ Decided(refs, head.snapshot) \in Names

\* Lemma: it reports that in every state.
LEMMA ReportedAre == ReportedFrom
<1> USE NoneAssumption
<1> SUFFICES ASSUME StateOK, head # None
             PROVE  /\ refs = None => ReportedHeads = {head.snapshot}
                    /\ refs # None => ReportedHeads = Heads(refs, Decided(refs, head.snapshot), head.snapshot)
                    /\ refs # None => refs \in RefTable /\ Decided(refs, head.snapshot) \in Names
  BY DEF ReportedFrom
<1>1. head \in BrainState /\ head.snapshot \in Snapshots
  BY DEF StateOK, BrainState
<1>2. ASSUME NEW R \in RefTable
      PROVE  {Recorded(R).branches[b].snapshot : b \in Held(Recorded(R))} = Heads(R, R.current, head.snapshot)
  <2> DEFINE x == [snapshot |-> head.snapshot, origin |-> head.origin]
  <2>1. /\ R.branches \in [Names -> BranchRef \cup {None}] /\ R.current \in Names
        /\ Recorded(R).branches = [R.branches EXCEPT ![R.current] = x]
    BY <1>2 DEF Recorded, RefTable
  <2>2. x # None /\ x.snapshot = head.snapshot
    BY <1>1 DEF BranchRef, BrainState
  <2> HIDE DEF x
  <2>3. /\ Recorded(R).branches[R.current] = x
        /\ \A b \in Names \ {R.current} : Recorded(R).branches[b] = R.branches[b]
    BY <2>1
  <2>4. Held(Recorded(R)) = {R.current} \cup Held(R)
    BY <2>1, <2>2, <2>3 DEF Held
  <2> QED
    BY <2>1, <2>2, <2>3, <2>4 DEF Heads, Held
<1>3. CASE refs = None
  <2>1. Table \in RefTable /\ Table.switching = None /\ Held(Table) = {Main} /\ Table.current = Main
    BY <1>3, RecordedTable, NamesAssumption, <1>1 DEF Table, Held, BranchRef, Origins
  <2>2. Reported = Recorded(Table)
    BY <2>1 DEF Reported, Repaired
  <2> QED
    BY <1>2, <1>3, <2>1, <2>2 DEF ReportedHeads, Heads
<1>4. CASE refs # None
  <2>1. refs \in RefTable /\ Table = refs
    BY <1>4 DEF StateOK, Table
  <2>2. /\ Repaired(refs) \in RefTable /\ Repaired(refs).branches = refs.branches
        /\ Repaired(refs).current = Decided(refs, head.snapshot)
    <3>1. CASE refs.switching = None
      BY <2>1, <3>1 DEF Repaired, Decided
    <3>2. CASE refs.switching # None /\ refs.branches[refs.switching] # None /\ head.snapshot = refs.branches[refs.switching].snapshot
      BY <2>1, <3>2 DEF Repaired, Decided, RefTable
    <3>3. CASE refs.switching # None /\ ~ (refs.branches[refs.switching] # None /\ head.snapshot = refs.branches[refs.switching].snapshot)
      BY <2>1, <3>3 DEF Repaired, Decided, RefTable
    <3> QED
      BY <3>1, <3>2, <3>3
  <2>3. ReportedHeads = Heads(Repaired(refs), Repaired(refs).current, head.snapshot)
    BY <1>2, <2>1, <2>2 DEF ReportedHeads, Reported
  <2> QED
    BY <1>4, <2>1, <2>2, <2>3 DEF Heads, Held, RefTable
<1> QED
  BY <1>3, <1>4

\* Lemma: an operation that starts from a repaired table leaves the head on the current branch.
LEMMA ReadyTable ==
    ASSUME StateOK, head # None, refs # None => refs.switching = None
    PROVE  /\ Recorded(Table) \in RefTable /\ Recorded(Table).switching = None
           /\ Recorded(Table).branches[Recorded(Table).current] # None
           /\ Recorded(Table).branches[Recorded(Table).current].snapshot = head.snapshot
           /\ Recorded(Table).current = Table.current /\ Table.current \in Names
           /\ ReportedHeads = {Recorded(Table).branches[b].snapshot : b \in Held(Recorded(Table))}
<1> USE NoneAssumption
<1>1. /\ Table \in RefTable /\ Recorded(Table) \in RefTable /\ Table.switching = None
      /\ Recorded(Table).switching = Table.switching /\ Recorded(Table).current = Table.current
  BY RecordedTable DEF Table
<1>2. /\ Table.branches \in [Names -> BranchRef \cup {None}] /\ Table.current \in Names
      /\ Recorded(Table).branches = [Table.branches EXCEPT ![Table.current] =
                                        [snapshot |-> head.snapshot, origin |-> head.origin]]
  BY <1>1 DEF Recorded, RefTable
<1>3. [snapshot |-> head.snapshot, origin |-> head.origin] # None
  BY DEF StateOK, BrainState, BranchRef
<1>4. Reported = Recorded(Table)
  BY <1>1 DEF Reported, Repaired
<1>5. Recorded(Table).branches[Table.current] = [snapshot |-> head.snapshot, origin |-> head.origin]
  BY <1>2
<1>6. ReportedHeads = {Recorded(Table).branches[b].snapshot : b \in Held(Recorded(Table))}
  BY <1>4 DEF ReportedHeads
<1> QED
  BY <1>1, <1>2, <1>3, <1>5, <1>6

\* Lemma: no call that runs to its end or raises loses track of the head.
LEMMA SwitchNext ==
    ASSUME HeldInv, HeldInv', CheckoutMarked, SwitchOK, [Next]_vars, "crash" \notin Features
    PROVE  SwitchOK'
<1> USE NoneAssumption
<1>t. StateOK /\ PendingOK /\ pc \in Pending /\ StateOK'
  BY DEF HeldInv, StateOK
<1>i. Idle.step = "idle"
  BY DEF Idle
<1>m. /\ head # None => head.snapshot \in Made /\ head.snapshot \in Snapshots
      /\ parents \in Lines
  BY MadeFacts DEF HeldInv, DocsHeld, StateOK, BrainState
<1>p. ASSUME \/ parents' = parents
             \/ created + 1 \in Snapshots /\ \E from : parents' = [parents EXCEPT ![created + 1] = from]
      PROVE  head # None => Past(parents', head.snapshot) = Past(parents, head.snapshot)
  BY <1>p, <1>m, PastKept
<1>1. ASSUME created + 1 \in Snapshots, head' = head, refs' = refs, pc = Idle,
             NEW from, parents' = [parents EXCEPT ![created + 1] = from], head # None => head.snapshot \in from,
             pc'.step = "advance", pc'.digest = created + 1
      PROVE  SwitchOK'
  <2>1. head # None => Past(parents', head.snapshot) = Past(parents, head.snapshot)
    BY <1>1, <1>p
  <2>2. parents' \in Lines /\ parents'[created + 1] = from
    BY <1>1, <1>t, <1>m DEF StateOK, Lines
  <2>3. head # None => head.snapshot \in Past(parents', created + 1)
    BY <1>1, <2>2, PastClosed
  <2> QED
    BY <1>1, <1>i, <2>1, <2>3 DEF SwitchOK
<1>2. ASSUME NEW b \in SUBSET Snapshots, Write(b) PROVE SwitchOK'
  <2>1. /\ pc = Idle /\ head' = head /\ refs' = refs /\ created + 1 \in Snapshots
        /\ parents' = [parents EXCEPT ![created + 1] = IF head = None THEN {} ELSE {head.snapshot}]
        /\ pc'.step = "advance" /\ pc'.digest = created + 1
    BY <1>2 DEF Write, PutVersion, Idle
  <2> QED
    BY <2>1, <1>1
<1>3. ASSUME NEW n \in Names, NEW strategy \in {"merge", "squash"}, Reconcile(n, strategy) PROVE SwitchOK'
  <2>1. /\ pc = Idle /\ head' = head /\ refs' = refs /\ created + 1 \in Snapshots
        /\ pc'.step = "advance" /\ pc'.digest = created + 1
    BY <1>3 DEF Reconcile, PutVersion, Idle, Joinable, Ready
  <2>2. PICK from : from \in {{head.snapshot, Theirs(n)}, {head.snapshot}}
                    /\ parents' = [parents EXCEPT ![created + 1] = from]
    BY <1>3 DEF Reconcile, PutVersion
  <2> QED
    BY <2>1, <2>2, <1>1
<1>4. CASE Advance
  <2>1. /\ pc.step = "advance" /\ pc' = Idle /\ refs' = refs /\ parents' = parents
        /\ head' = HeadState(pc.digest, pc.origin, pc.retain)
    BY <1>4 DEF Advance, history
  <2>2. pc.digest \in Snapshots /\ head'.snapshot = pc.digest
    BY <2>1, <1>t DEF PendingOK, StateOK, HeadState
  <2>3. head # None => Past(parents, head.snapshot) \subseteq Past(parents, pc.digest)
    BY <2>1, <2>2, <1>m, PastTrans DEF SwitchOK
  <2>4. head' # None
    BY <2>1, <2>2, <1>t, HeadStateType DEF Pending
  <2> QED
    BY <2>1, <2>2, <2>3, <2>4, <1>i DEF SwitchOK
<1>5. CASE RepairRefs \/ CheckoutRefs \/ FinishSwitch
  <2>1. head' = head /\ head # None /\ pc'.step \in {"idle", "switch_repin"}
    BY <1>5, <1>i, <1>t DEF RepairRefs, CheckoutRefs, FinishSwitch, SwitchOK, PendingOK, Pending
  <2>2. refs' # None => refs'.switching = None
    <3>1. CASE RepairRefs
      BY <3>1, <1>t DEF RepairRefs, Repaired, StateOK, RefTable
    <3>2. CASE CheckoutRefs
      BY <3>2, <1>t DEF CheckoutRefs, PendingOK, RefTable
    <3>3. CASE FinishSwitch
      BY <3>3 DEF FinishSwitch
    <3> QED
      BY <1>5, <3>1, <3>2, <3>3
  <2> QED
    BY <2>1, <2>2 DEF SwitchOK
<1>6. ASSUME NEW n \in Names,
             \/ \E start \in Snapshots : CreateBranch(n, start)
             \/ \E force \in BOOLEAN : DeleteBranch(n, force)
      PROVE  SwitchOK'
  <2>1. /\ head # None /\ head' = head /\ (refs # None => refs.switching = None)
        /\ \E x : refs' = [Recorded(Table) EXCEPT !.branches[n] = x]
        /\ pc'.step = "repin" /\ pc'.digest = head.snapshot
    <3>1. CASE \E start \in Snapshots : CreateBranch(n, start)
      BY <3>1 DEF CreateBranch, Ready, Idle
    <3>2. CASE \E force \in BOOLEAN : DeleteBranch(n, force)
      BY <3>2 DEF DeleteBranch, Ready, Idle
    <3> QED
      BY <1>6, <3>1, <3>2
  <2>2. refs'.switching = None
    BY <2>1, <1>t, ReadyTable DEF RefTable
  <2> QED
    BY <2>1, <2>2 DEF SwitchOK
<1>7. ASSUME NEW n \in Names, Checkout(n) PROVE SwitchOK'
  <2>1. /\ head # None /\ head' = head /\ (refs # None => refs.switching = None)
        /\ refs' = [Recorded(Table) EXCEPT !.switching = n] /\ n # Table.current
        /\ pc'.step = "checkout_head" /\ pc'.name = n /\ parents' = parents
    BY <1>7 DEF Checkout, Ready, Idle, history
  <2>2. /\ Recorded(Table) \in RefTable /\ Recorded(Table).current = Table.current
        /\ Recorded(Table).branches[Recorded(Table).current] # None
        /\ Recorded(Table).branches[Recorded(Table).current].snapshot = head.snapshot
    BY <2>1, <1>t, ReadyTable
  <2>3. refs'.branches = Recorded(Table).branches /\ refs'.current = Recorded(Table).current
    BY <2>1, <2>2 DEF RefTable
  <2>4. head.snapshot \in Past(parents, head.snapshot)
    BY <2>1, <1>m, PastClosed
  <2> QED
    BY <2>1, <2>2, <2>3, <2>4 DEF SwitchOK
<1>8. CASE Repin \/ RepinSwitch
  <2>1. PICK o \in Origins : head' = HeadState(head.snapshot, o, {}) /\ head # None
    BY <1>8, <1>t DEF Repin, RepinSwitch, SwitchOK, Pending, StateOK, BrainState, PendingOK
  <2>2. head'.snapshot = head.snapshot /\ head' # None
    <3>1. head' \in BrainState
      BY <2>1, <1>m, <1>t, HeadStateType
    <3> QED
      BY <2>1, <3>1 DEF HeadState
  <2>3. refs' = refs /\ parents' = parents
    BY <1>8 DEF Repin, RepinSwitch, history
  <2>4. CASE Repin
    <3>1. pc.step = "repin" /\ pc'.step = "idle"
      BY <2>4, <1>i DEF Repin
    <3> QED
      BY <3>1, <2>1, <2>2, <2>3 DEF SwitchOK
  <2>5. CASE RepinSwitch
    <3>1. pc.step = "switch_repin" /\ pc'.step = "pull_index"
      BY <2>5, <1>t DEF RepinSwitch, Pending
    <3> QED
      BY <3>1, <2>1, <2>2, <2>3 DEF SwitchOK
  <2> QED
    BY <1>8, <2>4, <2>5
<1>9. CASE CheckoutHead
  <2>1. /\ refs' = refs /\ pc'.step = "checkout_refs"
        /\ head' = HeadState(refs.branches[pc.name].snapshot, refs.branches[pc.name].origin, {})
        /\ refs.branches[pc.name] \in BranchRef
    BY <1>9, <1>t DEF CheckoutHead, Pending, PendingOK
  <2>2. head' \in BrainState
    BY <2>1, <1>t, HeadStateType DEF BranchRef
  <2> QED
    BY <2>1, <2>2 DEF SwitchOK
<1>10. ASSUME NEW n \in Names, FastForward(n) PROVE SwitchOK'
  <2>1. /\ refs' = refs /\ (refs # None => refs.switching = None) /\ pc' = Idle /\ head # None
        /\ head' = HeadState(Theirs(n), head.origin, {})
        /\ n \in Held(Recorded(Table))
    BY <1>10 DEF FastForward, Joinable, Ready
  <2>2. Recorded(Table) \in RefTable
    BY <2>1, <1>t, ReadyTable
  <2>3. Theirs(n) \in Snapshots
    BY <2>1, <2>2 DEF Theirs, Held, RefTable, BranchRef
  <2>4. head' \in BrainState
    BY <2>1, <2>3, <1>t, HeadStateType DEF StateOK, BrainState
  <2> QED
    BY <2>1, <2>4, <1>i DEF SwitchOK
<1>11. CASE \/ Prune \/ PruneInterrupted \/ PushUpload \/ PullIndex \/ PullFails
            \/ \E tag \in Names, force \in BOOLEAN : Push(tag, force)
  <2>1. head' = head /\ refs' = refs /\ parents' = parents
    BY <1>11 DEF Prune, PruneInterrupted, Push, PushUpload, PullIndex, PullFails, history
  <2>2. /\ pc'.step \in {"idle", "push_upload", "push_force", "push_confirm"}
        /\ pc.step \notin {"checkout_refs", "switch_finish"}
    BY <1>11, <1>t, <1>i DEF Prune, PruneInterrupted, Push, PushUpload, PullIndex, PullFails, Pending, Ready, Idle
  <2>3. pc'.step \in {"push_upload", "push_force", "push_confirm"} => head # None /\ pc'.digest = head.snapshot
    <3>1. CASE \E tag \in Names, force \in BOOLEAN : Push(tag, force)
      BY <3>1 DEF Push, Ready, Idle
    <3>2. CASE PushUpload
      BY <3>2, <1>t DEF PushUpload, Pending, SwitchOK
    <3>3. CASE Prune \/ PruneInterrupted \/ PullIndex \/ PullFails
      BY <3>3, <1>i DEF Prune, PruneInterrupted, PullIndex, PullFails
    <3> QED
      BY <1>11, <3>1, <3>2, <3>3
  <2> QED
    BY <2>1, <2>2, <2>3 DEF SwitchOK
<1>12. CASE PushConfirm
  <2>1. head' = head /\ refs' = refs /\ parents' = parents /\ pc.step = "push_confirm"
    BY <1>12 DEF PushConfirm, history
  <2>2. /\ pc'.step \in {"idle", "advance"}
        /\ pc'.step = "advance" => pc'.digest = pc.digest /\ served[pc.name] \in ReachableFrom(head.snapshot)
    <3>1. CASE pc' = Idle
      BY <3>1, <1>i
    <3>2. CASE /\ served[pc.name] \in ReachableFrom(head.snapshot)
               /\ pc' = [Idle EXCEPT !.step = "advance", !.digest = pc.digest, !.origin = pc.digest]
      BY <3>2 DEF Idle
    <3> QED
      BY <1>12, <3>1, <3>2 DEF PushConfirm
  <2>3. head # None /\ pc.digest = head.snapshot /\ head.snapshot \in Past(parents, pc.digest)
    BY <2>1, <1>m, PastClosed DEF SwitchOK
  <2> QED
    BY <2>1, <2>2, <2>3 DEF SwitchOK
<1>13. CASE \E tag \in Names : \/ \E from \in SUBSET Snapshots : PeerPush(tag, from)
                              \/ \E s \in Snapshots : PeerRepush(tag, s)
  <2>1. /\ UNCHANGED <<head, refs, pc>>
        /\ \/ parents' = parents
           \/ created + 1 \in Snapshots /\ \E from : parents' = [parents EXCEPT ![created + 1] = from]
    BY <1>13 DEF PeerPush, PeerRepush, history
  <2>2. \A s \in Made : Past(parents', s) = Past(parents, s)
    BY <2>1, PastKept
  <2>3. pc.step = "advance" => pc.digest \in Made
    BY <1>t, MadeFacts DEF PendingOK
  <2> QED
    BY <2>1, <2>2, <2>3, <1>m DEF SwitchOK
<1>14. ASSUME NEW tag \in Names, NEW withHistory \in BOOLEAN, Pull(tag, withHistory) PROVE SwitchOK'
  <2> DEFINE name == Destination(tag)
             t == Recorded(Table)
             ref == IF t.branches[name] # None THEN t.branches[name]
                                               ELSE [snapshot |-> head.snapshot, origin |-> None]
  <2>1. /\ UNCHANGED <<parents, head>> /\ (refs # None => refs.switching = None)
        /\ pc'.step = IF name = None THEN "pull_advance" ELSE "switch_advance"
        /\ refs' = IF name = None \/ head = None THEN refs
                   ELSE [t EXCEPT !.branches[name] = ref, !.switching = name]
    BY <1>14 DEF Pull, history
  <2>2. CASE name = None \/ head = None
    BY <2>1, <2>2 DEF SwitchOK
  <2>3. CASE name # None /\ head # None
    <3>1. name \in Names /\ name # Table.current
      BY <2>3 DEF Destination, Table
    <3>2. /\ t \in RefTable /\ t.current = Table.current /\ t.current \in Names
          /\ t.branches[t.current] # None /\ t.branches[t.current].snapshot = head.snapshot
      BY <2>1, <2>3, <1>t, ReadyTable
    <3>3. refs' = [t EXCEPT !.branches[name] = ref, !.switching = name]
      BY <2>1, <2>3
    <3> HIDE DEF t, ref, name
    <3>4. refs'.current = t.current /\ refs'.branches[t.current] = t.branches[t.current]
      BY <3>1, <3>2, <3>3 DEF RefTable
    <3>5. head.snapshot \in Past(parents, head.snapshot)
      BY <2>3, <1>m, PastClosed
    <3> QED
      BY <2>1, <2>3, <3>2, <3>4, <3>5 DEF SwitchOK
  <2> QED
    BY <2>2, <2>3
<1>15. CASE PullAdvance
  <2>1. /\ refs' = refs /\ parents' = parents
        /\ \/ pc.step = "pull_advance" /\ pc'.step = "pull_index"
           \/ pc.step = "switch_advance" /\ pc'.step = "switch_finish"
        /\ head' = HeadState(pc.digest, pc.origin, {})
    BY <1>15, <1>t DEF PullAdvance, history, Pending
  <2>2. head' \in BrainState
    BY <2>1, <1>t, HeadStateType DEF Pending, PendingOK, StateOK
  <2> QED
    BY <2>1, <2>2 DEF SwitchOK
<1>16. CASE Crash
  BY <1>16 DEF Crash
<1>17. CASE UNCHANGED vars
  <2>1. UNCHANGED <<head, refs, pc, parents>>
    BY <1>17 DEF vars
  <2> QED
    BY <2>1 DEF SwitchOK
<1>18. \A b \in Snapshots : {b} \in SUBSET Snapshots
  OBVIOUS
<1> QED
  BY <1>2, <1>3, <1>4, <1>5, <1>6, <1>7, <1>8, <1>9, <1>10, <1>11, <1>12, <1>13, <1>14, <1>15, <1>16, <1>17,
     <1>18 DEF Next

\* Where a head s that branches() reported may be found after a step.
Findable(s) ==
    \/ s \in ReportedHeads'
    \/ \E h \in ReportedHeads' : s \in Past(parents', h)
    \/ s \in Published'

\* What WorkKept says of a step.
WorkStep ==
    \/ \A s \in ReportedHeads \ ReportedHeads' :
          \/ \E h \in ReportedHeads' : s \in Ancestry(h)'
          \/ s \in Published'
    \/ PullAdvance \/ FinishSwitch
    \/ \E n \in Names : DeleteBranch(n, TRUE) /\ ~ Disposable(n)

\* Lemma: no other step loses a head.
LEMMA HeadsFindable ==
    ASSUME HeldInv, HeldInv', OriginInv, CheckoutMarked, SwitchOK, [Next]_vars, "crash" \notin Features,
           ~ PullAdvance, ~ FinishSwitch, ~ \E n \in Names : DeleteBranch(n, TRUE) /\ ~ Disposable(n)
    PROVE  \A s \in ReportedHeads : Findable(s)
<1> USE NoneAssumption
<1>t. StateOK /\ PendingOK /\ pc \in Pending /\ StateOK'
  BY DEF HeldInv, StateOK
<1>e. ASSUME head' = head, refs' = refs PROVE \A s \in ReportedHeads : Findable(s)
  <2>1. Reported' = Reported
    BY <1>e DEF Reported, Recorded, Repaired, Table, Held
  <2>2. ReportedHeads' = ReportedHeads
    BY <1>e, <2>1 DEF ReportedHeads, Held
  <2> QED
    BY <2>2 DEF Findable
<1>n. ASSUME head = None PROVE \A s \in ReportedHeads : Findable(s)
  BY <1>n DEF ReportedHeads
<1> DEFINE h == head.snapshot
           c == Decided(refs, h)
<1>h. ASSUME head # None
      PROVE  /\ h \in Snapshots /\ parents \in Lines
             /\ refs = None => ReportedHeads = {h}
             /\ refs # None => ReportedHeads = Heads(refs, c, h) /\ refs \in RefTable /\ c \in Names
  BY <1>h, <1>t, ReportedAre DEF ReportedFrom, StateOK, BrainState, Lines
<1>d. ASSUME head' # None
      PROVE  /\ head'.snapshot \in Snapshots
             /\ refs' = None => ReportedHeads' = {head'.snapshot}
             /\ refs' # None => ReportedHeads' = Heads(refs', Decided(refs', head'.snapshot), head'.snapshot)
  <2>1. ReportedFrom'
    BY ReportedAre, PTL
  <2>2. head'.snapshot \in Snapshots
    BY <1>d, <1>t DEF StateOK, BrainState
  <2> QED
    BY <1>d, <1>t, <2>1, <2>2 DEF ReportedFrom
<1>1. CASE Advance
  <2> SUFFICES ASSUME head # None PROVE \A s \in ReportedHeads : Findable(s)
    BY <1>n
  <2> DEFINE d == pc.digest
  <2>1. /\ pc.step = "advance" /\ refs' = refs /\ parents' = parents
        /\ head' = HeadState(d, pc.origin, pc.retain)
    BY <1>1 DEF Advance, history
  <2>2. d \in Snapshots /\ head' # None /\ head'.snapshot = d
    <3>1. d \in Snapshots
      BY <2>1, <1>t DEF PendingOK, StateOK
    <3>2. head' \in BrainState
      BY <2>1, <3>1, <1>t, HeadStateType DEF Pending
    <3> QED
      BY <2>1, <3>1, <3>2 DEF HeadState
  <2>3. h \in Past(parents, d) /\ Past(parents, h) \subseteq Past(parents, d)
    BY <2>1, <2>2, <1>h, PastTrans DEF SwitchOK
  <2>4. d \in ReportedHeads'
    BY <2>2, <1>d DEF Heads
  <2>5. CASE refs = None
    BY <2>1, <2>3, <2>4, <2>5, <1>h DEF Findable
  <2>6. CASE refs # None
    <3> DEFINE cd == Decided(refs, d)
    <3>1. ReportedHeads = Heads(refs, c, h) /\ ReportedHeads' = Heads(refs, cd, d)
      BY <2>1, <2>2, <2>6, <1>h, <1>d
    <3>2. cd # c => refs.switching # None /\ refs.branches[refs.switching] # None
      BY DEF Decided
    <3>3. ASSUME cd # c, refs.branches[cd] # None
          PROVE  refs.branches[cd].snapshot \in {d} \cup Past(parents, d)
      <4>1. CASE cd = refs.switching
        BY <3>3, <4>1 DEF Decided
      <4>2. CASE cd = refs.current
        BY <2>1, <2>3, <2>6, <3>2, <3>3, <4>2 DEF SwitchOK
      <4> QED
        BY <4>1, <4>2 DEF Decided
    <3> HIDE DEF c, cd
    <3>4. \A s \in Heads(refs, c, h) : s \in Heads(refs, cd, d) \/ s \in Past(parents, d)
      BY <2>3, <3>3 DEF Heads, Held
    <3> QED
      BY <2>1, <2>4, <3>1, <3>4 DEF Findable
  <2> QED
    BY <2>5, <2>6
<1>2. CASE Repin \/ RepinSwitch
  <2>1. PICK o \in Origins : head' = HeadState(head.snapshot, o, {}) /\ head # None
    BY <1>2, <1>t DEF Repin, RepinSwitch, SwitchOK, Pending, StateOK, BrainState, PendingOK
  <2>2. head'.snapshot = head.snapshot /\ head' # None
    <3>1. head' \in BrainState
      BY <2>1, <1>h, <1>t, HeadStateType
    <3> QED
      BY <2>1, <3>1 DEF HeadState
  <2>3. refs' = refs
    BY <1>2 DEF Repin, RepinSwitch
  <2> QED
    BY <2>1, <2>2, <2>3, <1>h, <1>d DEF Findable
<1>3. CASE RepairRefs
  <2> SUFFICES ASSUME head # None PROVE \A s \in ReportedHeads : Findable(s)
    BY <1>n
  <2>1. /\ refs # None /\ refs.switching # None /\ refs' = Repaired(refs) /\ head' = head /\ refs \in RefTable
    BY <1>3, <1>t DEF RepairRefs, StateOK
  <2>2. refs' # None /\ refs'.branches = refs.branches /\ refs'.switching = None /\ refs'.current = c
    <3>1. CASE refs.branches[refs.switching] # None /\ head.snapshot = refs.branches[refs.switching].snapshot
      BY <2>1, <3>1 DEF Repaired, Decided, RefTable
    <3>2. CASE ~ (refs.branches[refs.switching] # None /\ head.snapshot = refs.branches[refs.switching].snapshot)
      BY <2>1, <3>2 DEF Repaired, Decided, RefTable
    <3> QED
      BY <3>1, <3>2
  <2>3. Decided(refs', h) = c
    BY <2>2 DEF Decided
  <2> HIDE DEF c
  <2>4. ReportedHeads' = ReportedHeads
    <3>1. ReportedHeads' = Heads(refs', c, h) /\ ReportedHeads = Heads(refs, c, h)
      BY <2>1, <2>2, <2>3, <1>h, <1>d
    <3>2. Heads(refs', c, h) = Heads(refs, c, h)
      BY <2>2 DEF Heads, Held
    <3> QED
      BY <3>1, <3>2
  <2> QED
    BY <2>4 DEF Findable
<1>4. CASE CheckoutRefs
  <2>1. /\ refs' = [refs EXCEPT !.current = pc.name, !.switching = None] /\ head' = head
        /\ refs \in RefTable /\ refs # None /\ pc.name \in Names /\ refs.branches[pc.name] # None
        /\ refs.switching = pc.name /\ head # None /\ head.snapshot = refs.branches[pc.name].snapshot
    BY <1>4, <1>t, NamesAssumption DEF CheckoutRefs, CheckoutMarked, PendingOK
  <2>2. refs' # None /\ refs'.branches = refs.branches /\ refs'.switching = None /\ refs'.current = pc.name
    BY <2>1 DEF RefTable
  <2>3. Decided(refs', h) = pc.name /\ c = pc.name
    BY <2>1, <2>2, NamesAssumption DEF Decided
  <2> HIDE DEF c
  <2>4. ReportedHeads' = ReportedHeads
    <3>1. ReportedHeads' = Heads(refs', c, h) /\ ReportedHeads = Heads(refs, c, h)
      BY <2>1, <2>2, <2>3, <1>h, <1>d
    <3>2. Heads(refs', c, h) = Heads(refs, c, h)
      BY <2>2 DEF Heads, Held
    <3> QED
      BY <3>1, <3>2
  <2> QED
    BY <2>4 DEF Findable
<1>5. CASE CheckoutHead
  <2> DEFINE n == pc.name
             x == refs.branches[n]
  <2>1. /\ refs' = refs /\ head' = HeadState(x.snapshot, x.origin, {}) /\ x \in BranchRef
        /\ refs \in RefTable /\ refs # None /\ n \in Names /\ n # None /\ refs.switching = n
        /\ refs.current # n /\ refs.branches[refs.current] # None
        /\ refs.branches[refs.current].snapshot = head.snapshot
    BY <1>5, <1>t, NamesAssumption DEF CheckoutHead, CheckoutMarked, PendingOK, SwitchOK
  <2>2. head' # None /\ head'.snapshot = x.snapshot
    <3>1. head' \in BrainState
      BY <2>1, <1>t, HeadStateType DEF BranchRef
    <3> QED
      BY <2>1, <3>1 DEF HeadState
  <2> SUFFICES ASSUME head # None PROVE \A s \in ReportedHeads : Findable(s)
    BY <1>n
  <2>3. Decided(refs, x.snapshot) = n /\ c \in {n, refs.current} /\ x # None
    BY <2>1 DEF Decided
  <2>4. ReportedHeads' = Heads(refs, n, x.snapshot) /\ ReportedHeads = Heads(refs, c, h)
    BY <2>1, <2>2, <2>3, <1>h, <1>d
  <2>5. ASSUME NEW s \in Heads(refs, c, h) PROVE s \in Heads(refs, n, x.snapshot)
    <3>1. CASE s = h
      BY <2>1, <3>1 DEF Heads, Held, RefTable
    <3>2. CASE s # h
      <4> HIDE DEF c, n
      <4>1. PICK b \in Held(refs) : s = refs.branches[b].snapshot
        BY <2>5, <3>2 DEF Heads
      <4> QED
        BY <4>1 DEF Heads
    <3> QED
      BY <3>1, <3>2
  <2> QED
    BY <2>4, <2>5 DEF Findable
<1>6. ASSUME NEW n \in Names, NEW start \in Snapshots, CreateBranch(n, start)
      PROVE  \A s \in ReportedHeads : Findable(s)
  <2> DEFINE t == Recorded(Table)
  <2>1. /\ head # None /\ head' = head /\ (refs # None => refs.switching = None) /\ n \notin Held(t)
        /\ refs' = [t EXCEPT !.branches[n] = [snapshot |-> start, origin |-> None]]
    BY <1>6 DEF CreateBranch, Ready
  <2>2. /\ t \in RefTable /\ t.switching = None /\ t.branches[t.current] # None /\ t.current \in Names
        /\ t.branches[t.current].snapshot = h
        /\ ReportedHeads = {t.branches[b].snapshot : b \in Held(t)}
    BY <2>1, <1>t, ReadyTable
  <2> HIDE DEF t
  <2>3. /\ refs' # None /\ refs'.switching = None /\ refs'.current = t.current
        /\ \A b \in Held(t) : refs'.branches[b] = t.branches[b]
    <3>1. t.branches \in [Names -> BranchRef \cup {None}]
      BY <2>2 DEF RefTable
    <3>2. refs' \in RefTable \cup {None} /\ refs'.switching = None /\ refs'.current = t.current
      BY <2>1, <2>2, <1>t DEF RefTable, StateOK
    <3>3. refs'.branches = [t.branches EXCEPT ![n] = [snapshot |-> start, origin |-> None]]
      BY <2>1, <2>2 DEF RefTable
    <3>4. refs' # None
      BY <2>1, <2>2, <1>t DEF RefTable, StateOK, BranchRef, Origins
    <3> QED
      BY <2>1, <3>1, <3>2, <3>3, <3>4 DEF Held
  <2>4. ReportedHeads' = Heads(refs', t.current, h)
    BY <2>1, <2>3, <1>d DEF Decided
  <2>5. \A b \in Held(t) : t.branches[b].snapshot \in Heads(refs', t.current, h)
    BY <2>2, <2>3 DEF Heads, Held
  <2> QED
    BY <2>2, <2>4, <2>5 DEF Findable
<1>7. ASSUME NEW n \in Names, NEW force \in BOOLEAN, DeleteBranch(n, force)
      PROVE  \A s \in ReportedHeads : Findable(s)
  <2> DEFINE t == Recorded(Table)
  <2>1. /\ head # None /\ head' = head /\ (refs # None => refs.switching = None) /\ n \in Held(t)
        /\ refs' = [t EXCEPT !.branches[n] = None] /\ UNCHANGED <<parents, served, taken>>
        /\ n # Table.current
    BY <1>7 DEF DeleteBranch, Ready, history, aux
  <2>2. Disposable(n)
    <3>1. force = TRUE \/ Disposable(n)
      BY <1>7 DEF DeleteBranch
    <3> QED
      BY <1>7, <3>1
  <2>3. /\ t \in RefTable /\ t.switching = None /\ t.branches[t.current] # None /\ t.current \in Names
        /\ t.branches[t.current].snapshot = h /\ t.current = Table.current
        /\ ReportedHeads = {t.branches[b].snapshot : b \in Held(t)}
    BY <2>1, <1>t, ReadyTable
  <2>4. \/ t.branches[n].origin # None /\ t.branches[n].snapshot \in ReachableFrom(t.branches[n].origin)
        \/ \E other \in Held(t) \ {n} : t.branches[n].snapshot \in ReachableFrom(t.branches[other].snapshot)
    BY <2>2 DEF Disposable
  <2>5. t.branches[n].origin # None => Pub(t.branches[n].origin)
    BY <2>1, <1>t, RecordedOrigins DEF OriginInv
  <2> HIDE DEF t
  <2>6. \A b \in Held(t) : t.branches[b].snapshot \in Snapshots /\ t.branches[b].origin \in Origins
    BY <2>3 DEF Held, RefTable, BranchRef
  <2>7. /\ refs' # None /\ refs'.switching = None /\ refs'.current = t.current
        /\ \A b \in Held(t) \ {n} : refs'.branches[b] = t.branches[b]
    BY <2>1, <2>3, <1>t DEF RefTable, Held, StateOK
  <2>8. ReportedHeads' = Heads(refs', t.current, h)
    BY <2>1, <2>7, <1>d DEF Decided
  <2>9. \A b \in Held(t) \ {n} : t.branches[b].snapshot \in ReportedHeads'
    BY <2>3, <2>7, <2>8 DEF Heads, Held
  <2>10. Findable(t.branches[n].snapshot)
    <3> DEFINE x == t.branches[n]
    <3>1. CASE x.origin # None /\ x.snapshot \in ReachableFrom(x.origin)
      <4>1. x.origin \in Snapshots
        BY <2>1, <2>6, <3>1 DEF Origins
      <4>2. x.snapshot \in Past(parents, x.origin)
        BY <3>1, <4>1, <1>t, ReachedPast
      <4>3. x.snapshot \in Published
        BY <2>5, <3>1, <4>2, PublishedAre DEF Pub
      <4>4. Published' = Published
        BY <2>1 DEF Published, TagHistory, Ancestry, Closure
      <4> QED
        BY <4>3, <4>4 DEF Findable
    <3>2. CASE \E other \in Held(t) \ {n} : x.snapshot \in ReachableFrom(t.branches[other].snapshot)
      <4>1. PICK other \in Held(t) \ {n} : x.snapshot \in ReachableFrom(t.branches[other].snapshot)
        BY <3>2
      <4>2. x.snapshot \in Past(parents, t.branches[other].snapshot)
        BY <2>6, <4>1, <1>t, ReachedPast
      <4> QED
        BY <2>1, <2>9, <4>2 DEF Findable
    <3> QED
      BY <2>4, <3>1, <3>2
  <2> QED
    BY <2>3, <2>9, <2>10 DEF Findable
<1>8. ASSUME NEW n \in Names, Checkout(n) PROVE \A s \in ReportedHeads : Findable(s)
  <2> DEFINE t == Recorded(Table)
  <2>1. /\ head # None /\ head' = head /\ (refs # None => refs.switching = None) /\ n \in Held(t)
        /\ refs' = [t EXCEPT !.switching = n]
    BY <1>8 DEF Checkout, Ready
  <2>2. /\ t \in RefTable /\ t.switching = None /\ t.branches[t.current] # None /\ t.current \in Names
        /\ t.branches[t.current].snapshot = h
        /\ ReportedHeads = {t.branches[b].snapshot : b \in Held(t)}
    BY <2>1, <1>t, ReadyTable
  <2> HIDE DEF t
  <2>3. /\ refs' # None /\ refs'.switching = n /\ refs'.current = t.current /\ refs'.branches = t.branches
    BY <2>1, <2>2, <1>t DEF RefTable, StateOK
  <2> DEFINE k == Decided(refs', h)
  <2>4. ReportedHeads' = Heads(refs', k, h)
    BY <2>1, <2>3, <1>d
  <2>5. t.branches[k].snapshot = h
    BY <2>2, <2>3 DEF Decided
  <2> HIDE DEF k
  <2>6. \A b \in Held(t) : t.branches[b].snapshot \in Heads(refs', k, h)
    BY <2>2, <2>3, <2>5 DEF Heads, Held
  <2> QED
    BY <2>2, <2>4, <2>6 DEF Findable
<1>9. ASSUME NEW n \in Names, FastForward(n) PROVE \A s \in ReportedHeads : Findable(s)
  <2>1. /\ head # None /\ refs' = refs /\ parents' = parents /\ (refs # None => refs.switching = None)
        /\ head' = HeadState(Theirs(n), head.origin, {}) /\ n \in Held(Recorded(Table))
        /\ h \in ReachableFrom(Theirs(n))
    BY <1>9 DEF FastForward, Joinable, Ready, history
  <2>2. Recorded(Table) \in RefTable
    BY <2>1, <1>t, ReadyTable
  <2> DEFINE d == Theirs(n)
  <2>3. d \in Snapshots
    BY <2>1, <2>2 DEF Theirs, Held, RefTable, BranchRef
  <2> HIDE DEF d
  <2>4. head' # None /\ head'.snapshot = d
    <3>1. head' \in BrainState
      BY <2>1, <2>3, <1>t, HeadStateType DEF StateOK, BrainState, d
    <3> QED
      BY <2>1, <3>1 DEF HeadState, d
  <2>5. d \in ReportedHeads'
    BY <2>4, <1>d DEF Heads
  <2>6. h \in Past(parents, d)
    BY <2>1, <2>3, <1>t, ReachedPast DEF d
  <2>7. \A s \in ReportedHeads : s = h \/ s \in ReportedHeads'
    <3>1. CASE refs = None
      BY <2>1, <3>1, <1>h
    <3>2. CASE refs # None
      <4>1. c = refs.current /\ Decided(refs', d) = refs.current
        BY <2>1, <3>2 DEF Decided
      <4>2. ReportedHeads = Heads(refs, refs.current, h) /\ ReportedHeads' = Heads(refs, refs.current, d)
        BY <2>1, <2>4, <3>2, <4>1, <1>h, <1>d
      <4> QED
        BY <4>2 DEF Heads
    <3> QED
      BY <3>1, <3>2
  <2> QED
    BY <2>1, <2>5, <2>6, <2>7 DEF Findable
<1>10. ASSUME NEW tag \in Names, NEW withHistory \in BOOLEAN, Pull(tag, withHistory)
       PROVE  \A s \in ReportedHeads : Findable(s)
  <2> DEFINE name == Destination(tag)
             t == Recorded(Table)
             ref == IF t.branches[name] # None THEN t.branches[name]
                                               ELSE [snapshot |-> head.snapshot, origin |-> None]
  <2>1. /\ head' = head /\ (refs # None => refs.switching = None)
        /\ refs' = IF name = None \/ head = None THEN refs
                   ELSE [t EXCEPT !.branches[name] = ref, !.switching = name]
    BY <1>10 DEF Pull
  <2>2. CASE name = None \/ head = None
    BY <2>1, <2>2, <1>e
  <2>3. CASE name # None /\ head # None
    <3>1. name \in Names
      BY <2>3 DEF Destination
    <3>2. /\ t \in RefTable /\ t.current \in Names
          /\ t.branches[t.current] # None /\ t.branches[t.current].snapshot = h
          /\ ReportedHeads = {t.branches[b].snapshot : b \in Held(t)}
      BY <2>1, <2>3, <1>t, ReadyTable
    <3>3. refs' = [t EXCEPT !.branches[name] = ref, !.switching = name]
      BY <2>1, <2>3
    <3>4. t.branches[name] # None => ref = t.branches[name]
      OBVIOUS
    <3> HIDE DEF t, ref, name
    <3>5. /\ refs' # None /\ refs'.current = t.current /\ refs'.switching = name
          /\ refs'.branches[name] = ref /\ \A b \in Names \ {name} : refs'.branches[b] = t.branches[b]
      <4>1. t.branches \in [Names -> BranchRef \cup {None}]
        BY <3>2 DEF RefTable
      <4>2. refs'.branches = [t.branches EXCEPT ![name] = ref]
        BY <3>2, <3>3 DEF RefTable
      <4>3. refs'.current = t.current /\ refs'.switching = name
        BY <3>2, <3>3 DEF RefTable
      <4>4. ref \in BranchRef
        BY <4>1, <3>1, <2>3, <1>h DEF ref, BranchRef, Origins
      <4>5. refs' \in RefTable
        BY <3>1, <3>2, <3>3, <4>1, <4>4 DEF RefTable
      <4> QED
        BY <3>1, <4>1, <4>2, <4>3, <4>5
    <3>6. \A b \in Held(t) : b \in Held(refs') /\ refs'.branches[b] = t.branches[b]
      BY <3>1, <3>4, <3>5 DEF Held
    <3> DEFINE k == Decided(refs', h)
    <3>7. ReportedHeads' = Heads(refs', k, h)
      BY <2>1, <2>3, <3>5, <1>d
    <3>8. k \in Held(refs') /\ refs'.branches[k].snapshot = h
      BY <3>1, <3>2, <3>5, <3>6 DEF Decided, Held
    <3> HIDE DEF k
    <3>9. \A b \in Held(t) : t.branches[b].snapshot \in Heads(refs', k, h)
      BY <3>6, <3>8 DEF Heads
    <3> QED
      BY <3>2, <3>7, <3>9 DEF Findable
  <2> QED
    BY <2>2, <2>3
<1>11. CASE \/ \E b \in SUBSET Snapshots : Write(b)
            \/ \E n \in Names, strategy \in {"merge", "squash"} : Reconcile(n, strategy)
            \/ \E tag \in Names, from \in SUBSET Snapshots : PeerPush(tag, from)
            \/ \E tag \in Names, s \in Snapshots : PeerRepush(tag, s)
            \/ \E tag \in Names, force \in BOOLEAN : Push(tag, force)
            \/ Prune \/ PruneInterrupted \/ PushUpload \/ PushConfirm \/ PullIndex \/ PullFails
            \/ UNCHANGED vars
  <2>1. head' = head /\ refs' = refs
    BY <1>11 DEF Write, Reconcile, PeerPush, PeerRepush, Prune, PruneInterrupted, Push, PushUpload, PushConfirm, PullIndex,
                 PullFails, vars
  <2> QED
    BY <2>1, <1>e
<1>12. CASE Crash
  BY <1>12 DEF Crash
<1>13. \A b \in Snapshots : {b} \in SUBSET Snapshots
  OBVIOUS
<1> QED
  BY <1>1, <1>2, <1>3, <1>4, <1>5, <1>6, <1>7, <1>8, <1>9, <1>10, <1>11, <1>12, <1>13 DEF Next

\* No step but a pull that replaces a head, and the forced delete of a branch that delete_branch
\* would refuse, makes a branch head unreachable, in every brain whose calls run to their end or
\* raise: it is in the history of a branch or of a tag, or it was published and another client's
\* write, or a forced push, took it out of its tag.  The configuration BranchesCrashWork shows what
\* a crash between two pointer writes does.
THEOREM WorkIsKept ==
    ASSUME "crash" \notin Features
    PROVE  Spec => WorkKept
<1>1. Init => OriginInv /\ CheckoutMarked /\ SwitchOK
  BY DEF Init, OriginInv, PushOK, AllOrigins, HeadOrigins, RefOrigins, Pends, Idle, CheckoutMarked, SwitchOK
<1>2. HeldInv /\ HeldInv' /\ PublicOK /\ OriginInv /\ [Next]_vars => OriginInv'
  BY OriginNext
<1>3. HeldInv /\ CheckoutMarked /\ [Next]_vars => CheckoutMarked'
  BY MarkedNext
<1>4. HeldInv /\ HeldInv' /\ CheckoutMarked /\ SwitchOK /\ [Next]_vars => SwitchOK'
  BY SwitchNext
<1>5. HeldInv /\ HeldInv' /\ OriginInv /\ CheckoutMarked /\ SwitchOK /\ [Next]_vars => WorkStep
  <2> SUFFICES ASSUME HeldInv, HeldInv', OriginInv, CheckoutMarked, SwitchOK, [Next]_vars,
                      ~ PullAdvance, ~ FinishSwitch, ~ \E n \in Names : DeleteBranch(n, TRUE) /\ ~ Disposable(n)
               PROVE  WorkStep
    BY DEF WorkStep
  <2>1. \A s \in ReportedHeads : Findable(s)
    BY HeadsFindable
  <2>2. \A s \in Snapshots : Ancestry(s)' = Past(parents', s)
    BY DEF Ancestry, Closure, Past
  <2>3. ReportedHeads' \subseteq Snapshots
    <3>1. StateOK' /\ ReportedFrom'
      BY ReportedAre, PTL DEF HeldInv
    <3>2. CASE head' = None
      BY <3>2 DEF ReportedHeads
    <3>3. CASE head' # None /\ refs' = None
      <4>1. ReportedHeads' = {head'.snapshot}
        BY <3>1, <3>3 DEF ReportedFrom
      <4> QED
        BY <4>1, <3>1, <3>3 DEF StateOK, BrainState
    <3>4. CASE head' # None /\ refs' # None
      <4>1. ReportedHeads' = Heads(refs', Decided(refs', head'.snapshot), head'.snapshot) /\ refs' \in RefTable
        BY <3>1, <3>4 DEF ReportedFrom
      <4> HIDE DEF Decided
      <4> QED
        BY <4>1, <3>1, <3>4 DEF Heads, Held, RefTable, BranchRef, StateOK, BrainState
    <3> QED
      BY <3>2, <3>3, <3>4
  <2> QED
    BY <2>1, <2>2, <2>3 DEF WorkStep, Findable
<1> QED
  BY <1>1, <1>2, <1>3, <1>4, <1>5, HeldInit, HeldNext, PublicInit, PublicNext, PTL DEF Spec, WorkKept, WorkStep

-----------------------------------------------------------------------------
(* What the head retains.                                                  *)

\* Lemma: a set of naturals that is not empty has a least element.
LEMMA NatMin ==
    ASSUME NEW T \in SUBSET Nat, T # {}
    PROVE  \E x \in T : \A y \in T : x <= y
<1> DEFINE R == {p \in Nat \X Nat : p[1] < p[2]}
<1>1. IsWellFoundedOn(R, Nat)
  BY NatLessThanWellFounded, Zenon DEF OpToRel
<1> HIDE DEF R
<1>2. PICK x \in T : \A y \in T : ~ (<<y, x>> \in R)
  BY <1>1, WFMin
<1>3. \A y \in T : ~ (y < x)
  BY <1>2 DEF R
<1> QED
  BY <1>3

\* A list without duplicates: no two snapshots share a place.
Distinct(f) == \A x, y \in Snapshots : f[x] > 0 /\ f[x] = f[y] => x = y

\* Members with different ranks f, and how many each has before it.
Ranked(S, f, p) ==
    /\ f \in [S -> Nat] /\ \A x, y \in S : f[x] = f[y] => x = y
    /\ p \in [S -> Nat] /\ \A x \in S : p[x] = Cardinality({y \in S : f[y] < f[x]})

\* Lemma: of members with different ranks, each has its own number of predecessors, and those
\* with fewer than k are at most k.
LEMMA FirstFew ==
    ASSUME NEW S, IsFiniteSet(S), NEW f, NEW p, Ranked(S, f, p), NEW k \in Nat
    PROVE  /\ \A x, y \in S : p[x] = p[y] => x = y
           /\ Cardinality({x \in S : p[x] < k}) <= k
<1>0. /\ f \in [S -> Nat] /\ \A x, y \in S : f[x] = f[y] => x = y
      /\ p \in [S -> Nat] /\ \A x \in S : p[x] = Cardinality({y \in S : f[y] < f[x]})
  BY DEF Ranked
<1>1. ASSUME NEW x \in S, NEW y \in S, f[x] < f[y] PROVE p[x] < p[y]
  <2> DEFINE A == {z \in S : f[z] < f[x]}
             B == {z \in S : f[z] < f[y]}
  <2>1. A \in SUBSET B /\ B \in SUBSET S /\ x \in B /\ x \notin A
    BY <1>0, <1>1
  <2>2. IsFiniteSet(B) /\ IsFiniteSet(A)
    BY <2>1, FS_Subset
  <2>3. Cardinality(A) <= Cardinality(B) /\ Cardinality(A) # Cardinality(B)
    BY <2>1, <2>2, FS_Subset
  <2>4. p[x] = Cardinality(A) /\ p[y] = Cardinality(B) /\ p[x] \in Nat /\ p[y] \in Nat
    BY <1>0
  <2> QED
    BY <2>3, <2>4
<1>2. \A x, y \in S : p[x] = p[y] => x = y
  <2> SUFFICES ASSUME NEW x \in S, NEW y \in S, x # y PROVE p[x] # p[y]
    OBVIOUS
  <2>1. f[x] < f[y] \/ f[y] < f[x]
    BY <1>0
  <2>2. p[x] \in Nat /\ p[y] \in Nat
    BY <1>0
  <2> QED
    BY <2>1, <2>2, <1>1
<1>3. Cardinality({x \in S : p[x] < k}) <= k
  <2> DEFINE F == {x \in S : p[x] < k}
             g == [x \in F |-> p[x]]
  <2>1. IsFiniteSet(F) /\ Cardinality(F) \in Nat
    BY FS_Subset, FS_CardinalityType
  <2>2. IsFiniteSet(0 .. k - 1) /\ Cardinality(0 .. k - 1) = k
    BY FS_Interval
  <2>3. g \in [F -> 0 .. k - 1]
    BY <1>0
  <2>4. \A x, y \in F : g[x] = g[y] => x = y
    BY <1>2
  <2> HIDE DEF F, g
  <2>5. ~ (k < Cardinality(F))
    BY <2>1, <2>2, <2>3, <2>4, FS_PigeonHole
  <2> QED
    BY <2>1, <2>5 DEF F
<1> QED
  BY <1>2, <1>3

\* Lemma: two branch heads stand at different places among the pinned.
LEMMA PinnedApart ==
    ASSUME StateOK, NEW c \in BranchHeads, NEW d \in BranchHeads, c # d
    PROVE  PinnedRank(c) # PinnedRank(d)
<1> DEFINE At(x) == {n \in Held(refs) : refs.branches[n].snapshot = x}
           Before(x) == {b \in Held(refs) : \A n \in Held(refs) : refs.branches[n].snapshot = x => b < n}
<1>1. Held(refs) \in SUBSET Names /\ Held(refs) \in SUBSET Nat /\ IsFiniteSet(Held(refs))
  BY NamesAssumption, FS_Subset DEF Held
<1>2. At(c) # {} /\ At(d) # {}
  BY DEF BranchHeads
<1>3. PICK m \in At(c) : \A n \in At(c) : m <= n
  <2>1. At(c) \in SUBSET Nat
    BY <1>1
  <2> HIDE DEF At
  <2> QED
    BY <1>2, <2>1, NatMin
<1>4. PICK k \in At(d) : \A n \in At(d) : k <= n
  <2>1. At(d) \in SUBSET Nat
    BY <1>1
  <2> HIDE DEF At
  <2> QED
    BY <1>2, <2>1, NatMin
<1>5. m # k /\ m \in Nat /\ k \in Nat
  BY <1>1, <1>3, <1>4
<1>6. Before(c) = {b \in Held(refs) : b < m} /\ Before(d) = {b \in Held(refs) : b < k}
  <2>1. \A b \in Held(refs) : b \in Before(c) <=> b < m
    BY <1>1, <1>3
  <2>2. \A b \in Held(refs) : b \in Before(d) <=> b < k
    BY <1>1, <1>4
  <2> QED
    BY <2>1, <2>2
<1>7. PinnedRank(c) = Cardinality(Before(c)) /\ PinnedRank(d) = Cardinality(Before(d))
  BY DEF PinnedRank
<1>8. m \in Held(refs) /\ k \in Held(refs)
  BY <1>3, <1>4
<1>9. Before(c) # Before(d) /\ (Before(c) \subseteq Before(d) \/ Before(d) \subseteq Before(c))
  BY <1>1, <1>5, <1>6, <1>8
<1>10. IsFiniteSet(Before(c)) /\ IsFiniteSet(Before(d))
  BY <1>1, FS_Subset
<1> HIDE DEF Before, At
<1> QED
  BY <1>7, <1>9, <1>10, FS_Subset

\* Lemma: what _write_head writes is a list without duplicates, with every branch head in it and
\* no more others than the bound.
LEMMA HeadStateList ==
    ASSUME StateOK, head # None => Distinct(head.retained),
           NEW d \in Snapshots, NEW o \in Origins, NEW r \in SUBSET Snapshots, \A x, y \in r : x = y
    PROVE  /\ Distinct(HeadState(d, o, r).retained)
           /\ BranchHeads \subseteq Retained(HeadState(d, o, r))
           /\ Cardinality((Retained(HeadState(d, o, r)) \ BranchHeads) \ {d}) <= RetainedRoots - 1
<1> USE NoneAssumption
<1> DEFINE h == HeadState(d, o, r)
           S == Unpinned(d, r)
           f == [c \in S |-> CandidateRank(c, d, r)]
           p == [c \in S |-> Preceding(c, d, r)]
           B == Bounded(d, r)
<1>0. h \in BrainState /\ h # None /\ RetainedRoots \in Nat
  BY HeadStateType, RetainedAssumption
<1>1. S \in SUBSET Snapshots /\ IsFiniteSet(S) /\ d \in S
  <2>1. S \in SUBSET Snapshots /\ d \in S
    BY DEF Unpinned, Retained
  <2>2. IsFiniteSet(Snapshots)
    BY FS_Interval, BoundAssumption DEF Snapshots
  <2> HIDE DEF S
  <2> QED
    BY <2>1, <2>2, FS_Subset
<1>2. \A c \in S : CandidateRank(c, d, r) \in Nat
  BY DEF Unpinned, CandidateRank, Retained, StateOK, BrainState
<1>3. \A x, y \in S : CandidateRank(x, d, r) = CandidateRank(y, d, r) => x = y
  <2>1. \A x \in S : x = d \/ x \in r \/ (head # None /\ head.retained[x] \in Nat /\ head.retained[x] > 0)
    BY DEF Unpinned, Retained, StateOK, BrainState
  <2> QED
    BY <1>1, <2>1 DEF CandidateRank, Distinct
<1>4. \A c \in S : Preceding(c, d, r) = Cardinality({y \in S : CandidateRank(y, d, r) < CandidateRank(c, d, r)})
  BY DEF Preceding
<1>5. \A c \in S : Preceding(c, d, r) \in Nat
  <2>1. \A c : {y \in S : CandidateRank(y, d, r) < CandidateRank(c, d, r)} \in SUBSET Snapshots
    BY <1>1
  <2> QED
    BY <1>4, <2>1, CountsAreNaturals
<1> HIDE DEF S
<1>6. /\ \A x, y \in S : p[x] = p[y] => x = y
      /\ Cardinality({x \in S : p[x] < RetainedRoots}) <= RetainedRoots
  <2>1. f \in [S -> Nat] /\ p \in [S -> Nat] /\ \A x, y \in S : f[x] = f[y] => x = y
    BY <1>2, <1>3, <1>5
  <2>2. \A x \in S : p[x] = Cardinality({y \in S : f[y] < f[x]})
    <3> SUFFICES ASSUME NEW x \in S PROVE p[x] = Cardinality({y \in S : f[y] < f[x]})
      OBVIOUS
    <3>1. {y \in S : f[y] < f[x]} = {y \in S : CandidateRank(y, d, r) < CandidateRank(x, d, r)}
      OBVIOUS
    <3> QED
      BY <1>4, <3>1
  <2>3. Ranked(S, f, p)
    BY <2>1, <2>2 DEF Ranked
  <2> HIDE DEF f, p
  <2> QED
    BY <1>0, <1>1, <2>3, FirstFew
<1>7. B = {x \in S : p[x] < RetainedRoots} /\ d \in B
  <2>1. B = {x \in S : p[x] < RetainedRoots}
    BY DEF Bounded, S
  <2>2. {y \in S : CandidateRank(y, d, r) < CandidateRank(d, d, r)} = {}
    BY <1>2, <1>1 DEF CandidateRank
  <2>3. Preceding(d, d, r) = 0
    BY <1>1, <1>4, <2>2, FS_EmptySet
  <2> QED
    BY <1>1, <2>1, <2>3, RetainedAssumption
<1>8. \A c \in Snapshots : h.retained[c] =
          IF c \in B THEN Preceding(c, d, r) + 1
          ELSE IF c \in BranchHeads THEN RetainedRoots + PinnedRank(c) + 1
          ELSE 0
  BY DEF HeadState
<1>9. \A c \in BranchHeads : PinnedRank(c) \in Nat
  BY CountsAreNaturals DEF PinnedRank, Held
<1>10. BranchHeads \subseteq Snapshots
  BY DEF BranchHeads, Held, StateOK, RefTable, BranchRef
<1>11. \A c \in B : c \in S /\ Preceding(c, d, r) \in Nat /\ Preceding(c, d, r) < RetainedRoots
  BY <1>5, <1>7
<1>12. \A x, y \in B : Preceding(x, d, r) = Preceding(y, d, r) => x = y
  BY <1>6, <1>11
<1> HIDE DEF h, B
<1>13. BranchHeads \subseteq Retained(h)
  BY <1>0, <1>8, <1>9, <1>10, <1>11 DEF Retained
<1>14. Distinct(h.retained)
  <2> SUFFICES ASSUME NEW x \in Snapshots, NEW y \in Snapshots, h.retained[x] > 0, h.retained[x] = h.retained[y]
               PROVE  x = y
    BY DEF Distinct
  <2>1. CASE x \in B
    BY <2>1, <1>0, <1>8, <1>9, <1>11, <1>12
  <2>2. CASE x \notin B
    BY <2>2, <1>0, <1>8, <1>9, <1>11, PinnedApart
  <2> QED
    BY <2>1, <2>2
<1>15. Cardinality((Retained(h) \ BranchHeads) \ {d}) <= RetainedRoots - 1
  <2>1. (Retained(h) \ BranchHeads) \ {d} \in SUBSET (B \ {d})
    BY <1>0, <1>8 DEF Retained
  <2>2. IsFiniteSet(B) /\ Cardinality(B) <= RetainedRoots
    <3>1. B \in SUBSET S
      BY <1>7
    <3> QED
      BY <3>1, <1>1, <1>6, <1>7, FS_Subset
  <2>3. IsFiniteSet(B \ {d}) /\ Cardinality(B \ {d}) = Cardinality(B) - 1
    BY <2>2, <1>7, FS_RemoveElement
  <2>4. Cardinality((Retained(h) \ BranchHeads) \ {d}) <= Cardinality(B \ {d})
    BY <2>1, <2>3, FS_Subset
  <2>5. Cardinality(B) \in Nat /\ Cardinality((Retained(h) \ BranchHeads) \ {d}) \in Nat
    BY <2>1, <2>2, <2>3, FS_Subset, FS_CardinalityType
  <2> QED
    BY <2>2, <2>3, <2>4, <2>5, <1>0
<1> QED
  BY <1>13, <1>14, <1>15 DEF h

\* What the pointer retains beyond its own snapshot and the branch heads, and whether the branch
\* that is current has its ref at the head.
Spare == (Retained(head) \ BranchHeads) \ {head.snapshot}
AtHead ==
    /\ refs # None
    /\ refs.branches[Decided(refs, head.snapshot)] # None
    /\ refs.branches[Decided(refs, head.snapshot)].snapshot = head.snapshot

RankInv ==
    /\ head # None => Distinct(head.retained)
    /\ \A x, y \in pc.retain : x = y

\* Recording the head in the refs may put one more snapshot among the spare, and once it is
\* recorded cannot do so again.
RetainInv ==
    head # None =>
        /\ pc.step # "repin" => BranchHeads \subseteq Retained(head)
        /\ pc.step \notin {"repin", "switch_repin"} =>
              \/ Cardinality(Spare) <= RetainedRoots - 1
              \/ Cardinality(Spare) <= RetainedRoots /\ AtHead

\* Lemma: a step that writes the head pointer and leaves the refs.
LEMMA HeadWritten ==
    ASSUME StateOK, RankInv, refs' = refs, \A x, y \in pc'.retain : x = y,
           NEW d \in Snapshots, NEW o \in Origins, NEW r \in SUBSET Snapshots, \A x, y \in r : x = y,
           head' = HeadState(d, o, r)
    PROVE  RankInv' /\ RetainInv'
<1>1. /\ Distinct(head'.retained)
      /\ BranchHeads \subseteq Retained(head')
      /\ Cardinality((Retained(head') \ BranchHeads) \ {d}) <= RetainedRoots - 1
  BY HeadStateList DEF RankInv
<1>2. head'.snapshot = d
  BY DEF HeadState
<1>3. BranchHeads' = BranchHeads
  BY DEF BranchHeads, Held
<1>4. Spare' = (Retained(head') \ BranchHeads) \ {d}
  BY <1>2, <1>3 DEF Spare, Retained, Snapshots
<1>5. BranchHeads' \subseteq Retained(head')
  BY <1>1, <1>3
<1>6. Retained(head') = Retained(head)'
  BY DEF Retained, Snapshots
<1> QED
  BY <1>1, <1>4, <1>5, <1>6 DEF RankInv, RetainInv

\* Lemma: a step that leaves both pointers.
LEMMA PointersSame ==
    ASSUME StateOK, RankInv, RetainInv, head' = head, refs' = refs, \A x, y \in pc'.retain : x = y,
           pc.step \notin {"repin", "switch_repin"}
    PROVE  RankInv' /\ RetainInv'
<1>1. BranchHeads' = BranchHeads /\ Retained(head)' = Retained(head) /\ Spare' = Spare /\ (AtHead' <=> AtHead)
  BY DEF BranchHeads, Held, Retained, Snapshots, Spare, AtHead, Decided
<1> QED
  BY <1>1 DEF RankInv, RetainInv

\* Lemma: the refs brought up to the head, with perhaps one more branch that starts there.
LEMMA RefsRecorded ==
    ASSUME StateOK, StateOK', RankInv, RetainInv, head # None, head' = head, pc = Idle, \A x, y \in pc'.retain : x = y,
           head.snapshot \in Retained(head), refs # None => refs.switching = None,
           refs' # None, NEW name \in Names, refs'.switching = name, refs'.current = Table.current,
           refs'.branches[name] # None,
           refs'.branches[name] = Recorded(Table).branches[name] \/ refs'.branches[name].snapshot = head.snapshot,
           Recorded(Table).branches[name] # None => refs'.branches[name] = Recorded(Table).branches[name],
           \A b \in Names \ {name} : refs'.branches[b] = Recorded(Table).branches[b]
    PROVE  RankInv' /\ RetainInv'
<1> USE NoneAssumption
<1> DEFINE t == Recorded(Table)
           h == head.snapshot
           c == Table.current
           B == BranchHeads
<1>1. /\ t \in RefTable /\ t.branches[c] # None /\ t.branches[c].snapshot = h /\ c \in Names
  BY ReadyTable
<1>2. /\ \A b \in Names : refs'.branches[b] # None => refs'.branches[b].snapshot \in {h} \cup B
      /\ \A b \in Names : t.branches[b] # None => refs'.branches[b] = t.branches[b]
  <2>1. \A b \in Names : t.branches[b] # None => t.branches[b].snapshot \in {h} \cup B
    BY RecordedTable
  <2> QED
    BY <2>1
<1>3. BranchHeads' = {refs'.branches[b].snapshot : b \in Held(refs')}
  BY DEF BranchHeads
<1>4. BranchHeads' \subseteq {h} \cup B /\ h \in BranchHeads'
  BY <1>1, <1>2, <1>3 DEF Held
<1>5. BranchHeads' \subseteq Retained(head)'
  <2>1. B \subseteq Retained(head)
    BY DEF RetainInv, Idle
  <2>2. Retained(head)' = Retained(head)
    BY DEF Retained, Snapshots
  <2> QED
    BY <1>4, <2>1, <2>2
<1>6. AtHead'
  <2>1. Decided(refs', h) \in {name, c}
    BY DEF Decided
  <2>2. refs'.branches[c] # None /\ refs'.branches[c].snapshot = h
    BY <1>1, <1>2
  <2>3. Decided(refs', h) = name => refs'.branches[name].snapshot = h
    BY <2>2, NamesAssumption DEF Decided
  <2> HIDE DEF Decided
  <2>4. AtHead' <=> /\ refs' # None
                   /\ refs'.branches[Decided(refs', h)] # None
                   /\ refs'.branches[Decided(refs', h)].snapshot = h
    BY DEF AtHead, Decided
  <2> QED
    BY <2>1, <2>2, <2>3, <2>4
<1>7. Cardinality(Spare') <= RetainedRoots
  <2> DEFINE old == refs.branches[c]
  <2>1. \A b \in Names \ {c} : t.branches[b] = Table.branches[b]
    <3>1. Table \in RefTable /\ t.branches = [Table.branches EXCEPT ![c] = [snapshot |-> h, origin |-> head.origin]]
      BY RecordedTable DEF Recorded, RefTable
    <3> QED
      BY <3>1 DEF RefTable
  <2>2. Spare' = (Retained(head) \ BranchHeads') \ {h} /\ Spare = (Retained(head) \ B) \ {h}
    BY DEF Spare, Retained, Snapshots
  <2>f. IsFiniteSet(Spare) /\ Cardinality(Spare) \in Nat /\ RetainedRoots \in Nat
    <3>1. IsFiniteSet(Snapshots) /\ Spare \in SUBSET Snapshots
      BY FS_Interval, BoundAssumption DEF Snapshots, Spare, Retained
    <3> QED
      BY <3>1, FS_Subset, FS_CardinalityType, RetainedAssumption
  <2>b. Cardinality(Spare) <= RetainedRoots - 1 \/ (Cardinality(Spare) <= RetainedRoots /\ AtHead)
    BY DEF RetainInv, Idle
  <2>3. CASE refs = None
    <3>1. Spare' \in SUBSET Spare
      BY <2>2, <2>3 DEF BranchHeads
    <3> QED
      BY <2>b, <2>f, <3>1, <2>3, FS_Subset, FS_CardinalityType
  <2>4. CASE refs # None
    <3>1. Table = refs /\ refs \in RefTable /\ B = {refs.branches[b].snapshot : b \in Held(refs)}
      BY <2>4 DEF Table, StateOK, BranchHeads
    <3>2. ASSUME NEW x \in B, x \notin BranchHeads' PROVE old # None /\ x = old.snapshot
      <4>1. PICK b \in Held(refs) : x = refs.branches[b].snapshot
        BY <3>1, <3>2
      <4>2. b = c
        <5> SUFFICES ASSUME b # c PROVE FALSE
          OBVIOUS
        <5>1. b \in Names /\ t.branches[b] = refs.branches[b] /\ refs.branches[b] # None
          BY <2>1, <3>1, <4>1 DEF Held
        <5>2. refs'.branches[b] = refs.branches[b]
          BY <1>2, <5>1
        <5> QED
          BY <1>3, <3>2, <4>1, <5>1, <5>2 DEF Held
      <4> QED
        BY <4>1, <4>2 DEF Held
    <3>3. CASE AtHead
      <4>1. Decided(refs, h) = c
        BY <3>1, <2>4 DEF Decided
      <4>2. old # None /\ old.snapshot = h
        BY <3>3, <4>1 DEF AtHead
      <4>3. Spare' \in SUBSET Spare
        BY <1>4, <2>2, <3>2, <4>2
      <4> QED
        BY <2>b, <2>f, <4>3, FS_Subset, FS_CardinalityType
    <3>4. CASE ~ AtHead
      <4>1. Spare' \in SUBSET (Spare \cup {old.snapshot})
        BY <2>2, <3>2
      <4>2. IsFiniteSet(Spare \cup {old.snapshot}) /\ Cardinality(Spare \cup {old.snapshot}) <= Cardinality(Spare) + 1
        <5>1. /\ IsFiniteSet(Spare \cup {old.snapshot})
              /\ Cardinality(Spare \cup {old.snapshot}) =
                    IF old.snapshot \in Spare THEN Cardinality(Spare) ELSE Cardinality(Spare) + 1
          <6> HIDE DEF old
          <6> QED
            BY <2>f, FS_AddElement
        <5> QED
          BY <2>f, <5>1
      <4>3. Cardinality(Spare') <= Cardinality(Spare \cup {old.snapshot})
        BY <4>1, <4>2, FS_Subset
      <4>4. Cardinality(Spare') \in Nat /\ Cardinality(Spare \cup {old.snapshot}) \in Nat
        BY <4>1, <4>2, FS_Subset, FS_CardinalityType
      <4> QED
        BY <2>b, <2>f, <3>4, <4>2, <4>3, <4>4
    <3> QED
      BY <3>3, <3>4
  <2> QED
    BY <2>3, <2>4
<1> QED
  BY <1>5, <1>6, <1>7 DEF RankInv, RetainInv

\* Lemma: the list stays exact through every call that runs to its end or raises.
LEMMA RetainNext ==
    ASSUME HeldInv, HeldInv', CheckoutMarked, SwitchOK, RankInv, RetainInv, [Next]_vars, "crash" \notin Features
    PROVE  RankInv' /\ RetainInv'
<1> USE NoneAssumption
<1>t. StateOK /\ PendingOK /\ pc \in Pending /\ StateOK'
  BY DEF HeldInv, StateOK
<1>i. Idle.step = "idle" /\ Idle.retain = {}
  BY DEF Idle
<1>h. head # None => head \in BrainState /\ head.snapshot \in Snapshots /\ head.origin \in Origins
                     /\ head.snapshot \in Retained(head)
  BY <1>t DEF StateOK, BrainState, HeldInv, DocsHeld
<1>1. ASSUME NEW b \in SUBSET Snapshots, Write(b) PROVE RankInv' /\ RetainInv'
  <2>1. head' = head /\ refs' = refs /\ pc = Idle /\ pc'.retain = {}
    BY <1>1 DEF Write, Idle
  <2> QED
    BY <2>1, <1>t, <1>i, PointersSame
<1>2. ASSUME NEW n \in Names, NEW strategy \in {"merge", "squash"}, Reconcile(n, strategy) PROVE RankInv' /\ RetainInv'
  <2>1. head' = head /\ refs' = refs /\ pc = Idle /\ pc'.retain \in {{Theirs(n)}, {}}
    BY <1>2 DEF Reconcile, Joinable, Ready, Idle
  <2> QED
    BY <2>1, <1>t, <1>i, PointersSame
<1>3. CASE Advance \/ Repin \/ PullAdvance
  <2>1. PICK r \in {pc.retain, {}} : head' = HeadState(pc.digest, pc.origin, r) /\ refs' = refs
    BY <1>3 DEF Advance, Repin, PullAdvance
  <2>2. pc.digest \in Snapshots /\ pc.origin \in Origins /\ r \in SUBSET Snapshots /\ \A x, y \in r : x = y
    BY <1>3, <1>t DEF Advance, Repin, PullAdvance, PendingOK, StateOK, Pending, RankInv
  <2>3. pc'.retain \in {{}, pc.retain}
    BY <1>3, <1>t, <1>i DEF Advance, Repin, PullAdvance, Pending
  <2> QED
    BY <2>1, <2>2, <2>3, <1>t, HeadWritten DEF RankInv
<1>4. CASE CheckoutHead \/ RepinSwitch \/ \E n \in Names : FastForward(n)
  <2>1. PICK d \in Snapshots, o \in Origins : head' = HeadState(d, o, {}) /\ refs' = refs
    <3>1. CASE CheckoutHead
      <4>1. refs.branches[pc.name] \in BranchRef
        BY <3>1, <1>t DEF CheckoutHead, PendingOK
      <4> QED
        BY <3>1, <4>1 DEF CheckoutHead, BranchRef
    <3>2. CASE RepinSwitch
      <4>1. head # None
        BY <3>2, <1>t DEF RepinSwitch, PendingOK
      <4> QED
        BY <3>2, <4>1, <1>h DEF RepinSwitch
    <3>3. CASE \E n \in Names : FastForward(n)
      <4>1. PICK n \in Names : FastForward(n)
        BY <3>3
      <4>2. head # None /\ n \in Held(Recorded(Table)) /\ (refs # None => refs.switching = None)
        BY <4>1 DEF FastForward, Joinable, Ready
      <4>3. Theirs(n) \in Snapshots
        BY <4>2, <1>t, ReadyTable DEF Theirs, Held, RefTable, BranchRef
      <4> QED
        BY <4>1, <4>2, <4>3, <1>h DEF FastForward
    <3> QED
      BY <1>4, <3>1, <3>2, <3>3
  <2>2. pc'.retain \in {{}, pc.retain}
    BY <1>4, <1>t DEF CheckoutHead, RepinSwitch, FastForward, Pending
  <2>3. \A x, y \in pc'.retain : x = y
    BY <2>2 DEF RankInv
  <2> QED
    BY <2>1, <2>3, <1>t, HeadWritten
<1>5. CASE \/ Prune \/ PruneInterrupted \/ PushUpload \/ PushConfirm \/ PullIndex \/ PullFails
           \/ \E tag \in Names, force \in BOOLEAN : Push(tag, force)
  <2>1. head' = head /\ refs' = refs
    BY <1>5 DEF Prune, PruneInterrupted, Push, PushUpload, PushConfirm, PullIndex, PullFails
  <2>2. pc.step \notin {"repin", "switch_repin"}
    BY <1>5, <1>i DEF Prune, PruneInterrupted, Push, PushUpload, PushConfirm, PullIndex, PullFails, Ready
  <2>3. pc'.retain \in {{}, pc.retain}
    <3>1. CASE Prune \/ PruneInterrupted \/ PullIndex \/ PullFails
      BY <3>1, <1>i DEF Prune, PruneInterrupted, PullIndex, PullFails
    <3>2. CASE \E tag \in Names, force \in BOOLEAN : Push(tag, force)
      BY <3>2 DEF Push, Idle
    <3>3. CASE PushUpload
      BY <3>3, <1>t DEF PushUpload, Pending
    <3>4. CASE PushConfirm
      <4>1. \/ pc' = Idle
            \/ pc' = [Idle EXCEPT !.step = "advance", !.digest = pc.digest, !.origin = pc.digest]
        BY <3>4 DEF PushConfirm
      <4>2. [Idle EXCEPT !.step = "advance", !.digest = pc.digest, !.origin = pc.digest].retain = {}
        BY DEF Idle
      <4> QED
        BY <4>1, <4>2, <1>i
    <3> QED
      BY <1>5, <3>1, <3>2, <3>3, <3>4
  <2>4. \A x, y \in pc'.retain : x = y
    BY <2>3 DEF RankInv
  <2> QED
    BY <2>1, <2>2, <2>4, <1>t, PointersSame
<1>6. CASE \/ \E tag \in Names, from \in SUBSET Snapshots : PeerPush(tag, from)
           \/ \E tag \in Names, s \in Snapshots : PeerRepush(tag, s)
           \/ UNCHANGED vars
  <2>1. head' = head /\ refs' = refs /\ pc' = pc
    BY <1>6 DEF PeerPush, PeerRepush, vars
  <2>2. BranchHeads' = BranchHeads /\ Retained(head)' = Retained(head) /\ Spare' = Spare /\ (AtHead' <=> AtHead)
    BY <2>1 DEF BranchHeads, Held, Retained, Snapshots, Spare, AtHead, Decided
  <2> QED
    BY <2>1, <2>2 DEF RankInv, RetainInv
<1>7. CASE RepairRefs \/ CheckoutRefs
  <2>1. /\ head' = head /\ head # None /\ refs \in RefTable /\ refs # None /\ pc.step \in {"idle", "checkout_refs"}
        /\ pc' = Idle
    BY <1>7, <1>t, <1>i DEF RepairRefs, CheckoutRefs, StateOK, PendingOK, SwitchOK
  <2>2. /\ refs' # None /\ refs'.branches = refs.branches
        /\ refs'.switching = None /\ refs'.current = Decided(refs, head.snapshot)
    <3>1. CASE RepairRefs
      <4>1. refs.switching # None /\ refs' = Repaired(refs)
        BY <3>1 DEF RepairRefs
      <4>2. CASE refs.branches[refs.switching] # None /\ head.snapshot = refs.branches[refs.switching].snapshot
        BY <2>1, <4>1, <4>2 DEF Repaired, Decided, RefTable
      <4>3. CASE ~ (refs.branches[refs.switching] # None /\ head.snapshot = refs.branches[refs.switching].snapshot)
        BY <2>1, <4>1, <4>3 DEF Repaired, Decided, RefTable
      <4> QED
        BY <4>2, <4>3
    <3>2. CASE CheckoutRefs
      <4>1. /\ refs' = [refs EXCEPT !.current = pc.name, !.switching = None]
            /\ pc.name \in Names /\ refs.branches[pc.name] # None
            /\ refs.switching = pc.name /\ head.snapshot = refs.branches[pc.name].snapshot
        BY <3>2, <1>t DEF CheckoutRefs, CheckoutMarked, PendingOK
      <4> QED
        BY <2>1, <4>1, NamesAssumption DEF Decided, RefTable
    <3> QED
      BY <1>7, <3>1, <3>2
  <2>3. Decided(refs', head.snapshot) = Decided(refs, head.snapshot)
    BY <2>2 DEF Decided
  <2>4. Held(refs') = Held(refs)
    BY <2>2 DEF Held
  <2>5. BranchHeads' = BranchHeads /\ Retained(head)' = Retained(head)
    BY <2>1, <2>2, <2>4 DEF BranchHeads, Retained, Snapshots
  <2>6. Spare' = Spare
    BY <2>1, <2>5 DEF Spare
  <2>7. AtHead => AtHead'
    <3>1. AtHead' <=> /\ refs' # None
                     /\ refs'.branches[Decided(refs', head.snapshot)] # None
                     /\ refs'.branches[Decided(refs', head.snapshot)].snapshot = head.snapshot
      BY <2>1 DEF AtHead, Decided
    <3> HIDE DEF Decided
    <3> QED
      BY <2>2, <2>3, <3>1 DEF AtHead
  <2> QED
    BY <2>1, <2>5, <2>6, <2>7, <1>i DEF RankInv, RetainInv
<1>8. ASSUME NEW n \in Names,
             \/ \E start \in Snapshots : CreateBranch(n, start)
             \/ \E force \in BOOLEAN : DeleteBranch(n, force)
      PROVE  RankInv' /\ RetainInv'
  <2>1. head' = head /\ pc'.step = "repin" /\ pc'.retain = {}
    BY <1>8 DEF CreateBranch, DeleteBranch, Idle
  <2> QED
    BY <2>1 DEF RankInv, RetainInv
<1>9. ASSUME NEW n \in Names, Checkout(n) PROVE RankInv' /\ RetainInv'
  <2>1. /\ head # None /\ pc = Idle /\ head' = head /\ (refs # None => refs.switching = None)
        /\ refs' = [Recorded(Table) EXCEPT !.switching = n] /\ n \in Held(Recorded(Table)) /\ pc'.retain = {}
    BY <1>9 DEF Checkout, Ready, Idle
  <2>2. Recorded(Table) \in RefTable /\ Recorded(Table).current = Table.current
    BY <2>1, <1>t, ReadyTable
  <2>3. /\ refs' \in RefTable /\ refs'.switching = n /\ refs'.branches = Recorded(Table).branches
        /\ refs'.current = Table.current
    BY <2>1, <2>2 DEF RefTable
  <2>4. refs' # None /\ refs'.branches[n] # None
    BY <2>1, <2>3 DEF Held
  <2> QED
    BY <2>1, <2>3, <2>4, <1>h, <1>t, RefsRecorded
<1>10. ASSUME NEW tag \in Names, NEW withHistory \in BOOLEAN, Pull(tag, withHistory)
       PROVE  RankInv' /\ RetainInv'
  <2> DEFINE name == Destination(tag)
             t == Recorded(Table)
             ref == IF t.branches[name] # None THEN t.branches[name]
                                               ELSE [snapshot |-> head.snapshot, origin |-> None]
  <2>1. /\ head' = head /\ (refs # None => refs.switching = None) /\ pc = Idle /\ pc'.retain = {}
        /\ refs' = IF name = None \/ head = None THEN refs
                   ELSE [t EXCEPT !.branches[name] = ref, !.switching = name]
    BY <1>10 DEF Pull
  <2>2. CASE name = None \/ head = None
    BY <2>1, <2>2, <1>t, <1>i, PointersSame
  <2>3. CASE name # None /\ head # None
    <3>1. name \in Names
      BY <2>3 DEF Destination
    <3>2. t \in RefTable /\ t.current = Table.current
      BY <2>1, <2>3, <1>t, ReadyTable
    <3>3. refs' = [t EXCEPT !.branches[name] = ref, !.switching = name]
      BY <2>1, <2>3
    <3>4. t.branches \in [Names -> BranchRef \cup {None}]
      BY <3>2 DEF RefTable
    <3>5. /\ ref \in BranchRef
          /\ ref = t.branches[name] \/ ref.snapshot = head.snapshot
          /\ t.branches[name] # None => ref = t.branches[name]
      BY <3>1, <3>4, <2>3, <1>h DEF BranchRef, Origins
    <3> HIDE DEF t, ref, name
    <3>6. refs' \in RefTable /\ refs'.current = t.current /\ refs'.switching = name
      BY <3>1, <3>2, <3>3, <3>4, <3>5 DEF RefTable
    <3>7. refs'.branches = [t.branches EXCEPT ![name] = ref]
      BY <3>2, <3>3 DEF RefTable
    <3>8. refs'.branches[name] = ref /\ \A b \in Names \ {name} : refs'.branches[b] = t.branches[b]
      BY <3>1, <3>4, <3>7
    <3>9. refs' # None /\ ref # None
      BY <3>5, <3>6
    <3> QED
      BY <2>1, <2>3, <3>1, <3>2, <3>5, <3>6, <3>8, <3>9, <1>h, <1>t, RefsRecorded DEF t
  <2> QED
    BY <2>2, <2>3
<1>11. CASE FinishSwitch
  <2> DEFINE held == IF refs # None THEN refs.branches ELSE [b \in Names |-> None]
  <2>1. /\ head' = head /\ pc.step = "switch_finish" /\ pc'.step = "switch_repin" /\ pc'.retain = pc.retain
        /\ pc.name \in Names /\ head # None
        /\ refs'.branches = [held EXCEPT ![pc.name] = [snapshot |-> head.snapshot, origin |-> head.origin]]
    BY <1>11, <1>t DEF FinishSwitch, Pending, PendingOK
  <2>2. held \in [Names -> BranchRef \cup {None}]
    BY <1>t DEF StateOK, RefTable
  <2>3. \A b \in Names : held[b] # None => held[b].snapshot \in BranchHeads
    BY DEF BranchHeads, Held
  <2> HIDE DEF held
  <2>4. BranchHeads' \subseteq {head.snapshot} \cup BranchHeads
    <3>1. \A b \in Names : refs'.branches[b] # None => refs'.branches[b].snapshot \in {head.snapshot} \cup BranchHeads
      BY <2>1, <2>2, <2>3
    <3>2. \A x \in BranchHeads' : \E b \in Names : refs'.branches[b] # None /\ x = refs'.branches[b].snapshot
      BY DEF BranchHeads, Held
    <3> QED
      BY <3>1, <3>2
  <2>5. BranchHeads \subseteq Retained(head) /\ Retained(head)' = Retained(head)
    BY <2>1 DEF RetainInv, Retained, Snapshots
  <2> QED
    BY <2>1, <2>4, <2>5, <1>h DEF RankInv, RetainInv
<1>12. CASE Crash
  BY <1>12 DEF Crash
<1>13. \A b \in Snapshots : {b} \in SUBSET Snapshots
  OBVIOUS
<1> QED
  BY <1>1, <1>2, <1>3, <1>4, <1>5, <1>6, <1>7, <1>8, <1>9, <1>10, <1>11, <1>12, <1>13 DEF Next

\* _write_head: between operations `retained` is every head that branches() reports, and of the
\* rest no more than the policy's bound, in every brain whose calls run to their end or raise.
THEOREM RetentionAlwaysExact ==
    ASSUME "crash" \notin Features
    PROVE  Spec => []RetentionExact
<1>1. Init => CheckoutMarked /\ SwitchOK /\ RankInv /\ RetainInv
  BY DEF Init, Idle, CheckoutMarked, SwitchOK, RankInv, RetainInv
<1>2. HeldInv /\ CheckoutMarked /\ [Next]_vars => CheckoutMarked'
  BY MarkedNext
<1>3. HeldInv /\ HeldInv' /\ CheckoutMarked /\ SwitchOK /\ [Next]_vars => SwitchOK'
  BY SwitchNext
<1>4. HeldInv /\ HeldInv' /\ CheckoutMarked /\ SwitchOK /\ RankInv /\ RetainInv /\ [Next]_vars
        => RankInv' /\ RetainInv'
  BY RetainNext
<1>5. HeldInv /\ RankInv /\ RetainInv => RetentionExact
  <2> SUFFICES ASSUME HeldInv, RetainInv, pc = Idle
               PROVE  ReportedHeads \subseteq Retained(head) /\ Cardinality(Retained(head) \ BranchHeads) <= RetainedRoots
    BY DEF RetentionExact, HeadsRetained, RetentionBounded
  <2>t. StateOK
    BY DEF HeldInv
  <2>1. CASE head = None
    BY <2>1, FS_EmptySet, RetainedAssumption DEF ReportedHeads, Retained
  <2>2. CASE head # None
    <3>1. /\ BranchHeads \subseteq Retained(head) /\ head.snapshot \in Retained(head)
          /\ Cardinality(Spare) <= RetainedRoots - 1 \/ (Cardinality(Spare) <= RetainedRoots /\ AtHead)
      BY <2>2 DEF RetainInv, Idle, HeldInv, DocsHeld
    <3>2. ReportedHeads \subseteq {head.snapshot} \cup BranchHeads
      <4>1. CASE refs = None
        BY <4>1, <2>2, <2>t, ReportedAre DEF ReportedFrom
      <4>2. CASE refs # None
        BY <4>2, <2>2, <2>t, ReportedAre DEF ReportedFrom, Heads, BranchHeads
      <4> QED
        BY <4>1, <4>2
    <3>3. IsFiniteSet(Spare) /\ Cardinality(Spare) \in Nat /\ RetainedRoots \in Nat
      <4>1. IsFiniteSet(Snapshots) /\ Spare \in SUBSET Snapshots
        BY FS_Interval, BoundAssumption DEF Snapshots, Spare, Retained
      <4> QED
        BY <4>1, FS_Subset, FS_CardinalityType, RetainedAssumption
    <3>4. CASE head.snapshot \in BranchHeads
      <4>1. Retained(head) \ BranchHeads = Spare
        BY <3>4 DEF Spare
      <4> QED
        BY <3>1, <3>2, <3>3, <4>1
    <3>5. CASE head.snapshot \notin BranchHeads
      <4>1. Retained(head) \ BranchHeads = Spare \cup {head.snapshot} /\ head.snapshot \notin Spare
        BY <3>1, <3>5 DEF Spare
      <4>2. Cardinality(Retained(head) \ BranchHeads) = Cardinality(Spare) + 1
        BY <3>3, <4>1, FS_AddElement
      <4>3. ~ AtHead
        <5>1. refs # None => Decided(refs, head.snapshot) \in Names
          BY <2>2, <2>t, ReportedAre DEF ReportedFrom
        <5> QED
          BY <3>5, <5>1 DEF AtHead, BranchHeads, Held
      <4> QED
        BY <3>1, <3>2, <3>3, <4>2, <4>3
    <3> QED
      BY <3>4, <3>5
  <2> QED
    BY <2>1, <2>2
<1> QED
  BY <1>1, <1>2, <1>3, <1>4, <1>5, HeldInit, HeldNext, PublicInit, PublicNext, PTL DEF Spec
=============================================================================
