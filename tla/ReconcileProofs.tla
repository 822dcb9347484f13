-------------------------- MODULE ReconcileProofs --------------------------
(***************************************************************************)
(* Proofs about Reconcile.                                                 *)
(***************************************************************************)
EXTENDS Reconcile, FiniteSetTheorems, SequenceTheorems, WellFoundedInduction, TLAPS

-----------------------------------------------------------------------------
(* Iteration.                                                              *)

\* Lemma: a nonempty set of naturals has a least element.
LEMMA LeastOf ==
    ASSUME NEW T \in SUBSET Nat, T # {}
    PROVE  \E x \in T : \A y \in T : x <= y
<1> DEFINE R == {p \in Nat \X Nat : p[1] < p[2]}
<1>1. IsWellFoundedOn(R, Nat)
  BY NatLessThanWellFounded, Zenon DEF OpToRel
<1> HIDE DEF R
<1>2. PICK x \in T : \A y \in T : ~ (<<y, x>> \in R)
  BY <1>1, WFMin
<1>3. \A y \in T : ~ (y < x)
  BY <1>2 DEF R
<1> QED
  BY <1>3

\* What repeating the steps s from a gives, up to the m-th.
Iterate(g, m, T, a, s) ==
    g \in [0 .. m -> T] /\ g[0] = a /\ \A n \in 1 .. m : g[n] = s[n][g[n - 1]]

\* Lemma: any steps can be repeated.
LEMMA IterateExists ==
    ASSUME NEW N \in Nat, NEW T, NEW a \in T, NEW s \in [1 .. N -> [T -> T]]
    PROVE  \E g : Iterate(g, N, T, a, s)
<1> DEFINE Bad == {m \in 0 .. N : ~ \E g : Iterate(g, m, T, a, s)}
<1> SUFFICES ASSUME Bad # {} PROVE FALSE
  BY N \in 0 .. N
<1>1. PICK x \in Bad : \A y \in Bad : x <= y
  <2>1. Bad \in SUBSET Nat
    OBVIOUS
  <2> HIDE DEF Bad
  <2> QED
    BY <2>1, LeastOf
<1>2. x # 0
  <2>1. Iterate([n \in 0 .. 0 |-> a], 0, T, a, s)
    BY DEF Iterate
  <2> QED
    BY <2>1
<1>3. x - 1 \in 0 .. N /\ x - 1 \notin Bad /\ x \in 1 .. N
  BY <1>1, <1>2
<1>4. PICK g : Iterate(g, x - 1, T, a, s)
  BY <1>3
<1> DEFINE h == [n \in 0 .. x |-> IF n = x THEN s[x][g[x - 1]] ELSE g[n]]
<1>5. g \in [0 .. x - 1 -> T] /\ s[x] \in [T -> T]
  BY <1>3, <1>4 DEF Iterate
<1>6. s[x][g[x - 1]] \in T /\ h \in [0 .. x -> T]
  BY <1>3, <1>5
<1>7. Iterate(h, x, T, a, s)
  BY <1>3, <1>4, <1>5, <1>6 DEF Iterate
<1> QED
  BY <1>7

-----------------------------------------------------------------------------
(* The cascade.                                                            *)

Seeds(removed, blocks, ledger) ==
    {b \in blocks : Derivation(b) \in ledger /\ Evidence[b] \cap removed # {}}
Grown(removed, blocks, near) ==
    near \cup {b \in blocks \ Unreadable : Uses[b] \cap (removed \cup near) # {}}

\* Lemma: the rounds of the cascade exist, and it is what the last one reaches.
LEMMA CascadeRounds ==
    ASSUME NEW removed, NEW blocks, NEW ledger, Cardinality(Blocks) \in Nat
    PROVE  \E g \in [0 .. Cardinality(Blocks) -> SUBSET blocks] :
             /\ g[0] = Seeds(removed, blocks, ledger)
             /\ \A n \in 1 .. Cardinality(Blocks) : g[n] = Grown(removed, blocks, g[n - 1])
             /\ Cascade(removed, blocks, ledger) = g[Cardinality(Blocks)] \ removed
<1> DEFINE N == Cardinality(Blocks)
           T == SUBSET blocks
           s == [n \in 1 .. N |-> [near \in T |-> Grown(removed, blocks, near)]]
           Reached[n \in 0 .. Cardinality(Blocks)] ==
            IF n = 0
            THEN {b \in blocks : Derivation(b) \in ledger /\ Evidence[b] \cap removed # {}}
            ELSE LET near == Reached[n - 1]
                 IN near \cup {b \in blocks \ Unreadable : Uses[b] \cap (removed \cup near) # {}}
<1>1. Cascade(removed, blocks, ledger) = Reached[N] \ removed
  BY DEF Cascade
<1>2. PICK g : Iterate(g, N, T, Seeds(removed, blocks, ledger), s)
  <2>1. Seeds(removed, blocks, ledger) \in T /\ s \in [1 .. N -> [T -> T]]
    BY DEF Seeds, Grown
  <2> HIDE DEF N, T, s
  <2> QED
    BY <2>1, IterateExists DEF N
<1>3. /\ g \in [0 .. N -> SUBSET blocks]
      /\ g[0] = Seeds(removed, blocks, ledger)
      /\ \A n \in 1 .. N : g[n] = Grown(removed, blocks, g[n - 1])
  <2>1. \A n \in 1 .. N : n - 1 \in 0 .. N
    OBVIOUS
  <2>2. \A n \in 1 .. N : s[n][g[n - 1]] = Grown(removed, blocks, g[n - 1])
    BY <1>2, <2>1 DEF Iterate
  <2> QED
    BY <1>2, <2>2 DEF Iterate
<1> DEFINE F(r) == [n \in 0 .. Cardinality(Blocks) |->
            IF n = 0
            THEN {b \in blocks : Derivation(b) \in ledger /\ Evidence[b] \cap removed # {}}
            ELSE LET near == r[n - 1]
                 IN near \cup {b \in blocks \ Unreadable : Uses[b] \cap (removed \cup near) # {}}]
<1>4. Reached = F(Reached)
  <2>1. g = F(g)
    BY <1>3 DEF Seeds, Grown
  <2>2. Reached = CHOOSE r : r = F(r)
    OBVIOUS
  <2> HIDE DEF Reached, F
  <2> QED
    BY <2>1, <2>2
<1>5. /\ DOMAIN Reached = 0 .. N
      /\ Reached[0] = Seeds(removed, blocks, ledger)
      /\ \A n \in 1 .. N : Reached[n] = Grown(removed, blocks, Reached[n - 1])
  <2> HIDE DEF Reached
  <2>1. DOMAIN F(Reached) = 0 .. N /\ F(Reached)[0] = Seeds(removed, blocks, ledger)
    BY DEF Seeds
  <2>2. \A n \in 1 .. N : F(Reached)[n] = Grown(removed, blocks, Reached[n - 1])
    BY DEF Grown
  <2> HIDE DEF F
  <2> QED
    BY <1>4, <2>1, <2>2
<1> HIDE DEF Reached, F, s, T
<1>6. \A n \in 0 .. N : Reached[n] = g[n]
  <2> DEFINE Bad == {n \in 0 .. N : Reached[n] # g[n]}
  <2> SUFFICES ASSUME Bad # {} PROVE FALSE
    OBVIOUS
  <2>1. PICK x \in Bad : \A y \in Bad : x <= y
    <3>1. Bad \in SUBSET Nat
      OBVIOUS
    <3> HIDE DEF Bad
    <3> QED
      BY <3>1, LeastOf
  <2>2. x # 0
    BY <1>3, <1>5
  <2>3. x - 1 \in 0 .. N /\ x - 1 \notin Bad /\ x \in 1 .. N
    BY <2>1, <2>2
  <2> QED
    BY <1>3, <1>5, <2>3
<1>7. N \in 0 .. N
  OBVIOUS
<1>8. Reached[N] = g[N]
  BY <1>6, <1>7
<1> QED
  BY <1>1, <1>3, <1>8

\* Lemma: the blocks are finitely many.
LEMMA BlocksCounted == Cardinality(Blocks) \in Nat
BY FS_CardinalityType, SchemaAssumption

\* Lemma: the cascade takes only what is there and was not removed, whatever cites a removed
\* block by its derivation, and no canonical block.
LEMMA CascadeFacts ==
    ASSUME NEW removed, NEW blocks \in SUBSET Blocks, NEW ledger
    PROVE  LET C == Cascade(removed, blocks, ledger)
           IN /\ C \subseteq blocks /\ C \cap removed = {}
              /\ Seeds(removed, blocks, ledger) \ removed \subseteq C
              /\ \A b \in C : Kind[b] # "canonical"
<1> DEFINE N == Cardinality(Blocks)
           S == Seeds(removed, blocks, ledger)
           Good(X) == S \subseteq X /\ \A b \in X : Kind[b] # "canonical"
<1>1. PICK g \in [0 .. N -> SUBSET blocks] :
             /\ g[0] = S
             /\ \A n \in 1 .. N : g[n] = Grown(removed, blocks, g[n - 1])
             /\ Cascade(removed, blocks, ledger) = g[N] \ removed
  BY BlocksCounted, CascadeRounds
<1>2. \A b \in S : b \in Blocks /\ Kind[b] # "canonical"
  BY SchemaAssumption DEF Seeds, Derived
<1>3. \A n \in 0 .. N : Good(g[n])
  <2> DEFINE Bad == {n \in 0 .. N : ~ Good(g[n])}
  <2> SUFFICES ASSUME Bad # {} PROVE FALSE
    OBVIOUS
  <2>1. PICK x \in Bad : \A y \in Bad : x <= y
    <3>1. Bad \in SUBSET Nat
      OBVIOUS
    <3> HIDE DEF Bad
    <3> QED
      BY <3>1, LeastOf
  <2>2. x # 0
    BY <1>1, <1>2
  <2>3. x - 1 \in 0 .. N /\ x - 1 \notin Bad /\ x \in 1 .. N
    <3> HIDE DEF Good
    <3> QED
      BY <2>1, <2>2, BlocksCounted
  <2>4. Good(g[x - 1])
    BY <2>3
  <2>5. g[x] = Grown(removed, blocks, g[x - 1])
    BY <1>1, <2>3
  <2>6. Good(g[x])
    BY <2>4, <2>5, SchemaAssumption DEF Grown
  <2> QED
    BY <2>6
<1>4. N \in 0 .. N
  BY BlocksCounted
<1> HIDE DEF N, S
<1> QED
  BY <1>1, <1>3, <1>4 DEF S

-----------------------------------------------------------------------------
(* Versions.                                                               *)

\* What a store with the blocks h and the records r can open of v.
Reads(v, h, r) ==
    Narrow(v, {k \in Kinds : IF k = "provenance" THEN v.ledger \subseteq r ELSE OfKind(v, k) \subseteq h})

\* Lemma: _sides reads the store of the state it is called in.
LEMMA OpenedReads == \A v : Opened(v) = Reads(v, held, records)
BY DEF Opened, Reads

\* Lemma: a block's module is never the ledger.
LEMMA KindsOfBlocks == \A b \in Blocks : Kind[b] \in Kinds /\ Kind[b] # "provenance"
BY SchemaAssumption DEF Kinds, Derived

\* Lemma: narrowing a version gives a version, whose blocks are in modules it names.
LEMMA NarrowType ==
    ASSUME NEW v \in Version, NEW kinds
    PROVE  /\ Narrow(v, kinds) \in Version
           /\ Narrow(v, kinds).named = v.named \cap kinds
           /\ Narrow(v, kinds).blocks = {b \in v.blocks : Kind[b] \in v.named \cap kinds}
           /\ Narrow(v, kinds).ledger \subseteq v.ledger
BY DEF Narrow, Version

\* Lemma: the same of what can be opened.
LEMMA ReadsType ==
    ASSUME NEW v \in Version, NEW h, NEW r
    PROVE  /\ Reads(v, h, r) \in Version /\ Reads(v, h, r).named \subseteq v.named
           /\ Reads(v, h, r).blocks = {b \in v.blocks : Kind[b] \in Reads(v, h, r).named}
           /\ Reads(v, h, r).ledger \subseteq v.ledger
BY NarrowType DEF Reads

\* Lemma: the blocks that can be opened are held, and which they are does not depend on the
\* records.
LEMMA ReadsBlocks ==
    ASSUME NEW v \in Version, NEW h, NEW r, NEW q
    PROVE  /\ Reads(v, h, r).blocks \subseteq h
           /\ Reads(v, h, r).blocks = Reads(v, h, q).blocks
           /\ \A b \in Blocks : Kind[b] \in Reads(v, h, r).named <=> Kind[b] \in Reads(v, h, q).named
           /\ Reads(v, h, r).ledger \subseteq r
<1> DEFINE M(x) == {k \in Kinds : IF k = "provenance" THEN v.ledger \subseteq x ELSE OfKind(v, k) \subseteq h}
<1>1. \A b \in v.blocks : b \in Blocks
  BY DEF Version
<1>2. \A b \in Blocks : Kind[b] \in M(r) <=> Kind[b] \in M(q)
  BY KindsOfBlocks
<1>3. \A b \in v.blocks : Kind[b] \in M(r) => b \in h
  BY <1>1, KindsOfBlocks DEF OfKind
<1>4. "provenance" \in M(r) => v.ledger \subseteq r
  OBVIOUS
<1>5. \A x : Reads(v, h, x) = Narrow(v, M(x))
  BY DEF Reads
<1> HIDE DEF M
<1>6. \A x : /\ Reads(v, h, x).named = v.named \cap M(x)
             /\ Reads(v, h, x).blocks = {b \in v.blocks : Kind[b] \in v.named \cap M(x)}
             /\ Reads(v, h, x).ledger = IF "provenance" \in v.named \cap M(x) THEN v.ledger ELSE {}
  BY <1>5 DEF Narrow
<1> QED
  BY <1>1, <1>2, <1>3, <1>4, <1>6

\* Lemma: Equation 1 gives a version.
LEMMA MergedType ==
    ASSUME NEW b \in Version, NEW o \in Version, NEW t \in Version
    PROVE  Merged(b, o, t) \in Version
BY DEF Merged, Version

\* The version with more blocks and records, and what a drop of b takes.
Plus(v, blocks, ledger) ==
    [named |-> v.named \cup {Kind[b] : b \in blocks} \cup {"provenance"},
     blocks |-> v.blocks \cup blocks, ledger |-> v.ledger \cup ledger]
Fall(v, b) == {b} \cup Cascade({b}, v.blocks, v.ledger)
Less(v, gone) ==
    [v EXCEPT !.named = @ \cup {"provenance"}, !.blocks = @ \ gone,
              !.ledger = @ \cup {Removal(c) : c \in gone}]

\* An operation that adds: a source, a derived block with its evidence, or a supersession.
Adds(v, w) ==
    /\ w.gone = {}
    /\ \E b \in Blocks, L \in SUBSET Records :
         /\ w.to = Plus(v, {b}, L)
         /\ \/ b \notin v.blocks /\ Kind[b] = "canonical" /\ L = {}
            \/ /\ b \notin v.blocks /\ Kind[b] \in Derived /\ L = {Derivation(b)}
               /\ Issues(b, v.blocks, v.ledger \cup {Derivation(b)}) = {}
            \/ Kind[b] = "canonical" \/ b \in v.blocks

\* An operation that drops.
Drops(v, w) ==
    \E b \in v.blocks :
        w.gone = Fall(v, b) /\ w.to = Less(v, Fall(v, b))

\* Lemma: these are the operations.
LEMMA WritesCases ==
    ASSUME NEW v \in Version, NEW w \in Writes(v)
    PROVE  Adds(v, w) \/ Drops(v, w)
<1>1. CASE \E b \in Blocks \ v.blocks : Kind[b] = "canonical" /\ w = [to |-> Plus(v, {b}, {}), gone |-> {}]
  <2>1. PICK b \in Blocks \ v.blocks :
            Kind[b] = "canonical" /\ w = [to |-> Plus(v, {b}, {}), gone |-> {}]
    BY <1>1
  <2>2. w.gone = {} /\ w.to = Plus(v, {b}, {}) /\ {} \in SUBSET Records
    BY <2>1
  <2> QED
    BY <2>1, <2>2 DEF Adds
<1>2. CASE \E b \in Blocks \ v.blocks :
             /\ Kind[b] \in Derived /\ Issues(b, v.blocks, v.ledger \cup {Derivation(b)}) = {}
             /\ w = [to |-> Plus(v, {b}, {Derivation(b)}), gone |-> {}]
  <2>1. PICK b \in Blocks \ v.blocks :
             /\ Kind[b] \in Derived /\ Issues(b, v.blocks, v.ledger \cup {Derivation(b)}) = {}
             /\ w = [to |-> Plus(v, {b}, {Derivation(b)}), gone |-> {}]
    BY <1>2
  <2>2. w.gone = {} /\ w.to = Plus(v, {b}, {Derivation(b)}) /\ {Derivation(b)} \in SUBSET Records
    BY <2>1 DEF Records
  <2> QED
    BY <2>1, <2>2 DEF Adds
<1>3. CASE \E p \in Replacing :
             /\ Kind[p[1]] = "canonical" \/ p[1] \in v.blocks
             /\ w = [to |-> Plus(v, {p[1]}, {Edge(p[1], p[2])}), gone |-> {}]
  <2>1. PICK p \in Replacing :
             /\ Kind[p[1]] = "canonical" \/ p[1] \in v.blocks
             /\ w = [to |-> Plus(v, {p[1]}, {Edge(p[1], p[2])}), gone |-> {}]
    BY <1>3
  <2>2. p[1] \in Blocks /\ {Edge(p[1], p[2])} \in SUBSET Records
    BY StartAssumption DEF Records, Edges
  <2>3. w.gone = {} /\ w.to = Plus(v, {p[1]}, {Edge(p[1], p[2])})
    BY <2>1
  <2> QED
    BY <2>1, <2>2, <2>3 DEF Adds
<1>4. CASE \E b \in v.blocks : w = [to |-> Less(v, Fall(v, b)), gone |-> Fall(v, b)]
  BY <1>4 DEF Drops
<1> QED
  BY <1>1, <1>2, <1>3, <1>4 DEF Writes, Plus, Fall, Less

\* Lemma: the fields of the version a drop leaves.
LEMMA LessIs ==
    ASSUME NEW v \in Version, NEW gone
    PROVE  /\ Less(v, gone).named = v.named \cup {"provenance"}
           /\ Less(v, gone).blocks = v.blocks \ gone
           /\ Less(v, gone).ledger = v.ledger \cup {Removal(c) : c \in gone}
           /\ gone \subseteq Blocks => Less(v, gone) \in Version
BY DEF Less, Version, Records, Kinds

\* Lemma: what a drop takes was there, and a canonical block only if it is the one named.
LEMMA FallIs ==
    ASSUME NEW v \in Version, NEW b \in v.blocks
    PROVE  /\ Fall(v, b) \subseteq v.blocks
           /\ \A c \in Fall(v, b) : Kind[c] = "canonical" => c = b
           /\ \A c \in v.blocks : Derivation(c) \in v.ledger /\ b \in Evidence[c] => c \in Fall(v, b)
<1>1. v.blocks \in SUBSET Blocks
  BY DEF Version
<1>2. Cascade({b}, v.blocks, v.ledger) \subseteq v.blocks
  BY <1>1, CascadeFacts
<1>3. \A c \in Cascade({b}, v.blocks, v.ledger) : Kind[c] # "canonical"
  BY <1>1, CascadeFacts
<1>4. Seeds({b}, v.blocks, v.ledger) \ {b} \subseteq Cascade({b}, v.blocks, v.ledger)
  BY <1>1, CascadeFacts
<1> QED
  BY <1>2, <1>3, <1>4 DEF Fall, Seeds

\* Lemma: what one operation makes of a version is a version, and what it drops was in it.
LEMMA WritesType ==
    ASSUME NEW v \in Version, NEW w \in Writes(v)
    PROVE  /\ w.to \in Version /\ w.gone \subseteq v.blocks /\ w.gone \cap w.to.blocks = {}
           /\ v.named \subseteq w.to.named /\ v.ledger \subseteq w.to.ledger
<1>1. CASE Adds(v, w)
  BY <1>1, KindsOfBlocks DEF Adds, Plus, Version, Kinds
<1>2. CASE Drops(v, w)
  <2>1. PICK b \in v.blocks : w.gone = Fall(v, b) /\ w.to = Less(v, Fall(v, b))
    BY <1>2 DEF Drops
  <2>2. Fall(v, b) \subseteq v.blocks /\ v.blocks \subseteq Blocks
    BY <2>1, FallIs DEF Version
  <2> QED
    BY <2>1, <2>2, LessIs
<1> QED
  BY <1>1, <1>2, WritesCases

-----------------------------------------------------------------------------
(* Plans and conclusions.                                                  *)

\* Lemma: the parts of a plan.
LEMMA PlanIs ==
    ASSUME TypeOK, NEW to \in 1 .. Len(theirs)
    PROVE  LET b == Opened(theirs[base])
               o == Opened(ours)
               t == Opened(theirs[to])
               plan == PlanFor(to)
           IN /\ b \in Version /\ o \in Version /\ t \in Version /\ theirs[to] \in Version
              /\ plan.merged = Merged(b, o, t) /\ plan.merged \in Version
              /\ plan.cascaded = Cascade(Excluded(b, o, t), plan.merged.blocks, plan.merged.ledger)
              /\ plan.cascaded \subseteq Blocks
              /\ plan.verdicts = Judged(plan.merged.blocks \ o.blocks, plan.merged)
              /\ DOMAIN plan.verdicts = plan.merged.blocks \ o.blocks
              /\ plan.open = {x \in plan.merged.blocks \ o.blocks : plan.verdicts[x] # {}}
              /\ plan.contested = OpenEdges(plan.merged.ledger \ o.ledger, plan.merged.ledger)
              /\ plan.contested \subseteq Edges
              /\ plan.withdrawn = o.blocks \ (plan.merged.blocks \ plan.cascaded)
<1> DEFINE b == Opened(theirs[base])
           o == Opened(ours)
           t == Opened(theirs[to])
           plan == PlanFor(to)
<1>1. theirs[base] \in Version /\ theirs[to] \in Version /\ ours \in Version
  BY DEF TypeOK
<1>2. b \in Version /\ o \in Version /\ t \in Version
  BY <1>1, OpenedReads, ReadsType
<1>3. Merged(b, o, t) \in Version
  BY <1>2, MergedType
<1>4. /\ plan.merged = Merged(b, o, t)
      /\ plan.cascaded = Cascade(Excluded(b, o, t), plan.merged.blocks, plan.merged.ledger)
      /\ plan.verdicts = Judged(plan.merged.blocks \ o.blocks, plan.merged)
      /\ plan.open = {x \in DOMAIN plan.verdicts : plan.verdicts[x] # {}}
      /\ plan.contested = OpenEdges(plan.merged.ledger \ o.ledger, plan.merged.ledger)
      /\ plan.withdrawn = o.blocks \ (plan.merged.blocks \ plan.cascaded)
  BY DEF PlanFor, Withdrawn
<1>5. \A S, m : DOMAIN Judged(S, m) = S
  BY DEF Judged
<1> HIDE DEF plan, b, o, t
<1>6. plan.merged.blocks \in SUBSET Blocks
  BY <1>3, <1>4 DEF Version
<1>7. plan.cascaded \subseteq Blocks
  BY <1>4, <1>6, CascadeFacts
<1>8. plan.contested \subseteq Edges
  BY <1>4 DEF OpenEdges
<1> QED
  BY <1>1, <1>2, <1>3, <1>4, <1>5, <1>7, <1>8 DEF plan, b, o, t

\* Lemma: a replay ends with the version that is reconciled.
LEMMA StepsType ==
    ASSUME NEW strategy, NEW to \in Nat \ {0}, base \in Nat
    PROVE  /\ Steps(strategy, to) \in Seq(1 .. to)
           /\ Len(Steps(strategy, to)) \in Nat \ {0}
           /\ Steps(strategy, to)[Len(Steps(strategy, to))] = to
<1>1. CASE strategy = "rebase" /\ to > base
  <2>1. Steps(strategy, to) = [i \in 1 .. to - base |-> base + i] /\ to - base \in Nat \ {0}
    BY <1>1 DEF Steps
  <2>2. Steps(strategy, to) \in [1 .. to - base -> 1 .. to]
    BY <2>1
  <2>3. Steps(strategy, to) \in Seq(1 .. to) /\ Len(Steps(strategy, to)) = to - base
    BY <2>1, <2>2
  <2> QED
    BY <2>1, <2>3
<1>2. CASE ~ (strategy = "rebase" /\ to > base)
  <2>1. Steps(strategy, to) = <<to>>
    BY <1>2 DEF Steps
  <2> QED
    BY <2>1
<1> QED
  BY <1>1, <1>2

JobFields == {"steps", "to", "strategy", "from", "onto", "refused", "unsaid", "cascaded", "carried",
              "pending", "authored", "accepted", "letin"}
JobTyped(j, n) ==
    /\ DOMAIN j = JobFields
    /\ j.to \in 1 .. n
    /\ j.steps \in Seq(1 .. j.to) /\ Len(j.steps) \in Nat \ {0} /\ j.steps[Len(j.steps)] = j.to
    /\ j.strategy \in Strategies
    /\ j.from \in Version /\ j.onto \in Version
    /\ j.refused \subseteq Blocks /\ j.cascaded \subseteq Blocks /\ j.carried \subseteq Kinds
    /\ j.unsaid \subseteq Edges /\ j.pending \subseteq Edges /\ j.authored \subseteq Records

\* What of ours is not accepted as leaving, the last step of the conclusion j restates, when t
\* is what can be opened of the version it reconciles.
Accepts(j, t) ==
    /\ \A x \in j.onto.blocks : Kind[x] \in j.onto.named
    /\ j.refused \cap j.onto.blocks = {}
    /\ j.carried \cap j.onto.named = {}
    /\ \A x \in j.onto.blocks :
         x \in j.accepted \/ (x \in Merged(j.from, j.onto, t).blocks /\ x \notin j.cascaded)

PointerFields == {"theirs", "ancestor", "strategy", "head", "decisions", "choices", "accepted"}
PointerTyped(p, n) ==
    /\ DOMAIN p = PointerFields
    /\ p.theirs \in 1 .. n /\ p.strategy \in Strategies

\* Lemma: the tie-breaks a conclusion writes are edges.
LEMMA SettlingType ==
    ASSUME NEW plan, NEW choices
    PROVE  Settling(plan, choices) \subseteq Edges
<1>1. \A b, L : Contested(b, L) \subseteq Blocks
  BY DEF Contested, Successors
<1> SUFFICES ASSUME NEW e \in Settling(plan, choices) PROVE e \in Edges
  OBVIOUS
<1>2. PICK r \in {q \in plan.contested \cap DOMAIN choices : choices[q] \in Blocks} :
         e \in {Edge(choices[r], loser) : loser \in Contested(r[3], plan.merged.ledger) \ {choices[r]}}
  BY DEF Settling
<1>3. PICK loser \in Contested(r[3], plan.merged.ledger) : e = Edge(choices[r], loser)
  BY <1>2
<1> QED
  BY <1>1, <1>2, <1>3 DEF Edges

\* Lemma: a conclusion starts a job that restates whatever nobody accepted as leaving.
LEMMA ConcludeJob ==
    ASSUME TypeOK, NEW to \in 1 .. Len(theirs), NEW strategy \in Strategies, NEW decisions, NEW choices,
           NEW accepted, PlanFor(to).withdrawn \subseteq accepted,
           Conclude(PlanFor(to), to, strategy, decisions, choices, accepted), job' # None
    PROVE  /\ JobTyped(job', Len(theirs)) /\ Accepts(job', Opened(theirs[to])) /\ job'.to = to
           /\ job'.from = Opened(theirs[base]) /\ job'.onto = Opened(ours)
           /\ job'.authored = {} /\ job'.steps = Steps(strategy, to)
<1> DEFINE plan == PlanFor(to)
           o == Opened(ours)
           t == Opened(theirs[to])
           b == Opened(theirs[base])
<1>1. /\ b \in Version /\ o \in Version /\ t \in Version /\ theirs[to] \in Version
      /\ plan.merged = Merged(b, o, t) /\ plan.merged \in Version
      /\ plan.cascaded \subseteq Blocks
      /\ plan.open \subseteq plan.merged.blocks \ o.blocks
      /\ plan.contested \subseteq Edges
      /\ plan.withdrawn = o.blocks \ (plan.merged.blocks \ plan.cascaded)
  BY PlanIs
<1>2. base \in Nat /\ to \in Nat \ {0}
  BY DEF TypeOK
<1>3. /\ Steps(strategy, to) \in Seq(1 .. to)
      /\ Len(Steps(strategy, to)) \in Nat \ {0}
      /\ Steps(strategy, to)[Len(Steps(strategy, to))] = to
  BY <1>2, StepsType
<1>4. Refused(plan, decisions) \subseteq plan.open
  BY DEF Refused
<1>5. Carried(plan, to) = (theirs[to].named \cup ours.named) \ plan.merged.named
  BY DEF Carried
<1>6. Settling(plan, choices) \subseteq Edges
  BY SettlingType
<1>7. job' = [steps |-> Steps(strategy, to), to |-> to, strategy |-> strategy,
              from |-> b, onto |-> o,
              refused |-> Refused(plan, decisions),
              unsaid |-> {r \in plan.contested : ~ (r \in DOMAIN choices /\ choices[r] # "reject")},
              cascaded |-> plan.cascaded, carried |-> Carried(plan, to),
              pending |-> Settling(plan, choices), authored |-> {}, accepted |-> accepted,
              letin |-> {r[3] : r \in {q \in DOMAIN choices : choices[q] = "admit"}}]
  BY DEF Conclude
<1> HIDE DEF plan, o, t, b
<1>8. /\ DOMAIN job' = JobFields /\ job'.steps = Steps(strategy, to) /\ job'.to = to
      /\ job'.strategy = strategy /\ job'.from = b /\ job'.onto = o
      /\ job'.refused = Refused(plan, decisions) /\ job'.unsaid \subseteq plan.contested
      /\ job'.cascaded = plan.cascaded /\ job'.carried = Carried(plan, to)
      /\ job'.pending = Settling(plan, choices) /\ job'.authored = {} /\ job'.accepted = accepted
  BY <1>7 DEF JobFields
<1>9. o.named \subseteq plan.merged.named /\ plan.merged.blocks \subseteq Blocks
  BY <1>1 DEF Merged, Version
<1>10. \A x \in o.blocks : Kind[x] \in o.named
  BY OpenedReads, ReadsType DEF o, TypeOK
<1>11. JobTyped(job', Len(theirs))
  <2>1. Carried(plan, to) \subseteq Kinds
    BY <1>1, <1>5 DEF TypeOK, Version
  <2>2. Refused(plan, decisions) \subseteq Blocks
    BY <1>4, <1>1, <1>9
  <2> QED
    BY <1>1, <1>3, <1>6, <1>8, <2>1, <2>2 DEF JobTyped
<1>12. Accepts(job', t)
  <2>1. Refused(plan, decisions) \cap o.blocks = {} /\ Carried(plan, to) \cap o.named = {}
    BY <1>1, <1>4, <1>5, <1>9
  <2>2. plan.withdrawn \subseteq accepted
    BY DEF plan
  <2>3. \A x \in o.blocks : x \in accepted \/ (x \in plan.merged.blocks /\ x \notin plan.cascaded)
    BY <1>1, <2>2
  <2> QED
    BY <1>1, <1>8, <1>10, <2>1, <2>3 DEF Accepts
<1> QED
  BY <1>8, <1>11, <1>12 DEF o, t, b
-----------------------------------------------------------------------------
(* What a step of a conclusion writes.                                     *)

\* The blocks and the ledger that a step of the conclusion j restates, when t is what can be
\* opened of the version it replays.
Partial(j, t) == Merged(j.from, j.onto, t)
Taken(j, t) ==
    Within(Cascade(Excluded(j.from, j.onto, t), Partial(j, t).blocks, Partial(j, t).ledger), j.cascaded)
Remains(j, t) == Partial(j, t).blocks \ (j.refused \cup Taken(j, t))
Authors(j, t) ==
    j.authored \cup {r \in j.pending : Len(j.steps) = 1 \/ IsSupported(r, Remains(j, t))}
               \cup CascadeRecords(Taken(j, t))
Stays(j, t, o, v) ==
    (o.named \ (Partial(j, t).named \cup j.carried)) \cup (j.carried \ (j.carried \cap v.named))
StatedBlocks(j, t, o, v) ==
    {b \in Remains(j, t) : Kind[b] \notin j.carried}
    \cup {b \in v.blocks : Kind[b] \in j.carried \cap v.named}
    \cup {b \in o.blocks : Kind[b] \in Stays(j, t, o, v)}
StatedLedger(j, t, o, v) ==
    IF "provenance" \in j.carried \cap v.named THEN v.ledger
    ELSE IF "provenance" \in Stays(j, t, o, v) THEN o.ledger
    ELSE (Partial(j, t).ledger \ j.unsaid) \cup Authors(j, t)

\* Lemma: the parts of what is stated.
LEMMA StatedIs ==
    LET t == Opened(theirs[Head(job.steps)])
        v == theirs[job.to]
    IN /\ Stated.version = [named |-> Partial(job, t).named \cup job.carried \cup ours.named,
                            blocks |-> StatedBlocks(job, t, ours, v),
                            ledger |-> StatedLedger(job, t, ours, v)]
       /\ Stated.authored = Authors(job, t)
       /\ Stated.settled \subseteq job.pending
BY DEF Stated, Partial, Taken, Remains, Authors, Stays, StatedBlocks, StatedLedger

\* Lemma: what remains are blocks, and what is authored are records.
LEMMA AuthorsType ==
    ASSUME NEW n \in Nat, NEW j, JobTyped(j, n), NEW t \in Version
    PROVE  /\ Partial(j, t) \in Version /\ Remains(j, t) \subseteq Partial(j, t).blocks
           /\ Taken(j, t) \subseteq Blocks /\ Authors(j, t) \subseteq Records
<1>1. Partial(j, t) \in Version
  BY MergedType DEF Partial, JobTyped
<1>2. Remains(j, t) \subseteq Partial(j, t).blocks
  BY DEF Remains
<1>3. Taken(j, t) \subseteq Blocks
  BY DEF Taken, Within, JobTyped
<1>4. Authors(j, t) \subseteq j.authored \cup j.pending \cup CascadeRecords(Taken(j, t))
  BY DEF Authors
<1>5. j.authored \subseteq Records /\ j.pending \subseteq Records
  BY DEF JobTyped, Records
<1>6. CascadeRecords(Taken(j, t)) \subseteq Records
  BY <1>3 DEF CascadeRecords, Records
<1> QED
  BY <1>1, <1>2, <1>3, <1>4, <1>5, <1>6

\* Lemma: what is stated is a version.
LEMMA StatedType ==
    ASSUME TypeOK, job # None, JobTyped(job, Len(theirs))
    PROVE  /\ Opened(theirs[Head(job.steps)]) \in Version /\ theirs[job.to] \in Version
           /\ Head(job.steps) \in 1 .. job.to
           /\ Stated.version \in Version /\ Stated.authored \subseteq Records
<1> DEFINE t == Opened(theirs[Head(job.steps)])
           v == theirs[job.to]
<1>1. job.to \in 1 .. Len(theirs) /\ Head(job.steps) \in 1 .. job.to /\ theirs \in Seq(Version)
      /\ Len(theirs) \in Nat
  BY DEF JobTyped, TypeOK
<1>2. theirs[Head(job.steps)] \in Version /\ v \in Version
  BY <1>1
<1>3. t \in Version
  BY <1>2, OpenedReads, ReadsType
<1>4. ours \in Version
  BY DEF TypeOK
<1>5. /\ Stated.version = [named |-> Partial(job, t).named \cup job.carried \cup ours.named,
                           blocks |-> StatedBlocks(job, t, ours, v),
                           ledger |-> StatedLedger(job, t, ours, v)]
      /\ Stated.authored = Authors(job, t)
  BY StatedIs
<1> HIDE DEF t, v
<1>6. /\ Partial(job, t) \in Version /\ Remains(job, t) \subseteq Partial(job, t).blocks
      /\ Authors(job, t) \subseteq Records
  BY <1>1, <1>3, AuthorsType
<1>7. StatedBlocks(job, t, ours, v) \subseteq Blocks
  BY <1>2, <1>4, <1>6 DEF StatedBlocks, Version
<1>8. StatedLedger(job, t, ours, v) \subseteq Records
  BY <1>2, <1>4, <1>6 DEF StatedLedger, Version
<1>9. job.carried \subseteq Kinds
  BY DEF JobTyped
<1>10. Partial(job, t).named \cup job.carried \cup ours.named \subseteq Kinds
  BY <1>4, <1>6, <1>9 DEF Version
<1>11. Stated.version \in Version /\ Stated.authored \subseteq Records
  BY <1>5, <1>6, <1>7, <1>8, <1>10 DEF Version
<1> QED
  BY <1>1, <1>2, <1>3, <1>11 DEF t, v

\* Lemma: a version that lands is the head, and the first of the retained ones.
LEMMA LandIs ==
    ASSUME NEW v \in Version, NEW beside \in Seq(Version), recent \in Seq(Version), Land(v, beside)
    PROVE  ours' = v /\ recent' \in Seq(Version) /\ Len(recent') \in 1 .. RetainedRoots /\ recent'[1] = v
<1> DEFINE all == <<v>> \o beside \o recent
           n == IF Len(all) < RetainedRoots THEN Len(all) ELSE RetainedRoots
<1>1. all \in Seq(Version) /\ Len(all) \in Nat \ {0} /\ all[1] = v
  OBVIOUS
<1>2. n \in 1 .. Len(all) /\ n \in 1 .. RetainedRoots
  BY <1>1, StartAssumption
<1>3. ours' = v /\ recent' = SubSeq(all, 1, n)
  BY DEF Land
<1> HIDE DEF all, n
<1>4. SubSeq(all, 1, n) \in Seq(Version) /\ Len(SubSeq(all, 1, n)) = n /\ SubSeq(all, 1, n)[1] = all[1]
  BY <1>1, <1>2
<1> QED
  BY <1>1, <1>2, <1>3, <1>4

\* Lemma: which blocks Equation 1 gives depends on the blocks and their modules alone.
LEMMA MergedBlocks ==
    ASSUME NEW b, NEW o, NEW t, NEW s, t.blocks = s.blocks,
           \A x \in Blocks : Kind[x] \in t.named <=> Kind[x] \in s.named
    PROVE  Merged(b, o, t).blocks = Merged(b, o, s).blocks
BY DEF Merged, Survives

\* Lemma: records that arrive change nothing about what a conclusion keeps.
LEMMA AcceptsReads ==
    ASSUME NEW v \in Version, NEW h, NEW r, NEW q, NEW j, Accepts(j, Reads(v, h, r))
    PROVE  Accepts(j, Reads(v, h, q))
<1>1. Merged(j.from, j.onto, Reads(v, h, r)).blocks = Merged(j.from, j.onto, Reads(v, h, q)).blocks
  BY ReadsBlocks, MergedBlocks
<1> QED
  BY <1>1 DEF Accepts

Inv ==
    /\ TypeOK
    /\ pointer # None => PointerTyped(pointer, Len(theirs)) /\ job = None
    /\ job # None => JobTyped(job, Len(theirs)) /\ Accepts(job, Opened(theirs[job.to]))

\* Lemma: what a step writes.
LEMMA WriteStepIs ==
    ASSUME Inv, WriteStep
    PROVE  LET t == Opened(theirs[Head(job.steps)])
               v == theirs[job.to]
           IN /\ job # None /\ JobTyped(job, Len(theirs))
              /\ t \in Version /\ v \in Version /\ t = Reads(theirs[Head(job.steps)], held, records)
              /\ Head(job.steps) \in 1 .. job.to
              /\ ours' \in Version
              /\ ours'.named = Partial(job, t).named \cup job.carried \cup ours.named
              /\ ours'.blocks = StatedBlocks(job, t, ours, v)
              /\ ours'.ledger = StatedLedger(job, t, ours, v)
              /\ recent' \in Seq(Version) /\ Len(recent') \in 1 .. RetainedRoots /\ recent'[1] = ours'
              /\ records' = records \cup Authors(job, t) /\ Authors(job, t) \subseteq Records
              /\ held' = held /\ theirs' = theirs /\ pointer' = pointer /\ fetched' = fetched /\ stale' = stale
              /\ base' \in {base, job.to}
              /\ dropped' \subseteq dropped
              /\ Len(job.steps) = 1 =>
                   /\ job' = None /\ joins' = Append(joins, job.strategy)
                   /\ Head(job.steps) = job.to
              /\ Len(job.steps) # 1 =>
                   /\ joins' = joins /\ base' = base
                   /\ JobTyped(job', Len(theirs)) /\ job' # None /\ job'.steps = Tail(job.steps)
                   /\ job'.authored = Authors(job, t)
                   /\ \A f \in JobFields \ {"steps", "authored", "pending"} : job'[f] = job[f]
<1> DEFINE t == Opened(theirs[Head(job.steps)])
           v == theirs[job.to]
           beside == IF Len(job.steps) = 1 /\ job.strategy = "merge" THEN <<v>> ELSE <<>>
<1>1. TypeOK /\ job # None /\ JobTyped(job, Len(theirs))
  BY DEF Inv, WriteStep
<1>2. /\ t \in Version /\ v \in Version /\ Head(job.steps) \in 1 .. job.to
      /\ Stated.version \in Version /\ Stated.authored \subseteq Records
  BY <1>1, StatedType
<1>3. /\ Stated.version = [named |-> Partial(job, t).named \cup job.carried \cup ours.named,
                           blocks |-> StatedBlocks(job, t, ours, v),
                           ledger |-> StatedLedger(job, t, ours, v)]
      /\ Stated.authored = Authors(job, t)
      /\ Stated.settled \subseteq job.pending
  BY StatedIs
<1>4. /\ Land(Stated.version, beside) /\ beside \in Seq(Version)
  BY <1>2 DEF WriteStep
<1>5. recent \in Seq(Version)
  BY <1>1 DEF TypeOK
<1> HIDE DEF beside
<1>6. ours' = Stated.version /\ recent' \in Seq(Version) /\ Len(recent') \in 1 .. RetainedRoots /\ recent'[1] = Stated.version
  BY <1>2, <1>4, <1>5, LandIs
<1>7. t = Reads(theirs[Head(job.steps)], held, records)
  BY OpenedReads
<1>8. /\ records' = records \cup Stated.authored
      /\ held' = held /\ theirs' = theirs /\ pointer' = pointer /\ fetched' = fetched /\ stale' = stale
      /\ base' \in {base, job.to}
      /\ dropped' \subseteq dropped
      /\ Len(job.steps) = 1 => job' = None /\ joins' = Append(joins, job.strategy)
      /\ Len(job.steps) # 1 =>
           /\ job' = [job EXCEPT !.steps = Tail(@), !.authored = Stated.authored,
                                     !.pending = @ \ Stated.settled]
           /\ joins' = joins /\ base' = base
  BY DEF WriteStep
<1>9. ASSUME Len(job.steps) = 1 PROVE Head(job.steps) = job.to
  BY <1>1, <1>9 DEF JobTyped
<1>10. ASSUME Len(job.steps) # 1
       PROVE  /\ JobTyped(job', Len(theirs)) /\ job' # None /\ job'.steps = Tail(job.steps)
              /\ job'.authored = Authors(job, t)
              /\ \A f \in JobFields \ {"steps", "authored", "pending"} : job'[f] = job[f]
  <2>1. DOMAIN job = JobFields
    BY <1>1 DEF JobTyped
  <2>2. job' = [job EXCEPT !.steps = Tail(@), !.authored = Stated.authored,
                           !.pending = @ \ Stated.settled]
    BY <1>8, <1>10
  <2>3. /\ DOMAIN job' = JobFields /\ job'.steps = Tail(job.steps) /\ job'.authored = Stated.authored
        /\ job'.pending \subseteq job.pending
        /\ \A f \in JobFields \ {"steps", "authored", "pending"} : job'[f] = job[f]
    BY <2>1, <2>2 DEF JobFields
  <2>4. /\ job'.to = job.to /\ job'.strategy = job.strategy /\ job'.from = job.from /\ job'.onto = job.onto
        /\ job'.refused = job.refused /\ job'.cascaded = job.cascaded /\ job'.carried = job.carried
        /\ job'.unsaid = job.unsaid
    BY <2>3 DEF JobFields
  <2>5. /\ Tail(job.steps) \in Seq(1 .. job.to) /\ Len(Tail(job.steps)) \in Nat \ {0}
        /\ Tail(job.steps)[Len(Tail(job.steps))] = job.to
    <3>1. /\ job.steps \in Seq(1 .. job.to) /\ Len(job.steps) \in Nat \ {0, 1}
          /\ job.steps[Len(job.steps)] = job.to
      BY <1>1, <1>10 DEF JobTyped
    <3>2. /\ Tail(job.steps) \in Seq(1 .. job.to) /\ Len(Tail(job.steps)) = Len(job.steps) - 1
          /\ \A i \in 1 .. Len(Tail(job.steps)) : Tail(job.steps)[i] = job.steps[i + 1]
      <4>1. job.steps # <<>>
        BY <3>1
      <4> QED
        BY <3>1, <4>1, HeadTailProperties
    <3> DEFINE s == job.steps
               u == Tail(job.steps)
    <3>3. Len(s) \in Nat \ {0, 1} /\ Len(u) = Len(s) - 1 /\ \A i \in 1 .. Len(u) : u[i] = s[i + 1]
      BY <3>1, <3>2
    <3>4. s[Len(s)] = job.to /\ u \in Seq(1 .. job.to)
      BY <3>1, <3>2
    <3> HIDE DEF s, u
    <3>5. Len(u) \in 1 .. Len(u) /\ Len(u) + 1 = Len(s)
      BY <3>3
    <3>6. u[Len(u)] = s[Len(u) + 1] /\ Len(u) \in Nat \ {0}
      BY <3>3, <3>5
    <3>7. u[Len(u)] = job.to
      BY <3>4, <3>5, <3>6
    <3> QED
      BY <3>4, <3>6, <3>7 DEF u
  <2>6. job' # None
    <3>1. "steps" \in DOMAIN job'
      BY <2>3 DEF JobFields
    <3>2. DOMAIN None = {"none"}
      BY DEF None
    <3> QED
      BY <3>1, <3>2
  <2> QED
    BY <1>1, <1>2, <1>3, <2>3, <2>4, <2>5, <2>6 DEF JobTyped
<1> HIDE DEF t, v
<1> QED
  BY <1>1, <1>2, <1>3, <1>6, <1>7, <1>8, <1>9, <1>10 DEF t, v
-----------------------------------------------------------------------------
(* The invariant.                                                          *)

\* Lemma: it holds at the start.
LEMMA InvInit == Init => Inv
<1> SUFFICES ASSUME Init PROVE Inv
  OBVIOUS
<1>1. Start \in Version /\ ours = Narrow(Start, Installed) /\ ours \in Version
  BY StartAssumption, NarrowType DEF Init
<1>2. ours.blocks \subseteq Blocks /\ ours.ledger \subseteq Records
  BY <1>1 DEF Version
<1>3. TypeOK
  <2>1. RetainedRoots \in Nat \ {0} /\ MaxOurs \in Nat
    BY StartAssumption
  <2>2. theirs = <<Start>> /\ recent = <<ours>> /\ joins = <<>>
    BY DEF Init
  <2>3. theirs \in Seq(Version) /\ Len(theirs) = 1 /\ recent \in Seq(Version) /\ Len(recent) = 1
    BY <1>1, <2>2
  <2>4. joins \in Seq(Strategies \cup {"torn"})
    BY <2>2
  <2> QED
    <3>1. lost \in BOOLEAN /\ stale \in BOOLEAN
      BY DEF Init
    <3>2. /\ base \in 1 .. Len(theirs) /\ fetched \in 0 .. Len(theirs) /\ since \in Nat /\ wrote \in 0 .. MaxOurs
          /\ Len(recent) \in 1 .. RetainedRoots
      BY <2>1, <2>3 DEF Init
    <3>3. held \subseteq Blocks /\ records \subseteq Records /\ dropped \subseteq Blocks
      BY <1>2 DEF Init
    <3> QED
      BY <1>1, <2>3, <2>4, <3>1, <3>2, <3>3 DEF TypeOK
<1> QED
  BY <1>3 DEF Init, Inv

\* Lemma: what a conclusion starts fits the invariant.
LEMMA ConcludeInv ==
    ASSUME Inv, job = None, NEW to \in 1 .. Len(theirs), NEW strategy \in Strategies, NEW decisions, NEW choices,
           NEW accepted, PlanFor(to).withdrawn \subseteq accepted,
           Conclude(PlanFor(to), to, strategy, decisions, choices, accepted),
           UNCHANGED <<ours, theirs, base, fetched, held, records, recent, since, lost, dropped, joins, wrote>>
    PROVE  Inv'
<1>1. TypeOK' /\ pointer' = None
  BY DEF Inv, TypeOK, Conclude
<1>2. ASSUME job' # None PROVE JobTyped(job', Len(theirs)) /\ Accepts(job', Opened(theirs[job'.to]))
  BY <1>2, ConcludeJob DEF Inv
<1>3. \A v : Opened(v)' = Opened(v)
  BY DEF Opened
<1> QED
  BY <1>1, <1>2, <1>3 DEF Inv, Opened

\* Lemma: the job of a step that leaves it alone still fits.
LEMMA JobStays ==
    ASSUME Inv, job # None, job' = job, held' = held,
           Len(theirs') \in Nat, Len(theirs) <= Len(theirs'), theirs'[job.to] = theirs[job.to]
    PROVE  JobTyped(job', Len(theirs')) /\ Accepts(job', Opened(theirs[job.to])')
<1>1. TypeOK /\ JobTyped(job, Len(theirs)) /\ Accepts(job, Opened(theirs[job.to]))
  BY DEF Inv
<1>2. theirs[job.to] \in Version /\ Len(theirs) \in Nat
  BY <1>1 DEF TypeOK, JobTyped
<1>3. JobTyped(job', Len(theirs'))
  BY <1>1, <1>2 DEF JobTyped
<1>4. Opened(theirs[job.to]) = Reads(theirs[job.to], held, records)
  BY OpenedReads
<1>5. Opened(theirs[job.to])' = Reads(theirs[job.to], held, records')
  BY DEF Opened, Reads
<1>6. Accepts(job, Reads(theirs[job.to], held, records'))
  BY <1>1, <1>2, <1>4, AcceptsReads
<1> QED
  BY <1>3, <1>5, <1>6

\* Lemma: every step preserves it.
LEMMA InvNext == Inv /\ [Next]_vars => Inv'
<1> SUFFICES ASSUME Inv, [Next]_vars PROVE Inv'
  OBVIOUS
<1>t. /\ TypeOK /\ ours \in Version /\ theirs \in Seq(Version) /\ Len(theirs) \in Nat /\ base \in 1 .. Len(theirs)
      /\ recent \in Seq(Version)
  BY DEF Inv, TypeOK
<1>1. CASE Work
  <2>1. PICK w \in Writes(ours) :
           /\ Land(w.to, <<>>)
           /\ held' = held \cup (w.to.blocks \ ours.blocks)
           /\ records' = records \cup (w.to.ledger \ ours.ledger)
           /\ dropped' = (dropped \ w.to.blocks) \cup (w.gone \cap theirs[base].blocks)
    BY <1>1 DEF Work
  <2>2. w.to \in Version
    BY <1>t, WritesType
  <2>3. ours' = w.to /\ recent' \in Seq(Version) /\ Len(recent') \in 1 .. RetainedRoots
    <3>1. <<>> \in Seq(Version)
      OBVIOUS
    <3> QED
      BY <2>1, <2>2, <3>1, <1>t, LandIs
  <2>4. dropped' \subseteq Blocks
    <3>1. theirs[base] \in Version /\ dropped \subseteq Blocks
      BY <1>t DEF TypeOK
    <3>2. theirs[base].blocks \subseteq Blocks
      BY <3>1 DEF Version
    <3> QED
      BY <2>1, <3>1, <3>2
  <2>5. held' \subseteq Blocks /\ records' \subseteq Records
    BY <2>1, <2>2, <1>t DEF TypeOK, Version
  <2>6. /\ job = None /\ pointer = None /\ wrote < MaxOurs /\ since' = since + 1 /\ wrote' = wrote + 1
        /\ UNCHANGED <<theirs, base, fetched, pointer, job, lost, stale, joins>>
    BY <1>1 DEF Work
  <2>7. TypeOK'
    BY <2>2, <2>3, <2>4, <2>5, <2>6, <1>t, StartAssumption DEF TypeOK
  <2> QED
    BY <2>6, <2>7 DEF Inv
<1>2. CASE TheirWork
  <2>1. PICK w \in Writes(theirs[Len(theirs)]) : theirs' = Append(theirs, w.to)
    BY <1>2 DEF TheirWork
  <2>2. w.to \in Version
    BY <1>t, WritesType
  <2>3. UNCHANGED <<ours, base, fetched, held, records, recent, pointer, job, since, lost, dropped, stale, joins, wrote>>
    BY <1>2 DEF TheirWork
  <2>4. theirs' \in Seq(Version) /\ Len(theirs') = Len(theirs) + 1 /\ \A i \in 1 .. Len(theirs) : theirs'[i] = theirs[i]
    BY <2>1, <2>2, <1>t
  <2>5. TypeOK'
    BY <2>3, <2>4, <1>t DEF TypeOK
  <2>6. ASSUME pointer' # None PROVE PointerTyped(pointer', Len(theirs')) /\ job' = None
    BY <2>3, <2>4, <2>6, <1>t DEF Inv, PointerTyped
  <2>7. ASSUME job' # None PROVE JobTyped(job', Len(theirs')) /\ Accepts(job', Opened(theirs[job.to])')
    <3>1. job.to \in 1 .. Len(theirs)
      BY <2>3, <2>7 DEF Inv, JobTyped
    <3>2. job # None /\ job' = job /\ held' = held
      BY <2>3, <2>7
    <3> QED
      BY <2>4, <3>1, <3>2, <1>t, JobStays
  <2> QED
    BY <2>3, <2>5, <2>6, <2>7 DEF Inv
<1>3. CASE \E kinds \in FetchSets : Fetch(kinds)
  <2>1. PICK kinds \in FetchSets : Fetch(kinds)
    BY <1>3
  <2>2. theirs[Len(theirs)] \in Version
    BY <1>t
  <2>3. Narrow(theirs[Len(theirs)], kinds) \in Version
    BY <2>2, NarrowType
  <2>4. held' \subseteq Blocks /\ records' \subseteq Records
    BY <2>1, <2>3, <1>t DEF Fetch, TypeOK, Version
  <2> QED
    BY <2>1, <2>4, <1>t DEF Fetch, Inv, TypeOK
<1>4. CASE ReconcileAs
  <2>1. PICK strategy \in Strategies : Reconcile(strategy)
    BY <1>4 DEF ReconcileAs
  <2>2. fetched \in 1 .. Len(theirs) /\ job = None
    BY <2>1, <1>t DEF TypeOK, Reconcile
  <2>3. UNCHANGED <<ours, theirs, base, fetched, held, records, recent, since, lost, dropped, joins, wrote>>
    BY <2>1 DEF Reconcile
  <2>4. CASE IsClean(PlanFor(fetched))
    <3>1. Conclude(PlanFor(fetched), fetched, strategy, <<>>, <<>>, {}) /\ PlanFor(fetched).withdrawn \subseteq {}
      BY <2>1, <2>4 DEF Reconcile, IsClean
    <3> QED
      BY <2>2, <2>3, <3>1, ConcludeInv
  <2>5. CASE ~ IsClean(PlanFor(fetched))
    <3>1. /\ pointer' = [theirs |-> fetched, ancestor |-> base, strategy |-> strategy,
                         head |-> ours, decisions |-> <<>>, choices |-> <<>>, accepted |-> {}]
          /\ UNCHANGED <<job, stale>>
      BY <2>1, <2>5 DEF Reconcile
    <3>2. DOMAIN pointer' = PointerFields /\ pointer'.theirs = fetched /\ pointer'.strategy = strategy
      BY <3>1 DEF PointerFields
    <3> QED
      BY <2>2, <2>3, <3>1, <3>2, <1>t DEF Inv, TypeOK, PointerTyped
  <2> QED
    BY <2>4, <2>5
<1>5. CASE Resolve
  <2>1. /\ UNCHANGED <<ours, theirs, base, fetched, held, records, recent, job, since, lost, dropped, stale, joins, wrote>>
        /\ pointer # None
        /\ \/ \E d : pointer' = [pointer EXCEPT !.decisions = d]
           \/ \E d : pointer' = [pointer EXCEPT !.choices = d]
    BY <1>5 DEF Resolve, Status
  <2>2. PointerTyped(pointer', Len(theirs'))
    BY <2>1 DEF Inv, PointerTyped, PointerFields
  <2> QED
    BY <2>1, <2>2, <1>t DEF Inv, TypeOK
<1>6. CASE AcceptRemovals
  <2>1. /\ UNCHANGED <<ours, theirs, base, fetched, held, records, recent, job, since, lost, dropped, stale, joins, wrote>>
        /\ pointer # None
        /\ pointer' = [pointer EXCEPT !.accepted = PlanFor(pointer.theirs).withdrawn]
    BY <1>6 DEF AcceptRemovals, Status
  <2>2. PointerTyped(pointer', Len(theirs'))
    BY <2>1 DEF Inv, PointerTyped, PointerFields
  <2> QED
    BY <2>1, <2>2, <1>t DEF Inv, TypeOK
<1>7. CASE Continue
  <2>1. pointer # None /\ job = None /\ PointerTyped(pointer, Len(theirs))
    BY <1>7 DEF Continue, Status, Inv
  <2>2. /\ PlanFor(pointer.theirs).withdrawn # {} => pointer.accepted = PlanFor(pointer.theirs).withdrawn
        /\ Conclude(PlanFor(pointer.theirs), pointer.theirs, pointer.strategy, pointer.decisions, pointer.choices, pointer.accepted)
        /\ UNCHANGED <<ours, theirs, base, fetched, held, records, recent, since, lost, dropped, joins, wrote>>
    BY <1>7 DEF Continue
  <2>3. PlanFor(pointer.theirs).withdrawn \subseteq pointer.accepted
    BY <2>2
  <2> QED
    BY <2>1, <2>2, <2>3, ConcludeInv DEF PointerTyped
<1>8. CASE Abort
  BY <1>8, <1>t DEF Abort, Inv, TypeOK
<1>9. CASE WriteStep
  <2> DEFINE t == Opened(theirs[Head(job.steps)])
  <2>1. /\ job # None /\ JobTyped(job, Len(theirs))
        /\ ours' \in Version
        /\ recent' \in Seq(Version) /\ Len(recent') \in 1 .. RetainedRoots
        /\ records' = records \cup Authors(job, t) /\ Authors(job, t) \subseteq Records
        /\ held' = held /\ theirs' = theirs /\ pointer' = pointer /\ fetched' = fetched /\ stale' = stale
        /\ base' \in {base, job.to} /\ dropped' \subseteq dropped
        /\ Len(job.steps) = 1 => job' = None /\ joins' = Append(joins, job.strategy)
        /\ Len(job.steps) # 1 =>
             /\ joins' = joins
             /\ JobTyped(job', Len(theirs)) /\ job' # None
             /\ \A f \in JobFields \ {"steps", "authored", "pending"} : job'[f] = job[f]
    BY <1>9, WriteStepIs
  <2> HIDE DEF t
  <2>2. lost' = lost /\ wrote' = wrote /\ since' \in Nat
    BY <1>9, <1>t DEF WriteStep, TypeOK
  <2>3. TypeOK'
    <3>1. base' \in 1 .. Len(theirs') /\ job.strategy \in Strategies
      BY <2>1, <1>t DEF JobTyped
    <3>2. joins' \in Seq(Strategies \cup {"torn"})
      <4>1. joins \in Seq(Strategies \cup {"torn"}) /\ job.strategy \in Strategies \cup {"torn"}
        BY <3>1, <1>t DEF TypeOK
      <4>2. joins' = joins \/ joins' = Append(joins, job.strategy)
        BY <2>1
      <4> QED
        BY <4>1, <4>2
    <3>3. records' \subseteq Records
      BY <2>1, <1>t DEF TypeOK
    <3> QED
      BY <2>1, <2>2, <3>1, <3>2, <3>3, <1>t DEF TypeOK
  <2>4. ASSUME Len(job.steps) # 1 PROVE Accepts(job', Opened(theirs[job.to])')
    <3>1. theirs[job.to] \in Version
      BY <2>1, <1>t DEF JobTyped
    <3>2. /\ job'.to = job.to /\ job'.from = job.from /\ job'.onto = job.onto /\ job'.refused = job.refused
          /\ job'.cascaded = job.cascaded /\ job'.carried = job.carried /\ job'.accepted = job.accepted
      BY <2>1, <2>4 DEF JobFields
    <3>3. Accepts(job, Reads(theirs[job.to], held, records))
      BY <2>1, OpenedReads DEF Inv
    <3>4. Accepts(job, Reads(theirs[job.to], held, records'))
      BY <3>1, <3>3, AcceptsReads
    <3>5. Opened(theirs[job.to])' = Reads(theirs[job.to], held, records')
      BY <2>1, <3>2 DEF Opened, Reads
    <3> QED
      BY <3>2, <3>4, <3>5 DEF Accepts
  <2> QED
    BY <2>1, <2>3, <2>4 DEF Inv
<1>10. CASE Crash
  BY <1>10, <1>t DEF Crash, Inv, TypeOK
<1>11. CASE Prune
  <2>1. /\ held' \subseteq held /\ records' \subseteq records /\ fetched' = 0 /\ lost' \in BOOLEAN /\ job = None
        /\ UNCHANGED <<ours, theirs, base, recent, pointer, job, since, dropped, stale, joins, wrote>>
    <3>1. lost \in BOOLEAN
      BY <1>t DEF TypeOK
    <3>2. lost' \in BOOLEAN /\ fetched' = 0 /\ job = None
      BY <1>11, <3>1, Zenon DEF Prune
    <3>3. held' \subseteq held /\ records' \subseteq records
      BY <1>11 DEF Prune
    <3> QED
      BY <1>11, <3>2, <3>3 DEF Prune
  <2> QED
    BY <2>1, <1>t DEF Inv, TypeOK
<1>12. CASE UNCHANGED vars
  BY <1>12, <1>t DEF vars, Inv, TypeOK, Opened
<1> QED
  BY <1>1, <1>2, <1>3, <1>4, <1>5, <1>6, <1>7, <1>8, <1>9, <1>10, <1>11, <1>12 DEF Next

\* The invariant holds throughout.
THEOREM Invariant == Spec => []Inv
<1>1. Init => Inv
  BY InvInit
<1>2. Inv /\ [Next]_vars => Inv'
  BY InvNext
<1> QED
  BY <1>1, <1>2, PTL DEF Spec

\* Every variable has its type.
THEOREM TypeCorrect == Spec => []TypeOK
<1>1. Inv => TypeOK
  BY DEF Inv
<1> QED
  BY <1>1, Invariant, PTL

\* What a reconciliation ends in lacks nothing this brain held when it was concluded but what was
\* shown and accepted, in every brain, with any histories, strategies, fetches, crashes and prunes.
THEOREM EndsAlwaysAsAccepted == Spec => EndsAsAccepted
<1> DEFINE Ends == job # None /\ job' = None /\ ours' # ours => job.onto.blocks \ ours'.blocks \subseteq job.accepted
<1>1. Inv /\ [Next]_vars => [Ends]_vars
  <2> SUFFICES ASSUME Inv, Next, job # None, job' = None, ours' # ours,
                      NEW x \in job.onto.blocks, x \notin job.accepted
               PROVE  x \in ours'.blocks
    OBVIOUS
  <2>1. CASE WriteStep
    <3> DEFINE t == Opened(theirs[Head(job.steps)])
               v == theirs[job.to]
    <3>1. /\ JobTyped(job, Len(theirs)) /\ Len(job.steps) = 1 /\ Head(job.steps) = job.to
          /\ ours'.blocks = StatedBlocks(job, t, ours, v)
      BY <2>1, WriteStepIs
    <3>2. Accepts(job, t)
      BY <3>1 DEF Inv
    <3> HIDE DEF t, v
    <3>3. x \in Partial(job, t).blocks /\ x \notin job.cascaded /\ x \notin job.refused /\ Kind[x] \notin job.carried
      BY <3>2 DEF Accepts, Partial
    <3>4. x \in Remains(job, t)
      BY <3>3 DEF Remains, Taken, Within
    <3> QED
      BY <3>1, <3>3, <3>4 DEF StatedBlocks
  <2>2. CASE Crash
    BY <2>2 DEF Crash
  <2>3. CASE TheirWork \/ Abort \/ Resolve \/ AcceptRemovals
    BY <2>3 DEF TheirWork, Abort, Resolve, AcceptRemovals
  <2>4. CASE Work \/ (\E kinds \in FetchSets : Fetch(kinds)) \/ ReconcileAs \/ Continue \/ Prune
    BY <2>4 DEF Work, Fetch, ReconcileAs, Reconcile, Continue, Status, Prune
  <2> QED
    BY <2>1, <2>2, <2>3, <2>4 DEF Next
<1>2. Spec => [][Ends]_vars
  BY <1>1, Invariant, PTL DEF Spec
<1> QED
  BY <1>2 DEF EndsAsAccepted
-----------------------------------------------------------------------------
(* A brain that holds every module of the common version.                  *)

\* Our head can be opened, and the job was concluded from what could be.
Whole ==
    /\ ours.named = Kinds /\ ours.blocks \subseteq held /\ ours.ledger \subseteq records
    /\ recent[1] = ours
    /\ job # None =>
         /\ job.onto.named = Kinds /\ job.carried = {}
         /\ job.from.blocks \subseteq held /\ job.onto.blocks \subseteq held
         /\ job.from.ledger \subseteq records /\ job.onto.ledger \subseteq records
         /\ job.authored \subseteq records

\* Lemma: a version that is held can be opened as it is.
LEMMA OpensWhole ==
    ASSUME NEW v \in Version, NEW h, NEW r, v.named = Kinds, v.blocks \subseteq h, v.ledger \subseteq r
    PROVE  Reads(v, h, r) = v
<1>1. {k \in Kinds : IF k = "provenance" THEN v.ledger \subseteq r ELSE OfKind(v, k) \subseteq h} = Kinds
  BY DEF OfKind
<1>2. {b \in v.blocks : Kind[b] \in Kinds} = v.blocks
  BY KindsOfBlocks DEF Version
<1>3. v = [named |-> v.named, blocks |-> v.blocks, ledger |-> v.ledger]
  BY DEF Version
<1>4. Narrow(v, Kinds) = [named |-> Kinds, blocks |-> v.blocks, ledger |-> v.ledger]
  BY <1>2 DEF Narrow, Kinds
<1> QED
  BY <1>1, <1>3, <1>4 DEF Reads

\* Lemma: what is opened is held.
LEMMA OpenedHeld ==
    ASSUME NEW v \in Version
    PROVE  Opened(v).blocks \subseteq held /\ Opened(v).ledger \subseteq records
BY OpenedReads, ReadsBlocks

\* Lemma: it holds at the start.
LEMMA WholeInit ==
    ASSUME Installed = Kinds
    PROVE  Init => Whole
<1> SUFFICES ASSUME Init PROVE Whole
  OBVIOUS
<1>1. ours = Narrow(Start, Kinds) /\ Start \in Version /\ Start.named = Kinds
  BY StartAssumption DEF Init
<1>2. ours.named = Kinds
  BY <1>1 DEF Narrow
<1> QED
  BY <1>2 DEF Init, Whole

\* Lemma: a conclusion keeps it.
LEMMA ConcludeWhole ==
    ASSUME Inv, Whole, job = None, NEW to \in 1 .. Len(theirs), NEW strategy \in Strategies, NEW decisions, NEW choices,
           NEW accepted, PlanFor(to).withdrawn \subseteq accepted,
           Conclude(PlanFor(to), to, strategy, decisions, choices, accepted),
           UNCHANGED <<ours, theirs, base, fetched, held, records, recent, since, lost, dropped, joins, wrote>>
    PROVE  Whole'
<1>1. ASSUME job' # None
      PROVE  /\ job'.onto.named = Kinds /\ job'.carried = {}
             /\ job'.from.blocks \subseteq held /\ job'.onto.blocks \subseteq held
             /\ job'.from.ledger \subseteq records /\ job'.onto.ledger \subseteq records
             /\ job'.authored \subseteq records
  <2>1. TypeOK
    BY DEF Inv
  <2>2. /\ JobTyped(job', Len(theirs)) /\ Accepts(job', Opened(theirs[to]))
        /\ job'.from = Opened(theirs[base]) /\ job'.onto = Opened(ours) /\ job'.authored = {}
    BY <1>1, <2>1, ConcludeJob
  <2>3. ours \in Version /\ theirs[base] \in Version
    BY <2>1 DEF TypeOK
  <2>4. Opened(ours) = ours
    BY <2>3, OpensWhole, OpenedReads DEF Whole
  <2>5. job'.onto.named = Kinds
    BY <2>2, <2>4 DEF Whole
  <2>6. job'.carried = {}
    BY <2>2, <2>5 DEF Accepts, JobTyped
  <2> QED
    BY <2>2, <2>3, <2>5, <2>6, OpenedHeld
<1> QED
  BY <1>1 DEF Whole

\* Lemma: the next version consists of what is here.
LEMMA WholeStep ==
    ASSUME Inv, Whole, WriteStep
    PROVE  LET t == Opened(theirs[Head(job.steps)])
           IN /\ ours'.named = Kinds /\ ours'.blocks = Remains(job, t)
              /\ ours'.ledger = (Partial(job, t).ledger \ job.unsaid) \cup Authors(job, t)
              /\ ours'.blocks \subseteq held /\ ours'.ledger \subseteq records'
<1> DEFINE t == Opened(theirs[Head(job.steps)])
           v == theirs[job.to]
<1>1. /\ job # None /\ JobTyped(job, Len(theirs))
      /\ t \in Version /\ v \in Version /\ Head(job.steps) \in 1 .. job.to
      /\ ours' \in Version
      /\ ours'.named = Partial(job, t).named \cup job.carried \cup ours.named
      /\ ours'.blocks = StatedBlocks(job, t, ours, v)
      /\ ours'.ledger = StatedLedger(job, t, ours, v)
      /\ records' = records \cup Authors(job, t)
  BY WriteStepIs
<1>2. theirs[Head(job.steps)] \in Version
  BY <1>1 DEF Inv, TypeOK, JobTyped
<1>3. t.blocks \subseteq held /\ t.ledger \subseteq records
  BY <1>2, OpenedHeld
<1> HIDE DEF t, v
<1>4. /\ job.onto.named = Kinds /\ job.carried = {} /\ ours.named = Kinds
      /\ job.from.blocks \subseteq held /\ job.onto.blocks \subseteq held
      /\ job.from.ledger \subseteq records /\ job.onto.ledger \subseteq records
  BY <1>1 DEF Whole
<1>5. Partial(job, t).named = Kinds
  BY <1>1, <1>4 DEF Partial, Merged, Version
<1>6. Partial(job, t).ledger \subseteq records
  BY <1>3, <1>4 DEF Partial, Merged
<1>7. Partial(job, t).blocks \subseteq held
  BY <1>3, <1>4 DEF Partial, Merged, Survives
<1>8. Stays(job, t, ours, v) = {}
  BY <1>4, <1>5 DEF Stays
<1>9. StatedBlocks(job, t, ours, v) = Remains(job, t)
  BY <1>4, <1>8 DEF StatedBlocks
<1>10. StatedLedger(job, t, ours, v) = (Partial(job, t).ledger \ job.unsaid) \cup Authors(job, t)
  BY <1>4, <1>8 DEF StatedLedger
<1>11. Remains(job, t) \subseteq Partial(job, t).blocks
  BY DEF Remains
<1> QED
  BY <1>1, <1>4, <1>5, <1>6, <1>7, <1>9, <1>10, <1>11 DEF t

\* Lemma: every step preserves it.
LEMMA WholeNext == Inv /\ Whole /\ [Next]_vars => Whole'
<1> SUFFICES ASSUME Inv, Whole, [Next]_vars PROVE Whole'
  OBVIOUS
<1>t. /\ TypeOK /\ ours \in Version /\ theirs \in Seq(Version) /\ Len(theirs) \in Nat /\ base \in 1 .. Len(theirs)
      /\ recent \in Seq(Version) /\ Len(recent) \in Nat \ {0}
  BY DEF Inv, TypeOK
<1>1. CASE Work
  <2>1. PICK w \in Writes(ours) :
           /\ Land(w.to, <<>>)
           /\ held' = held \cup (w.to.blocks \ ours.blocks)
           /\ records' = records \cup (w.to.ledger \ ours.ledger)
    BY <1>1 DEF Work
  <2>2. w.to \in Version /\ ours.named \subseteq w.to.named
    BY <1>t, WritesType
  <2>3. ours' = w.to /\ recent'[1] = w.to
    <3>1. <<>> \in Seq(Version)
      OBVIOUS
    <3> QED
      BY <2>1, <2>2, <3>1, <1>t, LandIs
  <2>4. w.to.named = Kinds
    BY <2>2 DEF Whole, Version
  <2>5. job' = None
    BY <1>1 DEF Work
  <2> QED
    BY <2>1, <2>3, <2>4, <2>5 DEF Whole
<1>2. CASE TheirWork \/ Abort \/ Resolve \/ AcceptRemovals \/ UNCHANGED vars
  BY <1>2 DEF TheirWork, Abort, Resolve, AcceptRemovals, vars, Whole
<1>3. CASE \E kinds \in FetchSets : Fetch(kinds)
  <2>1. held \subseteq held' /\ records \subseteq records' /\ job' = job /\ ours' = ours /\ recent' = recent
    BY <1>3 DEF Fetch
  <2> QED
    BY <2>1 DEF Whole
<1>4. CASE ReconcileAs
  <2>1. PICK strategy \in Strategies : Reconcile(strategy)
    BY <1>4 DEF ReconcileAs
  <2>2. fetched \in 1 .. Len(theirs) /\ job = None
    BY <2>1, <1>t DEF TypeOK, Reconcile
  <2>3. UNCHANGED <<ours, theirs, base, fetched, held, records, recent, since, lost, dropped, joins, wrote>>
    BY <2>1 DEF Reconcile
  <2>4. CASE IsClean(PlanFor(fetched))
    <3>1. Conclude(PlanFor(fetched), fetched, strategy, <<>>, <<>>, {}) /\ PlanFor(fetched).withdrawn \subseteq {}
      BY <2>1, <2>4 DEF Reconcile, IsClean
    <3> QED
      BY <2>2, <2>3, <3>1, ConcludeWhole
  <2>5. CASE ~ IsClean(PlanFor(fetched))
    <3>1. job' = job
      BY <2>1, <2>5 DEF Reconcile
    <3> QED
      BY <2>3, <3>1 DEF Whole
  <2> QED
    BY <2>4, <2>5
<1>5. CASE Continue
  <2>1. pointer # None /\ job = None /\ PointerTyped(pointer, Len(theirs))
    BY <1>5 DEF Continue, Status, Inv
  <2>2. /\ PlanFor(pointer.theirs).withdrawn # {} => pointer.accepted = PlanFor(pointer.theirs).withdrawn
        /\ Conclude(PlanFor(pointer.theirs), pointer.theirs, pointer.strategy, pointer.decisions, pointer.choices, pointer.accepted)
        /\ UNCHANGED <<ours, theirs, base, fetched, held, records, recent, since, lost, dropped, joins, wrote>>
    BY <1>5 DEF Continue
  <2>3. PlanFor(pointer.theirs).withdrawn \subseteq pointer.accepted
    BY <2>2
  <2> QED
    BY <2>1, <2>2, <2>3, ConcludeWhole DEF PointerTyped
<1>6. CASE WriteStep
  <2> DEFINE t == Opened(theirs[Head(job.steps)])
  <2>1. /\ recent'[1] = ours' /\ held' = held /\ records' = records \cup Authors(job, t) /\ job # None
        /\ Len(job.steps) = 1 => job' = None
        /\ Len(job.steps) # 1 =>
             /\ job'.authored = Authors(job, t)
             /\ \A f \in JobFields \ {"steps", "authored", "pending"} : job'[f] = job[f]
    BY <1>6, WriteStepIs
  <2>2. ours'.named = Kinds /\ ours'.blocks \subseteq held /\ ours'.ledger \subseteq records'
    BY <1>6, WholeStep
  <2> HIDE DEF t
  <2>3. Len(job.steps) # 1 => job'.from = job.from /\ job'.onto = job.onto /\ job'.carried = job.carried
    BY <2>1 DEF JobFields
  <2> QED
    BY <2>1, <2>2, <2>3 DEF Whole
<1>7. CASE Crash
  BY <1>7 DEF Crash, Whole
<1>8. CASE Prune
  <2>1. /\ held' = held \cap UNION {recent[i].blocks : i \in 1 .. Len(recent)}
        /\ records' = records \cap UNION {recent[i].ledger : i \in 1 .. Len(recent)}
        /\ job' = None /\ ours' = ours /\ recent' = recent
    BY <1>8 DEF Prune
  <2>2. 1 \in 1 .. Len(recent) /\ recent[1] = ours
    BY <1>t DEF Whole
  <2>3. ours.blocks \subseteq held' /\ ours.ledger \subseteq records'
    BY <2>1, <2>2 DEF Whole
  <2> QED
    BY <2>1, <2>3 DEF Whole
<1> QED
  BY <1>1, <1>2, <1>3, <1>4, <1>5, <1>6, <1>7, <1>8 DEF Next

\* What we dropped of the common version is gone, and a job started without it.
Gone ==
    /\ dropped \subseteq theirs[base].blocks /\ dropped \cap ours.blocks = {}
    /\ job # None =>
         /\ dropped \cap job.onto.blocks = {}
         /\ job.from.named = Kinds => theirs[base].blocks \subseteq job.from.blocks

\* Lemma: a version restated from a common version that was opened leaves out what we dropped.
LEMMA StepDrops ==
    ASSUME Inv, Whole, Gone, WriteStep, job.from.named = Kinds
    PROVE  dropped \cap ours'.blocks = {}
<1> DEFINE t == Opened(theirs[Head(job.steps)])
<1>1. ours'.blocks = Remains(job, t) /\ job # None
  BY WholeStep DEF WriteStep
<1>2. job.onto.named = Kinds /\ dropped \cap job.onto.blocks = {} /\ dropped \subseteq job.from.blocks
  BY <1>1 DEF Whole, Gone
<1> HIDE DEF t
<1>3. Remains(job, t) \subseteq Partial(job, t).blocks
  BY DEF Remains
<1>4. \A x \in Partial(job, t).blocks : x \notin dropped
  BY <1>2, KindsOfBlocks DEF Partial, Merged, Survives
<1> QED
  BY <1>1, <1>3, <1>4

\* Lemma: a conclusion starts without what we dropped.
LEMMA ConcludeGone ==
    ASSUME Inv, Gone, job = None, NEW to \in 1 .. Len(theirs), NEW strategy \in Strategies, NEW decisions, NEW choices,
           NEW accepted, PlanFor(to).withdrawn \subseteq accepted,
           Conclude(PlanFor(to), to, strategy, decisions, choices, accepted),
           UNCHANGED <<ours, theirs, base, fetched, held, records, recent, since, lost, dropped, joins, wrote>>
    PROVE  Gone'
<1>1. ASSUME job' # None
      PROVE  /\ dropped \cap job'.onto.blocks = {}
             /\ job'.from.named = Kinds => theirs[base].blocks \subseteq job'.from.blocks
  <2>1. TypeOK
    BY DEF Inv
  <2>2. job'.from = Opened(theirs[base]) /\ job'.onto = Opened(ours)
    BY <1>1, <2>1, ConcludeJob
  <2>3. ours \in Version /\ theirs[base] \in Version
    BY <2>1 DEF TypeOK
  <2>4. /\ Opened(ours).blocks \subseteq ours.blocks
        /\ Opened(theirs[base]).blocks = {b \in theirs[base].blocks : Kind[b] \in Opened(theirs[base]).named}
    BY <2>3, OpenedReads, ReadsType
  <2>5. \A b \in theirs[base].blocks : Kind[b] \in Kinds
    BY <2>3, KindsOfBlocks DEF Version
  <2> QED
    BY <2>2, <2>4, <2>5 DEF Gone
<1> QED
  BY <1>1 DEF Gone

\* Lemma: every step preserves it.
LEMMA GoneNext == Inv /\ Gone /\ [Next]_vars => Gone'
<1> SUFFICES ASSUME Inv, Gone, [Next]_vars PROVE Gone'
  OBVIOUS
<1>t. /\ TypeOK /\ ours \in Version /\ theirs \in Seq(Version) /\ Len(theirs) \in Nat /\ base \in 1 .. Len(theirs)
      /\ recent \in Seq(Version)
  BY DEF Inv, TypeOK
<1>1. CASE Work
  <2>1. PICK w \in Writes(ours) :
           /\ Land(w.to, <<>>)
           /\ dropped' = (dropped \ w.to.blocks) \cup (w.gone \cap theirs[base].blocks)
    BY <1>1 DEF Work
  <2>2. w.gone \cap w.to.blocks = {}
    BY <1>t, WritesType
  <2>3. ours' = w.to /\ job' = None /\ theirs' = theirs /\ base' = base
    BY <1>1, <2>1 DEF Land, Work
  <2> QED
    BY <2>1, <2>2, <2>3 DEF Gone
<1>2. CASE TheirWork
  <2>1. PICK w \in Writes(theirs[Len(theirs)]) : theirs' = Append(theirs, w.to)
    BY <1>2 DEF TheirWork
  <2>2. w.to \in Version
    BY <1>t, WritesType
  <2>3. theirs'[base] = theirs[base] /\ base' = base /\ UNCHANGED <<ours, dropped, job>>
    BY <1>2, <2>1, <2>2, <1>t DEF TheirWork
  <2> QED
    BY <2>3 DEF Gone
<1>3. CASE Abort \/ Resolve \/ AcceptRemovals \/ UNCHANGED vars \/ Prune \/ \E kinds \in FetchSets : Fetch(kinds)
  <2>1. UNCHANGED <<ours, dropped, job, theirs, base>>
    BY <1>3 DEF Abort, Resolve, AcceptRemovals, vars, Prune, Fetch
  <2> QED
    BY <2>1 DEF Gone
<1>4. CASE ReconcileAs
  <2>1. PICK strategy \in Strategies : Reconcile(strategy)
    BY <1>4 DEF ReconcileAs
  <2>2. fetched \in 1 .. Len(theirs) /\ job = None
    BY <2>1, <1>t DEF TypeOK, Reconcile
  <2>3. UNCHANGED <<ours, theirs, base, fetched, held, records, recent, since, lost, dropped, joins, wrote>>
    BY <2>1 DEF Reconcile
  <2>4. CASE IsClean(PlanFor(fetched))
    <3>1. Conclude(PlanFor(fetched), fetched, strategy, <<>>, <<>>, {}) /\ PlanFor(fetched).withdrawn \subseteq {}
      BY <2>1, <2>4 DEF Reconcile, IsClean
    <3> QED
      BY <2>2, <2>3, <3>1, ConcludeGone
  <2>5. CASE ~ IsClean(PlanFor(fetched))
    <3>1. job' = job
      BY <2>1, <2>5 DEF Reconcile
    <3> QED
      BY <2>3, <3>1 DEF Gone
  <2> QED
    BY <2>4, <2>5
<1>5. CASE Continue
  <2>1. pointer # None /\ job = None /\ PointerTyped(pointer, Len(theirs))
    BY <1>5 DEF Continue, Status, Inv
  <2>2. /\ PlanFor(pointer.theirs).withdrawn # {} => pointer.accepted = PlanFor(pointer.theirs).withdrawn
        /\ Conclude(PlanFor(pointer.theirs), pointer.theirs, pointer.strategy, pointer.decisions, pointer.choices, pointer.accepted)
        /\ UNCHANGED <<ours, theirs, base, fetched, held, records, recent, since, lost, dropped, joins, wrote>>
    BY <1>5 DEF Continue
  <2>3. PlanFor(pointer.theirs).withdrawn \subseteq pointer.accepted
    BY <2>2
  <2> QED
    BY <2>1, <2>2, <2>3, ConcludeGone DEF PointerTyped
<1>6. CASE WriteStep
  <2>1. /\ job # None /\ theirs' = theirs /\ dropped' \subseteq dropped
        /\ Len(job.steps) = 1 => job' = None
        /\ Len(job.steps) # 1 =>
             base' = base /\ \A f \in JobFields \ {"steps", "authored", "pending"} : job'[f] = job[f]
    BY <1>6, WriteStepIs
  <2>2. dropped' \cap ours'.blocks = {}
    BY <1>6 DEF WriteStep
  <2>3. dropped' \subseteq theirs[base'].blocks
    BY <1>6 DEF WriteStep, Gone
  <2>4. Len(job.steps) # 1 => job'.from = job.from /\ job'.onto = job.onto
    BY <2>1 DEF JobFields
  <2> QED
    BY <2>1, <2>2, <2>3, <2>4 DEF Gone
<1>7. CASE Crash
  BY <1>7 DEF Crash, Gone
<1> QED
  BY <1>1, <1>2, <1>3, <1>4, <1>5, <1>6, <1>7 DEF Next

\* Everything we removed stays removed: no version that a reconciliation writes brings back a block
\* of the common version that we dropped, in every brain that was installed whole, provided the
\* common version could be opened.
THEOREM DropsAlwaysStick ==
    ASSUME Installed = Kinds
    PROVE  Spec => DropsStick
<1> DEFINE Stick == job # None /\ job.from.named = Kinds => dropped \cap ours'.blocks = {}
<1>1. Init => Whole /\ Gone
  BY WholeInit DEF Init, Gone
<1>2. Inv /\ Whole /\ Gone /\ [Next]_vars => Whole' /\ Gone'
  BY WholeNext, GoneNext
<1>3. Inv /\ Whole /\ Gone /\ [Next]_vars => [Stick]_vars
  <2> SUFFICES ASSUME Inv, Whole, Gone, Next, job # None, job.from.named = Kinds
               PROVE  dropped \cap ours'.blocks = {}
    OBVIOUS
  <2>1. CASE WriteStep
    BY <2>1, StepDrops
  <2>2. CASE Crash \/ TheirWork \/ Abort \/ Resolve \/ AcceptRemovals
    BY <2>2 DEF TheirWork, Abort, Resolve, AcceptRemovals, Crash, Gone
  <2>3. CASE Work \/ (\E kinds \in FetchSets : Fetch(kinds)) \/ ReconcileAs \/ Continue \/ Prune
    BY <2>3 DEF Work, Fetch, ReconcileAs, Reconcile, Continue, Status, Prune
  <2> QED
    BY <2>1, <2>2, <2>3 DEF Next
<1>4. Spec => [][Stick]_vars
  BY <1>1, <1>2, <1>3, Invariant, PTL DEF Spec
<1> QED
  BY <1>4 DEF DropsStick
-----------------------------------------------------------------------------
(* The gate.                                                               *)

\* What is found wrong with b in a view, and what the first view shows.
Faulty(b, view, ledger) ==
    IF ~ Readable(b) THEN {"unreadable"}
    ELSE IF Kind[b] \in Derived THEN Issues(b, view, ledger) ELSE {}
FirstView(incoming, merged) == merged.blocks \ {b \in incoming : Kind[b] = "canonical" /\ ~ Readable(b)}

\* Lemma: every incoming block is judged in some part of the first view.
LEMMA JudgedViews ==
    ASSUME NEW incoming \in SUBSET Blocks, NEW merged
    PROVE  \E g \in [0 .. Cardinality(Blocks) -> SUBSET FirstView(incoming, merged)] :
             Judged(incoming, merged) = [b \in incoming |-> Faulty(b, g[Rank[b] - 1], merged.ledger)]
<1> DEFINE N == Cardinality(Blocks)
           V == FirstView(incoming, merged)
           T == SUBSET V
           Out(n, view) == {b \in incoming : Rank[b] = n /\ Faulty(b, view, merged.ledger) # {}}
           s == [n \in 1 .. N |-> [view \in T |-> view \ Out(n, view)]]
           Faults(b, view) == IF ~ Readable(b) THEN {"unreadable"}
                              ELSE IF Kind[b] \in Derived THEN Issues(b, view, merged.ledger) ELSE {}
           View[n \in 0 .. Cardinality(Blocks)] ==
            IF n = 0 THEN merged.blocks \ {b \in incoming : Kind[b] = "canonical" /\ ~ Readable(b)}
            ELSE LET view == View[n - 1]
                 IN view \ {b \in incoming : Rank[b] = n /\ Faults(b, view) # {}}
<1>1. Judged(incoming, merged) = [b \in incoming |-> Faults(b, View[Rank[b] - 1])]
  BY DEF Judged
<1>n. N \in Nat
  BY BlocksCounted
<1>2. PICK g : Iterate(g, N, T, V, s)
  <2>1. V \in T /\ s \in [1 .. N -> [T -> T]]
    OBVIOUS
  <2> HIDE DEF N, T, s, V
  <2> QED
    BY <2>1, <1>n, IterateExists
<1>3. /\ g \in [0 .. N -> SUBSET V]
      /\ g[0] = V
      /\ \A n \in 1 .. N : g[n] = g[n - 1] \ Out(n, g[n - 1])
  <2>1. \A n \in 1 .. N : n - 1 \in 0 .. N
    BY <1>n
  <2>2. g \in [0 .. N -> T] /\ g[0] = V /\ \A n \in 1 .. N : g[n] = s[n][g[n - 1]]
    BY <1>2 DEF Iterate
  <2> HIDE DEF N, T, V, Out
  <2>3. \A n \in 1 .. N : s[n][g[n - 1]] = g[n - 1] \ Out(n, g[n - 1])
    BY <2>1, <2>2
  <2> QED
    BY <2>2, <2>3 DEF T
<1> DEFINE F(r) == [n \in 0 .. Cardinality(Blocks) |->
            IF n = 0 THEN merged.blocks \ {b \in incoming : Kind[b] = "canonical" /\ ~ Readable(b)}
            ELSE LET view == r[n - 1]
                 IN view \ {b \in incoming : Rank[b] = n /\ Faults(b, view) # {}}]
<1>4. \A r : F(r) = [n \in 0 .. N |-> IF n = 0 THEN V ELSE r[n - 1] \ Out(n, r[n - 1])]
  BY DEF Faulty, FirstView
<1>5. View = F(View)
  <2>1. g = F(g)
    <3> HIDE DEF F, Out, V, N
    <3>1. g = [n \in 0 .. N |-> IF n = 0 THEN V ELSE g[n - 1] \ Out(n, g[n - 1])]
      BY <1>3, <1>n
    <3> QED
      BY <3>1, <1>4
  <2>2. View = CHOOSE r : r = F(r)
    OBVIOUS
  <2> HIDE DEF View, F
  <2> QED
    BY <2>1, <2>2
<1> HIDE DEF View
<1>6. /\ View[0] = V
      /\ \A n \in 1 .. N : View[n] = View[n - 1] \ Out(n, View[n - 1])
  <2> HIDE DEF F, Out, V, N
  <2> DEFINE G(r) == [n \in 0 .. N |-> IF n = 0 THEN V ELSE r[n - 1] \ Out(n, r[n - 1])]
  <2>1. G(View)[0] = V /\ \A n \in 1 .. N : G(View)[n] = View[n - 1] \ Out(n, View[n - 1])
    BY <1>n
  <2>2. View = G(View)
    BY <1>4, <1>5
  <2> HIDE DEF G
  <2> QED
    BY <2>1, <2>2
<1> HIDE DEF F, s, T, Out, V
<1>7. \A n \in 0 .. N : View[n] = g[n]
  <2> DEFINE Bad == {n \in 0 .. N : View[n] # g[n]}
  <2> SUFFICES ASSUME Bad # {} PROVE FALSE
    OBVIOUS
  <2>1. PICK x \in Bad : \A y \in Bad : x <= y
    <3>1. Bad \in SUBSET Nat
      BY <1>n
    <3> HIDE DEF Bad
    <3> QED
      BY <3>1, LeastOf
  <2>2. x # 0
    BY <1>3, <1>6
  <2>3. x - 1 \in 0 .. N /\ x - 1 \notin Bad /\ x \in 1 .. N
    BY <2>1, <2>2, <1>n
  <2> QED
    BY <1>3, <1>6, <2>3
<1>8. \A b \in incoming : Rank[b] - 1 \in 0 .. N
  BY SchemaAssumption, <1>n
<1>9. \A b \in incoming : Faults(b, View[Rank[b] - 1]) = Faulty(b, g[Rank[b] - 1], merged.ledger)
  BY <1>7, <1>8 DEF Faulty
<1>10. Judged(incoming, merged) = [b \in incoming |-> Faulty(b, g[Rank[b] - 1], merged.ledger)]
  <2> HIDE DEF Faults
  <2> QED
    BY <1>1, <1>9
<1> QED
  BY <1>3, <1>10 DEF V

\* Lemma: a derived block with no fault but a contradiction has its evidence in the first view.
LEMMA JudgedFacts ==
    ASSUME NEW incoming \in SUBSET Blocks, NEW merged, NEW b \in incoming,
           Judged(incoming, merged)[b] \subseteq {"contradiction"}
    PROVE  Kind[b] \in Derived => Evidence[b] \subseteq FirstView(incoming, merged)
<1>1. PICK g \in [0 .. Cardinality(Blocks) -> SUBSET FirstView(incoming, merged)] :
         Judged(incoming, merged) = [c \in incoming |-> Faulty(c, g[Rank[c] - 1], merged.ledger)]
  BY JudgedViews
<1>2. Rank[b] - 1 \in 0 .. Cardinality(Blocks)
  BY SchemaAssumption, BlocksCounted
<1> DEFINE view == g[Rank[b] - 1]
<1>3. view \subseteq FirstView(incoming, merged)
  BY <1>1, <1>2
<1>4. Faulty(b, view, merged.ledger) \subseteq {"contradiction"}
  BY <1>1
<1> HIDE DEF view
<1> SUFFICES ASSUME Kind[b] \in Derived PROVE Evidence[b] \subseteq FirstView(incoming, merged)
  OBVIOUS
<1>5. Issues(b, view, merged.ledger) \subseteq {"contradiction"}
  BY <1>4 DEF Faulty
<1>6. Citations(b, merged.ledger) # {} /\ Citations(b, merged.ledger) \subseteq view
  BY <1>5 DEF Issues
<1>7. Citations(b, merged.ledger) = Evidence[b]
  BY <1>6 DEF Citations
<1> QED
  BY <1>3, <1>6, <1>7

\* Lemma: a source that can be read passes.
LEMMA JudgedSources ==
    ASSUME NEW incoming \in SUBSET Blocks, NEW merged, NEW b \in incoming, Kind[b] = "canonical", Readable(b)
    PROVE  Judged(incoming, merged)[b] = {}
<1>1. PICK g \in [0 .. Cardinality(Blocks) -> SUBSET FirstView(incoming, merged)] :
         Judged(incoming, merged) = [c \in incoming |-> Faulty(c, g[Rank[c] - 1], merged.ledger)]
  BY JudgedViews
<1> QED
  BY <1>1 DEF Faulty, Derived
-----------------------------------------------------------------------------
(* Evidence.                                                               *)

\* Whatever v derives has its record and its evidence in v.
Sound(v) ==
    \A b \in v.blocks : Kind[b] \in Derived => Derivation(b) \in v.ledger /\ Evidence[b] \subseteq v.blocks
Derives(ledger, other) == \A b \in Blocks : Derivation(b) \in ledger => Derivation(b) \in other

\* Lemma: what one operation makes of a sound version is sound.
LEMMA WritesSound ==
    ASSUME NEW v \in Version, Sound(v), NEW w \in Writes(v)
    PROVE  Sound(w.to)
<1>1. CASE Adds(v, w)
  <2>1. PICK b \in Blocks, L \in SUBSET Records :
         /\ w.to = Plus(v, {b}, L)
         /\ \/ b \notin v.blocks /\ Kind[b] = "canonical" /\ L = {}
            \/ /\ b \notin v.blocks /\ Kind[b] \in Derived /\ L = {Derivation(b)}
               /\ Issues(b, v.blocks, v.ledger \cup {Derivation(b)}) = {}
            \/ Kind[b] = "canonical" \/ b \in v.blocks
    BY <1>1 DEF Adds
  <2>2. w.to.blocks = v.blocks \cup {b} /\ w.to.ledger = v.ledger \cup L
    BY <2>1 DEF Plus
  <2>3. CASE Kind[b] = "canonical" \/ b \in v.blocks
    BY <2>2, <2>3 DEF Sound, Derived
  <2>4. CASE L = {Derivation(b)} /\ Issues(b, v.blocks, v.ledger \cup {Derivation(b)}) = {}
    <3>1. Citations(b, v.ledger \cup {Derivation(b)}) \subseteq v.blocks
      BY <2>4 DEF Issues
    <3>2. Evidence[b] \subseteq v.blocks
      BY <3>1 DEF Citations
    <3> QED
      BY <2>2, <2>4, <3>2 DEF Sound
  <2> QED
    BY <2>1, <2>3, <2>4
<1>2. CASE Drops(v, w)
  <2>1. PICK b \in v.blocks : w.to = Less(v, Fall(v, b))
    BY <1>2 DEF Drops
  <2>2. w.to.blocks = v.blocks \ Fall(v, b) /\ v.ledger \subseteq w.to.ledger
    BY <2>1, LessIs
  <2>3. /\ \A c \in Fall(v, b) : Kind[c] = "canonical" => c = b
        /\ \A c \in v.blocks : Derivation(c) \in v.ledger /\ b \in Evidence[c] => c \in Fall(v, b)
    BY FallIs
  <2> SUFFICES ASSUME NEW c \in w.to.blocks, Kind[c] \in Derived
               PROVE  Derivation(c) \in w.to.ledger /\ Evidence[c] \subseteq w.to.blocks
    BY DEF Sound
  <2>4. c \in Blocks /\ c \in v.blocks /\ Derivation(c) \in v.ledger /\ Evidence[c] \subseteq v.blocks
    BY <2>2 DEF Sound, Version
  <2>5. \A e \in Evidence[c] : Kind[e] = "canonical"
    BY <2>4, SchemaAssumption
  <2>6. \A e \in Evidence[c] : e \notin Fall(v, b)
    BY <2>2, <2>3, <2>4, <2>5
  <2> QED
    BY <2>2, <2>4, <2>6
<1> QED
  BY <1>1, <1>2, WritesCases

\* What the conclusion j ends in when t is what can be opened of the version v it reconciles.
Ending(j, t) == Partial(j, t).blocks \ (j.refused \cup j.cascaded)
EndsSound(j, t, v) ==
    /\ j.cascaded = Cascade(Excluded(j.from, j.onto, t), Partial(j, t).blocks, Partial(j, t).ledger)
    /\ \A b \in Ending(j, t) : Kind[b] \in Derived =>
           Derivation(b) \in Partial(j, t).ledger /\ Evidence[b] \subseteq Ending(j, t)
    /\ Derives(v.ledger, Partial(j, t).ledger)

Clean == ~ stale /\ \A i \in 1 .. Len(joins) : joins[i] # "torn"
Decisions == {"reject", "admit"}

\* Nothing of the current conclusion was written yet.
Fresh == job = None \/ (job # None /\ Len(job.steps) = Len(Steps(job.strategy, job.to)))

TheirsSound ==
    /\ \A i \in 1 .. Len(theirs) : theirs[i].named = Kinds /\ Sound(theirs[i])
    /\ \A i, k \in 1 .. Len(theirs) : i <= k => theirs[i].ledger \subseteq theirs[k].ledger
Evident ==
    /\ TheirsSound
    /\ fetched # 0 => base <= fetched /\ theirs[fetched].ledger \subseteq records
    /\ pointer # None =>
         /\ pointer.ancestor <= pointer.theirs
         /\ \A q \in DOMAIN pointer.decisions : pointer.decisions[q] \in Decisions
    /\ job # None =>
         /\ base <= job.to /\ job.to <= fetched /\ theirs[job.to].ledger \subseteq records
         /\ Len(job.steps) <= Len(Steps(job.strategy, job.to))
    /\ Clean =>
         /\ Fresh => Sound(ours) /\ Derives(theirs[base].ledger, ours.ledger)
         /\ job # None => EndsSound(job, Opened(theirs[job.to]), theirs[job.to])

\* Lemma: a version whose records are all here is opened with its ledger, and the same whatever
\* records arrive.
LEMMA LedgerOpens ==
    ASSUME NEW v \in Version, NEW h, NEW r, NEW q, v.ledger \subseteq r, r \subseteq q
    PROVE  /\ Reads(v, h, q) = Reads(v, h, r)
           /\ "provenance" \in v.named => "provenance" \in Reads(v, h, r).named /\ Reads(v, h, r).ledger = v.ledger
<1> DEFINE M(x) == {k \in Kinds : IF k = "provenance" THEN v.ledger \subseteq x ELSE OfKind(v, k) \subseteq h}
<1>1. M(r) = M(q) /\ "provenance" \in M(r)
  BY DEF Kinds
<1>2. \A x : Reads(v, h, x) = Narrow(v, M(x))
  BY DEF Reads
<1> HIDE DEF M
<1>3. Reads(v, h, q) = Reads(v, h, r)
  BY <1>1, <1>2
<1>4. /\ Reads(v, h, r).named = v.named \cap M(r)
      /\ Reads(v, h, r).ledger = IF "provenance" \in v.named \cap M(r) THEN v.ledger ELSE {}
  BY <1>2 DEF Narrow
<1> QED
  BY <1>1, <1>3, <1>4

\* Lemma: derivation records survive Equation 1, where the common version's are on both sides.
LEMMA DerivationsSurvive ==
    ASSUME NEW f \in Version, NEW o \in Version, NEW t \in Version,
           "provenance" \in o.named, "provenance" \in t.named,
           Derives(f.ledger, o.ledger), Derives(f.ledger, t.ledger)
    PROVE  Derives(o.ledger, Merged(f, o, t).ledger) /\ Derives(t.ledger, Merged(f, o, t).ledger)
<1> SUFFICES ASSUME NEW b \in Blocks, Derivation(b) \in o.ledger \cup t.ledger
             PROVE  Derivation(b) \in Merged(f, o, t).ledger
  BY DEF Derives
<1> DEFINE r == Derivation(b)
<1>1. r \in f.ledger => r \in o.ledger /\ r \in t.ledger
  BY DEF Derives
<1> HIDE DEF r
<1>2. Survives("provenance", f, o, t, r \in f.ledger, r \in o.ledger, r \in t.ledger)
  BY <1>1 DEF Survives, r
<1> QED
  BY <1>2 DEF Merged, r

\* Lemma: what is excluded is not in the result, and what is not in it of what both sides name and
\* ours holds was excluded.
LEMMA MergedExcludes ==
    ASSUME NEW f \in Version, NEW o \in Version, NEW t \in Version, o.named = Kinds,
           \A b \in f.blocks : Kind[b] \in f.named
    PROVE  /\ Merged(f, o, t).blocks \cap Excluded(f, o, t) = {}
           /\ o.blocks \ Merged(f, o, t).blocks \subseteq Excluded(f, o, t)
           /\ Merged(f, o, t).blocks \ o.blocks \subseteq t.blocks
<1>1. \A b \in Blocks : Kind[b] \in o.named
  BY KindsOfBlocks
<1>2. f.blocks \subseteq Blocks /\ o.blocks \subseteq Blocks /\ t.blocks \subseteq Blocks
  BY DEF Version
<1>3. Merged(f, o, t).blocks = {x \in Blocks :
         Survives(Kind[x], f, o, t, x \in f.blocks, x \in o.blocks, x \in t.blocks)}
  BY DEF Merged
<1>4. ASSUME NEW x \in Merged(f, o, t).blocks, x \in Excluded(f, o, t) PROVE FALSE
  BY <1>3, <1>4 DEF Survives, Excluded
<1>5. ASSUME NEW x \in o.blocks, x \notin Merged(f, o, t).blocks PROVE x \in Excluded(f, o, t)
  BY <1>1, <1>2, <1>3, <1>5 DEF Survives, Excluded
<1>6. ASSUME NEW x \in Merged(f, o, t).blocks, x \notin o.blocks PROVE x \in t.blocks
  BY <1>1, <1>3, <1>6 DEF Survives
<1> QED
  BY <1>4, <1>5, <1>6

\* Lemma: a plan concluded with answers that its verdicts allow ends in a sound version.
LEMMA ConcludeSound ==
    ASSUME Inv, Whole, Evident, job = None, NEW to \in 1 .. Len(theirs), base <= to, to <= fetched,
           NEW strategy \in Strategies, NEW decisions,
           \A q \in DOMAIN decisions : decisions[q] \in Decisions, NEW choices,
           NEW accepted, PlanFor(to).withdrawn \subseteq accepted,
           Conclude(PlanFor(to), to, strategy, decisions, choices, accepted), job' # None,
           Clean, ~ stale'
    PROVE  EndsSound(job', Opened(theirs[to]), theirs[to])
<1> DEFINE f == Opened(theirs[base])
           o == Opened(ours)
           t == Opened(theirs[to])
           plan == PlanFor(to)
           M == Merged(f, o, t)
           X == Excluded(f, o, t)
           inc == M.blocks \ o.blocks
<1>1. /\ TypeOK /\ ours \in Version /\ theirs[base] \in Version /\ theirs[to] \in Version
      /\ base \in 1 .. Len(theirs) /\ fetched \in 1 .. Len(theirs) /\ Len(theirs) \in Nat
  BY DEF Inv, TypeOK
<1>2. /\ f \in Version /\ o \in Version /\ t \in Version
      /\ plan.merged = M /\ M \in Version
      /\ plan.cascaded = Cascade(X, M.blocks, M.ledger)
      /\ plan.verdicts = Judged(inc, M)
      /\ plan.open = {x \in inc : plan.verdicts[x] # {}}
  BY <1>1, PlanIs
<1>3. o = ours
  BY <1>1, OpensWhole, OpenedReads DEF Whole
<1>4. /\ job'.from = f /\ job'.onto = o /\ job'.refused = Refused(plan, decisions)
      /\ job'.cascaded = plan.cascaded /\ Allowed(plan, decisions)
  BY DEF Conclude
<1>5. Sound(o) /\ Derives(theirs[base].ledger, o.ledger)
  BY <1>3 DEF Evident, Fresh
<1>6. theirs[to].ledger \subseteq records /\ theirs[base].ledger \subseteq theirs[to].ledger
  BY <1>1 DEF Evident, TheirsSound
<1>7. "provenance" \in t.named /\ t.ledger = theirs[to].ledger /\ Sound(theirs[to])
  <2>1. "provenance" \in theirs[to].named /\ Sound(theirs[to])
    BY <1>1 DEF Evident, TheirsSound, Kinds
  <2> QED
    BY <1>1, <1>6, <2>1, LedgerOpens, OpenedReads
<1>8. f.ledger \subseteq theirs[base].ledger /\ (\A b \in f.blocks : Kind[b] \in f.named)
      /\ t.blocks \subseteq theirs[to].blocks
  BY <1>1, OpenedReads, ReadsType
<1>9. o.named = Kinds
  BY <1>3 DEF Whole
<1> HIDE DEF f, o, t, plan
<1>10. Derives(o.ledger, M.ledger) /\ Derives(t.ledger, M.ledger)
  <2>1. Derives(f.ledger, o.ledger) /\ Derives(f.ledger, t.ledger) /\ "provenance" \in o.named
    BY <1>5, <1>6, <1>7, <1>8, <1>9 DEF Derives, Kinds
  <2> QED
    BY <1>2, <1>7, <2>1, DerivationsSurvive
<1>11. M.blocks \cap X = {} /\ o.blocks \ M.blocks \subseteq X /\ inc \subseteq t.blocks
  BY <1>2, <1>8, <1>9, MergedExcludes
<1> DEFINE C == Cascade(X, M.blocks, M.ledger)
           R == M.blocks \ (Refused(plan, decisions) \cup C)
<1>12. M.blocks \in SUBSET Blocks /\ inc \in SUBSET Blocks /\ o.blocks \subseteq Blocks
  BY <1>2 DEF Version
<1>13. Seeds(X, M.blocks, M.ledger) \ X \subseteq C /\ \A b \in C : Kind[b] # "canonical"
  <2> HIDE DEF X, M
  <2> QED
    BY <1>12, CascadeFacts
<1>14. Refused(plan, decisions) = {x \in plan.open : ~ (x \in DOMAIN decisions /\ decisions[x] # "reject")}
  BY DEF Refused
<1> HIDE DEF M, X, inc, C
<1>15. ASSUME NEW b \in R, Kind[b] \in Derived
       PROVE  Derivation(b) \in M.ledger /\ Evidence[b] \subseteq R
  <2>1. b \in M.blocks /\ b \in Blocks /\ b \notin C /\ b \notin Refused(plan, decisions)
    BY <1>12
  <2>2. \A e \in Evidence[b] : e \in Blocks /\ Kind[e] = "canonical" /\ e \notin C
    BY <1>13, <2>1, SchemaAssumption
  <2>3. CASE b \in o.blocks
    <3>1. Derivation(b) \in o.ledger /\ Evidence[b] \subseteq o.blocks
      BY <2>3, <1>5, <1>15 DEF Sound
    <3>2. Derivation(b) \in M.ledger
      BY <1>10, <2>1, <3>1 DEF Derives
    <3>3. Evidence[b] \cap X = {}
      BY <1>11, <1>13, <2>1, <3>2 DEF Seeds
    <3>4. Evidence[b] \subseteq M.blocks
      BY <1>11, <3>1, <3>3
    <3>5. Refused(plan, decisions) \cap o.blocks = {}
      BY <1>2, <1>14 DEF inc
    <3> QED
      BY <2>2, <3>1, <3>2, <3>4, <3>5
  <2>4. CASE b \notin o.blocks
    <3>1. b \in inc
      BY <2>1, <2>4 DEF inc
    <3>2. b \in theirs[to].blocks /\ Derivation(b) \in t.ledger
      BY <1>7, <1>8, <1>11, <3>1, <1>15 DEF Sound
    <3>3. Derivation(b) \in M.ledger
      BY <1>10, <2>1, <3>2 DEF Derives
    <3>4. plan.verdicts[b] \subseteq {"contradiction"}
      <4>1. CASE b \notin plan.open
        BY <4>1, <3>1, <1>2
      <4>2. CASE b \in plan.open
        <5>1. b \in DOMAIN decisions /\ decisions[b] # "reject"
          BY <4>2, <2>1, <1>14
        <5>2. decisions[b] = "admit"
          BY <5>1 DEF Decisions
        <5>3. Resolvable(plan.verdicts[b], decisions[b])
          BY <1>4, <4>2, <5>1 DEF Allowed
        <5> QED
          BY <5>2, <5>3 DEF Resolvable
      <4> QED
        BY <4>1, <4>2
    <3>5. Evidence[b] \subseteq FirstView(inc, M)
      BY <1>2, <1>12, <1>15, <3>1, <3>4, JudgedFacts
    <3>6. ASSUME NEW e \in Evidence[b] PROVE e \in R
      <4>1. e \in M.blocks /\ ~ (e \in inc /\ ~ Readable(e))
        BY <2>2, <3>5 DEF FirstView
      <4>2. e \in inc => Judged(inc, M)[e] = {}
        BY <1>12, <2>2, <4>1, JudgedSources
      <4>3. e \notin plan.open
        BY <1>2, <4>2
      <4> QED
        BY <2>2, <4>1, <4>3, <1>14
    <3> QED
      BY <3>3, <3>6
  <2> QED
    BY <2>3, <2>4
<1>16. Partial(job', t) = M /\ Ending(job', t) = R /\ job'.cascaded = C
  BY <1>2, <1>4 DEF Partial, Ending, M, C
<1>17. Derives(theirs[to].ledger, M.ledger)
  BY <1>7, <1>10
<1>18. job'.cascaded = Cascade(Excluded(job'.from, job'.onto, t), M.blocks, M.ledger)
  BY <1>2, <1>4 DEF X
<1> HIDE DEF R
<1> QED
  BY <1>15, <1>16, <1>17, <1>18 DEF EndsSound, t

\* Lemma: it holds at the start.
LEMMA EvidentInit ==
    ASSUME Installed = Kinds, Sound(Start)
    PROVE  Init => Evident
<1> SUFFICES ASSUME Init PROVE Evident
  OBVIOUS
<1>1. /\ ours = Narrow(Start, Kinds) /\ Start \in Version /\ Start.named = Kinds
      /\ theirs = <<Start>> /\ base = 1 /\ fetched = 0 /\ pointer = None /\ job = None
  BY StartAssumption DEF Init
<1>2. \A b \in Start.blocks : Kind[b] \in Kinds
  BY <1>1, KindsOfBlocks DEF Version
<1>3. ours.blocks = Start.blocks /\ ours.ledger = Start.ledger
  BY <1>1, <1>2 DEF Narrow, Kinds
<1>4. Sound(ours)
  BY <1>3 DEF Sound
<1>5. Len(theirs) = 1 /\ theirs[1] = Start
  BY <1>1
<1>6. TheirsSound
  BY <1>1, <1>5 DEF TheirsSound
<1>7. Derives(theirs[base].ledger, ours.ledger)
  BY <1>1, <1>3, <1>5 DEF Derives
<1> QED
  BY <1>1, <1>4, <1>6, <1>7 DEF Evident

\* Lemma: a conclusion keeps it.
LEMMA ConcludeEvident ==
    ASSUME Inv, Whole, Evident, job = None, NEW to \in 1 .. Len(theirs), base <= to, to <= fetched,
           NEW strategy \in Strategies, NEW decisions,
           \A q \in DOMAIN decisions : decisions[q] \in Decisions, NEW choices,
           NEW accepted, PlanFor(to).withdrawn \subseteq accepted,
           Conclude(PlanFor(to), to, strategy, decisions, choices, accepted),
           UNCHANGED <<ours, theirs, base, fetched, held, records, recent, since, lost, dropped, joins, wrote>>
    PROVE  Evident'
<1>1. TypeOK /\ fetched \in 1 .. Len(theirs) /\ Len(theirs) \in Nat
  BY DEF Inv, TypeOK
<1>2. TheirsSound'
  BY DEF Evident, TheirsSound
<1>3. pointer' = None /\ (Clean' => Clean /\ ~ stale')
  BY DEF Conclude, Clean
<1>4. Clean => Sound(ours) /\ Derives(theirs[base].ledger, ours.ledger)
  BY DEF Evident, Fresh
<1>5. \A a, c : Steps(a, c)' = Steps(a, c)
  BY DEF Steps
<1>6. ASSUME job' # None
      PROVE  /\ job'.to = to /\ job'.strategy = strategy /\ job'.steps = Steps(strategy, to)
             /\ Len(job'.steps) \in Nat
  <2>1. job'.to = to /\ job'.steps = Steps(strategy, to) /\ JobTyped(job', Len(theirs))
    BY <1>1, <1>6, ConcludeJob
  <2>2. job'.strategy = strategy
    BY <1>6 DEF Conclude
  <2> QED
    BY <2>1, <2>2 DEF JobTyped
<1>7. theirs[to].ledger \subseteq records
  BY <1>1 DEF Evident, TheirsSound
<1>8. ASSUME job' # None, Clean' PROVE EndsSound(job', Opened(theirs[to]), theirs[to])
  BY <1>3, <1>8, ConcludeSound
<1>9. Opened(theirs[to])' = Opened(theirs[to])
  BY DEF Opened
<1>10. ASSUME job' # None
       PROVE  /\ base' <= job'.to /\ job'.to <= fetched' /\ theirs'[job'.to].ledger \subseteq records'
              /\ Len(job'.steps) <= Len(Steps(job.strategy, job.to))'
  BY <1>5, <1>6, <1>7, <1>10
<1>11. ASSUME job' # None, Clean' PROVE EndsSound(job', Opened(theirs[job.to])', theirs'[job'.to])
  <2>1. job'.to = to
    BY <1>6, <1>11
  <2>2. Opened(theirs[job.to])' = Opened(theirs[to])
    BY <2>1 DEF Opened
  <2> QED
    BY <1>8, <1>11, <2>1, <2>2
<1>12. fetched' # 0 => base' <= fetched' /\ theirs'[fetched'].ledger \subseteq records'
  BY DEF Evident
<1>13. Clean' => (Sound(ours) /\ Derives(theirs[base].ledger, ours.ledger))'
  BY <1>3, <1>4 DEF Sound, Derives
<1> QED
  BY <1>2, <1>3, <1>10, <1>11, <1>12, <1>13 DEF Evident

\* Lemma: a step of a conclusion keeps it, and the last one leaves a sound head.
LEMMA WriteEvident ==
    ASSUME Inv, Whole, Evident, WriteStep
    PROVE  Evident'
<1> DEFINE s == Opened(theirs[Head(job.steps)])
           t == Opened(theirs[job.to])
           v == theirs[job.to]
<1>1. /\ job # None /\ JobTyped(job, Len(theirs)) /\ v \in Version
      /\ records' = records \cup Authors(job, s)
      /\ held' = held /\ theirs' = theirs /\ pointer' = pointer /\ fetched' = fetched /\ stale' = stale
      /\ base' \in {base, job.to}
      /\ Len(job.steps) = 1 =>
           /\ job' = None /\ joins' = Append(joins, job.strategy)
           /\ Head(job.steps) = job.to
      /\ Len(job.steps) # 1 =>
           /\ joins' = joins /\ base' = base
           /\ job' # None /\ job'.steps = Tail(job.steps)
           /\ \A f \in JobFields \ {"steps", "authored", "pending"} : job'[f] = job[f]
  BY WriteStepIs
<1>2. /\ ours'.blocks = Remains(job, s)
      /\ ours'.ledger = (Partial(job, s).ledger \ job.unsaid) \cup Authors(job, s)
  BY WholeStep
<1>3. /\ job.to \in 1 .. Len(theirs) /\ base \in 1 .. Len(theirs) /\ fetched \in 0 .. Len(theirs) /\ Len(theirs) \in Nat
      /\ joins \in Seq(Strategies \cup {"torn"})
  BY <1>1 DEF JobTyped, Inv, TypeOK
<1>4. /\ TheirsSound /\ base <= job.to /\ job.to <= fetched /\ v.ledger \subseteq records
      /\ Len(job.steps) <= Len(Steps(job.strategy, job.to))
      /\ Clean => EndsSound(job, t, v)
      /\ theirs[fetched].ledger \subseteq records
  BY <1>1, <1>3 DEF Evident
<1>5. TheirsSound'
  BY <1>1, <1>4 DEF TheirsSound
<1>6. pointer' = None
  BY <1>1 DEF Inv
<1>7. base' <= fetched /\ theirs[base'].ledger \subseteq v.ledger
  BY <1>1, <1>3, <1>4 DEF TheirsSound
<1>8. CASE Len(job.steps) = 1
  <2>1. job' = None /\ s = t
    BY <1>1, <1>8
  <2>2. ASSUME Clean' PROVE Clean
    <3>1. ~ stale
      BY <1>1, <2>2 DEF Clean
    <3>2. \A i \in 1 .. Len(joins) : i \in 1 .. Len(joins') /\ joins'[i] = joins[i]
      BY <1>1, <1>3, <1>8
    <3> QED
      BY <2>2, <3>1, <3>2 DEF Clean
  <2>3. ASSUME Clean' PROVE (Sound(ours) /\ Derives(theirs[base].ledger, ours.ledger))'
    <3>1. EndsSound(job, t, v)
      BY <2>2, <2>3, <1>4
    <3> HIDE DEF s, t, v
    <3>2. Taken(job, t) = job.cascaded
      BY <3>1 DEF Taken, Within, EndsSound
    <3>3. ours'.blocks = Ending(job, t)
      BY <1>2, <2>1, <3>2 DEF Remains, Ending
    <3>4. \A b \in Blocks : Derivation(b) \notin job.unsaid
      BY <1>1 DEF JobTyped, Edges, Derivation, Edge
    <3>5. \A b \in Blocks : Derivation(b) \in Partial(job, t).ledger => Derivation(b) \in ours'.ledger
      BY <1>2, <2>1, <3>4
    <3>6. Ending(job, t) \subseteq Blocks
      BY DEF Ending, Partial, Merged
    <3>7. \A b \in ours'.blocks : Kind[b] \in Derived => Derivation(b) \in ours'.ledger /\ Evidence[b] \subseteq ours'.blocks
      BY <3>1, <3>3, <3>5, <3>6 DEF EndsSound
    <3>8. \A b \in Blocks : Derivation(b) \in theirs'[base'].ledger => Derivation(b) \in ours'.ledger
      BY <1>1, <1>7, <3>1, <3>5 DEF EndsSound, Derives
    <3> QED
      BY <3>7, <3>8 DEF Sound, Derives
  <2> QED
    BY <1>1, <1>4, <1>5, <1>6, <1>7, <2>1, <2>3 DEF Evident
<1>9. CASE Len(job.steps) # 1
  <2>1. /\ job' # None /\ job'.to = job.to /\ job'.strategy = job.strategy /\ job'.from = job.from
        /\ job'.onto = job.onto /\ job'.refused = job.refused /\ job'.cascaded = job.cascaded
        /\ base' = base /\ joins' = joins
    BY <1>1, <1>9 DEF JobFields
  <2>2. Len(job'.steps) < Len(Steps(job.strategy, job.to))
    <3>1. job.steps \in Seq(1 .. job.to) /\ Len(job.steps) \in Nat \ {0} /\ job.steps # <<>>
      BY <1>1 DEF JobTyped
    <3>2. Len(Tail(job.steps)) = Len(job.steps) - 1
      BY <3>1, HeadTailProperties
    <3>3. Len(Steps(job.strategy, job.to)) \in Nat
      BY <1>3, StepsType
    <3>4. Len(job'.steps) = Len(job.steps) - 1 /\ Len(job.steps) <= Len(Steps(job.strategy, job.to))
      BY <1>1, <1>4, <1>9, <3>2
    <3> QED
      BY <3>1, <3>3, <3>4
  <2>3. Steps(job.strategy, job.to)' = Steps(job.strategy, job.to)
    BY <2>1 DEF Steps
  <2>4. Opened(theirs[job.to])' = t
    <3>1. t = Reads(v, held, records)
      BY OpenedReads
    <3>2. Opened(theirs[job.to])' = Reads(v, held, records')
      BY <1>1, <2>1 DEF Opened, Reads
    <3>3. records \subseteq records'
      BY <1>1
    <3> QED
      BY <1>1, <1>4, <3>1, <3>2, <3>3, LedgerOpens
  <2>5. Clean' = Clean
    BY <1>1, <2>1 DEF Clean
  <2> HIDE DEF t, v, s
  <2>6. Clean => EndsSound(job', t, v)
    BY <1>4, <2>1 DEF EndsSound, Ending, Partial
  <2>7. ~ Fresh'
    <3>1. Len(Steps(job.strategy, job.to)) \in Nat /\ Len(job'.steps) \in Nat
      <4>1. job.steps \in Seq(1 .. job.to) /\ Len(job.steps) \in Nat \ {0} /\ job.steps # <<>>
        BY <1>1 DEF JobTyped
      <4>2. Tail(job.steps) \in Seq(1 .. job.to)
        BY <4>1, HeadTailProperties
      <4> QED
        BY <1>1, <1>3, <1>9, <4>2, StepsType
    <3> QED
      BY <2>1, <2>2, <2>3, <3>1 DEF Fresh
  <2>8. v = theirs'[job'.to] /\ v.ledger \subseteq records'
    BY <1>1, <1>4, <2>1 DEF v
  <2>9. Len(job'.steps) <= Len(Steps(job.strategy, job.to))'
    BY <2>2, <2>3
  <2>10. theirs'[fetched'].ledger \subseteq records'
    BY <1>1, <1>4
  <2> QED
    BY <1>1, <1>4, <1>5, <1>6, <1>7, <2>1, <2>4, <2>5, <2>6, <2>7, <2>8, <2>9, <2>10 DEF Evident
<1> QED
  BY <1>8, <1>9

\* Lemma: their histories stay sound.
LEMMA TheirsGrow ==
    ASSUME TypeOK, TheirsSound, NEW w \in Writes(theirs[Len(theirs)]), theirs' = Append(theirs, w.to)
    PROVE  /\ TheirsSound' /\ Len(theirs') = Len(theirs) + 1
           /\ \A i \in 1 .. Len(theirs) : theirs'[i] = theirs[i]
<1>1. /\ theirs \in Seq(Version) /\ Len(theirs) \in Nat \ {0} /\ theirs[Len(theirs)] \in Version
  BY DEF TypeOK
<1> DEFINE n == Len(theirs)
           last == theirs[n]
<1>2. last.named = Kinds /\ Sound(last) /\ \A i \in 1 .. n : theirs[i].ledger \subseteq last.ledger
  BY <1>1 DEF TheirsSound
<1>3. /\ w.to \in Version /\ last.named \subseteq w.to.named /\ last.ledger \subseteq w.to.ledger /\ Sound(w.to)
  BY <1>1, <1>2, WritesType, WritesSound
<1>4. w.to.named = Kinds
  BY <1>2, <1>3 DEF Version
<1>5. Len(theirs') = n + 1 /\ (\A i \in 1 .. n : theirs'[i] = theirs[i]) /\ theirs'[n + 1] = w.to
  BY <1>1, <1>3
<1>6. n \in Nat
  BY <1>1
<1> HIDE DEF n, last
<1>7. \A i \in 1 .. n + 1 : i \in 1 .. n \/ i = n + 1
  BY <1>6
<1>8. \A i \in 1 .. n + 1 : theirs'[i].named = Kinds /\ Sound(theirs'[i])
  BY <1>3, <1>4, <1>5, <1>7 DEF TheirsSound, n
<1>9. ASSUME NEW i \in 1 .. n + 1, NEW k \in 1 .. n + 1, i <= k PROVE theirs'[i].ledger \subseteq theirs'[k].ledger
  <2>1. CASE k \in 1 .. n
    <3>1. i \in 1 .. n
      BY <2>1, <1>6, <1>9
    <3> QED
      BY <2>1, <3>1, <1>5, <1>9 DEF TheirsSound, n
  <2>2. CASE k = n + 1 /\ i \in 1 .. n
    BY <2>2, <1>2, <1>3, <1>5 DEF last
  <2>3. CASE k = n + 1 /\ i = n + 1
    BY <2>3
  <2> QED
    BY <2>1, <2>2, <2>3, <1>7
<1> QED
  BY <1>5, <1>8, <1>9 DEF TheirsSound, n

\* Lemma: every step preserves it, where fetch always brings the records.
LEMMA EvidentNext ==
    ASSUME \A F \in FetchSets : "provenance" \in F
    PROVE  Inv /\ Whole /\ Evident /\ [Next]_vars => Evident'
<1> SUFFICES ASSUME Inv, Whole, Evident, [Next]_vars PROVE Evident'
  OBVIOUS
<1>t. /\ TypeOK /\ ours \in Version /\ theirs \in Seq(Version) /\ Len(theirs) \in Nat \ {0} /\ base \in 1 .. Len(theirs)
      /\ fetched \in 0 .. Len(theirs)
  BY DEF Inv, TypeOK
<1>1. CASE Work
  <2>1. PICK w \in Writes(ours) :
           Land(w.to, <<>>) /\ records' = records \cup (w.to.ledger \ ours.ledger)
    BY <1>1 DEF Work
  <2>2. /\ job = None /\ pointer = None /\ ours' = w.to
        /\ UNCHANGED <<theirs, base, fetched, pointer, job, stale, joins>>
    BY <1>1, <2>1 DEF Work, Land
  <2>3. ours.ledger \subseteq w.to.ledger
    BY <1>t, WritesType
  <2>4. ASSUME Clean' PROVE (Sound(ours) /\ Derives(theirs[base].ledger, ours.ledger))'
    <3>1. Sound(ours) /\ Derives(theirs[base].ledger, ours.ledger)
      BY <2>2, <2>4 DEF Evident, Fresh, Clean
    <3>2. Sound(w.to)
      BY <3>1, <1>t, WritesSound
    <3> QED
      BY <2>2, <2>3, <3>1, <3>2 DEF Derives
  <2>5. TheirsSound'
    BY <2>2 DEF Evident, TheirsSound
  <2> QED
    BY <2>1, <2>2, <2>4, <2>5 DEF Evident
<1>2. CASE TheirWork
  <2>1. PICK w \in Writes(theirs[Len(theirs)]) : theirs' = Append(theirs, w.to)
    BY <1>2 DEF TheirWork
  <2>2. UNCHANGED <<ours, base, fetched, held, records, recent, pointer, job, since, lost, dropped, stale, joins, wrote>>
    BY <1>2 DEF TheirWork
  <2>3. TheirsSound' /\ Len(theirs') = Len(theirs) + 1 /\ \A i \in 1 .. Len(theirs) : theirs'[i] = theirs[i]
    BY <2>1, <1>t, TheirsGrow DEF Evident
  <2>4. theirs'[base] = theirs[base] /\ (fetched # 0 => theirs'[fetched] = theirs[fetched])
    BY <2>3, <1>t
  <2>5. ASSUME job # None
        PROVE  theirs'[job.to] = theirs[job.to] /\ Opened(theirs[job.to])' = Opened(theirs[job.to])
    <3>1. job.to \in 1 .. Len(theirs)
      BY <2>5 DEF Inv, JobTyped
    <3>2. theirs'[job'.to] = theirs[job.to]
      BY <2>2, <2>3, <3>1
    <3> QED
      BY <2>2, <3>2 DEF Opened
  <2>6. Steps(job.strategy, job.to)' = Steps(job.strategy, job.to)
    BY <2>2 DEF Steps
  <2>7. Clean' = Clean /\ Fresh' = Fresh
    BY <2>2, <2>6 DEF Clean, Fresh
  <2>8. Clean' /\ Fresh' => (Sound(ours) /\ Derives(theirs[base].ledger, ours.ledger))'
    BY <2>2, <2>4, <2>7 DEF Evident
  <2>9. job' # None =>
          /\ base' <= job'.to /\ job'.to <= fetched' /\ theirs'[job'.to].ledger \subseteq records'
          /\ Len(job'.steps) <= Len(Steps(job.strategy, job.to))'
          /\ Clean' => EndsSound(job', Opened(theirs[job.to])', theirs'[job'.to])
    BY <2>2, <2>5, <2>6, <2>7 DEF Evident
  <2>10. fetched' # 0 => base' <= fetched' /\ theirs'[fetched'].ledger \subseteq records'
    BY <2>2, <2>4 DEF Evident
  <2>11. pointer' # None =>
          /\ pointer'.ancestor <= pointer'.theirs
          /\ \A q \in DOMAIN pointer'.decisions : pointer'.decisions[q] \in Decisions
    BY <2>2 DEF Evident
  <2> QED
    BY <2>3, <2>8, <2>9, <2>10, <2>11 DEF Evident
<1>3. CASE \E kinds \in FetchSets : Fetch(kinds)
  <2>1. PICK kinds \in FetchSets : Fetch(kinds)
    BY <1>3
  <2> DEFINE last == theirs[Len(theirs)]
  <2>2. last.named = Kinds /\ "provenance" \in kinds
    BY <1>t DEF Evident, TheirsSound
  <2>3. Narrow(last, kinds).ledger = last.ledger
    BY <2>2 DEF Narrow, Kinds
  <2>4. /\ records' = records \cup Narrow(last, kinds).ledger /\ fetched' = Len(theirs) /\ job = None
        /\ UNCHANGED <<ours, theirs, base, pointer, job, stale, joins>>
    BY <2>1 DEF Fetch
  <2>5. base' <= fetched' /\ theirs'[fetched'].ledger \subseteq records'
    BY <2>3, <2>4, <1>t
  <2>6. Clean' = Clean /\ Fresh
    BY <2>4 DEF Clean, Fresh
  <2>7. TheirsSound'
    BY <2>4 DEF Evident, TheirsSound
  <2>8. Clean' => (Sound(ours) /\ Derives(theirs[base].ledger, ours.ledger))'
    BY <2>4, <2>6 DEF Evident
  <2> HIDE DEF last
  <2> QED
    BY <2>4, <2>5, <2>7, <2>8 DEF Evident
<1>4. CASE ReconcileAs
  <2>1. PICK strategy \in Strategies : Reconcile(strategy)
    BY <1>4 DEF ReconcileAs
  <2>2. fetched \in 1 .. Len(theirs) /\ job = None /\ base <= fetched
    BY <2>1, <1>t DEF Reconcile, Evident
  <2>3. UNCHANGED <<ours, theirs, base, fetched, held, records, recent, since, lost, dropped, joins, wrote>>
    BY <2>1 DEF Reconcile
  <2>4. CASE IsClean(PlanFor(fetched))
    <3>1. Conclude(PlanFor(fetched), fetched, strategy, <<>>, <<>>, {}) /\ PlanFor(fetched).withdrawn \subseteq {}
      BY <2>1, <2>4 DEF Reconcile, IsClean
    <3>2. DOMAIN <<>> = {} /\ fetched <= fetched
      BY <2>2
    <3> QED
      BY <2>2, <2>3, <3>1, <3>2, ConcludeEvident
  <2>5. CASE ~ IsClean(PlanFor(fetched))
    <3>1. /\ pointer' = [theirs |-> fetched, ancestor |-> base, strategy |-> strategy,
                         head |-> ours, decisions |-> <<>>, choices |-> <<>>, accepted |-> {}]
          /\ UNCHANGED <<job, stale>>
      BY <2>1, <2>5 DEF Reconcile
    <3>2. pointer'.theirs = fetched /\ pointer'.ancestor = base /\ DOMAIN pointer'.decisions = {}
      BY <3>1
    <3>3. Clean' = Clean /\ Fresh
      BY <2>2, <2>3, <3>1 DEF Clean, Fresh
    <3>4. TheirsSound'
      BY <2>3 DEF Evident, TheirsSound
    <3>5. Clean' => (Sound(ours) /\ Derives(theirs[base].ledger, ours.ledger))'
      BY <2>3, <3>3 DEF Evident
    <3>6. fetched' # 0 => base' <= fetched' /\ theirs'[fetched'].ledger \subseteq records'
      BY <2>3 DEF Evident
    <3> QED
      BY <2>2, <2>3, <3>1, <3>2, <3>4, <3>5, <3>6 DEF Evident
  <2> QED
    BY <2>4, <2>5
<1>5. CASE Resolve \/ AcceptRemovals \/ Abort
  <2>1. /\ UNCHANGED <<ours, theirs, base, fetched, held, records, recent, job, since, lost, dropped, stale, joins, wrote>>
        /\ pointer # None /\ job = None
    BY <1>5 DEF Resolve, AcceptRemovals, Abort, Status
  <2>2. PointerTyped(pointer, Len(theirs)) /\ pointer.ancestor <= pointer.theirs
        /\ \A q \in DOMAIN pointer.decisions : pointer.decisions[q] \in Decisions
    BY <2>1 DEF Inv, Evident
  <2>3. pointer' # None =>
          /\ pointer'.ancestor <= pointer'.theirs
          /\ \A q \in DOMAIN pointer'.decisions : pointer'.decisions[q] \in Decisions
    <3>1. CASE Abort
      BY <3>1 DEF Abort
    <3>2. CASE AcceptRemovals
      BY <3>2, <2>2 DEF AcceptRemovals, PointerTyped, PointerFields
    <3>3. CASE Resolve
      <4>1. CASE \E b, d : d \in Decisions /\ pointer' = [pointer EXCEPT !.decisions = Answered(@, b, d)]
        <5>1. PICK b, d : d \in Decisions /\ pointer' = [pointer EXCEPT !.decisions = Answered(@, b, d)]
          BY <4>1
        <5>2. /\ pointer'.decisions = Answered(pointer.decisions, b, d)
              /\ pointer'.ancestor = pointer.ancestor /\ pointer'.theirs = pointer.theirs
          BY <5>1, <2>2 DEF PointerTyped, PointerFields
        <5>3. \A q \in DOMAIN Answered(pointer.decisions, b, d) : Answered(pointer.decisions, b, d)[q] \in Decisions
          BY <5>1, <2>2 DEF Answered
        <5> QED
          BY <5>2, <5>3, <2>2
      <4>2. CASE \E c : pointer' = [pointer EXCEPT !.choices = c]
        BY <4>2, <2>2 DEF PointerTyped, PointerFields
      <4> QED
        BY <3>3, <4>1, <4>2 DEF Resolve, Decisions
    <3> QED
      BY <1>5, <3>1, <3>2, <3>3
  <2>4. Clean' = Clean /\ Fresh
    BY <2>1 DEF Clean, Fresh
  <2>5. TheirsSound'
    BY <2>1 DEF Evident, TheirsSound
  <2>6. Clean' => (Sound(ours) /\ Derives(theirs[base].ledger, ours.ledger))'
    BY <2>1, <2>4 DEF Evident
  <2>7. fetched' # 0 => base' <= fetched' /\ theirs'[fetched'].ledger \subseteq records'
    BY <2>1 DEF Evident
  <2> QED
    BY <2>1, <2>3, <2>5, <2>6, <2>7 DEF Evident
<1>6. CASE Continue
  <2>1. /\ pointer # None /\ job = None /\ PointerTyped(pointer, Len(theirs))
        /\ base = pointer.ancestor /\ pointer.theirs <= fetched
    BY <1>6 DEF Continue, Status, Plannable, Inv
  <2>2. /\ PlanFor(pointer.theirs).withdrawn # {} => pointer.accepted = PlanFor(pointer.theirs).withdrawn
        /\ Conclude(PlanFor(pointer.theirs), pointer.theirs, pointer.strategy, pointer.decisions, pointer.choices, pointer.accepted)
        /\ UNCHANGED <<ours, theirs, base, fetched, held, records, recent, since, lost, dropped, joins, wrote>>
    BY <1>6 DEF Continue
  <2>3. PlanFor(pointer.theirs).withdrawn \subseteq pointer.accepted
    BY <2>2
  <2>4. base <= pointer.theirs /\ \A q \in DOMAIN pointer.decisions : pointer.decisions[q] \in Decisions
    BY <2>1 DEF Evident
  <2> QED
    BY <2>1, <2>2, <2>3, <2>4, ConcludeEvident DEF PointerTyped
<1>7. CASE WriteStep
  BY <1>7, WriteEvident
<1>8. CASE Crash
  <2>1. /\ job # None /\ job' = None
        /\ joins' = IF job.steps = Steps(job.strategy, job.to) THEN joins ELSE Append(joins, "torn")
        /\ UNCHANGED <<ours, theirs, base, fetched, held, records, pointer, stale>>
    BY <1>8 DEF Crash
  <2>2. joins \in Seq(Strategies \cup {"torn"})
    BY <1>t DEF TypeOK
  <2>3. ASSUME Clean' PROVE Clean /\ Fresh
    <3>1. CASE job.steps = Steps(job.strategy, job.to)
      BY <2>1, <2>3, <3>1 DEF Clean, Fresh
    <3>2. CASE job.steps # Steps(job.strategy, job.to)
      <4>1. joins' = Append(joins, "torn")
        BY <2>1, <3>2
      <4>2. Len(joins') = Len(joins) + 1 /\ Len(joins') \in 1 .. Len(joins') /\ joins'[Len(joins')] = "torn"
        BY <4>1, <2>2
      <4> QED
        BY <4>2, <2>3 DEF Clean
    <3> QED
      BY <3>1, <3>2
  <2>4. Clean' => (Sound(ours) /\ Derives(theirs[base].ledger, ours.ledger))'
    BY <2>1, <2>3 DEF Evident
  <2>5. TheirsSound'
    BY <2>1 DEF Evident, TheirsSound
  <2>6. fetched' # 0 => base' <= fetched' /\ theirs'[fetched'].ledger \subseteq records'
    BY <2>1 DEF Evident
  <2>7. pointer' = None
    BY <2>1 DEF Inv
  <2> QED
    BY <2>1, <2>4, <2>5, <2>6, <2>7 DEF Evident
<1>9. CASE Prune
  <2>1. /\ fetched' = 0 /\ job = None
        /\ UNCHANGED <<ours, theirs, base, pointer, job, stale, joins>>
    BY <1>9 DEF Prune
  <2>2. Clean' = Clean /\ Fresh
    BY <2>1 DEF Clean, Fresh
  <2>3. TheirsSound'
    BY <2>1 DEF Evident, TheirsSound
  <2>4. Clean' => (Sound(ours) /\ Derives(theirs[base].ledger, ours.ledger))'
    BY <2>1, <2>2 DEF Evident
  <2>5. pointer' # None =>
          /\ pointer'.ancestor <= pointer'.theirs
          /\ \A q \in DOMAIN pointer'.decisions : pointer'.decisions[q] \in Decisions
    BY <2>1 DEF Evident
  <2> QED
    BY <2>1, <2>3, <2>4, <2>5 DEF Evident
<1>10. CASE UNCHANGED vars
  <2>1. Clean' = Clean /\ Fresh' = Fresh /\ TheirsSound' = TheirsSound
        /\ Steps(job.strategy, job.to)' = Steps(job.strategy, job.to)
        /\ Opened(theirs[job.to])' = Opened(theirs[job.to])
    BY <1>10 DEF vars, Clean, Fresh, TheirsSound, Steps, Opened
  <2> QED
    BY <1>10, <2>1 DEF vars, Evident
<1> QED
  BY <1>1, <1>2, <1>3, <1>4, <1>5, <1>6, <1>7, <1>8, <1>9, <1>10 DEF Next

\* R1 across a reconciliation, in every brain that was installed whole from a version that cites
\* only what it holds, and whose fetches bring the provenance module: whatever the histories, the
\* strategies, the decisions, the crashes and the prunes, every derived block of the head cites
\* evidence the head holds, unless a replay was cut short or an admission was applied that its
\* block's verdict no longer allows.
THEOREM EvidenceAlwaysHeld ==
    ASSUME Installed = Kinds, Sound(Start), \A F \in FetchSets : "provenance" \in F
    PROVE  Spec => []EvidenceHeld
<1>1. Init => Whole /\ Evident
  BY WholeInit, EvidentInit
<1>2. Inv /\ Whole /\ Evident /\ [Next]_vars => Whole' /\ Evident'
  BY WholeNext, EvidentNext
<1>3. Evident => EvidenceHeld
  BY DEF Evident, EvidenceHeld, Clean, Fresh, Sound
<1> QED
  BY <1>1, <1>2, <1>3, Invariant, PTL DEF Spec
-----------------------------------------------------------------------------
(* Removals.                                                               *)

\* The removals that one ledger records, the other does too.
Removes(ledger, other) == \A b \in Blocks : Removal(b) \in ledger => Removal(b) \in other

\* What their history lost on the way, it says so.
TheirsSay ==
    \A i, k \in 1 .. Len(theirs) : i <= k =>
        \A b \in theirs[i].blocks \ theirs[k].blocks : Removal(b) \in theirs[k].ledger

\* What is left of a replay are the last versions up to the one reconciled, in order.
InOrder(j, from) ==
    \A i \in 1 .. Len(j.steps) :
        /\ j.steps[i] = j.to - Len(j.steps) + i
        /\ Len(j.steps) # 1 => j.strategy = "rebase" /\ from < j.steps[i]

\* Whatever o has that the conclusion j did not start from came from a version replayed before.
Came(j, o, versions, h, from) ==
    \A b \in o.blocks :
        /\ b \notin j.refused
        /\ b \notin j.onto.blocks =>
             /\ b \notin j.from.blocks /\ j.strategy = "rebase"
             /\ \E p \in from + 1 .. Head(j.steps) : b \in Reads(versions[p], h, {}).blocks

Recorded ==
    /\ TheirsSay
    /\ Removes(theirs[base].ledger, ours.ledger)
    /\ job # None =>
         /\ Removes(theirs[base].ledger, job.onto.ledger)
         /\ job.from.blocks \subseteq theirs[base].blocks /\ job.from.ledger \subseteq theirs[base].ledger
         /\ \A b \in job.from.blocks : Kind[b] \in job.from.named
         /\ InOrder(job, base)
         /\ Came(job, ours, theirs, held, base)

\* Lemma: a removal is not an edge.
LEMMA RemovalNoEdge == \A b : Removal(b) \notin Edges
<1>1. \A b, n, o : Removal(b)[1] = "removal" /\ Edge(n, o)[1] = "edge"
  BY DEF Removal, Edge
<1> QED
  BY <1>1 DEF Edges

\* Lemma: an operation that takes blocks out records their removal.
LEMMA WritesRemove ==
    ASSUME NEW v \in Version, NEW w \in Writes(v), NEW b \in v.blocks, b \notin w.to.blocks
    PROVE  Removal(b) \in w.to.ledger
<1>1. CASE Adds(v, w)
  BY <1>1 DEF Adds, Plus
<1>2. CASE Drops(v, w)
  <2>1. PICK c \in v.blocks : w.to = Less(v, Fall(v, c))
    BY <1>2 DEF Drops
  <2>2. w.to.blocks = v.blocks \ Fall(v, c) /\ w.to.ledger = v.ledger \cup {Removal(d) : d \in Fall(v, c)}
    BY <2>1, LessIs
  <2> QED
    BY <2>2
<1> QED
  BY <1>1, <1>2, WritesCases

\* Lemma: the steps of a conclusion are in order.
LEMMA StepsInOrder ==
    ASSUME NEW j, NEW strategy, NEW to \in Nat \ {0}, base \in Nat,
           j.steps = Steps(strategy, to), j.to = to, j.strategy = strategy
    PROVE  InOrder(j, base)
<1>1. CASE strategy = "rebase" /\ to > base
  <2>1. j.steps = [i \in 1 .. to - base |-> base + i] /\ to - base \in Nat \ {0}
    BY <1>1 DEF Steps
  <2>2. Len(j.steps) = to - base
    BY <2>1
  <2>3. ASSUME NEW i \in 1 .. Len(j.steps)
        PROVE  j.steps[i] = j.to - Len(j.steps) + i /\ base < j.steps[i]
    <3>1. i \in 1 .. to - base
      BY <2>2
    <3>2. j.steps[i] = base + i
      BY <2>1, <3>1
    <3> QED
      BY <1>1, <2>2, <3>1, <3>2
  <2> QED
    BY <1>1, <2>3 DEF InOrder
<1>2. CASE ~ (strategy = "rebase" /\ to > base)
  <2>1. j.steps = <<to>>
    BY <1>2 DEF Steps
  <2>2. Len(j.steps) = 1 /\ j.steps[1] = to
    BY <2>1
  <2> QED
    BY <2>2 DEF InOrder
<1> QED
  BY <1>1, <1>2

\* Lemma: every version of theirs is about what it says at the start.
LEMMA RecordedInit ==
    ASSUME Installed = Kinds
    PROVE  Init => Recorded
<1> SUFFICES ASSUME Init PROVE Recorded
  OBVIOUS
<1>1. ours = Narrow(Start, Kinds) /\ Start.named = Kinds /\ theirs = <<Start>> /\ base = 1 /\ job = None
  BY StartAssumption DEF Init
<1>2. ours.ledger = Start.ledger
  BY <1>1 DEF Narrow, Kinds
<1>3. Len(theirs) = 1 /\ theirs[1] = Start
  BY <1>1
<1> QED
  BY <1>1, <1>2, <1>3 DEF Recorded, TheirsSay, Removes

\* Lemma: the replay is at a version between the common one and the one reconciled, whose ledger
\* is opened, and the merge with it keeps every removal that it or the common version records.
LEMMA StepRemoves ==
    ASSUME Inv, Whole, Evident, Recorded, WriteStep
    PROVE  LET h == Head(job.steps)
               t == Opened(theirs[Head(job.steps)])
           IN /\ h \in base .. job.to /\ h \in 1 .. Len(theirs)
              /\ Len(job.steps) # 1 => job.strategy = "rebase" /\ base < h
              /\ t.ledger = theirs[h].ledger
              /\ Removes(theirs[base].ledger, Partial(job, t).ledger)
              /\ Removes(t.ledger, Partial(job, t).ledger)
              /\ Removes(Partial(job, t).ledger, ours'.ledger)
<1> DEFINE h == Head(job.steps)
           t == Opened(theirs[Head(job.steps)])
<1>1. /\ job # None /\ JobTyped(job, Len(theirs)) /\ t \in Version /\ h \in 1 .. job.to
      /\ t = Reads(theirs[h], held, records)
      /\ ours'.ledger = (Partial(job, t).ledger \ job.unsaid) \cup Authors(job, t)
      /\ Len(job.steps) = 1 => h = job.to
  BY WriteStepIs, WholeStep
<1>2. /\ InOrder(job, base) /\ base <= job.to /\ theirs[job.to].ledger \subseteq records /\ TheirsSound
      /\ Removes(theirs[base].ledger, job.onto.ledger) /\ job.from.ledger \subseteq theirs[base].ledger
      /\ job.onto.named = Kinds
  BY <1>1 DEF Recorded, Evident, Whole
<1>3. /\ job.to \in 1 .. Len(theirs) /\ job.to \in Nat /\ Len(theirs) \in Nat /\ base \in 1 .. Len(theirs)
      /\ theirs \in Seq(Version) /\ Len(job.steps) \in Nat \ {0} /\ job.steps \in Seq(1 .. job.to)
  BY <1>1 DEF Inv, TypeOK, JobTyped
<1>4. h = job.steps[1] /\ 1 \in 1 .. Len(job.steps)
  BY <1>3
<1>5. Len(job.steps) # 1 => job.strategy = "rebase" /\ base < h
  BY <1>2, <1>4 DEF InOrder
<1> HIDE DEF h
<1>6. h \in base .. job.to /\ h \in 1 .. Len(theirs)
  BY <1>1, <1>2, <1>3, <1>5
<1>7. /\ theirs[h] \in Version /\ theirs[h].named = Kinds /\ theirs[h].ledger \subseteq records
      /\ theirs[base].ledger \subseteq theirs[h].ledger
  BY <1>2, <1>3, <1>6 DEF TheirsSound
<1>8. t.ledger = theirs[h].ledger /\ "provenance" \in t.named
  BY <1>1, <1>7, LedgerOpens DEF Kinds
<1> HIDE DEF t
<1>9. ASSUME NEW b \in Blocks, Removal(b) \in theirs[base].ledger \cup t.ledger
      PROVE  Removal(b) \in Partial(job, t).ledger
  <2>1. Removal(b) \in t.ledger
    BY <1>7, <1>8, <1>9
  <2>2. Removal(b) \in job.from.ledger => Removal(b) \in job.onto.ledger
    BY <1>2 DEF Removes
  <2> QED
    BY <1>2, <1>8, <2>1, <2>2 DEF Partial, Merged, Survives, Kinds
<1>10. job.unsaid \subseteq Edges
  BY <1>1 DEF JobTyped
<1>11. Removes(Partial(job, t).ledger, ours'.ledger)
  BY <1>1, <1>10, RemovalNoEdge DEF Removes
<1> QED
  BY <1>5, <1>6, <1>8, <1>9, <1>11 DEF Removes, h, t

\* Lemma: a block that a step of the replay leaves out has its removal on record, where the same
\* modules of every version replayed can be opened.
LEMMA StepRecords ==
    ASSUME Inv, Whole, Evident, Recorded, WriteStep,
           \A s \in {job.to} \cup {i \in DOMAIN theirs : i > base /\ i <= job.to /\ job.strategy = "rebase"} :
               Opened(theirs[s]).named = Opened(theirs[job.to]).named,
           NEW b \in ours.blocks, b \notin ours'.blocks
    PROVE  Removal(b) \in ours'.ledger
<1> DEFINE h == Head(job.steps)
           t == Opened(theirs[Head(job.steps)])
<1>1. /\ h \in base .. job.to /\ h \in 1 .. Len(theirs)
      /\ Len(job.steps) # 1 => job.strategy = "rebase" /\ base < h
      /\ t.ledger = theirs[h].ledger
      /\ Removes(t.ledger, Partial(job, t).ledger) /\ Removes(Partial(job, t).ledger, ours'.ledger)
  BY StepRemoves
<1>2. /\ job # None /\ JobTyped(job, Len(theirs)) /\ t \in Version
      /\ ours'.blocks = Remains(job, t)
      /\ ours'.ledger = (Partial(job, t).ledger \ job.unsaid) \cup Authors(job, t)
      /\ Len(job.steps) = 1 => h = job.to
  BY WriteStepIs, WholeStep
<1>3. /\ Came(job, ours, theirs, held, base) /\ job.from.blocks \subseteq theirs[base].blocks /\ TheirsSay
      /\ job.onto.named = Kinds
  BY <1>2 DEF Recorded, Whole
<1>4. /\ theirs \in Seq(Version) /\ Len(theirs) \in Nat /\ base \in 1 .. Len(theirs) /\ b \in Blocks
      /\ job.to \in 1 .. Len(theirs)
  BY <1>2 DEF Inv, TypeOK, Version, JobTyped
<1>5. theirs[h] \in Version /\ DOMAIN theirs = 1 .. Len(theirs)
  BY <1>1, <1>4
<1>6. t.blocks = {x \in theirs[h].blocks : Kind[x] \in t.named}
  BY <1>5, OpenedReads, ReadsType
<1> HIDE DEF h
<1>7. t.named = Opened(theirs[job.to]).named
  <2>1. t = Opened(theirs[h])
    BY DEF h
  <2>2. h \in {job.to} \cup {i \in DOMAIN theirs : i > base /\ i <= job.to /\ job.strategy = "rebase"}
    <3>1. CASE Len(job.steps) = 1
      BY <1>2, <3>1
    <3>2. CASE Len(job.steps) # 1
      <4>1. job.strategy = "rebase" /\ h \in DOMAIN theirs /\ h \in Nat /\ base \in Nat /\ job.to \in Nat
        BY <1>1, <1>4, <1>5, <3>2
      <4>2. h > base /\ h <= job.to
        BY <1>1, <3>2, <4>1
      <4> QED
        BY <4>1, <4>2
    <3> QED
      BY <3>1, <3>2
  <2> QED
    BY <2>1, <2>2
<1> HIDE DEF t
<1>8. ASSUME NEW p \in 1 .. Len(theirs), p <= h, b \in theirs[p].blocks, b \notin theirs[h].blocks
      PROVE  Removal(b) \in ours'.ledger
  BY <1>1, <1>3, <1>4, <1>8 DEF TheirsSay, Removes
<1>9. CASE b \in Taken(job, t)
  BY <1>2, <1>9 DEF Authors, CascadeRecords
<1>10. CASE b \notin Taken(job, t) /\ b \in job.onto.blocks
  <2>1. b \notin Partial(job, t).blocks
    BY <1>2, <1>3, <1>10 DEF Came, Remains
  <2>2. Kind[b] \in t.named /\ b \in job.from.blocks /\ b \notin t.blocks
    BY <1>3, <1>4, <1>10, <2>1, KindsOfBlocks DEF Partial, Merged, Survives
  <2>3. b \in theirs[base].blocks /\ b \notin theirs[h].blocks /\ base <= h
    BY <1>1, <1>3, <1>6, <2>2
  <2> QED
    BY <1>4, <1>8, <2>3
<1>11. CASE b \notin Taken(job, t) /\ b \notin job.onto.blocks
  <2>1. b \notin Partial(job, t).blocks
    BY <1>2, <1>3, <1>11 DEF Came, Remains
  <2>2. PICK p \in base + 1 .. h : b \in Reads(theirs[p], held, {}).blocks
    BY <1>3, <1>11 DEF Came, h
  <2>3. b \notin job.from.blocks /\ job.strategy = "rebase"
    BY <1>3, <1>11 DEF Came
  <2>4. p \in 1 .. Len(theirs) /\ p <= h /\ p <= job.to /\ p > base /\ theirs[p] \in Version
    BY <1>1, <1>4, <2>2
  <2>5. /\ Opened(theirs[p]).blocks = Reads(theirs[p], held, {}).blocks
        /\ Opened(theirs[p]).blocks = {x \in theirs[p].blocks : Kind[x] \in Opened(theirs[p]).named}
    BY <2>4, OpenedReads, ReadsBlocks, ReadsType
  <2>6. Opened(theirs[p]).named = Opened(theirs[job.to]).named
    BY <1>5, <2>3, <2>4
  <2>7. Kind[b] \in t.named /\ b \in theirs[p].blocks
    BY <1>7, <2>2, <2>5, <2>6
  <2>8. b \notin t.blocks
    BY <1>3, <1>4, <1>11, <2>1, <2>3, <2>7, KindsOfBlocks DEF Partial, Merged, Survives
  <2> QED
    BY <1>6, <1>8, <2>4, <2>7, <2>8
<1> QED
  BY <1>9, <1>10, <1>11

\* Lemma: a conclusion starts from what we have, and everything removed up to there is on record.
LEMMA ConcludeRecorded ==
    ASSUME Inv, Whole, Recorded, job = None, NEW to \in 1 .. Len(theirs), NEW strategy \in Strategies, NEW decisions,
           NEW choices, NEW accepted, PlanFor(to).withdrawn \subseteq accepted,
           Conclude(PlanFor(to), to, strategy, decisions, choices, accepted),
           UNCHANGED <<ours, theirs, base, fetched, held, records, recent, since, lost, dropped, joins, wrote>>
    PROVE  Recorded'
<1>1. TypeOK /\ base \in Nat /\ to \in Nat \ {0} /\ ours \in Version /\ theirs[base] \in Version
  BY DEF Inv, TypeOK
<1>2. ASSUME job' # None
      PROVE  /\ Removes(theirs[base].ledger, job'.onto.ledger)
             /\ job'.from.blocks \subseteq theirs[base].blocks /\ job'.from.ledger \subseteq theirs[base].ledger
             /\ \A b \in job'.from.blocks : Kind[b] \in job'.from.named
             /\ InOrder(job', base)
             /\ Came(job', ours, theirs, held, base)
  <2>1. /\ Accepts(job', Opened(theirs[to])) /\ job'.to = to
        /\ job'.from = Opened(theirs[base]) /\ job'.onto = Opened(ours) /\ job'.steps = Steps(strategy, to)
    BY <1>1, <1>2, ConcludeJob
  <2>2. job'.strategy = strategy
    BY <1>2 DEF Conclude
  <2>3. Opened(ours) = ours
    BY <1>1, OpensWhole, OpenedReads DEF Whole
  <2>4. /\ Opened(theirs[base]).ledger \subseteq theirs[base].ledger
        /\ Opened(theirs[base]).blocks = {b \in theirs[base].blocks : Kind[b] \in Opened(theirs[base]).named}
    BY <1>1, OpenedReads, ReadsType
  <2>5. InOrder(job', base)
    BY <1>1, <2>1, <2>2, StepsInOrder
  <2>6. Came(job', ours, theirs, held, base)
    BY <2>1, <2>3 DEF Came, Accepts
  <2> QED
    BY <2>1, <2>3, <2>4, <2>5, <2>6 DEF Recorded
<1> QED
  BY <1>2 DEF Recorded, TheirsSay

\* Lemma: a step of the replay keeps it.
LEMMA WriteRecorded ==
    ASSUME Inv, Whole, Evident, Recorded, WriteStep
    PROVE  Recorded'
<1> DEFINE h == Head(job.steps)
           t == Opened(theirs[Head(job.steps)])
<1>1. /\ h \in base .. job.to /\ h \in 1 .. Len(theirs)
      /\ Len(job.steps) # 1 => job.strategy = "rebase" /\ base < h
      /\ t.ledger = theirs[h].ledger
      /\ Removes(theirs[base].ledger, Partial(job, t).ledger)
      /\ Removes(t.ledger, Partial(job, t).ledger) /\ Removes(Partial(job, t).ledger, ours'.ledger)
  BY StepRemoves
<1>2. /\ job # None /\ JobTyped(job, Len(theirs)) /\ t \in Version
      /\ ours'.blocks = Remains(job, t) /\ ours' \in Version
      /\ t = Reads(theirs[h], held, records)
      /\ held' = held /\ theirs' = theirs
      /\ base' \in {base, job.to}
      /\ Len(job.steps) = 1 => job' = None /\ h = job.to
      /\ Len(job.steps) # 1 =>
           /\ base' = base /\ JobTyped(job', Len(theirs)) /\ job'.steps = Tail(job.steps)
           /\ \A f \in JobFields \ {"steps", "authored", "pending"} : job'[f] = job[f]
  BY WriteStepIs, WholeStep
<1>3. Removes(theirs'[base'].ledger, ours'.ledger)
  <2>1. theirs'[base'].ledger = theirs[base].ledger \/ theirs'[base'].ledger = t.ledger
    BY <1>1, <1>2
  <2> QED
    BY <1>1, <2>1 DEF Removes
<1>4. TheirsSay'
  BY <1>2 DEF Recorded, TheirsSay
<1>5. /\ theirs \in Seq(Version) /\ Len(theirs) \in Nat /\ base \in 1 .. Len(theirs)
      /\ job.steps \in Seq(1 .. job.to) /\ Len(job.steps) \in Nat \ {0} /\ job.to \in 1 .. Len(theirs)
  BY <1>2 DEF Inv, TypeOK, JobTyped
<1>6. theirs[h] \in Version
  BY <1>1, <1>5
<1>7. t.blocks = Reads(theirs[h], held, {}).blocks
  BY <1>2, <1>6, ReadsBlocks
<1>8. h = job.steps[1]
  BY <1>5
<1> HIDE DEF h, t
<1>9. ASSUME Len(job.steps) # 1
      PROVE  /\ Removes(theirs'[base'].ledger, job'.onto.ledger)
             /\ job'.from.blocks \subseteq theirs'[base'].blocks /\ job'.from.ledger \subseteq theirs'[base'].ledger
             /\ \A b \in job'.from.blocks : Kind[b] \in job'.from.named
             /\ InOrder(job', base')
             /\ Came(job', ours', theirs', held', base')
  <2>1. /\ job'.from = job.from /\ job'.onto = job.onto /\ job'.refused = job.refused /\ job'.to = job.to
        /\ job'.strategy = job.strategy /\ job'.steps = Tail(job.steps) /\ base' = base
    BY <1>2, <1>9 DEF JobFields
  <2>2. /\ Len(job'.steps) = Len(job.steps) - 1 /\ Len(job'.steps) \in Nat \ {0}
        /\ \A i \in 1 .. Len(job'.steps) : job'.steps[i] = job.steps[i + 1]
    <3>1. job.steps # <<>> /\ Len(job.steps) - 1 \in Nat \ {0}
      BY <1>5, <1>9
    <3>2. /\ Len(Tail(job.steps)) = Len(job.steps) - 1
          /\ \A i \in 1 .. Len(Tail(job.steps)) : Tail(job.steps)[i] = job.steps[i + 1]
      BY <1>5, <3>1, HeadTailProperties
    <3> QED
      BY <2>1, <3>1, <3>2
  <2>3. InOrder(job, base)
    BY <1>2 DEF Recorded
  <2>4. InOrder(job', base')
    <3>1. ASSUME NEW i \in 1 .. Len(job'.steps)
          PROVE  /\ job'.steps[i] = job'.to - Len(job'.steps) + i
                 /\ job'.strategy = "rebase" /\ base' < job'.steps[i]
      <4>1. i + 1 \in 1 .. Len(job.steps) /\ job'.steps[i] = job.steps[i + 1] /\ i \in Nat
        BY <1>5, <2>2, <3>1
      <4>2. job.steps[i + 1] = job.to - Len(job.steps) + (i + 1) /\ job.strategy = "rebase" /\ base < job.steps[i + 1]
        BY <1>9, <2>3, <4>1 DEF InOrder
      <4>3. job.to \in Nat /\ Len(job.steps) \in Nat
        BY <1>5
      <4>4. job.to - Len(job.steps) + (i + 1) = job'.to - Len(job'.steps) + i
        BY <2>1, <2>2, <4>1, <4>3
      <4> QED
        BY <2>1, <4>1, <4>2, <4>4
    <3> QED
      BY <3>1 DEF InOrder
  <2>5. Head(job'.steps) = h + 1
    <3>0. Len(job.steps) \in Nat /\ Len(job.steps) >= 2
      <4> DEFINE k == Len(job.steps)
      <4>1. k \in Nat \ {0} /\ k # 1
        BY <1>5, <1>9
      <4> HIDE DEF k
      <4>2. k \in Nat /\ k >= 2
        BY <4>1
      <4> QED
        BY <4>2 DEF k
    <3>1. 1 \in 1 .. Len(job.steps) /\ 2 \in 1 .. Len(job.steps) /\ 1 \in 1 .. Len(job'.steps)
      BY <3>0, <2>2
    <3>2. job'.steps[1] = job.steps[2]
      BY <2>2, <3>1
    <3>3. job.steps[1] = job.to - Len(job.steps) + 1 /\ job.steps[2] = job.to - Len(job.steps) + 2
      BY <2>3, <3>1 DEF InOrder
    <3>4. Head(job'.steps) = job'.steps[1]
      BY <1>2, <1>9, <2>2 DEF JobTyped
    <3> QED
      BY <1>5, <1>8, <3>2, <3>3, <3>4
  <2>6. ASSUME NEW b \in ours'.blocks
        PROVE  /\ b \notin job'.refused
               /\ b \notin job'.onto.blocks =>
                    /\ b \notin job'.from.blocks /\ job'.strategy = "rebase"
                    /\ \E p \in base' + 1 .. Head(job'.steps) : b \in Reads(theirs'[p], held', {}).blocks
    <3>1. b \in Partial(job, t).blocks /\ b \notin job.refused /\ b \in Blocks
      BY <1>2 DEF Remains, Version
    <3>2. ASSUME b \notin job.onto.blocks
          PROVE  b \notin job.from.blocks /\ b \in t.blocks
      <4>1. /\ job.onto.named = Kinds /\ \A c \in job.from.blocks : Kind[c] \in job.from.named
        BY <1>2 DEF Whole, Recorded
      <4> QED
        BY <3>1, <3>2, <4>1, KindsOfBlocks DEF Partial, Merged, Survives
    <3>3. h \in base' + 1 .. Head(job'.steps)
      <4>1. h \in Nat /\ base \in Nat /\ base < h
        BY <1>1, <1>5, <1>9
      <4>2. Head(job'.steps) \in Nat /\ h <= Head(job'.steps) /\ base + 1 <= h
        BY <2>5, <4>1
      <4>3. base' = base
        BY <2>1
      <4> QED
        BY <4>1, <4>2, <4>3
    <3>4. job.strategy = "rebase"
      BY <1>1, <1>9
    <3> QED
      BY <1>2, <1>7, <2>1, <3>1, <3>2, <3>3, <3>4
  <2>7. Came(job', ours', theirs', held', base')
    BY <2>6 DEF Came
  <2>8. /\ Removes(theirs[base].ledger, job.onto.ledger)
        /\ job.from.blocks \subseteq theirs[base].blocks /\ job.from.ledger \subseteq theirs[base].ledger
        /\ \A b \in job.from.blocks : Kind[b] \in job.from.named
    BY <1>2 DEF Recorded
  <2> QED
    BY <1>2, <2>1, <2>4, <2>7, <2>8
<1> QED
  BY <1>2, <1>3, <1>4, <1>9 DEF Recorded

\* Lemma: every step keeps it.
LEMMA RecordedNext == Inv /\ Whole /\ Evident /\ Recorded /\ [Next]_vars => Recorded'
<1> SUFFICES ASSUME Inv, Whole, Evident, Recorded, [Next]_vars PROVE Recorded'
  OBVIOUS
<1>t. /\ TypeOK /\ ours \in Version /\ theirs \in Seq(Version) /\ Len(theirs) \in Nat \ {0} /\ base \in 1 .. Len(theirs)
      /\ fetched \in 0 .. Len(theirs)
  BY DEF Inv, TypeOK
<1>1. CASE Work
  <2>1. PICK w \in Writes(ours) : Land(w.to, <<>>)
    BY <1>1 DEF Work
  <2>2. job' = None /\ ours' = w.to /\ theirs' = theirs /\ base' = base
    BY <1>1, <2>1 DEF Work, Land
  <2>3. ours.ledger \subseteq w.to.ledger
    BY <1>t, WritesType
  <2> QED
    BY <2>2, <2>3 DEF Recorded, TheirsSay, Removes
<1>2. CASE TheirWork
  <2> DEFINE n == Len(theirs)
             last == theirs[Len(theirs)]
  <2>1. PICK w \in Writes(last) : theirs' = Append(theirs, w.to)
    BY <1>2 DEF TheirWork
  <2>2. UNCHANGED <<ours, base, held, job>>
    BY <1>2 DEF TheirWork
  <2>3. last \in Version /\ n \in 1 .. n /\ w.to \in Version /\ last.ledger \subseteq w.to.ledger
    BY <1>t, WritesType
  <2>4. Len(theirs') = n + 1 /\ theirs'[n + 1] = w.to /\ \A i \in 1 .. n : theirs'[i] = theirs[i]
    BY <2>1, <2>3, <1>t
  <2>5. \A i \in 1 .. n + 1 : i \in 1 .. n \/ i = n + 1
    BY <1>t
  <2>6. TheirsSay /\ TheirsSound
    BY DEF Recorded, Evident
  <2>7. ASSUME NEW i \in 1 .. n + 1, NEW k \in 1 .. n + 1, i <= k, NEW b \in theirs'[i].blocks \ theirs'[k].blocks
        PROVE  Removal(b) \in theirs'[k].ledger
    <3>1. CASE k \in 1 .. n
      <4>1. i \in 1 .. n
        BY <2>7, <3>1, <1>t
      <4> QED
        BY <2>4, <2>6, <2>7, <3>1, <4>1 DEF TheirsSay
    <3>2. CASE k = n + 1 /\ i \in 1 .. n
      <4>1. b \in theirs[i].blocks /\ b \notin w.to.blocks /\ i <= n
        BY <2>4, <2>7, <3>2
      <4>2. CASE b \in last.blocks
        BY <2>3, <2>4, <3>2, <4>1, <4>2, WritesRemove
      <4>3. CASE b \notin last.blocks
        <5>1. Removal(b) \in last.ledger
          BY <2>3, <2>6, <3>2, <4>1, <4>3 DEF TheirsSay
        <5> QED
          BY <2>3, <2>4, <3>2, <5>1
      <4> QED
        BY <4>2, <4>3
    <3>3. CASE k = n + 1 /\ i = n + 1
      BY <2>7, <3>3
    <3> QED
      BY <2>5, <3>1, <3>2, <3>3
  <2>8. TheirsSay'
    BY <2>4, <2>7 DEF TheirsSay
  <2>9. theirs'[base'] = theirs[base]
    BY <1>t, <2>2, <2>4
  <2>10. ASSUME job # None PROVE Came(job', ours', theirs', held', base')
    <3>1. Came(job, ours, theirs, held, base) /\ JobTyped(job, n)
      BY <2>10 DEF Recorded, Inv
    <3>2. Head(job.steps) \in 1 .. job.to /\ job.to \in 1 .. n
      BY <3>1 DEF JobTyped
    <3> HIDE DEF n
    <3>3. \A p \in base + 1 .. Head(job.steps) : theirs'[p] = theirs[p]
      BY <1>t, <2>4, <3>2 DEF n
    <3> QED
      BY <2>2, <3>1, <3>3 DEF Came
  <2> HIDE DEF n, last
  <2> QED
    BY <2>2, <2>8, <2>9, <2>10 DEF Recorded
<1>3. CASE (\E kinds \in FetchSets : Fetch(kinds)) \/ Resolve \/ AcceptRemovals \/ Abort \/ Prune
  <2>1. job = None /\ UNCHANGED <<ours, theirs, base, job>>
    BY <1>3 DEF Fetch, Resolve, AcceptRemovals, Abort, Prune, Status
  <2> QED
    BY <2>1 DEF Recorded, TheirsSay
<1>4. CASE ReconcileAs
  <2>1. PICK strategy \in Strategies : Reconcile(strategy)
    BY <1>4 DEF ReconcileAs
  <2>2. fetched \in 1 .. Len(theirs) /\ job = None
    BY <2>1, <1>t DEF Reconcile
  <2>3. UNCHANGED <<ours, theirs, base, fetched, held, records, recent, since, lost, dropped, joins, wrote>>
    BY <2>1 DEF Reconcile
  <2>4. CASE IsClean(PlanFor(fetched))
    <3>1. Conclude(PlanFor(fetched), fetched, strategy, <<>>, <<>>, {}) /\ PlanFor(fetched).withdrawn \subseteq {}
      BY <2>1, <2>4 DEF Reconcile, IsClean
    <3> QED
      BY <2>2, <2>3, <3>1, ConcludeRecorded
  <2>5. CASE ~ IsClean(PlanFor(fetched))
    <3>1. job' = job
      BY <2>1, <2>5 DEF Reconcile
    <3> QED
      BY <2>2, <2>3, <3>1 DEF Recorded, TheirsSay
  <2> QED
    BY <2>4, <2>5
<1>5. CASE Continue
  <2>1. pointer # None /\ job = None /\ PointerTyped(pointer, Len(theirs))
    BY <1>5 DEF Continue, Status, Inv
  <2>2. /\ PlanFor(pointer.theirs).withdrawn # {} => pointer.accepted = PlanFor(pointer.theirs).withdrawn
        /\ Conclude(PlanFor(pointer.theirs), pointer.theirs, pointer.strategy, pointer.decisions, pointer.choices, pointer.accepted)
        /\ UNCHANGED <<ours, theirs, base, fetched, held, records, recent, since, lost, dropped, joins, wrote>>
    BY <1>5 DEF Continue
  <2>3. PlanFor(pointer.theirs).withdrawn \subseteq pointer.accepted
    BY <2>2
  <2> QED
    BY <2>1, <2>2, <2>3, ConcludeRecorded DEF PointerTyped
<1>6. CASE WriteStep
  BY <1>6, WriteRecorded
<1>7. CASE Crash
  <2>1. job' = None /\ UNCHANGED <<ours, theirs, base>>
    BY <1>7 DEF Crash
  <2> QED
    BY <2>1 DEF Recorded, TheirsSay
<1>8. CASE UNCHANGED vars
  <2>1. TheirsSay' = TheirsSay
    BY <1>8 DEF vars, TheirsSay
  <2> QED
    BY <1>8, <2>1 DEF vars, Recorded
<1> QED
  BY <1>1, <1>2, <1>3, <1>4, <1>5, <1>6, <1>7, <1>8 DEF Next

\* The removal invariant across a reconciliation, in every brain that was installed whole from a
\* version that cites only what it holds, and whose fetches bring the provenance module: each
\* version that a merge, a rebase or a squash writes has the removal of every block that its
\* parent held and it does not in its own ledger, where the same modules of all versions replayed
\* can be opened; whatever was removed, by whom and how often, and whatever crashes and prunes
\* came before.
THEOREM RemovalsAlwaysOnRecord ==
    ASSUME Installed = Kinds, Sound(Start), \A F \in FetchSets : "provenance" \in F
    PROVE  Spec => RemovalsOnRecord
<1> DEFINE OnRecord ==
             job # None
             /\ (\A s \in {job.to} \cup {i \in DOMAIN theirs : i > base /\ i <= job.to /\ job.strategy = "rebase"} :
                    /\ "provenance" \in Opened(theirs[s]).named
                    /\ Opened(theirs[s]).named = Opened(theirs[job.to]).named) =>
              \A b \in ours.blocks \ ours'.blocks : Removal(b) \in ours'.ledger
<1>1. Init => Whole /\ Evident /\ Recorded
  BY WholeInit, EvidentInit, RecordedInit
<1>2. Inv /\ Whole /\ Evident /\ Recorded /\ [Next]_vars => Whole' /\ Evident' /\ Recorded'
  BY WholeNext, EvidentNext, RecordedNext
<1>3. Inv /\ Whole /\ Evident /\ Recorded /\ [Next]_vars => [OnRecord]_vars
  <2> SUFFICES ASSUME Inv, Whole, Evident, Recorded, Next, job # None,
                      \A s \in {job.to} \cup {i \in DOMAIN theirs : i > base /\ i <= job.to /\ job.strategy = "rebase"} :
                          Opened(theirs[s]).named = Opened(theirs[job.to]).named,
                      NEW b \in ours.blocks \ ours'.blocks
               PROVE  Removal(b) \in ours'.ledger
    OBVIOUS
  <2>1. CASE WriteStep
    BY <2>1, StepRecords
  <2>2. CASE Crash \/ TheirWork \/ Abort \/ Resolve \/ AcceptRemovals
    BY <2>2 DEF TheirWork, Abort, Resolve, AcceptRemovals, Crash
  <2>3. CASE Work \/ (\E kinds \in FetchSets : Fetch(kinds)) \/ ReconcileAs \/ Continue \/ Prune
    BY <2>3 DEF Work, Fetch, ReconcileAs, Reconcile, Continue, Status, Prune
  <2> QED
    BY <2>1, <2>2, <2>3 DEF Next
<1>4. Spec => [][OnRecord]_vars
  BY <1>1, <1>2, <1>3, Invariant, PTL DEF Spec
<1> QED
  BY <1>4, PTL DEF RemovalsOnRecord
-----------------------------------------------------------------------------
(* Precedence.                                                             *)

\* Lemma: an edge is its two blocks.
LEMMA EdgeParts ==
    /\ \A n, o : Edge(n, o)[2] = n /\ Edge(n, o)[3] = o
    /\ \A n, o \in Blocks : Edge(n, o) \in Edges
    /\ \A e \in Edges : e[2] \in Blocks /\ e[3] \in Blocks /\ e = Edge(e[2], e[3])
BY DEF Edge, Edges

\* Lemma: a set of two elements has two.
LEMMA TwoOf ==
    ASSUME NEW S, IsFiniteSet(S), Cardinality(S) = 2
    PROVE  \E x, y \in S : x # y /\ S = {x, y}
<1>1. S # {}
  BY FS_EmptySet
<1>2. PICK x \in S : TRUE
  BY <1>1
<1>3. IsFiniteSet(S \ {x}) /\ Cardinality(S \ {x}) = 1
  BY FS_RemoveElement
<1>4. PICK y : S \ {x} = {y}
  BY <1>3, FS_Singleton
<1> QED
  BY <1>2, <1>4

\* Lemma: the last of one or two successors is one of them.
LEMMA LastOf ==
    ASSUME NEW o, NEW M, NEW x \in Blocks, NEW y \in Blocks, Successors(o, M) \subseteq {x, y}, Successors(o, M) # {}
    PROVE  SupersededBy(o, M) \in Successors(o, M)
<1>1. Rank[x] \in Nat /\ Rank[y] \in Nat
  BY SchemaAssumption, BlocksCounted
<1>2. \E n \in Successors(o, M) : \A m \in Successors(o, M) : Rank[m] <= Rank[n]
  <2>1. CASE Rank[x] <= Rank[y]
    BY <1>1, <2>1
  <2>2. CASE Rank[y] <= Rank[x]
    BY <1>1, <2>2
  <2> QED
    BY <1>1, <2>1, <2>2
<1> QED
  BY <1>2 DEF SupersededBy

\* A successor of b that no other successor replaces.
Standing(n, b, M) ==
    n \in Successors(b, M) /\ (Successors(n, M) = {} \/ SupersededBy(n, M) \notin Successors(b, M))

\* Lemma: of two rivals, either both stand or nothing is contested.
LEMMA ContestedPair ==
    ASSUME NEW b, NEW M, NEW x \in Blocks, NEW y \in Blocks, x # y, Successors(b, M) \subseteq {x, y}
    PROVE  /\ Standing(x, b, M) /\ Standing(y, b, M) => Contested(b, M) = {x, y}
           /\ Contested(b, M) # {} => Standing(x, b, M) /\ Standing(y, b, M)
<1> DEFINE S == {n \in Successors(b, M) :
                    Successors(n, M) = {} \/ SupersededBy(n, M) \notin Successors(b, M)}
<1>1. Contested(b, M) = IF Cardinality(S) > 1 THEN S ELSE {}
  BY DEF Contested
<1>2. \A n : n \in S <=> Standing(n, b, M)
  BY DEF Standing
<1>3. S \subseteq {x, y}
  OBVIOUS
<1> HIDE DEF S
<1>4. /\ IsFiniteSet({x}) /\ Cardinality({x}) = 1 /\ IsFiniteSet({y}) /\ Cardinality({y}) = 1
  BY FS_Singleton
<1>5. Cardinality({x, y}) = 2
  <2>1. Cardinality({x} \cup {y}) = Cardinality({x}) + 1
    BY <1>4, FS_AddElement
  <2>2. {x} \cup {y} = {x, y}
    OBVIOUS
  <2> QED
    BY <1>4, <2>1, <2>2
<1>6. ASSUME NEW z, Cardinality({z}) = 1, IsFiniteSet({z}), S \subseteq {z}
      PROVE  Contested(b, M) = {}
  <2>1. Cardinality(S) <= 1 /\ IsFiniteSet(S)
    BY <1>6, FS_Subset
  <2>2. Cardinality(S) \in Nat
    BY <2>1, FS_CardinalityType
  <2> QED
    BY <1>1, <2>1, <2>2
<1>7. ASSUME Standing(x, b, M), Standing(y, b, M)
      PROVE  Contested(b, M) = {x, y}
  <2>1. S = {x, y}
    BY <1>2, <1>3, <1>7
  <2> QED
    BY <1>1, <1>5, <2>1
<1>8. ASSUME Contested(b, M) # {}
      PROVE  x \in S /\ y \in S
  <2>1. x \in S
    BY <1>3, <1>4, <1>6, <1>8
  <2>2. y \in S
    BY <1>3, <1>4, <1>6, <1>8
  <2> QED
    BY <2>1, <2>2
<1> QED
  BY <1>2, <1>7, <1>8

\* Lemma: what is contested are successors.
LEMMA ContestedAre == \A o, M : Contested(o, M) \subseteq Successors(o, M) /\ Contested(o, M) \subseteq Blocks
BY DEF Contested, Successors

\* The ledger N is written where L joins O and what U has besides: every incoming edge that leaves
\* a question open is left out, let in or settled, and nothing is said but what settles one.
Joins(U, O, L, N, unsaid, letin, said) ==
    /\ O \subseteq U /\ L \subseteq U /\ said \subseteq N
    /\ \A e \in N \cap Edges : e \in L \ unsaid \/ e \in said
    /\ \A e \in said \cap Edges : \E o \in Blocks : e[2] \in Contested(o, L) /\ e[3] \in Contested(o, L)
    /\ \A r \in OpenEdges(L \ O, L) :
           \/ r \in unsaid \/ r[3] \in letin
           \/ \E c \in Contested(r[3], L) : \A l \in Contested(r[3], L) \ {c} : Edge(c, l) \in said

\* Lemma: a question that stands alone is not left open there.
LEMMA AloneSettles ==
    ASSUME NEW U, NEW O, NEW L, NEW N, NEW unsaid, NEW letin, NEW said,
           Joins(U, O, L, N, unsaid, letin, said),
           NEW b \in Blocks, Alone(b, U), Contested(b, N) # {}
    PROVE  Contested(b, O) # {} \/ b \in letin
<1>0. /\ O \subseteq U /\ L \subseteq U /\ said \subseteq N
      /\ \A e \in N \cap Edges : e \in L \ unsaid \/ e \in said
      /\ \A e \in said \cap Edges : \E o \in Blocks : e[2] \in Contested(o, L) /\ e[3] \in Contested(o, L)
      /\ \A r \in OpenEdges(L \ O, L) :
           \/ r \in unsaid \/ r[3] \in letin
           \/ \E c \in Contested(r[3], L) : \A l \in Contested(r[3], L) \ {c} : Edge(c, l) \in said
  BY DEF Joins
<1>1. PICK x \in Blocks, y \in Blocks : x # y /\ Successors(b, U) = {x, y}
  <2>1. IsFiniteSet(Successors(b, U)) /\ Successors(b, U) \subseteq Blocks
    BY SchemaAssumption, FS_Subset DEF Successors
  <2>2. Cardinality(Successors(b, U)) = 2
    BY DEF Alone
  <2> QED
    BY <2>1, <2>2, TwoOf
<1>2. ASSUME NEW n \in Blocks, NEW o \in Blocks, Edge(n, o) \in U, n \in {x, y, b} \/ o \in {x, y, b}
      PROVE  o = b
  <2>1. Edge(n, o) \in U \cap Edges /\ Edge(n, o)[2] = n /\ Edge(n, o)[3] = o
    BY <1>2, EdgeParts
  <2> QED
    BY <1>1, <1>2, <2>1 DEF Alone
<1>3. ASSUME NEW n \in Blocks, NEW o \in Blocks, Edge(n, o) \in said
      PROVE  \E p \in Blocks : n \in Contested(p, L) /\ o \in Contested(p, L)
  BY <1>0, <1>3, EdgeParts
<1>4. ASSUME NEW n, NEW o, n \in Contested(o, L), n \in {x, y, b}, o \in Blocks
      PROVE  o = b
  <2>1. n \in Blocks /\ Edge(n, o) \in L
    BY <1>4, ContestedAre DEF Successors
  <2> QED
    BY <1>0, <1>2, <1>4, <2>1
<1>5. Successors(b, L) \subseteq {x, y} /\ Successors(b, O) \subseteq {x, y}
  BY <1>0, <1>1 DEF Successors
<1>6. ASSUME NEW n \in Blocks, Edge(n, b) \in said
      PROVE  FALSE
  <2>1. PICK p \in Blocks : n \in Contested(p, L) /\ b \in Contested(p, L)
    BY <1>3, <1>6
  <2>2. p = b
    BY <1>4, <2>1
  <2>3. b \in Successors(b, L) /\ b \in {x, y} /\ Contested(b, L) # {}
    BY <1>5, <2>1, <2>2, ContestedAre
  <2>4. SupersededBy(b, L) \in Successors(b, L) /\ Successors(b, L) # {}
    BY <1>5, <2>3, LastOf
  <2>5. Standing(b, b, L)
    BY <1>1, <1>5, <2>3, ContestedPair
  <2> QED
    BY <2>4, <2>5 DEF Standing
<1>7. \A n \in Blocks : Edge(n, b) \in N => Edge(n, b) \in L \ unsaid
  BY <1>0, <1>6, EdgeParts
<1>8. Successors(b, N) \subseteq {x, y}
  BY <1>5, <1>7 DEF Successors
<1>9. Standing(x, b, N) /\ Standing(y, b, N)
  BY <1>1, <1>8, ContestedPair
<1>10. x \in Successors(b, N) /\ y \in Successors(b, N) /\ Successors(b, N) = {x, y}
  BY <1>8, <1>9 DEF Standing
<1>11. b \notin {x, y}
  <2> SUFFICES ASSUME b \in {x, y} PROVE FALSE
    OBVIOUS
  <2>1. SupersededBy(b, N) \in Successors(b, N) /\ Successors(b, N) # {}
    BY <1>8, <1>10, LastOf
  <2>2. Standing(b, b, N)
    BY <1>9
  <2> QED
    BY <2>1, <2>2 DEF Standing
<1>12. Edge(x, b) \in L \ unsaid /\ Edge(y, b) \in L \ unsaid
  BY <1>7, <1>10 DEF Successors
<1>13. /\ Successors(x, L) = {} /\ Successors(y, L) = {}
       /\ Successors(x, O) = {} /\ Successors(y, O) = {}
  <2>1. \A n \in Blocks : Edge(n, x) \notin U /\ Edge(n, y) \notin U
    BY <1>2, <1>11
  <2> QED
    BY <1>0, <2>1 DEF Successors
<1>14. Contested(b, L) = {x, y}
  <2>1. Standing(x, b, L) /\ Standing(y, b, L)
    BY <1>12, <1>13 DEF Standing, Successors
  <2> QED
    BY <1>1, <1>5, <2>1, ContestedPair
<1>15. CASE Edge(x, b) \in O /\ Edge(y, b) \in O
  <2>1. Standing(x, b, O) /\ Standing(y, b, O)
    BY <1>13, <1>15 DEF Standing, Successors
  <2>2. Contested(b, O) = {x, y}
    BY <1>1, <1>5, <2>1, ContestedPair
  <2> QED
    BY <2>2
<1>16. ASSUME NEW z \in {x, y}, Edge(z, b) \notin O
       PROVE  b \in letin
  <2>1. Edge(z, b) \in Edges /\ Edge(z, b)[3] = b /\ z \in Blocks
    BY EdgeParts
  <2>2. Edge(z, b) \in OpenEdges(L \ O, L)
    BY <1>12, <1>14, <1>16, <2>1 DEF OpenEdges
  <2>3. Edge(z, b) \notin unsaid
    BY <1>12
  <2> SUFFICES ASSUME b \notin letin PROVE FALSE
    OBVIOUS
  <2>4. PICK c \in {x, y} : \A l \in {x, y} \ {c} : Edge(c, l) \in said
    BY <1>0, <1>14, <2>1, <2>2, <2>3
  <2>5. PICK l \in {x, y} : l # c
    BY <1>1
  <2>6. l \in Blocks /\ c \in Blocks /\ Edge(c, l) \in N
    BY <1>0, <2>4, <2>5
  <2>7. ASSUME NEW n \in Blocks, Edge(n, l) \in N
        PROVE  n \in {x, y}
    <3>1. Edge(n, l) \notin L
      BY <1>0, <1>2, <1>11, <2>6
    <3>2. Edge(n, l) \in said
      BY <1>0, <2>6, <2>7, <3>1, EdgeParts
    <3>3. PICK p \in Blocks : n \in Contested(p, L) /\ l \in Contested(p, L)
      BY <1>3, <2>6, <3>2
    <3>4. p = b
      BY <1>4, <3>3
    <3> QED
      BY <1>14, <3>3, <3>4
  <2>8. Successors(l, N) \subseteq {x, y} /\ c \in Successors(l, N)
    BY <2>6, <2>7 DEF Successors
  <2>9. SupersededBy(l, N) \in Successors(l, N)
    BY <2>8, LastOf
  <2>10. Standing(l, b, N)
    BY <1>9
  <2> QED
    BY <1>10, <2>8, <2>9, <2>10 DEF Standing
<1> QED
  BY <1>15, <1>16

\* What the conclusion j has said or will say about the questions of the joined ledger L: nothing
\* but which of the contenders wins, and every incoming edge that leaves a question open is left
\* out, let in, or settled.
Said(j, L) ==
    /\ \A e \in (j.pending \cup j.authored) \cap Edges :
           \E o \in Blocks : e[2] \in Contested(o, L) /\ e[3] \in Contested(o, L)
    /\ \A r \in OpenEdges(L \ j.onto.ledger, L) :
           \/ r \in j.unsaid \/ r[3] \in j.letin
           \/ \E c \in Contested(r[3], L) :
                  \A l \in Contested(r[3], L) \ {c} : Edge(c, l) \in j.pending \cup j.authored

\* The answers that can stand for the question r in the joined ledger L.
Answers(r, L) == {"reject", "admit"} \cup Contested(r[3], L)

\* An answer once recorded is one to the question the reconciliation asks, whatever is fetched or
\* pruned before it is continued.
Asked ==
    /\ pointer # None =>
         /\ pointer.ancestor \in 1 .. Len(theirs)
         /\ \A r \in DOMAIN pointer.choices :
                pointer.choices[r] \in
                    Answers(r, Merged(theirs[pointer.ancestor], pointer.head, theirs[pointer.theirs]).ledger)
    /\ job # None => Said(job, Merged(job.from, job.onto, theirs[job.to]).ledger)

\* Lemma: the joined ledger depends on the ledgers alone.
LEMMA MergedLedger ==
    ASSUME NEW b, NEW o, NEW t, NEW c, NEW p, NEW u,
           b.ledger = c.ledger, "provenance" \in b.named <=> "provenance" \in c.named,
           o.ledger = p.ledger, "provenance" \in o.named <=> "provenance" \in p.named,
           t.ledger = u.ledger, "provenance" \in t.named <=> "provenance" \in u.named
    PROVE  Merged(b, o, t).ledger = Merged(c, p, u).ledger
BY DEF Merged, Survives

\* Lemma: what a plan finds in the ledgers is what the three versions state.
LEMMA PlanLedger ==
    ASSUME Inv, Whole, Evident, NEW to \in 1 .. Len(theirs), base <= to, to <= fetched
    PROVE  /\ PlanFor(to).merged.ledger = Merged(theirs[base], ours, theirs[to]).ledger
           /\ PlanFor(to).merged.ledger = Merged(Opened(theirs[base]), Opened(ours), theirs[to]).ledger
           /\ Opened(ours) = ours
<1>1. /\ TypeOK /\ theirs \in Seq(Version) /\ Len(theirs) \in Nat /\ base \in 1 .. Len(theirs) /\ ours \in Version
      /\ fetched \in 1 .. Len(theirs)
  BY DEF Inv, TypeOK
<1>2. theirs[fetched].ledger \subseteq records /\ TheirsSound
  BY <1>1 DEF Evident
<1>3. ASSUME NEW i \in 1 .. Len(theirs), i <= fetched
      PROVE  /\ Opened(theirs[i]).ledger = theirs[i].ledger
             /\ "provenance" \in Opened(theirs[i]).named /\ "provenance" \in theirs[i].named
  <2>1. theirs[i].ledger \subseteq records /\ theirs[i].named = Kinds /\ theirs[i] \in Version
    BY <1>1, <1>2, <1>3 DEF TheirsSound
  <2> QED
    BY <2>1, LedgerOpens, OpenedReads DEF Kinds
<1>4. base <= fetched
  BY <1>1
<1>5. Opened(ours) = ours
  BY <1>1, OpensWhole, OpenedReads DEF Whole
<1>6. PlanFor(to).merged = Merged(Opened(theirs[base]), Opened(ours), Opened(theirs[to]))
  BY <1>1, PlanIs
<1>7. Merged(Opened(theirs[base]), Opened(ours), Opened(theirs[to])).ledger
        = Merged(Opened(theirs[base]), Opened(ours), theirs[to]).ledger
  BY <1>3, MergedLedger
<1>8. Merged(Opened(theirs[base]), ours, Opened(theirs[to])).ledger = Merged(theirs[base], ours, theirs[to]).ledger
  BY <1>1, <1>3, <1>4, MergedLedger
<1> QED
  BY <1>5, <1>6, <1>7, <1>8

\* Lemma: a conclusion says about the questions what was answered.
LEMMA ConcludeSaid ==
    ASSUME Inv, Whole, Evident, NEW to \in 1 .. Len(theirs), base <= to, to <= fetched,
           NEW strategy \in Strategies, NEW decisions, NEW choices,
           \A r \in DOMAIN choices : choices[r] \in Answers(r, PlanFor(to).merged.ledger),
           NEW accepted, PlanFor(to).withdrawn \subseteq accepted,
           Conclude(PlanFor(to), to, strategy, decisions, choices, accepted), job' # None
    PROVE  Said(job', Merged(job'.from, job'.onto, theirs[job'.to]).ledger)
<1> DEFINE plan == PlanFor(to)
           L == PlanFor(to).merged.ledger
<1>1. TypeOK
  BY DEF Inv
<1>2. /\ job'.to = to /\ job'.from = Opened(theirs[base]) /\ job'.onto = Opened(ours) /\ job'.authored = {}
  BY <1>1, ConcludeJob
<1>3. Merged(job'.from, job'.onto, theirs[job'.to]).ledger = L
  BY <1>2, PlanLedger
<1>4. /\ job'.pending = Settling(plan, choices)
      /\ job'.unsaid = {r \in plan.contested : ~ (r \in DOMAIN choices /\ choices[r] # "reject")}
      /\ job'.letin = {r[3] : r \in {q \in DOMAIN choices : choices[q] = "admit"}}
  BY DEF Conclude
<1>5. plan.contested = OpenEdges(L \ Opened(ours).ledger, L) /\ plan.contested \subseteq Edges
  BY <1>1, PlanIs
<1>6. Settling(plan, choices) =
        UNION {{Edge(choices[r], loser) : loser \in Contested(r[3], L) \ {choices[r]}} :
                  r \in {q \in plan.contested \cap DOMAIN choices : choices[q] \in Blocks}}
  BY DEF Settling
<1> HIDE DEF plan, L
<1>7. \A r \in DOMAIN choices : choices[r] \in Answers(r, L)
  BY DEF L
<1>8. \A r \in DOMAIN choices : choices[r] \in Blocks => choices[r] \in Contested(r[3], L)
  BY <1>7, SchemaAssumption DEF Answers
<1>9. ASSUME NEW e \in Settling(plan, choices)
      PROVE  \E o \in Blocks : e[2] \in Contested(o, L) /\ e[3] \in Contested(o, L)
  <2>1. PICK r \in {q \in plan.contested \cap DOMAIN choices : choices[q] \in Blocks} :
           e \in {Edge(choices[r], loser) : loser \in Contested(r[3], L) \ {choices[r]}}
    BY <1>6, <1>9
  <2>2. PICK loser \in Contested(r[3], L) : e = Edge(choices[r], loser)
    BY <2>1
  <2>3. e[2] = choices[r] /\ e[3] = loser /\ r[3] \in Blocks
    BY <1>5, <2>1, <2>2, EdgeParts
  <2> QED
    BY <1>8, <2>1, <2>2, <2>3
<1>10. ASSUME NEW r \in plan.contested, r \notin job'.unsaid, r[3] \notin job'.letin
       PROVE  \E c \in Contested(r[3], L) : \A l \in Contested(r[3], L) \ {c} : Edge(c, l) \in Settling(plan, choices)
  <2>1. r \in DOMAIN choices /\ choices[r] # "reject" /\ choices[r] # "admit"
    BY <1>4, <1>10
  <2>2. choices[r] \in Contested(r[3], L) /\ choices[r] \in Blocks
    BY <1>7, <2>1, ContestedAre DEF Answers
  <2>3. \A l \in Contested(r[3], L) \ {choices[r]} : Edge(choices[r], l) \in Settling(plan, choices)
    BY <1>6, <2>1, <2>2
  <2> QED
    BY <2>2, <2>3
<1>11. /\ job'.pending \cup job'.authored = Settling(plan, choices)
       /\ OpenEdges(L \ job'.onto.ledger, L) = plan.contested
  BY <1>2, <1>4, <1>5
<1>12. Said(job', L)
  BY <1>9, <1>10, <1>11 DEF Said
<1> QED
  BY <1>3, <1>12

\* Lemma: a step of the replay keeps what is said.
LEMMA WriteSaid ==
    ASSUME Inv, Asked, WriteStep, Len(job.steps) # 1
    PROVE  Said(job', Merged(job'.from, job'.onto, theirs[job'.to]).ledger)
<1> DEFINE t == Opened(theirs[Head(job.steps)])
           L == Merged(job.from, job.onto, theirs[job.to]).ledger
           settled == {r \in job.pending : Len(job.steps) = 1 \/ IsSupported(r, Remains(job, t))}
<1>1. /\ job # None /\ JobTyped(job, Len(theirs)) /\ job'.authored = Authors(job, t)
      /\ \A f \in JobFields \ {"steps", "authored", "pending"} : job'[f] = job[f]
  BY WriteStepIs
<1>2. /\ job'.from = job.from /\ job'.onto = job.onto /\ job'.to = job.to /\ job'.unsaid = job.unsaid
      /\ job'.letin = job.letin
  BY <1>1 DEF JobFields
<1>3. Stated.settled = settled
  BY DEF Stated, Remains, Taken, Partial
<1>4. job'.pending = job.pending \ settled
  <2>1. job' = [job EXCEPT !.steps = Tail(@), !.authored = Stated.authored, !.pending = @ \ Stated.settled]
    BY DEF WriteStep
  <2>2. DOMAIN job = JobFields
    BY <1>1 DEF JobTyped
  <2> HIDE DEF settled
  <2> QED
    BY <1>3, <2>1, <2>2 DEF JobFields
<1>5. Said(job, L)
  BY <1>1 DEF Asked
<1>6. Authors(job, t) = job.authored \cup settled \cup CascadeRecords(Taken(job, t))
  BY DEF Authors
<1>7. settled \subseteq job.pending
  OBVIOUS
<1>8. CascadeRecords(Taken(job, t)) \cap Edges = {}
  BY RemovalNoEdge DEF CascadeRecords
<1> HIDE DEF t, settled, L
<1>9. /\ job.pending \cup job.authored \subseteq job'.pending \cup job'.authored
      /\ (job'.pending \cup job'.authored) \cap Edges \subseteq job.pending \cup job.authored
  BY <1>1, <1>4, <1>6, <1>7, <1>8
<1>10. Said(job', L)
  BY <1>2, <1>5, <1>9 DEF Said
<1> QED
  BY <1>2, <1>10 DEF L

\* Lemma: the last step leaves open no question that stands alone.
LEMMA EndSettles ==
    ASSUME Inv, Whole, Evident, Recorded, Asked, WriteStep, Len(job.steps) = 1,
           NEW b \in Blocks, Alone(b, job.onto.ledger \cup theirs[job.to].ledger), Contested(b, ours'.ledger) # {}
    PROVE  Contested(b, job.onto.ledger) # {} \/ b \in job.letin
<1> DEFINE t == Opened(theirs[Head(job.steps)])
           L == Merged(job.from, job.onto, theirs[job.to]).ledger
           said == job.pending \cup job.authored
           O == job.onto.ledger
           N == ours'.ledger
           U == job.onto.ledger \cup theirs[job.to].ledger
<1>1. /\ job # None /\ Head(job.steps) = job.to /\ JobTyped(job, Len(theirs)) /\ job.onto.named = Kinds
      /\ N = (Partial(job, t).ledger \ job.unsaid) \cup Authors(job, t)
  BY WriteStepIs, WholeStep DEF Whole
<1>2. Said(job, L)
  BY <1>1 DEF Asked
<1>3. /\ t.ledger = theirs[job.to].ledger /\ "provenance" \in t.named /\ "provenance" \in theirs[job.to].named
  <2>1. /\ theirs[job.to] \in Version /\ theirs[job.to].named = Kinds /\ theirs[job.to].ledger \subseteq records
    BY <1>1 DEF Inv, TypeOK, JobTyped, Evident, TheirsSound
  <2> QED
    BY <1>1, <2>1, LedgerOpens, OpenedReads DEF Kinds
<1>4. Partial(job, t).ledger = L
  BY <1>3, MergedLedger DEF Partial
<1>5. Authors(job, t) = said \cup CascadeRecords(Taken(job, t))
  BY DEF Authors
<1>6. CascadeRecords(Taken(job, t)) \cap Edges = {}
  BY RemovalNoEdge DEF CascadeRecords
<1>7. L \subseteq U
  BY <1>1, <1>3 DEF Merged, Survives, Kinds
<1> HIDE DEF t, L, said, N
<1>8. said \subseteq N /\ \A e \in N \cap Edges : e \in L \ job.unsaid \/ e \in said
  BY <1>1, <1>4, <1>5, <1>6
<1>9. /\ \A e \in said \cap Edges : \E o \in Blocks : e[2] \in Contested(o, L) /\ e[3] \in Contested(o, L)
      /\ \A r \in OpenEdges(L \ O, L) :
           \/ r \in job.unsaid \/ r[3] \in job.letin
           \/ \E c \in Contested(r[3], L) : \A l \in Contested(r[3], L) \ {c} : Edge(c, l) \in said
  BY <1>2 DEF Said, said
<1>10. O \subseteq U /\ Alone(b, U) /\ Contested(b, N) # {}
  BY DEF N
<1> HIDE DEF O, U
<1>11. Joins(U, O, L, N, job.unsaid, job.letin, said)
  BY <1>7, <1>8, <1>9, <1>10 DEF Joins
<1>12. Contested(b, O) # {} \/ b \in job.letin
  BY <1>10, <1>11, AloneSettles
<1> QED
  BY <1>12 DEF O

\* Lemma: every step keeps the answers and what is said.
LEMMA AskedNext == Inv /\ Whole /\ Evident /\ Asked /\ [Next]_vars => Asked'
<1> SUFFICES ASSUME Inv, Whole, Evident, Asked, [Next]_vars PROVE Asked'
  OBVIOUS
<1>t. /\ TypeOK /\ theirs \in Seq(Version) /\ Len(theirs) \in Nat \ {0} /\ base \in 1 .. Len(theirs)
      /\ fetched \in 0 .. Len(theirs)
  BY DEF Inv, TypeOK
<1>1. CASE Work \/ (\E kinds \in FetchSets : Fetch(kinds)) \/ Prune \/ UNCHANGED vars
  <2>1. UNCHANGED <<theirs, pointer, job>>
    BY <1>1 DEF Work, Fetch, Prune, vars
  <2> QED
    BY <2>1 DEF Asked
<1>2. CASE TheirWork
  <2>1. PICK w \in Writes(theirs[Len(theirs)]) : theirs' = Append(theirs, w.to)
    BY <1>2 DEF TheirWork
  <2>2. UNCHANGED <<pointer, job>>
    BY <1>2 DEF TheirWork
  <2>3. w.to \in Version
    BY <1>t, WritesType
  <2>4. Len(theirs') = Len(theirs) + 1 /\ \A i \in 1 .. Len(theirs) : theirs'[i] = theirs[i]
    BY <1>t, <2>1, <2>3
  <2>5. ASSUME pointer # None
        PROVE  /\ pointer.ancestor \in 1 .. Len(theirs') /\ theirs'[pointer.ancestor] = theirs[pointer.ancestor]
               /\ theirs'[pointer.theirs] = theirs[pointer.theirs]
    <3>1. pointer.ancestor \in 1 .. Len(theirs) /\ pointer.theirs \in 1 .. Len(theirs)
      BY <2>5 DEF Asked, Inv, PointerTyped
    <3> QED
      BY <1>t, <2>4, <3>1
  <2>6. ASSUME job # None PROVE theirs'[job.to] = theirs[job.to]
    BY <2>4, <2>6 DEF Inv, JobTyped
  <2> QED
    BY <2>2, <2>5, <2>6 DEF Asked
<1>3. CASE ReconcileAs
  <2>1. PICK strategy \in Strategies : Reconcile(strategy)
    BY <1>3 DEF ReconcileAs
  <2>2. fetched \in 1 .. Len(theirs) /\ base <= fetched /\ fetched <= fetched /\ theirs' = theirs
    BY <2>1, <1>t DEF Reconcile, Evident
  <2>3. CASE IsClean(PlanFor(fetched))
    <3>1. Conclude(PlanFor(fetched), fetched, strategy, <<>>, <<>>, {}) /\ PlanFor(fetched).withdrawn \subseteq {}
      BY <2>1, <2>3 DEF Reconcile, IsClean
    <3>2. \A r \in DOMAIN <<>> : <<>>[r] \in Answers(r, PlanFor(fetched).merged.ledger)
      OBVIOUS
    <3>3. pointer' = None
      BY <3>1 DEF Conclude
    <3>4. job' # None => Said(job', Merged(job'.from, job'.onto, theirs[job'.to]).ledger)
      BY <2>2, <3>1, <3>2, ConcludeSaid
    <3> QED
      BY <2>2, <3>3, <3>4 DEF Asked
  <2>4. CASE ~ IsClean(PlanFor(fetched))
    <3>1. /\ pointer' = [theirs |-> fetched, ancestor |-> base, strategy |-> strategy,
                         head |-> ours, decisions |-> <<>>, choices |-> <<>>, accepted |-> {}]
          /\ job' = job /\ job = None
      BY <2>1, <2>4 DEF Reconcile
    <3>2. pointer'.ancestor = base /\ DOMAIN pointer'.choices = {}
      BY <3>1
    <3> QED
      BY <1>t, <2>2, <3>1, <3>2 DEF Asked
  <2> QED
    BY <2>3, <2>4
<1>4. CASE Abort
  BY <1>4 DEF Abort, Asked
<1>p. ASSUME Status
      PROVE  /\ PointerTyped(pointer, Len(theirs)) /\ pointer.theirs \in 1 .. Len(theirs)
             /\ base <= pointer.theirs /\ pointer.theirs <= fetched /\ job = None
             /\ PlanFor(pointer.theirs).merged.ledger
                  = Merged(theirs[pointer.ancestor], pointer.head, theirs[pointer.theirs]).ledger
             /\ \A r \in DOMAIN pointer.choices :
                    pointer.choices[r] \in Answers(r, PlanFor(pointer.theirs).merged.ledger)
  <2>1. /\ pointer # None /\ job = None /\ ours = pointer.head /\ base = pointer.ancestor
        /\ pointer.theirs <= fetched
    BY <1>p DEF Status, Plannable
  <2>2. PointerTyped(pointer, Len(theirs)) /\ pointer.ancestor <= pointer.theirs
    BY <2>1 DEF Inv, Evident
  <2>3. pointer.theirs \in 1 .. Len(theirs) /\ base <= pointer.theirs
    BY <2>1, <2>2 DEF PointerTyped
  <2>4. PlanFor(pointer.theirs).merged.ledger
          = Merged(theirs[pointer.ancestor], pointer.head, theirs[pointer.theirs]).ledger
    BY <2>1, <2>3, PlanLedger
  <2> QED
    BY <2>1, <2>2, <2>3, <2>4 DEF Asked
<1>5. CASE AcceptRemovals
  <2>1. Status /\ theirs' = theirs /\ job' = job
        /\ pointer' = [pointer EXCEPT !.accepted = PlanFor(pointer.theirs).withdrawn]
    BY <1>5 DEF AcceptRemovals
  <2>2. /\ pointer'.ancestor = pointer.ancestor /\ pointer'.head = pointer.head
        /\ pointer'.theirs = pointer.theirs /\ pointer'.choices = pointer.choices
    BY <1>p, <2>1 DEF PointerTyped, PointerFields
  <2>3. pointer # None
    BY <2>1 DEF Status
  <2> QED
    BY <2>1, <2>2, <2>3 DEF Asked
<1>6. CASE Resolve
  <2> DEFINE L == PlanFor(pointer.theirs).merged.ledger
  <2>1. Status /\ theirs' = theirs /\ job' = job /\ job = None /\ pointer # None
    BY <1>6 DEF Resolve, Status
  <2>2. PointerTyped(pointer, Len(theirs)) /\ pointer.ancestor \in 1 .. Len(theirs)
    BY <1>p, <2>1 DEF Asked
  <2>3. \A r \in DOMAIN pointer.choices : pointer.choices[r] \in Answers(r, L)
    BY <1>p, <2>1
  <2>4. L = Merged(theirs[pointer.ancestor], pointer.head, theirs[pointer.theirs]).ledger
    BY <1>p, <2>1
  <2>5. CASE \E b, d : pointer' = [pointer EXCEPT !.decisions = Answered(@, b, d)]
    <3>1. /\ pointer'.ancestor = pointer.ancestor /\ pointer'.head = pointer.head
          /\ pointer'.theirs = pointer.theirs /\ pointer'.choices = pointer.choices
      BY <2>2, <2>5 DEF PointerTyped, PointerFields
    <3> QED
      BY <2>1, <3>1 DEF Asked
  <2>6. CASE \E r, d : d \in Answers(r, L) /\ pointer' = [pointer EXCEPT !.choices = Answered(@, r, d)]
    <3>1. PICK r, d : d \in Answers(r, L) /\ pointer' = [pointer EXCEPT !.choices = Answered(@, r, d)]
      BY <2>6
    <3>2. /\ pointer'.ancestor = pointer.ancestor /\ pointer'.head = pointer.head
          /\ pointer'.theirs = pointer.theirs /\ pointer'.choices = Answered(pointer.choices, r, d)
      BY <2>2, <3>1 DEF PointerTyped, PointerFields
    <3> HIDE DEF L
    <3>3. \A q \in DOMAIN Answered(pointer.choices, r, d) : Answered(pointer.choices, r, d)[q] \in Answers(q, L)
      BY <2>3, <3>1 DEF Answered
    <3> QED
      BY <2>1, <2>2, <2>4, <3>2, <3>3 DEF Asked
  <2> QED
    BY <1>6, <2>5, <2>6 DEF Resolve, Answers
<1>7. CASE Continue
  <2>1. /\ Status
        /\ PlanFor(pointer.theirs).withdrawn # {} => pointer.accepted = PlanFor(pointer.theirs).withdrawn
        /\ Conclude(PlanFor(pointer.theirs), pointer.theirs, pointer.strategy, pointer.decisions, pointer.choices, pointer.accepted)
        /\ theirs' = theirs
    BY <1>7 DEF Continue
  <2>2. PlanFor(pointer.theirs).withdrawn \subseteq pointer.accepted
    BY <2>1
  <2>3. pointer' = None
    BY <2>1 DEF Conclude
  <2>4. pointer.strategy \in Strategies
    BY <1>p, <2>1 DEF PointerTyped
  <2>5. job' # None => Said(job', Merged(job'.from, job'.onto, theirs[job'.to]).ledger)
    BY <1>p, <2>1, <2>2, <2>4, ConcludeSaid
  <2> QED
    BY <2>1, <2>3, <2>5 DEF Asked
<1>8. CASE WriteStep
  <2>1. /\ job # None /\ theirs' = theirs /\ pointer' = pointer
        /\ Len(job.steps) = 1 => job' = None
    BY <1>8, WriteStepIs
  <2>2. pointer = None
    BY <2>1 DEF Inv
  <2>3. Len(job.steps) # 1 => Said(job', Merged(job'.from, job'.onto, theirs[job'.to]).ledger)
    BY <1>8, WriteSaid
  <2> QED
    BY <2>1, <2>2, <2>3 DEF Asked
<1>9. CASE Crash
  <2>1. job' = None /\ pointer' = pointer /\ job # None
    BY <1>9 DEF Crash
  <2>2. pointer = None
    BY <2>1 DEF Inv
  <2> QED
    BY <2>1, <2>2 DEF Asked
<1> QED
  BY <1>1, <1>2, <1>3, <1>4, <1>5, <1>6, <1>7, <1>8, <1>9 DEF Next

\* Which block takes precedence, in every brain that was installed whole from a version that cites
\* only what it holds, and whose fetches bring the provenance module: a question that stands alone
\* is never left open in the version a reconciliation ends in, unless it was open in ours before or
\* was let in by an ADMIT; whatever else is contested, fetched or pruned between question and
\* answer, and whether the answer is written in one step or carried through a replay.
THEOREM PrecedenceAlwaysSettled ==
    ASSUME Installed = Kinds, Sound(Start), \A F \in FetchSets : "provenance" \in F
    PROVE  Spec => PrecedenceSettled
<1> DEFINE Settled ==
             job # None /\ job' = None /\ ours' # ours =>
                \A b \in Blocks :
                    Alone(b, job.onto.ledger \cup theirs[job.to].ledger) /\ Contested(b, ours'.ledger) # {} =>
                        Contested(b, job.onto.ledger) # {} \/ b \in job.letin
<1>1. Init => Whole /\ Evident /\ Recorded /\ Asked
  BY WholeInit, EvidentInit, RecordedInit DEF Init, Asked
<1>2. Inv /\ Whole /\ Evident /\ Recorded /\ Asked /\ [Next]_vars => Whole' /\ Evident' /\ Recorded' /\ Asked'
  BY WholeNext, EvidentNext, RecordedNext, AskedNext
<1>3. Inv /\ Whole /\ Evident /\ Recorded /\ Asked /\ [Next]_vars => [Settled]_vars
  <2> SUFFICES ASSUME Inv, Whole, Evident, Recorded, Asked, Next, job # None, job' = None, ours' # ours,
                      NEW b \in Blocks, Alone(b, job.onto.ledger \cup theirs[job.to].ledger),
                      Contested(b, ours'.ledger) # {}
               PROVE  Contested(b, job.onto.ledger) # {} \/ b \in job.letin
    OBVIOUS
  <2>1. CASE WriteStep
    <3>1. Len(job.steps) = 1
      BY <2>1, WriteStepIs
    <3> QED
      BY <2>1, <3>1, EndSettles
  <2>2. CASE Crash \/ TheirWork \/ Abort \/ Resolve \/ AcceptRemovals
    BY <2>2 DEF TheirWork, Abort, Resolve, AcceptRemovals, Crash
  <2>3. CASE Work \/ (\E kinds \in FetchSets : Fetch(kinds)) \/ ReconcileAs \/ Continue \/ Prune
    BY <2>3 DEF Work, Fetch, ReconcileAs, Reconcile, Continue, Status, Prune
  <2> QED
    BY <2>1, <2>2, <2>3 DEF Next
<1>4. Spec => [][Settled]_vars
  BY <1>1, <1>2, <1>3, Invariant, PTL DEF Spec
<1> QED
  BY <1>4, PTL DEF PrecedenceSettled

=============================================================================
