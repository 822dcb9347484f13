------------------------------- MODULE Ledger -------------------------------
(***************************************************************************)
(* The provenance module and the ledger that is read from it (ledger.py).  *)
(* A record is a block, so the module holds a set of them in the order of  *)
(* their digests, which says nothing of when or by whom they were written. *)
(* The ledger folds them in that order, and everything that depends on the *)
(* history reads it: precedence, cascades, what a producer made.           *)
(*                                                                         *)
(* Two histories write records; "ours" takes in "theirs".                  *)
(***************************************************************************)
EXTENDS Merkle, FiniteSets, SequencesExt

CONSTANTS
    Derived,         \* the derived blocks
    Start,          \* those both histories hold from before such blocks were recorded
    Producers,      \* the models that make them
    Assistants,     \* those that a brain may name as assisting it
    Successions,    \* who is put above whom: pairs of blocks
    Demotable,      \* the blocks that are demoted
    NoOne,          \* nobody: a record at version 1 has no assistance, one at version 2 no producer
    MaxRecords,     \* bound: records written
    MaxLeaves       \* bound: leaves of the other compositions whose proofs are looked at

ASSUME NoOneAssumption == NoOne \notin Producers \cup Derived /\ IsFiniteSet(Derived)
ASSUME SubsetsAssumption == Start \subseteq Derived /\ Assistants \subseteq Producers
ASSUME InputsAssumption == Successions \subseteq Derived \X Derived /\ Demotable \subseteq Derived
ASSUME BoundAssumption == MaxRecords \in Nat /\ MaxLeaves \in Nat

VARIABLES
    order,          \* every record written, in the order of the digests, with who holds it
    members,        \* history -> its derived blocks
    base            \* the derived blocks of the version both contain

ledgerVars == <<order, members, base>>

Sides == {"ours", "theirs"}

LedgerInit ==
    /\ order = <<>>
    /\ members = [s \in Sides |-> Start]
    /\ base = Start

-----------------------------------------------------------------------------
(* The ledger of a sequence of records.                                    *)

\* Collaborators of a record at version 2 are kept under its block.
AbsorbAssistance(l, e) ==
    IF e.assisted = NoOne THEN l ELSE [l EXCEPT !.assistance[e.block] = e.assisted]

AbsorbDerivation(l, e) ==
    IF e.producer = NoOne THEN l ELSE [l EXCEPT !.producers[e.block] = e.producer]

\* Mutant of AbsorbSupersession: the first successor is not put beside the second.
AbsorbSupersessionMutant(l, e) ==
    [l EXCEPT !.superseded_by[e.of] = e.block,
              !.competing[e.of] =
                  IF l.superseded_by[e.of] \in {NoOne, e.block} THEN @ ELSE @ \cup {e.block}]

\* competing is told before superseded_by is overwritten.
AbsorbSupersession(l, e) ==
    LET held == l.superseded_by[e.of]
    IN [l EXCEPT !.superseded_by[e.of] = e.block,
                 !.competing[e.of] =
                     IF held \in {NoOne, e.block} THEN @
                     ELSE IF @ = {} THEN {held, e.block}
                     ELSE @ \cup {e.block}]

Absorb(l, e) ==
    LET a == AbsorbAssistance(l, e)
    IN CASE e.kind = "derivation" -> AbsorbDerivation(a, e)
         [] e.kind = "supersession" -> AbsorbSupersession(a, e)
         [] e.kind = "demotion" -> [a EXCEPT !.demoted = @ \cup {e.block}]
         [] e.kind = "removal" -> [a EXCEPT !.removed = @ \cup e.blocks]
         [] OTHER -> a

EmptyLedger ==
    [superseded_by |-> [b \in Derived |-> NoOne], competing |-> [b \in Derived |-> {}],
     producers |-> [b \in Derived |-> NoOne], assistance |-> [b \in Derived |-> NoOne],
     demoted |-> {}, removed |-> {}]

SuccessorsOf(l, b) ==
    IF l.competing[b] # {} THEN l.competing[b]
    ELSE IF l.superseded_by[b] # NoOne THEN {l.superseded_by[b]}
    ELSE {}

Contested(l, b) ==
    LET successors == SuccessorsOf(l, b)
        standing == {s \in successors : l.superseded_by[s] \notin successors}
    IN IF Cardinality(successors) < 2 \/ Cardinality(standing) < 2 THEN {} ELSE standing

\* Mutant of MadeBy: records of version 1 only.
MadeByMutant(l, p) == {b \in Derived : p = l.producers[b]}

\* made_by, for a producer that is a model: both shapes of record are looked at.
MadeBy(l, p) == {b \in Derived : p \in {l.producers[b], l.assistance[b]}}

-----------------------------------------------------------------------------
(* What is written.                                                        *)

Held(side) == {e \in ToSet(order) : side \in e.held}

\* Ledger.of: the records of a history, one after the other.
Read(side) ==
    FoldLeft(LAMBDA l, e : IF side \in e.held THEN Absorb(l, e) ELSE l, EmptyLedger, order)

Record(side, kind, block) ==
    [kind |-> kind, block |-> block, assisted |-> NoOne, producer |-> NoOne,
     of |-> NoOne, blocks |-> {}, held |-> {side}]

Derivation(side, b, producer) == [Record(side, "derivation", b) EXCEPT !.producer = producer]
Validation(side, b) == Record(side, "validation", b)
Supersession(side, b, superseded) == [Record(side, "supersession", b) EXCEPT !.of = superseded]
Demotion(side, b) == Record(side, "demotion", b)
Removal(side, blocks) == [Record(side, "removal", NoOne) EXCEPT !.blocks = blocks]

\* Version 2 names who assisted and drops the producer; a removal stays at version 1.
ProvenanceBlock(e, assisted) ==
    IF assisted = NoOne \/ e.kind = "removal" THEN e
    ELSE [e EXCEPT !.assisted = assisted, !.producer = NoOne]

\* A digest falls anywhere among the others.
Placed(records, e) == {InsertAt(records, i, e) : i \in 1 .. Len(records) + 1}

\* _write of one record, or of two.
Write(e) == Len(order) < MaxRecords /\ order' \in Placed(order, e)

WriteBoth(e, f) ==
    Len(order) + 1 < MaxRecords /\ order' \in UNION {Placed(records, f) : records \in Placed(order, e)}

\* commit: who made the block, and the verdict that admitted it.
CommitDerived(side, b, producer, assisted) ==
    /\ b \notin members[side]
    /\ WriteBoth(ProvenanceBlock(Derivation(side, b, producer), assisted),
                 ProvenanceBlock(Validation(side, b), assisted))
    /\ members' = [members EXCEPT ![side] = @ \cup {b}]
    /\ UNCHANGED base

Supersede(side, b, superseded, assisted) ==
    /\ <<b, superseded>> \in Successions
    /\ b # superseded /\ {b, superseded} \subseteq members[side]
    /\ Write(ProvenanceBlock(Supersession(side, b, superseded), assisted))
    /\ UNCHANGED <<members, base>>

Demote(side, b, assisted) ==
    /\ b \in Demotable \cap members[side]
    /\ Write(ProvenanceBlock(Demotion(side, b), assisted))
    /\ UNCHANGED <<members, base>>

\* Everything the ledger says a producer made leaves in one version.  The derived blocks here are
\* made from sources, so that plan_many finds no dependents of theirs: there is nothing to review
\* and no other module to ask the policy about, which allows drops of the derived one.  Knowledge
\* has the cascade, the policy and the review.
DropByProducer(side, p) ==
    LET present == MadeBy(Read(side), p) \cap members[side]
    IN /\ present # {}
       /\ Write(Removal(side, present))
       /\ members' = [members EXCEPT ![side] = @ \ present]
       /\ UNCHANGED base

\* A reconciliation: the records of both, and Equation 1 over the blocks.
Merge ==
    /\ \E e \in ToSet(order) : e.held = {"theirs"}
    /\ order' = [i \in DOMAIN order |-> [order[i] EXCEPT !.held = IF "theirs" \in @ THEN Sides ELSE @]]
    /\ members' = [members EXCEPT !["ours"] =
                        (@ \cup members["theirs"]) \ (base \ (@ \cap members["theirs"]))]
    /\ base' = members["theirs"]

LedgerNext ==
    \/ Merge
    \/ \E side \in Sides :
        \/ \E p \in Producers : DropByProducer(side, p)
        \/ \E b \in Derived, assisted \in Assistants \cup {NoOne} :
            \/ \E p \in Producers : CommitDerived(side, b, p, assisted)
            \/ \E c \in Derived : Supersede(side, b, c, assisted)
            \/ Demote(side, b, assisted)

LedgerSpec == LedgerInit /\ [][LedgerNext]_ledgerVars

-----------------------------------------------------------------------------
(* Properties.                                                             *)

\* A record's place among all of them stands for its digest.
Leaves(side) ==
    LET held == {i \in DOMAIN order : side \in order[i].held}
    IN [k \in 1 .. Cardinality(held) |-> CHOOSE i \in held : Cardinality({j \in held : j < i}) = k - 1]

\* MerkleTree, InclusionProof.verify: whatever the records are and in whatever order their digests
\* fall, the proof of an index verifies for the record that is there and for no other, held or not.
\* Of compositions of any size, which the empty module stands for, a proof verifies exactly for the
\* leaf at its index with that leaf's path: not with one of another index, longer or cut short.
ProofsBind ==
    /\ LET leaves == Leaves("ours")
           root == Root(leaves)
       IN \A i \in 1 .. Len(leaves) : LET path == AuditPath(leaves, i - 1) IN
              \A e \in DOMAIN order : Verify(e, i - 1, Len(leaves), path, root) <=> e = leaves[i]
    /\ order = <<>> => \A n \in 0 .. MaxLeaves : ProofsExact([i \in 1 .. n |-> i], 1 .. n)

\* Ledger._absorb: the successors of a block are the ones some record names, whichever of them the
\* order of the digests puts first and however many histories have replaced it.
SuccessorsExact ==
    \A side \in Sides : LET l == Read(side) IN \A b \in Derived :
        SuccessorsOf(l, b) =
            {e.block : e \in {x \in Held(side) : x.kind = "supersession" /\ x.of = b}}

\* Ledger.made_by, drop_by_producer: a block that a record says a producer made is found, unless
\* another record about that block names somebody else.
MadeByReach ==
    \A side \in Sides : LET records == Held(side)  l == Read(side) IN
        \A e \in records, p \in Producers :
            e.kind = "derivation" /\ p \in {e.producer, e.assisted} =>
                \/ e.block \in MadeBy(l, p)
                \/ \E f \in records : f.block = e.block /\ {f.producer, f.assisted} \cap Producers \notin {{}, {p}}

\* made_by reads both shapes of record so that "a batch invalidation that read only one of them"
\* does not "silently miss blocks": what some record says a producer made is found.
MadeByComplete ==
    \A side \in Sides : \A e \in Held(side) : \A p \in {e.producer, e.assisted} \cap Producers :
        e.kind = "derivation" => e.block \in MadeBy(Read(side), p)

\* Ledger.contested: "a settled question therefore returns nothing": once one of two successors has
\* been put above the other, the question does not open again.
SettledStays ==
    [][\A side \in Sides, b \in Derived :
        /\ Cardinality(SuccessorsOf(Read(side), b)) > 1 /\ Contested(Read(side), b) = {}
        => Contested(Read(side), b)' = {} \/ SuccessorsOf(Read(side), b)' # SuccessorsOf(Read(side), b)]_ledgerVars

=============================================================================
