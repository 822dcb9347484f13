------------------------------- MODULE Query -------------------------------
(***************************************************************************)
(* The scan that answers a query when no planner is given (scan.py), over  *)
(* the members and the ledger of a history: filter, match, follow the      *)
(* relations, hold back what was replaced or demoted, order, cut.          *)
(*                                                                         *)
(* The words of a block and of a query are sets of words.  Of the filters  *)
(* the memory types and include_superseded are kept; the others (subject,  *)
(* tags, evidence, classes, the window of time) look at the block alone    *)
(* and are one set of blocks that pass.                                    *)
(***************************************************************************)
EXTENDS Ledger

CONSTANTS
    MemoryTypeOf,   \* block -> its module
    Words,          \* block -> the words of the text it carries
    Stopwords,      \* the words that a query drops
    Relations,      \* block -> the blocks it is related to
    DigestRank,     \* block -> the place of its digest among all
    Erased,         \* the blocks whose bytes are gone
    Queries         \* the requests looked at

ASSUME RankAssumption ==
    /\ DigestRank \in [Derived -> Nat]
    /\ \A b, c \in Derived : DigestRank[b] = DigestRank[c] => b = c
ASSUME RelationsAssumption ==
    \A b \in Derived : Relations[b] \subseteq Derived /\ (MemoryTypeOf[b] # "semantic" => Relations[b] = {})
ASSUME QueriesAssumption ==
    \A q \in Queries : q.expand_depth \in Nat /\ q.limit \in Nat \ {0} /\ IsFiniteSet(q.text)

-----------------------------------------------------------------------------

ModulesToSearch(side, q) == {b \in members[side] : MemoryTypeOf[b] \in q.memory_types}

Readable(side, q) == ModulesToSearch(side, q) \ Erased

PassesFilters(b, q) == b \in q.passing

\* Only function words: they are all there is to match on.
ContentTerms(text) == IF text \ Stopwords = {} THEN text ELSE text \ Stopwords

\* The fields of a block that have text; canonical memory has next to none.
SearchableText(b) == Words[b]

\* The terms a block carries, of the terms asked for; no terms ask for everything.
Coverage(terms, b) == IF terms = {} THEN 1 ELSE Cardinality(terms \cap SearchableText(b))

\* An identity is looked up and not ranked.
Exact(side, q) == {b \in Readable(side, q) : b = q.block /\ PassesFilters(b, q)}

Matching(side, q) ==
    {b \in Readable(side, q) : PassesFilters(b, q) /\ Coverage(ContentTerms(q.text), b) > 0}

\* Mutant of Expand: every round starts from the matches again.
ExpandMutant(side, q, matched) ==
    matched \cup
        (IF q.expand_depth = 0 THEN {}
         ELSE {t \in Readable(side, q) : PassesFilters(t, q) /\ \E b \in matched : t \in Relations[b]})

\* Round by round, from what the round before discovered.
Expand(side, q, matched) ==
    LET Round[n \in 0 .. q.expand_depth] ==
            IF n = 0 THEN [reachable |-> matched, frontier |-> matched]
            ELSE LET before == Round[n - 1]
                     discovered == {t \in Readable(side, q) \ before.reachable :
                                        PassesFilters(t, q) /\ \E b \in before.frontier : t \in Relations[b]}
                 IN [reachable |-> before.reachable \cup discovered, frontier |-> discovered]
    IN Round[q.expand_depth].reachable

IsAccessible(l, b) == l.superseded_by[b] = NoOne /\ b \notin l.demoted

HeldBack(side, q, candidates) ==
    IF q.include_superseded THEN candidates
    ELSE LET l == Read(side) IN {b \in candidates : IsAccessible(l, b)}

\* What was reached by association only has no coverage of its own.
Score(q, matched, b) ==
    IF q.mode = "exact" THEN 1
    ELSE IF b \in matched THEN Coverage(ContentTerms(q.text), b)
    ELSE 0

Before(q, matched, b, c) ==
    \/ Score(q, matched, b) > Score(q, matched, c)
    \/ Score(q, matched, b) = Score(q, matched, c) /\ DigestRank[b] < DigestRank[c]

\* sorted: the candidate at a place has as many before it as there are places before.
Ordered(q, matched, candidates) ==
    LET place == [b \in candidates |-> Cardinality({c \in candidates : Before(q, matched, c, b)})]
    IN [i \in 1 .. Cardinality(candidates) |-> CHOOSE b \in candidates : place[b] = i - 1]

Scan(side, q) ==
    LET matched == Matching(side, q)
        candidates == IF q.mode = "exact" THEN Exact(side, q) ELSE Expand(side, q, matched)
        ordered == Ordered(q, matched, HeldBack(side, q, candidates))
    IN [matches |-> SubSeq(ordered, 1, IF Len(ordered) < q.limit THEN Len(ordered) ELSE q.limit),
        truncated |-> Len(ordered) > q.limit]

-----------------------------------------------------------------------------
(* Properties.                                                             *)

\* What a query asks for, without rounds and frontiers: at most expand_depth relations away from a
\* block that is named or carries a term, all of them readable members that pass the filters, and
\* not held back itself.
Wanted(side, q) ==
    LET searched == {b \in Derived : b \in Readable(side, q) /\ PassesFilters(b, q)}
        named == {b \in searched : IF q.mode = "exact" THEN b = q.block
                                   ELSE q.text = {} \/ ContentTerms(q.text) \cap Words[b] # {}}
        Near[n \in 0 .. q.expand_depth] == IF n = 0 THEN named
                           ELSE Near[n - 1] \cup {t \in searched : \E b \in Near[n - 1] : t \in Relations[b]}
        near == IF q.mode = "exact" THEN named ELSE Near[q.expand_depth]
        replaced == {e.of : e \in {x \in Held(side) : x.kind = "supersession"}}
        demoted == {e.block : e \in {x \in Held(side) : x.kind = "demotion"}}
    IN IF q.include_superseded THEN near ELSE near \ (replaced \cup demoted)

\* scan: whatever the records are and in whatever order they are folded, a query returns what it asks
\* for up to its limit and says when the limit left something out; the association of a block that
\* is held back is followed; and nothing is left out for what carries fewer of the terms.
ScanExact ==
    \A q \in Queries :
        LET bundle == Scan("ours", q)
            found == ToSet(bundle.matches)
            wanted == Wanted("ours", q)
            matched == Matching("ours", q)
        IN /\ found \subseteq wanted
           /\ bundle.truncated = (Cardinality(wanted) > q.limit)
           /\ Cardinality(found) = IF bundle.truncated THEN q.limit ELSE Cardinality(wanted)
           /\ \A b \in wanted \ found, c \in found : ~ Before(q, matched, b, c)

=============================================================================
