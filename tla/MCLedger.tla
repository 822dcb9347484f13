------------------------------ MODULE MCLedger ------------------------------
(***************************************************************************)
(* Instances of Ledger: three blocks to replace one another, one that both *)
(* histories may make, two models of which one may also assist; and the    *)
(* queries that are put to what is left.                                   *)
(***************************************************************************)
EXTENDS Query

CONSTANTS v, w, x, y, z, p, q

MCDerived == {v, w, x, y, z}
MCStart == {v, x, y, z}
MCProducers == {p, q}
MCAssistants == {p}
MCAbove == {<<x, z>>, <<y, z>>, <<w, z>>}
MCTies == {<<x, z>>, <<y, z>>, <<x, y>>, <<w, y>>}
MCDemotable == {w}

\* z is an episode; the others are related in a circle that a query may follow, x -> w -> y -> x, and
\* w to z.  v, whose bytes are gone, would be a shorter way.
MCMemoryTypeOf == [b \in MCDerived |-> IF b = z THEN "episodic" ELSE "semantic"]
MCWords == (v :> {"t"}) @@ (w :> {"the"}) @@ (x :> {"t", "u"}) @@ (y :> {"u", "the"}) @@ (z :> {"t"})
MCStopwords == {"the"}
MCRelations == (v :> {y, z}) @@ (w :> {y, z}) @@ (x :> {v, w}) @@ (y :> {x}) @@ (z :> {})
MCDigestRank == (v :> 5) @@ (w :> 2) @@ (x :> 4) @@ (y :> 1) @@ (z :> 3)
MCErased == {v}

MCQuery ==
    [mode |-> "auto", text |-> {"t", "the"}, block |-> NoOne, memory_types |-> {"semantic", "episodic"},
     passing |-> MCDerived, include_superseded |-> FALSE, expand_depth |-> 2, limit |-> 2]
MCQueries ==
    {MCQuery,
     [MCQuery EXCEPT !.limit = 4],
     [MCQuery EXCEPT !.text = {"t", "u"}, !.expand_depth = 1, !.limit = 1],
     [MCQuery EXCEPT !.text = {"the"}, !.memory_types = {"semantic"}, !.limit = 3],
     [MCQuery EXCEPT !.text = {}, !.expand_depth = 0, !.include_superseded = TRUE],
     [MCQuery EXCEPT !.text = {"t"}, !.passing = {x, y, z}, !.include_superseded = TRUE],
     [MCQuery EXCEPT !.mode = "exact", !.block = w]}
=============================================================================
