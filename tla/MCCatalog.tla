----------------------------- MODULE MCCatalog -----------------------------
(***************************************************************************)
(* Instances of Catalog: one scheme of three classes and one source that   *)
(* both brains have declared, so that edges and placements come at once.   *)
(***************************************************************************)
EXTENDS Catalog

MCClasses == {"a", "b", "c"}
MCSchemeOf == [x \in MCClasses |-> "s"]
MCSources == {"d"}

MCStart == {Scheme("s", TRUE)} \cup {Class(x) : x \in MCClasses} \cup {Placement("d", "a")}
MCUnrecorded == {Placement("d", "a")}

MCEdges == {Hierarchy("a", "b"), Hierarchy("b", "c"), Hierarchy("c", "a"), Hierarchy("a", "c")}
MCPlacements == {Placement("d", x) : x \in MCClasses}

\* One declaration, or a class and what is put in it.
MCRequests ==
    {<<x>> : x \in MCEdges \cup MCPlacements \cup {Class("b"), Scheme("s", FALSE)}}
    \cup {<<Class("b"), Hierarchy("a", "b"), Placement("d", "b")>>}

\* One placement to a report, or two in one scheme.
MCLone == {{Placement("d", "b")}}
MCPair == {{Placement("d", "b"), Placement("d", "c")}}
=============================================================================
