---------------------------- MODULE MCReconcile ----------------------------
(***************************************************************************)
(* The two histories that TLC checks Reconcile on.                         *)
(***************************************************************************)
EXTENDS Reconcile

\* claim cites src, rival says otherwise from doc, detail rests on doc and points at
\* claim, episode records what src told.
MCBlocks == {"src", "doc", "note", "episode", "claim", "rival", "detail"}
MCKind == [b \in MCBlocks |->
    CASE b \in {"src", "doc", "note"} -> "canonical"
      [] b = "episode" -> "episodic"
      [] OTHER -> "semantic"]
MCEvidence == [b \in MCBlocks |->
    CASE b \in {"claim", "episode"} -> {"src"}
      [] b \in {"rival", "detail"} -> {"doc"}
      [] OTHER -> {}]
MCUses == [b \in MCBlocks |-> IF b = "detail" THEN {"claim"} ELSE {}]
MCContradicts == [b \in MCBlocks |->
    CASE b = "claim" -> {"rival"}
      [] b = "rival" -> {"claim"}
      [] OTHER -> {}]
MCRank == [b \in MCBlocks |->
    CASE b = "src" -> 1 [] b = "doc" -> 2 [] b = "note" -> 3 [] b = "episode" -> 4
      [] b = "claim" -> 5 [] b = "rival" -> 6 [] b = "detail" -> 7]
MCSelfCiting == {"claim", "detail"}
MCUnreadable == {"note"}
MCStart ==
    [named |-> Kinds, blocks |-> {"src", "doc", "claim"}, ledger |-> {Derivation("claim")}]
\* A common version with nothing derived yet.
MCStartBare == [named |-> Kinds, blocks |-> {"src"}, ledger |-> {}]
MCAll == Kinds
MCFetchAll == {Kinds}
MCFetchSome == {Kinds, Kinds \ {"canonical"}}
MCReplacing == {<<"doc", "src">>, <<"note", "src">>}
MCEvery == {"merge", "rebase", "squash"}
MCMerge == {"merge"}
\* The environments: processes that die, a store that is pruned.
MCFaults == {"crash", "prune"}
MCPrune == {"prune"}
=============================================================================
