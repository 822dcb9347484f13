---------------------------- MODULE MCKnowledge ----------------------------
(***************************************************************************)
(* The brains that TLC checks Knowledge on.  Two registrations of one      *)
(* source share its bytes, a chain of references hangs from one of them,   *)
(* and an episode cites the other.                                         *)
(***************************************************************************)
EXTENDS Knowledge

\* scan and text describe the same bytes under two media types, and text has a
\* normalized view; claim cites text and names a figure, rival contradicts it,
\* detail points at claim, and steps uses detail.
MCBlocks == {"scan", "text", "claim", "rival", "detail", "steps", "episode"}
MCContents == {"bytes", "view", "figure"}
MCKind == [b \in MCBlocks |->
    CASE b \in {"scan", "text"} -> "canonical"
      [] b \in {"claim", "rival", "detail"} -> "semantic"
      [] b = "steps" -> "procedural"
      [] b = "episode" -> "episodic"]
MCContent == [b \in MCBlocks |->
    CASE b = "scan" -> {"bytes"}
      [] b = "text" -> {"bytes", "view"}
      [] b = "claim" -> {"figure"}
      [] OTHER -> {}]
MCEvidence == [b \in MCBlocks |->
    CASE b \in {"claim", "episode"} -> {"text"}
      [] b \in {"rival", "detail", "steps"} -> {"scan"}
      [] OTHER -> {}]
MCUses == [b \in MCBlocks |->
    CASE b = "detail" -> {"claim"}
      [] b = "steps" -> {"detail"}
      [] OTHER -> {}]

MCContradicts == [b \in MCBlocks |->
    CASE b = "claim" -> {"rival"}
      [] b = "rival" -> {"claim"}
      [] OTHER -> {}]

MCDroppable == {"canonical", "semantic", "procedural"}

MCPlain == {}
MCDeferred == {"deferred"}
MCCrash == {"crash"}
MCFaults == {"deferred", "crash"}
=============================================================================
